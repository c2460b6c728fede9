CONSTANTS
    Directory <- MCDirectory
    MaxPages = 3
    Cursor = {1, 2, 3, 4}
    Walk = {1, 2}
    NoWalk = NoWalk
    Task <- MCTask
    Assignee <- MCAssignee
    NoUser = "nobody"
    TypeOf <- MCTypeOf
    Types <- MCTypes
    MaxAttempts = 3
    MaxGo = 2
    NoTask = NoTask
SPECIFICATION MCSpec
INVARIANTS DirectorySound UnknownIsUnknown
PROPERTIES LoadsEnd OldLinksLand
CHECK_DEADLOCK FALSE
