----------------------------- MODULE MCTaskStore -----------------------------
(***************************************************************************)
(* Instances of TaskStore.  Two users, and as many tasks, changes and      *)
(* calls in flight as the question of the setting needs.                   *)
(***************************************************************************)
EXTENDS TaskStore

CONSTANTS u1, u2

TwoUsers == {u1, u2}

UserSymmetry == Permutations(TwoUsers)

AllButMore == {"list", "task", "change", "close", "create"}

OnOneTask == AllButMore \ {"create"}

(* Two calls in flight, any of which may fail; events lost and reordered. *)
Rough == [kinds |-> OnOneTask, filters |-> {"all"}, existing |-> 1, maxTask |-> 1,
          maxCommits |-> 2, maxCalls |-> 2, pageSize |-> 2,
          reliable |-> FALSE, exclusive |-> FALSE, overlaps |-> FALSE]

(* One call at a time, events in order: pages and filters of the list ... *)
CalmList == [kinds |-> {"list", "more", "create"}, filters |-> {"all", "open"},
             existing |-> 2, maxTask |-> 3, maxCommits |-> 3, maxCalls |-> 1,
             pageSize |-> 1, reliable |-> TRUE, exclusive |-> TRUE, overlaps |-> FALSE]

(* ... and the open drawer ... *)
CalmDrawer == [kinds |-> {"list", "task", "change", "close"}, filters |-> {"all"},
               existing |-> 1, maxTask |-> 2, maxCommits |-> 3, maxCalls |-> 1,
               pageSize |-> 2, reliable |-> TRUE, exclusive |-> TRUE, overlaps |-> FALSE]

(* ... and the same with stamps out of the order of the commits. *)
SkewedRough == [Rough EXCEPT !.maxCalls = 1, !.overlaps = TRUE]

SkewedList == [CalmList EXCEPT !.kinds = {"list", "more"}, !.filters = {"all"},
                               !.maxTask = 2, !.overlaps = TRUE]

SkewedDrawer == [CalmDrawer EXCEPT !.maxTask = 1, !.overlaps = TRUE]

AllSettings == {Rough, CalmList, CalmDrawer, SkewedRough, SkewedList, SkewedDrawer}

SkewedSettings == {SkewedDrawer}

(* The settings of the known departures. *)
Ordered == [Rough EXCEPT !.kinds = AllButMore, !.reliable = TRUE]
RacingSettings == {[Ordered EXCEPT !.kinds = {"list"}]}
FetchingSettings == {[Ordered EXCEPT !.kinds = {"list", "task"}]}
OrderedSettings == {Ordered}
SwappingSettings == {[Ordered EXCEPT !.existing = 2, !.maxTask = 2]}
OneByOneSettings == {[Ordered EXCEPT !.exclusive = TRUE]}
PagingSettings == {[CalmList EXCEPT !.kinds = {"list", "more"}, !.maxTask = 2]}
==============================================================================
