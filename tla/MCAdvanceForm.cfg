\* The form and a script against the validator, with accidents on the way.
CONSTANTS
    FinalStatus = 3
    Fields <- MCFields
    Texts <- MCTexts
    Payloads <- MCPayloads
    Good <- MCGood
    MaxMoves = 2
    Idle = Idle
SPECIFICATION Spec
INVARIANTS StoredFieldsClean OneRoundTrip QuietTextFormAccepted RefusalActionable TextTellsCause
CHECK_DEADLOCK FALSE
