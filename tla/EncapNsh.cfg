SPECIFICATION Spec
CONSTANTS
    NotRead = NotRead
    Actions <- NshActions
    Lists <- NshLists
    SubtypeOf <- Subtype
    BodyOf <- Body
    Unwritable <- Raises
INVARIANT SentIsRead
CHECK_DEADLOCK FALSE
