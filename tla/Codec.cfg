SPECIFICATION Spec
CONSTANTS
    NotRead = NotRead
    Actions <- MCActions
    Lists <- MCLists
    SubtypeOf <- Subtype
    BodyOf <- Body
    Unwritable <- Raises
INVARIANTS
    TypeOK
    Aligned
    Framed
    ReadsBack
    DeclaredSizes
    HeadersAgree
    RangeKept
CHECK_DEADLOCK FALSE
