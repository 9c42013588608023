SPECIFICATION FairSpec
CONSTANTS
    NoPlace = NoPlace
    Problems <- MCProblems
    Typed <- MCTyped
    MaxLoss = 1
    MaxRepeat = 1
INVARIANTS TypeOK FollowsAllocation Apart EvenShare
PROPERTIES KeepsPlaces Stored
CHECK_DEADLOCK FALSE
