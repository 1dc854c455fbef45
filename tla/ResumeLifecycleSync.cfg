CONSTANTS
    LastWord = 4
    PageSize = 2
    None = none
    Rejected = rejected
    Moved = moved
SPECIFICATION Spec
PROPERTIES
    AppliedRemoteIsShown
