CONSTANTS
    LastWord = 4
    PageSize = 2
    None = none
    Rejected = rejected
    Moved = moved
SPECIFICATION FairSpec
INVARIANTS
    TypeOK
    NothingUnseenIsStored
    StoresAgree
    FinishedIsNotOffered
    DetourIsNotRepeated
PROPERTIES
    EntryFollowsTheReader
    ChosenPageWins
    SwitchHappens
    FinishedIsFinalized
