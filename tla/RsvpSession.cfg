CONSTANTS
    Docs <- Library
    HistoryCapacity = 6
SPECIFICATION FairSpec
INVARIANTS
    TypeOK
    BufferFollowsDocument
    DisplayedIsHistoryEntry
    HistoryIsGapFree
    DurablePositionOmitsNothing
    OwedCheckpointHeld
PROPERTIES
    PlaybackStopsAtElements
    RestIsSaved
    ImplementsReadingOrder
    ImplementsControl
    PlaybackComesToRest
