CONSTANTS
    Docs <- Shelf
    HistoryCapacity = 6
SPECIFICATION ObsSpec
PROPERTIES
    ElementPauseIsSaved
