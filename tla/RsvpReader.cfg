CONSTANTS
    QueueCapacity = 2
    Buttons = {"Exit"}
    Controls = {"Toggle", "Settings"}
    HasTouch = TRUE
    MaxFailures = 1
SPECIFICATION FairSpec
INVARIANTS
    TypeOK
    PendingFrameIsDrawn
    FrameIsOnItsWay
PROPERTIES
    FrameSettles
    ReadingErrorLeaves
