CONSTANTS
    QueueCapacity = 2
    Buttons = {}
    Controls = {"Toggle"}
    HasTouch = TRUE
    MaxFailures = 1
SPECIFICATION FairSpec
PROPERTY FailedDisplayRecovers
