CONSTANTS
    QueueCapacity = 2
    Buttons = {}
    Controls = {"Toggle"}
    HasTouch = TRUE
    MaxFailures = 0
SPECIFICATION Spec
PROPERTY RefusedFrameIsNotAcknowledged
