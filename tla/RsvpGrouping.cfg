CONSTANTS
    Vocabulary <- Words
    TextLength = 5
SPECIFICATION Spec
INVARIANTS
    FramesFollowTheRules
    FramesPartitionTheText
CHECK_DEADLOCK FALSE
