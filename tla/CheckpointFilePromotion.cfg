CONSTANTS
    Checkpoints = {c1, c2, c3}
    Absent = Absent
    Unusable = Unusable
    None = None
    Faults = {"promotion"}
SPECIFICATION Spec
PROPERTY LastKnownGoodSurvives
