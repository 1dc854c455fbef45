CONSTANTS
    Checkpoints = {c1, c2, c3}
    Absent = Absent
    Unusable = Unusable
    None = None
    Faults = {"flush"}
SPECIFICATION Spec
PROPERTY LastKnownGoodSurvives
