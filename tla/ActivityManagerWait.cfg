CONSTANTS
    Homes = {h1, h2}
    Screens = {s1, s2, s3}
    Panels = {p1}
    Checked = {s1}
    Exclusive = {s3}
    Sleep = sleep
    None = none
    Lost = lost
    MaxCalls = 1
SPECIFICATION Spec
INVARIANTS
    WaitShowsTheScreen
