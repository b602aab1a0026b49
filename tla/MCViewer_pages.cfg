SPECIFICATION Spec
SYMMETRY MCSymmetry
CHECK_DEADLOCK FALSE
CONSTANTS
    Views = {v1, v2}
    Dishes = {d1}
    Visitors = {i1}
    Window = 1
    LinkTime = 1
    None = None
    MaxTime = 2
    MaxLinks = 1
    MaxFaults = 1
INVARIANTS
    WithheldIsNotShown
    ScansAreBounded
