SPECIFICATION Spec
CONSTANTS
    Workflows = {w1, w2}
    Names = {n1}
    Drawings = {d1, d2}
    Refused = {}
    Publishers = {g1, g2}
    Instances = {i1}
    NoProcess = NoProcess
    NoDrawing = NoDrawing
    NoWorkflow = NoWorkflow
    MaxVersion = 2
    MaxFaults = 1
INVARIANTS AloneIsShown LatestIsSnapshotted
SYMMETRY Symmetry
CHECK_DEADLOCK FALSE
