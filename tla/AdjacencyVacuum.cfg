SPECIFICATION Spec
CONSTANTS
    Entries = 2
    BlockPostings = 1
    PageItems <- MCPageItems
    Vertices = {2, 3, 4}
    ScanKeys = {2, 4}
    Tids = {1, 2, 3, 4}
    HeapRows = 2
    InitialLoads <- MCInitialLoads
    NewEdges <- MCNewEdges
    Scanners = {s1, s2}
    Modes = {"count"}
    MaxWrites = 2
    MaxCommits = 1
    MaxScans = 1
    MaxUpkeep = 1
SYMMETRY MCSymmetry
INVARIANT CountIsExact
CHECK_DEADLOCK FALSE
