SPECIFICATION Spec
CONSTANTS
    Entries = 2
    BlockPostings = 1
    PageItems <- MCPageItems
    Vertices = {2, 3, 4}
    ScanKeys = {2, 4}
    Tids = {1, 2, 3, 4}
    HeapRows = 2
    InitialLoads <- MCInitialLoads
    NewEdges <- MCNewEdges
    Scanners = {s1, s2}
    Modes = {"fetch", "ids", "count", "shared"}
    MaxWrites = 2
    MaxCommits = 1
    MaxScans = 1
    MaxUpkeep = 1
SYMMETRY MCSymmetry
INVARIANTS BitmapExact CountsTrue ScanExact SummaryExact SharedOnce
CHECK_DEADLOCK FALSE
