\* Both version modes: two backends, one graph with two edge labels, two kinds
\* of load; two writing transactions and four statements.
CONSTANTS
    b1 = b1
    b2 = b2
    g1 = g1
    l1 = l1
    l2 = l2
    Backends = {b1, b2}
    Graphs = {g1}
    Labels = {l1, l2}
    NoLabel = NoLabel
    Parts <- MCParts
    Requests <- MCRequests
    Modes = {"counter", "snapshot"}
    ChangedBefore = 1
    MaxXid = 2
    MaxStmts = 4
SYMMETRY Symmetry
SPECIFICATION Spec
INVARIANTS
    ReturnedUsable
    ExactIfQuiet
    ExactIfNoneRunning
    StatsReloads
