\* One VLE edge more than the list keeps.
CONSTANTS
    n1 = n1
    n2 = n2
    Nodes = {n1, n2}
    Scans = {s1, s2}
    a1 = a1
    a2 = a2
    VleAddrs = {a1, a2}
    x1 = x1
    x2 = x2
    GraphAddrs = {x1, x2}
    g1 = g1
    Forms = {"path", "chain"}
    Graphs = {g1}
    Scopes <- MCScopes
    MaxCached = 1
    Free = Free
    None = None
    ParsedBefore = 1
    MaxMade = 2
    t1 = t1
    t2 = t2
    Snaps = {t1, t2}
    MaxVersion = 2
    MaxOps = 3
SYMMETRY Symmetry
SPECIFICATION Spec
CHECK_DEADLOCK TRUE
INVARIANTS
    ActiveIsProtected
    ListIsSound
    ExactGraphIfUnchanged
    ContextIsOwn
