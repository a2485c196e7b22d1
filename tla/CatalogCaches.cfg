\* Two backends, two relations or namespaces, arrays of one slot, so that every
\* second lookup takes the slot of another key; two graph names, one label name.
CONSTANTS
    b1 = b1
    b2 = b2
    n1 = n1
    n2 = n2
    o1 = o1
    o2 = o2
    a1 = a1
    a2 = a2
    Backends = {b1, b2}
    Names = {n1, n2}
    LabelNames = {n1}
    Oids = {o1, o2}
    Addrs = {a1, a2}
    LastSize = 1
    FlushAll = TRUE
    Everything = Everything
    Free = Free
    Null = Null
    MaxOps = 3
    LabelOps = 4
SYMMETRY Symmetry
SPECIFICATION MCSpec
INVARIANTS
    NoDanglingPointer
    CachedRowIsCurrent
    GraphNotFoundIsTrue
