\* Two backends, three graphs and two slots: slots are reused and the table
\* fills up.  No symmetry, because some of the properties are temporal.
CONSTANTS
    b1 = b1
    b2 = b2
    g1 = g1
    g2 = g2
    g3 = g3
    Backends = {b1, b2}
    Graphs = {g1, g2, g3}
    InvalidOid = InvalidOid
    NoBackend = NoBackend
    MaxSlots = 2
    MaxCalls = 4
SPECIFICATION FairSpec
INVARIANTS
    SlotUnique
    NewOidNeverStale
    GetWithinWindow
    IncrementTakesEffect
PROPERTIES
    ImplementsCounter
    LockReleased
    GetWaitFree
