SPECIFICATION Spec
CONSTANTS
    Backends = {b1, b2}
    GraphNames = {g}
    LabelNames = {l1, l2}
    None = None
    LABEL_ID_MAX = 2
    MaxOid = 4
    MaxCalls = 3
SYMMETRY Symmetry
INVARIANTS
    LabelsMatchTables
    FullIsFull
    SlotReleased
