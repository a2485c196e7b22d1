SPECIFICATION Spec
CONSTANTS
    Values <- MCValues
    FloatExact = 4
    DigitsExact = 2
    MaxRows = 3
INVARIANTS RowsFound InOrder
PROPERTY BuildAgrees
