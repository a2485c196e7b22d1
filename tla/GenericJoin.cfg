SPECIFICATION Spec
CONSTANTS
    Patterns <- MCPatterns
    Queries <- MCQueries
    Inputs <- MCInputs
    CacheSize = 1
    MinMisses = 2
    PairLimit = 2
    BagLimit = 2
    EntrySpan = 100
INVARIANT ResultExact
INVARIANT ReductionSafe
PROPERTY CallReturns
