SPECIFICATION Spec
CONSTANTS
    Txns = {t1, t2}
    Boot = Boot
    None = None
    Null = Null
    Vars <- MCVars
    Graph <- MCGraph
    Protected = {4, 6}
    t1 = t1
    t2 = t2
    Scripts <- MCScripts
INVARIANTS
    OneVersion
    DanglingOnlyIfConcurrent
    ChangeIsCounted
    MergeOnce
    SetTakesEffect
    DeleteTakesEffect
