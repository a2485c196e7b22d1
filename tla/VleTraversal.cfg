SPECIFICATION Spec
CONSTANTS
    Vertices <- MCVertices
    Edges <- MCEdges
    Queries <- MCQueries
    Unbounded = Unbounded
    ProbeSegments = 2
    ProbeFrames = 3
    CompactFrames = 2
    MaxScans = 2
INVARIANTS
    ResultsExact
    IndexesSurvive
CHECK_DEADLOCK FALSE
