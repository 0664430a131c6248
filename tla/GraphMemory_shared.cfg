SPECIFICATION Spec
CONSTANTS
    Procs = {p1, p2}
    Sessions = {s1}
    Alerts = {a1}
    Graphs = {g1, g2}
    NoGraph = NoGraph
    Persistent = TRUE
    AckLoss = TRUE
SYMMETRY Symmetric
INVARIANTS TypeOK KnownIsDurable StoredGraphEvidenceSound
PROPERTIES ImplementsSharedCatalog
