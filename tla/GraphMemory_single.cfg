SPECIFICATION Spec
CONSTANTS
    Procs = {p1}
    Sessions = {s1}
    Alerts = {a1, a2}
    Graphs = {g1, g2}
    NoGraph = NoGraph
    Persistent = TRUE
    AckLoss = FALSE
INVARIANTS LocalBacked
PROPERTIES ImplementsCatalog
