SPECIFICATION Spec
CONSTANTS
    Procs = {p1}
    Sessions = {s1}
    Alerts = {a1}
    Graphs = {g1, g2}
    NoGraph = NoGraph
    Persistent = TRUE
    AckLoss = FALSE
SYMMETRY Symmetric
INVARIANTS IncidentTiedToItsGraph
