SPECIFICATION Spec
CONSTANTS
    Alerts = {a1, a2}
    Graphs = {g1}
    Null = Null
    MaxCalls = 2
CONSTRAINT UpToFirstMix
SYMMETRY Symmetric
INVARIANTS TypeOK ShownMatchesForm PassedIsShown RunningIsInFlight
PROPERTIES PipelineKeepsItsAlert
