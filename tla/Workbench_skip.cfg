SPECIFICATION Spec
CONSTANTS
    Alerts = {a1}
    Graphs = {g1}
    Null = Null
    MaxCalls = 2
PROPERTIES SkippedIndexIsNotRun
