SPECIFICATION Spec
CONSTANTS
  Procs = {p, q}
  Repos = {r, s}
  Local = {s}
  NoIndex = none
  MaxEdits = 1
CHECK_DEADLOCK FALSE
INVARIANTS TypeOK PartsAreExplained OwnAnalysis FreshSnapshot NeverStuck
PROPERTIES ImplementsCache Ends
