SPECIFICATION Spec
CONSTANTS
    Sessions = {s1, s2}
    Alerts = {a1, a2, a3}
    Repos = {r1, r2}
    ErrorTypes = {e1, e2}
    Places = {place}
    NoPlace = none
    Limit = 2
    MaxTime = 3
SYMMETRY Symmetric
INVARIANTS TypeOK FoundAgain BestFirst EvidenceStaysHome
PROPERTIES OnlyOverlapsGoBack
