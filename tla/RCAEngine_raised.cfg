SPECIFICATION Spec
CONSTANTS
    Evidence = {e1, e2}
    Unknown = unknown
    Conclusions = {root}
    Root = root
    Hypotheses = {}
    Confidences = {40, 80}
    ConfidenceCap = 75
    RepairSetting = 1
CHECK_DEADLOCK FALSE
SYMMETRY Symmetric
INVARIANTS FailuresEnveloped
