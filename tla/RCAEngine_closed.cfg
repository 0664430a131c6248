SPECIFICATION Spec
CONSTANTS
    Evidence = {e1, e2}
    Unknown = unknown
    Conclusions = {root, hyp}
    Root = root
    Hypotheses = {hyp}
    Confidences = {40, 80}
    ConfidenceCap = 75
    RepairSetting = 7
CHECK_DEADLOCK FALSE
INVARIANTS TypeOK EvidenceClosed ThinEvidenceIsHedged RequestsBounded MetadataTruthful NeverStuck
PROPERTIES Answered ImplementsInvestigation
