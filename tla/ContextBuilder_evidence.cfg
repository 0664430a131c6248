SPECIFICATION Spec
CONSTANTS
    Symbols = {a, b, c}
    EdgeTypes = {calls, reads}
    Describes = describes
    NodeCap = 2
    EdgeCap = 2
    Calls = calls
    LiveRows = 2
    MaxDepth = 3
    Terms = {route, name}
    Routes = {route}
    BuildDepth = 2
    RecallDepth = 3
    MinRefs = 2
CHECK_DEADLOCK FALSE
SYMMETRY Symmetric
INVARIANTS TypeOK AnswerIsExact AnswerIsClosed AnswerHasCenter AnswerMatchesFilter
    MissingTogether EvidenceIsGrounded RecallDeepens MergeAddsPathsOnly
