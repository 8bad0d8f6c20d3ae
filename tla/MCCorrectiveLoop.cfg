\* Two iterations over rows that change twice, at any step of a request.
CONSTANTS
    k1 = k1  k2 = k2  k3 = k3
    Roles <- MCRoles
    Chunks = {k1, k2, k3}
    RowPool <- MCRows
    Indexed = {k1, k2}
    SessionPool <- MCSessions
    CoarseK = 2
    TopK = 1
    MaxIterations = 2
    Gone = Gone
    MaxChanges = 2
SPECIFICATION Spec
INVARIANTS PrefilterHolds LoopGoverned AnswersGrounded StoreKeepsMatrix
PROPERTIES AnswersAsPromised RequestsEnd
