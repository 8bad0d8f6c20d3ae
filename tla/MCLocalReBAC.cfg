\* Every leg of access.evaluate, two rows, lookups before and after a change.
CONSTANTS
    Roles <- MCRoles
    ChunkIds = {k1, k2}
    FootprintPool <- MCFootprints
    Askers <- MCSessions
    NoFacts = NoFacts
SYMMETRY RowSymmetry
SPECIFICATION TupleSpec
INVARIANTS ParityWhenFresh DecidedAsSynced EngineMatchesOracle
