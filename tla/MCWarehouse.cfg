\* Two calls at a time on one agent; a statement of two bytes is over the cap.
CONSTANTS
    Roles <- MCRoles
    Threads = {t1, t2}
    Names <- MCNames
    AssetPool <- MCAssets
    SessionPool <- MCSessions
    Drafts <- MCDrafts
    MaxBytes = 1
    RequireFilter = TRUE
SYMMETRY CallerSymmetry
SPECIFICATION Spec
INVARIANTS OnlyGuardedRuns  ClearedSeesRaw
