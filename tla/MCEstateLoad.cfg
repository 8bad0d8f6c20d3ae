\* Three releases, deployed in any order; three jobs, one of which may crash.
CONSTANTS
    Roles <- MCRoles
    Releases <- MCReleases
    BuildOrder <- MCSorted
    Sorted <- MCSorted
    SessionPool <- MCSessions
    MaxJobs = 3
    MaxDeploys = 2
    MaxCrashes = 1
SPECIFICATION Spec
INVARIANTS RebuiltIndexFaithful ConnectorsAgree CatalogNoMoreOpen EmittedWhole
CHECK_DEADLOCK FALSE
