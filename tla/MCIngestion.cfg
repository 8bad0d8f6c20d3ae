\* Two callers that ingest and one consumer of changes, two calls in all.
CONSTANTS
    Roles <- MCRoles
    Names = {1, 2}
    Upper <- MCUpper
    FrontMatters <- MCFrontMatters
    Corpus <- MCCorpus
    Documents <- MCDocuments
    Events <- MCEvents
    Readers <- MCReaders
    NoFile = NoFile
    Changed = Changed
    Ingesters = {i1, i2}
    Consumer = consumer
    MaxCalls = 2
    MaxEdits = 1
SYMMETRY IngesterSymmetry
CHECK_DEADLOCK FALSE
SPECIFICATION Spec
INVARIANTS TypeOK RawAsDeclared ExtractsNoMoreOpen PayloadsWithheld NoLostWrite IndexedAtRest
PROPERTIES WholeCorpus
