\* Two queries and three changes interleave; the cache holds one entry.
CONSTANTS
    c1 = c1  c2 = c2  q1 = q1  t1 = t1  t2 = t2
    Roles <- MCRoles
    Threads = {t1, t2}
    ChunkIds = {c1, c2}
    Corpus = {c1, c2}
    MaxVersion = 2
    Payload <- MCPayload
    Events <- MCEvents
    Queries = {q1}
    Similarity <- MCSimilarity
    Threshold = 2
    SessionPool <- MCReaders
    TopK = 2
    MaxEntries = 1
    MaxRetries = 1
    SelfRag = TRUE
    MaxQueries = 2
SYMMETRY ThreadSymmetry
SPECIFICATION Spec
INVARIANTS TypeOK AnswersGoverned StaleOnlyIfOverlapped IndexesCatchUp
 
CHECK_DEADLOCK FALSE
