\* Changes of rows before, while and after a batch holds them, and one crash.
CONSTANTS
    Chunks = {k1, k2, k3}
    Old = v1  New = v2  Untagged = none
    Payloads <- MCPayloads
    BatchSize = 2
    MaxChanges = 3
    MaxCrashes = 1
SPECIFICATION Spec
INVARIANTS KeepsContent CompleteUnlessTouched InvalidatedUnlessCrashed
PROPERTIES RunsEnd
