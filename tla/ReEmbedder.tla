------------------------------ MODULE ReEmbedder ------------------------------
(***************************************************************************)
(* ReEmbedder.reembed_all over the durable chunk rows, while the change    *)
(* consumer rewrites and deletes the same rows.  What a row says - class,  *)
(* level, asset and text, the fields a re-embed must keep - is abstracted  *)
(* to the number of the change that wrote it; its vector, to the embedder  *)
(* version it carries.                                                     *)
(***************************************************************************)
EXTENDS Integers, FiniteSets

CONSTANTS
    Chunks,
    Old, New,       \* embedder versions: the run migrates from Old to New
    Untagged,       \* the version of a row whose payload named none
    Payloads,       \* versions the change consumer's payloads may carry
    BatchSize,      \* ReEmbedder.batch_size
    MaxChanges,     \* bound of the model: changes of rows
    MaxCrashes      \* bound of the model: runs cut off by a crash or an error

Versions == {Old, New, Untagged}
Gone     == -1                        \* the content of a deleted row

ASSUME ConstantAssumption ==
    /\ Old # New /\ Old # Untagged /\ New # Untagged
    /\ Payloads \subseteq Versions
    /\ BatchSize \in Nat \ {0} /\ MaxChanges \in Nat /\ MaxCrashes \in Nat

VARIABLES
    content,    \* content[c]: the change whose fields row c shows, or Gone
    version,    \* version[c]: embedder_version of row c
    pc,         \* "idle", "query", "rows", "finish", "done"
    batch,      \* rows of the batch still to migrate: [chunk, content] as read
    more,       \* the query returned more rows than the batch holds
    migrated,   \* the run has migrated a row
    changes,    \* changes of rows so far
    crashes,    \* runs cut off so far
    written,    \* history: written[c] is the last change of c, or Gone
    raced,      \* history: chunks whose last change fell between read and write-back
    since,      \* history: chunks changed since the run started
    pending     \* history: a row was migrated and Old not invalidated since

table   == <<content, version>>
run     == <<pc, batch, more, migrated>>
history == <<written, raced, since, pending>>
vars    == <<content, version, pc, batch, more, migrated, changes, crashes,
             written, raced, since, pending>>

Held == {r.chunk : r \in batch}

Init ==
    /\ content = [c \in Chunks |-> 0]
    /\ version = [c \in Chunks |-> Old]
    /\ pc = "idle" /\ batch = {} /\ more = FALSE /\ migrated = FALSE
    /\ changes = 0 /\ crashes = 0
    /\ written = content /\ raced = {} /\ since = {} /\ pending = FALSE

(* chunks_by_version(Old).                                                 *)
Stale == {c \in Chunks : content[c] # Gone /\ version[c] = Old}

Start ==
    /\ pc \in {"idle", "done"}
    /\ pc' = "query" /\ migrated' = FALSE
    /\ since' = {}
    /\ UNCHANGED <<table, batch, more, changes, crashes, written, raced, pending>>

(* A mutant: the count of migrated rows is kept per batch.                 *)
QueryCountingPerBatch ==
    /\ pc = "query"
    /\ \/ Stale = {} /\ pc' = "finish" /\ UNCHANGED <<batch, more>>
       \/ \E B \in SUBSET Stale \ {{}} :
            /\ IF Cardinality(Stale) <= BatchSize THEN B = Stale
               ELSE Cardinality(B) = BatchSize
            /\ batch' = {[chunk |-> c, content |-> content[c]] : c \in B}
            /\ more' = (B # Stale)
            /\ pc' = "rows"
    /\ migrated' = FALSE
    /\ UNCHANGED <<table, changes, crashes, history>>

(* The loop's head: read the rows still on Old, take the first BatchSize.  *)
Query ==
    /\ pc = "query"
    /\ \/ Stale = {} /\ pc' = "finish" /\ UNCHANGED <<batch, more>>
       \/ \E B \in SUBSET Stale \ {{}} :
            /\ IF Cardinality(Stale) <= BatchSize THEN B = Stale
               ELSE Cardinality(B) = BatchSize
            /\ batch' = {[chunk |-> c, content |-> content[c]] : c \in B}
            /\ more' = (B # Stale)
            /\ pc' = "rows"
    /\ UNCHANGED <<table, migrated, changes, crashes, history>>

WriteBack(c, fields, tag) ==
    /\ content' = [content EXCEPT ![c] = fields]
    /\ version' = [version EXCEPT ![c] = tag]

(* A mutant: a governed field is not among the preserved ones.             *)
MigrateDroppingFields ==
    /\ pc = "rows"
    /\ \E r \in batch : WriteBack(r.chunk, 0, New) /\ batch' = batch \ {r}
    /\ migrated' = TRUE /\ pending' = TRUE
    /\ UNCHANGED <<pc, more, changes, crashes, written, raced, since>>

(* A mutant: the version is one of the preserved fields.                   *)
MigrateKeepingVersion ==
    /\ pc = "rows"
    /\ \E r \in batch : WriteBack(r.chunk, r.content, Old) /\ batch' = batch \ {r}
    /\ migrated' = TRUE /\ pending' = TRUE
    /\ UNCHANGED <<pc, more, changes, crashes, written, raced, since>>

(* _reembed_row: the fields as they were read, a new vector, a new version. *)
Migrate ==
    /\ pc = "rows"
    /\ \E r \in batch : WriteBack(r.chunk, r.content, New) /\ batch' = batch \ {r}
    /\ migrated' = TRUE /\ pending' = TRUE
    /\ UNCHANGED <<pc, more, changes, crashes, written, raced, since>>

(* A mutant: the run stops after its first batch.                          *)
EndFirstBatch ==
    /\ pc = "rows" /\ batch = {}
    /\ pc' = "finish"
    /\ UNCHANGED <<table, batch, more, migrated, changes, crashes, history>>

(* The loop ends when the last query fitted into the batch.                *)
EndBatch ==
    /\ pc = "rows" /\ batch = {}
    /\ pc' = IF more THEN "query" ELSE "finish"
    /\ UNCHANGED <<table, batch, more, migrated, changes, crashes, history>>

(* invalidate_version(Old), unless this run migrated nothing.              *)
Finish ==
    /\ pc = "finish"
    /\ pc' = "done"
    /\ pending' = (pending /\ ~migrated)
    /\ UNCHANGED <<table, batch, more, migrated, changes, crashes, written, raced, since>>

(* The process dies, or the embedder or the store raises.                  *)
Crash ==
    /\ pc \in {"query", "rows", "finish"}
    /\ crashes < MaxCrashes
    /\ crashes' = crashes + 1
    /\ pc' = "idle" /\ batch' = {}
    /\ UNCHANGED <<table, more, migrated, changes, history>>

Changed(c) ==
    /\ changes < MaxChanges
    /\ changes' = changes + 1
    /\ raced' = IF c \in Held THEN raced \cup {c} ELSE raced \ {c}
    /\ since' = since \cup {c}

(* CdcProcessor upserts the row with the payload of an event ...           *)
Upsert(c) ==
    /\ Changed(c)
    /\ \E tag \in Payloads : WriteBack(c, changes + 1, tag)
    /\ written' = [written EXCEPT ![c] = changes + 1]
    /\ UNCHANGED <<run, crashes, pending>>

(* ... or deletes it.                                                      *)
Delete(c) ==
    /\ Changed(c)
    /\ WriteBack(c, Gone, Untagged)
    /\ written' = [written EXCEPT ![c] = Gone]
    /\ UNCHANGED <<run, crashes, pending>>

Work == Query \/ Migrate \/ EndBatch \/ Finish

Next ==
    \/ Start \/ Work \/ Crash
    \/ \E c \in Chunks : Upsert(c) \/ Delete(c)

(* A run that was started keeps going; nothing starts one by itself.       *)
Spec == Init /\ [][Next]_vars /\ WF_vars(Work)

-----------------------------------------------------------------------------
Contents == Gone .. MaxChanges

TypeOK ==
    /\ content \in [Chunks -> Contents] /\ version \in [Chunks -> Versions]
    /\ pc \in {"idle", "query", "rows", "finish", "done"}
    /\ batch \in SUBSET [chunk : Chunks, content : 0 .. MaxChanges]
    /\ more \in BOOLEAN /\ migrated \in BOOLEAN /\ pending \in BOOLEAN
    /\ changes \in 0 .. MaxChanges /\ crashes \in 0 .. MaxCrashes
    /\ written \in [Chunks -> Contents]
    /\ raced \in SUBSET Chunks /\ since \in SUBSET Chunks

(* A migration leaves every row's governed fields as the last change wrote *)
(* them, except on a chunk that changed while the run held its old fields. *)
KeepsContent == \A c \in Chunks : content[c] = written[c] \/ c \in raced

(* A run that ends, after however many crashed ones, leaves no row on the  *)
(* old version that was not written during the run.                        *)
CompleteUnlessTouched == pc = "done" => Stale \subseteq since

(* When a run ends, the answers cached under the old version have been     *)
(* dropped since the last row was migrated, unless some run was cut off.   *)
InvalidatedUnlessCrashed == pc = "done" /\ crashes = 0 => ~pending

(* Runs end: crashes and concurrent changes do not keep one going forever. *)
RunsEnd == pc = "query" ~> pc \in {"done", "idle"}

=============================================================================
