---------------------------- MODULE CorrectiveLoop ----------------------------
(***************************************************************************)
(* A request answered over the durable chunk rows, which others rewrite    *)
(* and delete meanwhile: by the corrective loop around the vector          *)
(* retriever, or by a mode retriever (graph, structured, lexical), which   *)
(* hands out the rows a store query selects.  Requests share nothing but   *)
(* the rows and an index they only read, so one request at a time is       *)
(* modelled.  A chunk object is [id, cls, level]: text and footprint of a  *)
(* row are read together, and its id and footprint stand for both.         *)
(***************************************************************************)
EXTENDS ChunkSource, FiniteSets

CONSTANTS
    Chunks,
    RowPool,            \* rows a change may leave behind
    Indexed,            \* chunks the vector index and its id map hold
    SessionPool,
    CoarseK,            \* vector_coarse_k
    TopK,               \* final_top_k
    MaxIterations,      \* selfrag_max_iterations
    Gone,               \* not a row: the chunk was deleted
    MaxChanges          \* bound of the model: changes of rows

ASSUME ConstantAssumption ==
    /\ RowPool \subseteq Rows /\ Gone \notin RowPool
    /\ Indexed \subseteq Chunks
    /\ SessionPool \subseteq Sessions /\ SessionPool # {}
    /\ CoarseK \in Nat \ {0} /\ TopK \in Nat \ {0}
    /\ MaxIterations \in Nat \ {0} /\ MaxChanges \in Nat

VARIABLES
    rows,        \* rows[c]: the stored row of c, or Gone
    changes,     \* changes of rows so far
    pc,          \* the step the request is about to take
    session,     \* the caller: fixed for the whole request
    iteration,   \* the loop's i
    allow,       \* the allowlist, as derived from a snapshot of the rows
    hits,        \* hits of the index still to hydrate
    found,       \* objects hydrated, or rows a mode query returned
    chunks,      \* objects the loop's own SecurityFilter let through
    answer,      \* objects the returned answer was generated from
    best,        \* objects of the last ungrounded attempt
    provenance,  \* LoopResult.chunks
    stop,        \* LoopResult.stop_reason
    graded,      \* history: objects whose answer the grader found grounded
    since,       \* history: chunks changed since the allowlist was derived
    seeable      \* history: objects authorised at some moment since the request came

store   == <<rows, changes>>
loop    == <<session, iteration>>
fetch   == <<allow, hits, found>>
result  == <<answer, best, provenance, stop, graded>>
history == <<since, seeable>>
vars    == <<store, pc, loop, fetch, chunks, result, history>>

Objects == [id : Chunks, cls : STRING, level : Int]

Object(c) == [id |-> c, cls |-> rows[c].cls, level |-> rows[c].level]

Stored == {c \in Chunks : rows[c] # Gone}

(* The stored objects that session s would be authorised for now.          *)
Visible(s) == {Object(c) : c \in {d \in Stored : Authorized(rows[d], s)}}

AtMost(k, S) ==
    {T \in SUBSET S : Cardinality(T) = IF Cardinality(S) < k THEN Cardinality(S) ELSE k}

Init ==
    /\ rows \in [Chunks -> RowPool] /\ changes = 0
    /\ pc = "idle"
    /\ session \in SessionPool /\ iteration = 0
    /\ allow = {} /\ hits = {} /\ found = {} /\ chunks = {}
    /\ answer = {} /\ best = {} /\ provenance = {} /\ stop = "" /\ graded = {}
    /\ since = {} /\ seeable = Visible(session)

(* CdcProcessor upserts or deletes a row.                                  *)
Change(c) ==
    /\ changes < MaxChanges
    /\ changes' = changes + 1
    /\ \E row \in RowPool \cup {Gone} : rows' = [rows EXCEPT ![c] = row]
    /\ UNCHANGED <<pc, loop, fetch, chunks, result>>
    /\ since' = since \cup {c} /\ seeable' = seeable \cup Visible(session)'

Goto(from, to) == pc = from /\ pc' = to

(* A request arrives, for the loop or for a mode retriever.                *)
Ask ==
    /\ pc \in {"idle", "done", "failed", "rows"}
    /\ \E s \in SessionPool : session' = s
    /\ pc' \in {"allow", "modeallow"}
    /\ iteration' = 1
    /\ allow' = {} /\ hits' = {} /\ found' = {} /\ chunks' = {}
    /\ answer' = {} /\ best' = {} /\ provenance' = {} /\ stop' = "" /\ graded' = {}
    /\ since' = {} /\ seeable' = Visible(session')
    /\ UNCHANGED store

-----------------------------------------------------------------------------
(* authorized_chunk_ids over all_chunk_security: one query of all rows.    *)
Snapshot ==
    /\ \A c \in Stored : Known(rows[c]) => Valid(rows[c])
    /\ allow' = {c \in Stored : Authorized(rows[c], session)}
    /\ since' = {} /\ UNCHANGED seeable

DeriveAllowlist ==
    /\ pc = "allow"
    /\ Snapshot
    /\ pc' = IF allow' = {} THEN "rerank" ELSE "search"
    /\ hits' = {} /\ found' = {}
    /\ UNCHANGED <<store, loop, chunks, result>>

(* TurboVecIndex.search: nothing but allowed ids that the index holds.     *)
Search ==
    /\ pc = "search"
    /\ hits' \in AtMost(CoarseK, allow \cap Indexed)
    /\ pc' = IF hits' = {} THEN "rerank" ELSE "hydrate"
    /\ UNCHANGED <<store, loop, allow, found, chunks, result, history>>

(* get_chunk of the next hit: a row that is gone or of no known class is   *)
(* dropped; the others are taken as they are now.                          *)
Hydrate ==
    /\ pc = "hydrate"
    /\ \E c \in hits :
         /\ c \in Stored /\ Known(rows[c]) => Valid(rows[c])
         /\ found' = IF c \in Stored /\ Known(rows[c]) THEN found \cup {Object(c)} ELSE found
         /\ hits' = hits \ {c}
         /\ pc' = IF hits = {c} THEN "rerank" ELSE "hydrate"
    /\ UNCHANGED <<store, loop, allow, chunks, result, history>>

(* A mutant: the loop trusts the pre-filter.                               *)
RerankOnly ==
    /\ Goto("rerank", "relevance")
    /\ chunks' \in AtMost(TopK, found)
    /\ UNCHANGED <<store, loop, fetch, result, history>>

(* Rerank to final_top_k, then the loop's own SecurityFilter.              *)
RerankAndGovern ==
    /\ Goto("rerank", "relevance")
    /\ \E R \in AtMost(TopK, found) : chunks' = {o \in R : Authorized(o, session)}
    /\ UNCHANGED <<store, loop, fetch, result, history>>

(* The store or the generator raises, or a row's level is out of range:    *)
(* nothing catches it and the request fails.                               *)
Raise ==
    /\ Goto(pc, "failed")
    /\ pc \in {"allow", "search", "hydrate", "rerank", "generate", "modeallow", "moderows"}
    /\ UNCHANGED <<store, loop, fetch, chunks, result, history>>

-----------------------------------------------------------------------------
(* The loop, from the relevance grade on.                                   *)

(* Either grader calls nothing retrieved insufficient.                     *)
Sufficient ==
    /\ Goto("relevance", "generate")
    /\ chunks # {}
    /\ UNCHANGED <<store, loop, fetch, chunks, result, history>>

NextIteration ==
    /\ iteration < MaxIterations
    /\ iteration' = iteration + 1
    /\ pc' = "allow"
    /\ chunks' = {}
    /\ UNCHANGED session

(* A mutant: a corrective retrieval is not counted.                        *)
RetrieveAgainUncounted ==
    /\ pc = "relevance"
    /\ pc' = "allow" /\ chunks' = {}
    /\ UNCHANGED <<store, loop, fetch, result, history>>

(* Insufficient, with budget left: reformulate and retrieve again.         *)
RetrieveAgain ==
    /\ pc = "relevance"
    /\ NextIteration
    /\ UNCHANGED <<store, fetch, result, history>>

(* Insufficient in the last iteration: abstain.                            *)
GiveUp ==
    /\ Goto("relevance", "done")
    /\ iteration = MaxIterations
    /\ stop' = "insufficient_retrieval"
    /\ UNCHANGED <<store, loop, fetch, chunks, answer, best, provenance, graded, history>>

Generate ==
    /\ Goto("generate", "groundedness")
    /\ UNCHANGED <<store, loop, fetch, chunks, result, history>>

Grounded ==
    /\ Goto("groundedness", "done")
    /\ answer' = chunks /\ provenance' = chunks /\ graded' = chunks
    /\ stop' = "grounded"
    /\ UNCHANGED <<store, loop, fetch, chunks, best, history>>

(* Ungrounded, with budget left: remember the attempt and try again.       *)
Refine ==
    /\ pc = "groundedness"
    /\ best' = chunks
    /\ NextIteration
    /\ UNCHANGED <<store, fetch, answer, provenance, stop, graded, history>>

(* A mutant: the best ungrounded attempt is served.                        *)
ServeBest ==
    /\ Goto("groundedness", "done")
    /\ iteration = MaxIterations
    /\ best' = chunks /\ provenance' = chunks /\ answer' = chunks
    /\ stop' = "ungrounded"
    /\ UNCHANGED <<store, loop, fetch, chunks, graded, history>>

(* Ungrounded in the last iteration: abstain, the attempt kept as provenance. *)
Abstain ==
    /\ Goto("groundedness", "done")
    /\ iteration = MaxIterations
    /\ best' = chunks /\ provenance' = chunks
    /\ stop' = "ungrounded"
    /\ UNCHANGED <<store, loop, fetch, chunks, answer, graded, history>>

(* A grader raises: the circuit breaker abstains.                          *)
Degrade ==
    /\ pc \in {"relevance", "groundedness"}
    /\ pc' = "done"
    /\ stop' = "grader_degraded"
    /\ UNCHANGED <<store, loop, fetch, chunks, answer, best, provenance, graded, history>>

-----------------------------------------------------------------------------
(* GraphRetriever, StructuredRetriever, LexicalRetriever: the allowlist ... *)
DeriveModeAllowlist ==
    /\ Goto("modeallow", "moderows")
    /\ Snapshot
    /\ UNCHANGED <<store, loop, hits, found, chunks, result>>

(* A mutant: the query is not scoped to the allowlist.                     *)
QueryAllRows ==
    /\ Goto("moderows", "rows")
    /\ \E matching \in SUBSET Stored : found' = {Object(c) : c \in matching}
    /\ UNCHANGED <<store, loop, allow, hits, chunks, result, history>>

(* ... then one store query for the matching rows on it.                   *)
QueryRows ==
    /\ Goto("moderows", "rows")
    /\ \E matching \in SUBSET (allow \cap Stored) : found' = {Object(c) : c \in matching}
    /\ UNCHANGED <<store, loop, allow, hits, chunks, result, history>>

Retrieve == DeriveAllowlist \/ Search \/ Hydrate \/ RerankAndGovern
Grade    == Sufficient \/ RetrieveAgain \/ GiveUp \/ Grounded \/ Refine \/ Abstain \/ Degrade
Modes    == DeriveModeAllowlist \/ QueryRows
Step     == Retrieve \/ Generate \/ Grade \/ Modes \/ Raise

Next == Ask \/ Step \/ \E c \in Chunks : Change(c)

(* A request that was taken on is worked on; nobody has to ask another.    *)
Spec == Init /\ [][Next]_vars /\ WF_vars(Step)

-----------------------------------------------------------------------------
TypeOK ==
    /\ rows \in [Chunks -> RowPool \cup {Gone}] /\ changes \in 0 .. MaxChanges
    /\ pc \in {"idle", "allow", "search", "hydrate", "rerank", "relevance", "generate",
               "groundedness", "done", "failed", "modeallow", "moderows", "rows"}
    /\ session \in SessionPool /\ iteration \in 0 .. MaxIterations
    /\ allow \in SUBSET Chunks /\ hits \in SUBSET Chunks /\ since \in SUBSET Chunks
    /\ found \cup chunks \cup answer \cup best \cup provenance \cup graded \subseteq Objects
    /\ seeable \subseteq Objects
    /\ stop \in {"", "grounded", "ungrounded", "insufficient_retrieval", "grader_degraded"}

(* Whatever a retriever hands on - candidates of the vector index or rows  *)
(* of a mode query - the session may see, unless the row changed after the *)
(* allowlist was derived: the pre-filter alone never lets a denied chunk   *)
(* or one of unknown class through.                                        *)
PrefilterHolds == \A o \in found : Authorized(o, session) \/ o.id \in since

(* The grader, the generator and the result see nothing the session is     *)
(* denied under the footprint read with it, also when the row was          *)
(* reclassified behind the allowlist.                                      *)
LoopGoverned ==
    \A o \in chunks \cup answer \cup best \cup provenance : Authorized(o, session)

(* A finished request returns an answer exactly if a grader found that     *)
(* answer grounded; in every other end it abstains.                        *)
AnswersGrounded ==
    pc = "done" => answer = graded /\ (answer # {} <=> stop = "grounded")

(* A stored chunk at or above its class's level is never more open than    *)
(* the seeds' matrix: rebuilding the footprint from class and level loses  *)
(* nothing that protects it.                                               *)
StoreKeepsMatrix ==
    \A c \in Stored, s \in SessionPool :
        Known(rows[c]) /\ Valid(rows[c]) /\ rows[c].level >= MinLevel[rows[c].cls]
            => Evaluate(Security(rows[c]), s) \in {EvaluateClass(rows[c].cls, s), "deny"}

(* What a reader is handed: of a loop the provenance of its answer, of a   *)
(* mode retriever the rows.                                                *)
Given == IF pc = "rows" THEN found ELSE provenance

Status ==
    CASE pc \in {"idle", "failed"}        -> pc
      [] pc \in {"modeallow", "moderows"} -> "listing"
      [] pc = "rows"                      -> "listed"
      [] pc = "done"                      -> IF answer = {} THEN "abstained" ELSE "answered"
      [] OTHER                            -> "asked"

Promise == INSTANCE GovernedRequest WITH
    status <- Status, given <- Given, Entitled <- Authorized

(* Both paths keep what a governed request promises its reader: an answer  *)
(* or an abstention rests on objects that were stored during the request   *)
(* and authorised as they then were; the rows of a mode query are of one   *)
(* moment, each of a chunk that was authorised at some moment of it.       *)
AnswersAsPromised == Promise!Spec

(* Every request ends, whatever the graders say and however often rows     *)
(* change.                                                                 *)
RequestsEnd == pc \in {"allow", "modeallow"} ~> pc \in {"done", "failed", "rows"}
=============================================================================
