----------------------------- MODULE CdcProcessor -----------------------------
(***************************************************************************)
(* CdcProcessor in front of a durable store and a durable cache (the       *)
(* SurrealDB-backed ones), fed by a stream that delivers every event at    *)
(* least once and in any order.  The applied versions live in the process  *)
(* alone.  The content of a row is abstracted to the version of the event  *)
(* that wrote it; Deletes says which events remove the row instead.        *)
(***************************************************************************)
EXTENDS Integers, FiniteSets

CONSTANTS
    Chunks,
    MaxVersion,     \* bound of the model: versions the source mints per chunk
    Deletes,        \* the events, as <<chunk, version>>, that are deletes
    MaxRetries,     \* CdcProcessor.max_retries
    MaxFaults,      \* bound of the model: store and cache calls that raise
    MaxRestarts     \* bound of the model: crashes of the process

ASSUME ConstantAssumption ==
    /\ MaxVersion \in Nat /\ MaxRetries \in Nat
    /\ MaxFaults \in Nat /\ MaxRestarts \in Nat
    /\ Deletes \subseteq Chunks \X Nat

VARIABLES
    minted,     \* minted[c]: the last version the source emitted for c
    unacked,    \* events the stream has still to see handled
    store,      \* store[c]: the version of the last write of c's row
    cache,      \* cache[c]: versions of c that cached answers were computed on
    applied,    \* _applied_version, 0 where the dict has no entry
    pc,         \* where apply stands: "idle", "store", "cache" or "record"
    event,      \* the event apply was called with, as {} or {<<chunk, version>>}
    attempt,    \* failed attempts of this call
    faults,     \* store and cache calls that have raised
    restarts,   \* crashes of the process
    peak,       \* history: the highest version of c apply ever started on
    lost        \* history: chunks whose row's version is not on record

durable == <<store, cache>>
call    == <<pc, event, attempt>>
vars    == <<minted, unacked, store, cache, applied, pc, event, attempt,
             faults, restarts, peak, lost>>

Zero == [c \in Chunks |-> 0]

Init ==
    /\ minted = Zero /\ store = Zero /\ applied = Zero /\ peak = Zero
    /\ cache = [c \in Chunks |-> {}]
    /\ unacked = {} /\ lost = {}
    /\ pc = "idle" /\ event = {} /\ attempt = 0
    /\ faults = 0 /\ restarts = 0

Present(c) == store[c] > 0 /\ <<c, store[c]>> \notin Deletes

Max2(a, b) == IF a > b THEN a ELSE b

(* The connector mints a fresh, strictly greater version for every event.  *)
Emit(c) ==
    /\ minted[c] < MaxVersion
    /\ minted' = [minted EXCEPT ![c] = @ + 1]
    /\ unacked' = unacked \cup {<<c, minted[c] + 1>>}
    /\ UNCHANGED <<durable, applied, call, faults, restarts, peak, lost>>

(* Nobody changes the chunk meanwhile: a query answers and stores the answer. *)
CacheAnswer(c) ==
    /\ Present(c)
    /\ cache' = [cache EXCEPT ![c] = @ \cup {store[c]}]
    /\ UNCHANGED <<minted, unacked, store, applied, call, faults, restarts, peak, lost>>

(* A mutant: the version check is left out.                                *)
ApplyUnchecked(c, v) ==
    /\ pc = "idle" /\ v <= minted[c]
    /\ pc' = "store" /\ event' = {<<c, v>>} /\ attempt' = 0
    /\ peak' = [peak EXCEPT ![c] = Max2(@, v)]
    /\ UNCHANGED <<minted, unacked, durable, applied, faults, restarts, lost>>

(* apply on an event strictly newer than the last applied one.             *)
ApplyNewer(c, v) ==
    /\ pc = "idle" /\ v <= minted[c]
    /\ v > applied[c]
    /\ pc' = "store" /\ event' = {<<c, v>>} /\ attempt' = 0
    /\ peak' = [peak EXCEPT ![c] = Max2(@, v)]
    /\ UNCHANGED <<minted, unacked, durable, applied, faults, restarts, lost>>

(* apply on a replayed or stale event: returns False, the stream moves on.  *)
ApplyStale(c, v) ==
    /\ pc = "idle" /\ v <= minted[c]
    /\ v <= applied[c]
    /\ unacked' = unacked \ {<<c, v>>}
    /\ UNCHANGED <<minted, durable, applied, call, faults, restarts, peak, lost>>

(* _dispatch, first half: upsert_chunk or delete_chunk.                    *)
WriteStore ==
    /\ pc = "store"
    /\ \E e \in event : store' = [store EXCEPT ![e[1]] = e[2]]
    /\ pc' = "cache"
    /\ UNCHANGED <<minted, unacked, cache, applied, event, attempt, faults, restarts, peak, lost>>

(* A mutant: a retried dispatch does not invalidate.                       *)
InvalidateFirstAttemptOnly ==
    /\ pc = "cache"
    /\ \E e \in event :
         cache' = [cache EXCEPT ![e[1]] = IF attempt = 0 THEN {} ELSE @]
    /\ pc' = "record"
    /\ UNCHANGED <<minted, unacked, store, applied, event, attempt, faults, restarts, peak, lost>>

(* _dispatch, second half: invalidate_chunk.                               *)
InvalidateCache ==
    /\ pc = "cache"
    /\ \E e \in event : cache' = [cache EXCEPT ![e[1]] = {}]
    /\ pc' = "record"
    /\ UNCHANGED <<minted, unacked, store, applied, event, attempt, faults, restarts, peak, lost>>

(* Both succeeded: the version is recorded, apply returns True.            *)
Record ==
    /\ pc = "record"
    /\ \E e \in event :
         /\ applied' = [applied EXCEPT ![e[1]] = e[2]]
         /\ lost' = IF e[2] = peak[e[1]] THEN lost \ {e[1]} ELSE lost
    /\ unacked' = unacked \ event
    /\ pc' = "idle" /\ event' = {} /\ attempt' = 0
    /\ UNCHANGED <<minted, durable, faults, restarts, peak>>

Raises ==
    /\ pc \in {"store", "cache"}
    /\ faults < MaxFaults
    /\ faults' = faults + 1
    /\ UNCHANGED <<minted, durable, applied, restarts, peak>>

(* A store or cache call raises: the whole dispatch starts again ...       *)
Retry ==
    /\ Raises
    /\ attempt < MaxRetries
    /\ pc' = "store" /\ attempt' = attempt + 1
    /\ UNCHANGED <<unacked, event, lost>>

(* ... or, with no retry left, the event is audited, dropped and left to   *)
(* the dead-letter queue.                                                  *)
Drop ==
    /\ Raises
    /\ attempt = MaxRetries
    /\ pc' = "idle" /\ event' = {} /\ attempt' = 0
    /\ unacked' = unacked \ event
    /\ lost' = lost \cup {e[1] : e \in event}

(* The process dies; the new one starts with an empty _applied_version.    *)
Restart ==
    /\ restarts < MaxRestarts
    /\ restarts' = restarts + 1
    /\ applied' = Zero
    /\ lost' = lost \cup {c \in Chunks : peak[c] > 0}
    /\ pc' = "idle" /\ event' = {} /\ attempt' = 0
    /\ UNCHANGED <<minted, unacked, durable, faults, peak>>

Apply(c, v) == ApplyNewer(c, v) \/ ApplyStale(c, v)
Work == WriteStore \/ InvalidateCache \/ Record \/ Retry \/ Drop

Next ==
    \/ \E c \in Chunks : Emit(c) \/ CacheAnswer(c)
    \/ \E c \in Chunks, v \in 1 .. MaxVersion : Apply(c, v)
    \/ Work
    \/ Restart

(* The consumer keeps running and the stream delivers at least once: it    *)
(* offers an event that was not handled again and again.                   *)
Fairness ==
    /\ WF_vars(Work)
    /\ \A c \in Chunks, v \in 1 .. MaxVersion :
         SF_vars(<<c, v>> \in unacked /\ Apply(c, v))

Spec == Init /\ [][Next]_vars /\ Fairness

-----------------------------------------------------------------------------
Events == Chunks \X (1 .. MaxVersion)

TypeOK ==
    /\ minted \in [Chunks -> 0 .. MaxVersion] /\ unacked \in SUBSET Events
    /\ store \in [Chunks -> 0 .. MaxVersion] /\ cache \in [Chunks -> SUBSET (1 .. MaxVersion)]
    /\ applied \in [Chunks -> 0 .. MaxVersion]
    /\ pc \in {"idle", "store", "cache", "record"}
    /\ event \in SUBSET Events
    /\ attempt \in 0 .. MaxRetries /\ faults \in 0 .. MaxFaults /\ restarts \in 0 .. MaxRestarts
    /\ peak \in [Chunks -> 0 .. MaxVersion] /\ lost \in SUBSET Chunks

InFlight(c) == \E e \in event : e[1] = c

(* Once a change is applied, no answer computed on another version of its  *)
(* chunk is left in the cache - also when the first attempts failed after  *)
(* the store was written.  Chunks whose event was dropped, or cut off by a *)
(* crash, are exempt until a change of them is applied again.              *)
NoStaleAnswerCached ==
    \A c \in Chunks : c \in lost \/ InFlight(c) \/ cache[c] \subseteq {store[c]}

(* The processor implements the register: under duplicated and reordered   *)
(* delivery and retries a row never goes back, except on a chunk whose     *)
(* record was lost to a crash or a drop, and it ends at the last version.  *)
Register == INSTANCE ChangeRegister WITH row <- store
ImplementsRegister == Register!Spec
=============================================================================
