---------------------------- MODULE QueryPipeline ----------------------------
(***************************************************************************)
(* One RAGPipeline, shared by the threads that answer queries and by the   *)
(* consumer of change events.  Nothing in the pipeline, the cache or the   *)
(* retriever takes a lock, so every read or write of shared state is a     *)
(* step of its own and the steps of all actors interleave.                 *)
(*                                                                         *)
(* Content is abstracted to the version that wrote it: a chunk object is   *)
(* [id, ver], its security footprint is Payload[id][ver], and what an      *)
(* answer or a citation shows is a set of facts [id, ver, raw], raw FALSE  *)
(* when the text was replaced by a redaction token.                        *)
(***************************************************************************)
EXTENDS AccessControl, FiniteSets

CONSTANTS
    Threads,        \* request-handler threads of the API's thread pool
    ChunkIds,       \* chunk identifiers
    Corpus,         \* the chunks index_documents put into the pipeline
    MaxVersion,     \* highest source_version of the modelled changes
    Payload,        \* Payload[c][v]: the footprint version v of chunk c carries
    Events,         \* change events: [chunk, version, op]
    Queries,        \* question texts
    Similarity,     \* Similarity[q, r]: cosine similarity, as an integer rank
    Threshold,      \* cache_similarity_threshold on that scale
    SessionPool,    \* sessions that ask
    TopK,           \* final_top_k
    MaxEntries,     \* cache_max_entries
    MaxRetries,     \* CdcProcessor.max_retries
    SelfRag,        \* selfrag_enabled
    MaxQueries      \* bound of the model: queries started in a behaviour

Absent   == -1                        \* no object under this id
Versions == 0 .. MaxVersion
Ops      == {"upsert", "delete"}      \* insert, update and reclassify all upsert

ASSUME ConstantAssumption ==
    /\ Corpus \subseteq ChunkIds
    /\ MaxVersion \in Nat /\ MaxEntries \in Nat \ {0} /\ TopK \in Nat \ {0}
    /\ MaxRetries \in Nat /\ MaxQueries \in Nat /\ Threshold \in Nat
    /\ Payload \in [ChunkIds -> [Versions -> Footprints]]
    /\ Events \subseteq [chunk : ChunkIds, version : Versions, op : Ops]
    /\ Similarity \in [Queries \X Queries -> Nat]
    /\ SessionPool \subseteq Sessions /\ SessionPool # {} /\ Queries # {}
    /\ SelfRag \in BOOLEAN

(* The connector's contract: a version names one event of its chunk.       *)
ASSUME VersionAssumption ==
    \A e, f \in Events : e.chunk = f.chunk /\ e.version = f.version => e = f

Objects == [id : ChunkIds, ver : Versions]
Facts   == [id : ChunkIds, ver : Versions, raw : BOOLEAN]

VARIABLES
    chunks,     \* pipeline._chunks: version held under each id, or Absent
    dense,      \* the vector store's copy, as of its last index call
    lex,        \* the BM25 index's copy, as of its last index call
    entries,    \* the semantic cache: a set of entries, ordered by "used"
    expired,    \* keys of entries whose TTL has run out
    clock,      \* last key or recency stamp handed out
    started,    \* queries started
    pc,         \* pc[t]: the step thread t is about to take
    session,    \* session[t], query[t]: the request t answers
    query,
    held,       \* held[t]: the cache entry get() has picked, as {} or {entry}
    snap,       \* snap[t]: the dense hits t holds while it searches lexically
    admitted,   \* admitted[t]: objects that passed governance (put's chunk_ids)
    cites,      \* cites[t]: facts the citations show
    answer,     \* answer[t]: facts the answer was generated from
    overlap,    \* history: chunks whose change was in progress during t's query
    dirty,      \* actors iterating over the cache while it was mutated
    cdc,        \* the change consumer: [pc, event, attempt]
    applied,    \* _applied_version, Absent where the dict has no entry
    deadLetter  \* chunks whose last change was dropped after its retries

shared   == <<chunks, dense, lex>>
cacheVars == <<entries, expired, clock>>
request  == <<session, query>>
work     == <<held, snap, admitted, cites, answer>>
cdcVars  == <<cdc, applied, deadLetter>>
vars     == <<shared, cacheVars, started, pc, request, work, overlap, dirty, cdcVars>>

Cdc == "cdc"                          \* the consumer, among the actors

-----------------------------------------------------------------------------
(* Governance of retrieved objects: SecurityFilter.apply and redact_chunk.  *)

Decision(o, s) == Evaluate(Payload[o.id][o.ver], s)

Admit(R, s) == {o \in R : Decision(o, s) # "deny"}

(* What the redacted objects show: the raw text only under "allow".        *)
Reveal(R, s) ==
    {[id |-> o.id, ver |-> o.ver, raw |-> Decision(o, s) = "allow"] : o \in Admit(R, s)}

Ids(R) == {o.id : o \in R}

(***************************************************************************)
(* HybridRetriever.retrieve over one copy of each index.  Ranking is       *)
(* abstracted: any set of the right size may be the top TopK, and an id    *)
(* that both indexes hold comes from whichever list fused it first.        *)
(***************************************************************************)
Retrievals(d, l) ==
    LET objs == {o \in Objects : o.ver \in {d[o.id], l[o.id]}}
        n    == Cardinality(Ids(objs))
    IN  {R \in SUBSET objs :
            /\ Cardinality(R) = IF n < TopK THEN n ELSE TopK
            /\ \A o, p \in R : o.id = p.id => o = p}

(* The ids _govern_fn returns: held now, and not denied to the session.    *)
Regoverned(ids, s) ==
    {c \in ids : chunks[c] # Absent /\ Decision([id |-> c, ver |-> chunks[c]], s) # "deny"}

-----------------------------------------------------------------------------
(* The semantic cache's bookkeeping.                                        *)

(* A mutant: the fingerprint leaves out the clearance.                     *)
RolesOf(s) == <<0, s.roles>>

(* AuthScope: clearance and role set, nothing else of the session.         *)
ScopeOf(s) == <<s.clearance_level, s.roles>>

Candidates(q, s) == {e \in entries : e.scope = ScopeOf(s) /\ e.key \notin expired}

HasMatch(q, s) ==
    \E e \in Candidates(q, s) : Similarity[q, e.query] >= Threshold

(* The scan keeps the best-scoring entry, the least recently used one      *)
(* among equals: it replaces its best only by a strictly better one.       *)
BestMatches(q, s) ==
    {e \in Candidates(q, s) :
        \A f \in Candidates(q, s) :
            \/ Similarity[q, f.query] < Similarity[q, e.query]
            \/ Similarity[q, f.query] = Similarity[q, e.query] /\ e.used <= f.used}

(* Whoever is inside a loop over the cache when another actor mutates it.  *)
Iterating == {t \in Threads : pc[t] \in {"scan", "evict"}} \cup
             (IF cdc.pc = "invalidate" THEN {Cdc} ELSE {})

(* Actor a ends its own loop; if it changed the cache, others are disturbed. *)
LeaveLoop(a) ==
    dirty' = (IF entries' = entries THEN dirty ELSE dirty \cup Iterating) \ {a}

(* Chunks whose indexed copies do not show what the pipeline holds.        *)
Unindexed == {c \in ChunkIds : dense[c] # chunks[c] \/ lex[c] # chunks[c]}

IdleSession == CHOOSE s \in SessionPool : TRUE
IdleQuery   == CHOOSE q \in Queries : TRUE

-----------------------------------------------------------------------------
Init ==
    /\ chunks = [c \in ChunkIds |-> IF c \in Corpus THEN 0 ELSE Absent]
    /\ dense = chunks /\ lex = chunks
    /\ entries = {} /\ expired = {} /\ clock = 0 /\ started = 0
    /\ pc = [t \in Threads |-> "idle"]
    /\ session = [t \in Threads |-> IdleSession]
    /\ query = [t \in Threads |-> IdleQuery]
    /\ held = [t \in Threads |-> {}]
    /\ snap = [t \in Threads |-> [c \in ChunkIds |-> Absent]]
    /\ admitted = [t \in Threads |-> {}]
    /\ cites = [t \in Threads |-> {}]
    /\ answer = [t \in Threads |-> {}]
    /\ overlap = [t \in Threads |-> {}]
    /\ dirty = {}
    /\ cdc = [pc |-> "idle", event |-> {}, attempt |-> 0]
    /\ applied = [c \in ChunkIds |-> Absent]
    /\ deadLetter = {}

-----------------------------------------------------------------------------
(* pipeline.query.  Each step reads or writes shared state at most once.    *)

Goto(t, from, to) == pc[t] = from /\ pc' = [pc EXCEPT ![t] = to]

Arrive(t) ==
    /\ started < MaxQueries
    /\ Goto(t, "idle", "scan")
    /\ started' = started + 1
    /\ \E s \in SessionPool : session' = [session EXCEPT ![t] = s]
    /\ \E q \in Queries : query' = [query EXCEPT ![t] = q]
    /\ overlap' = [overlap EXCEPT ![t] = Unindexed]
    /\ UNCHANGED <<shared, cacheVars, work, dirty, cdcVars>>

(* SemanticCache.get up to the regovern call: pick the best entry.         *)
ScanHit(t) ==
    /\ Goto(t, "scan", "regovern")
    /\ HasMatch(query[t], session[t])
    /\ \E e \in BestMatches(query[t], session[t]) : held' = [held EXCEPT ![t] = {e}]
    /\ dirty' = dirty \ {t}
    /\ UNCHANGED <<shared, cacheVars, started, request, snap, admitted, cites, answer,
                   overlap, cdcVars>>

ScanMiss(t) ==
    /\ Goto(t, "scan", "dense")
    /\ ~HasMatch(query[t], session[t])
    /\ dirty' = dirty \ {t}
    /\ UNCHANGED <<shared, cacheVars, started, request, work, overlap, cdcVars>>

(* The re-derivation: a hit only if exactly the stored ids are authorized. *)
Regovern(t) ==
    /\ pc[t] = "regovern"
    /\ \E e \in held[t] :
         IF Regoverned(e.chunk_ids, session[t]) = e.chunk_ids
         THEN pc' = [pc EXCEPT ![t] = "touch"] /\ UNCHANGED held
         ELSE pc' = [pc EXCEPT ![t] = "dense"] /\ held' = [held EXCEPT ![t] = {}]
    /\ UNCHANGED <<shared, cacheVars, started, request, snap, admitted, cites, answer,
                   overlap, dirty, cdcVars>>

MostRecent(e) == \A f \in entries : f.used <= e.used

(* move_to_end: the entry becomes the most recently used one.              *)
TouchEntry(key) ==
    \E e \in entries :
        /\ e.key = key
        /\ IF MostRecent(e) THEN UNCHANGED <<entries, clock>>
           ELSE /\ clock' = clock + 1
                /\ entries' = (entries \ {e}) \cup {[e EXCEPT !.used = clock + 1]}

(* A mutant: an entry that has vanished since the scan is served anyway.   *)
TouchWithoutKeyCheck(t) ==
    /\ Goto(t, "touch", "hit")
    /\ UNCHANGED <<shared, cacheVars, started, request, work, overlap, dirty, cdcVars>>

(* The LRU touch raises KeyError, and the query fails, if the entry is gone. *)
Touch(t) ==
    /\ Goto(t, "touch", "hit")
    /\ \E e \in held[t] : TouchEntry(e.key)
    /\ LeaveLoop(t)
    /\ UNCHANGED <<shared, expired, started, request, work, overlap, cdcVars>>

(* The warm response: the stored answer, and citations built from the      *)
(* chunks the pipeline holds now.                                          *)
ServeHit(t) ==
    /\ Goto(t, "hit", "respond")
    /\ \E e \in held[t] :
         /\ answer' = [answer EXCEPT ![t] = e.answer]
         /\ cites' = [cites EXCEPT ![t] =
                        {f \in Facts : /\ f.id \in e.chunk_ids
                                       /\ f.ver = chunks[f.id] /\ f.raw}]
    /\ UNCHANGED <<shared, cacheVars, started, request, held, snap, admitted, overlap,
                   dirty, cdcVars>>

(* HybridRetriever.retrieve reads the dense index, then the BM25 index.    *)
RetrieveDense(t) ==
    /\ Goto(t, "dense", "lex")
    /\ snap' = [snap EXCEPT ![t] = dense]
    /\ UNCHANGED <<shared, cacheVars, started, request, held, admitted, cites, answer,
                   overlap, dirty, cdcVars>>

ClearSnap(t) == snap' = [snap EXCEPT ![t] = [c \in ChunkIds |-> Absent]]

(* Fusion, then SecurityFilter.apply on the objects held, then citations.  *)
RetrieveAndGovern(t) ==
    /\ pc[t] = "lex"
    /\ \E R \in Retrievals(snap[t], lex) :
         /\ admitted' = [admitted EXCEPT ![t] = Admit(R, session[t])]
         /\ cites' = [cites EXCEPT ![t] = Reveal(R, session[t])]
         /\ IF SelfRag
            THEN pc' = [pc EXCEPT ![t] = "loopdense"] /\ UNCHANGED answer
            ELSE /\ pc' = [pc EXCEPT ![t] = "put"]
                 /\ answer' = [answer EXCEPT ![t] = Reveal(R, session[t])]
    /\ ClearSnap(t)
    /\ UNCHANGED <<shared, cacheVars, started, request, held, overlap, dirty, cdcVars>>

(***************************************************************************)
(* The corrective loop retrieves and governs again, for itself.  An        *)
(* iteration leaves nothing behind but its query text, so the loop is      *)
(* represented by its last iteration: it generates over that retrieval, or *)
(* abstains.                                                               *)
(***************************************************************************)
LoopRetrieveDense(t) ==
    /\ Goto(t, "loopdense", "looplex")
    /\ snap' = [snap EXCEPT ![t] = dense]
    /\ UNCHANGED <<shared, cacheVars, started, request, held, admitted, cites, answer,
                   overlap, dirty, cdcVars>>

LoopGenerate(t) ==
    /\ Goto(t, "looplex", "put")
    /\ \E R \in Retrievals(snap[t], lex) :
         \E shown \in {Reveal(R, session[t]), {}} :
             answer' = [answer EXCEPT ![t] = shown]
    /\ ClearSnap(t)
    /\ UNCHANGED <<shared, cacheVars, started, request, held, admitted, cites, overlap,
                   dirty, cdcVars>>

(* A mutant: the entry keeps the chunk objects instead of their ids.       *)
EntryOfObjects(t) ==
    [key |-> clock + 1, used |-> clock + 1, scope |-> ScopeOf(session[t]),
     query |-> query[t], chunk_ids |-> admitted[t], answer |-> answer[t],
     overlap |-> overlap[t]]

NewEntry(t) ==
    [key |-> clock + 1, used |-> clock + 1, scope |-> ScopeOf(session[t]),
     query |-> query[t], chunk_ids |-> Ids(admitted[t]), answer |-> answer[t],
     overlap |-> overlap[t]]

(* SemanticCache.put: insert at the recent end ...                         *)
Put(t) ==
    /\ Goto(t, "put", "evict")
    /\ clock' = clock + 1
    /\ entries' = entries \cup {NewEntry(t)}
    /\ LeaveLoop(t)
    /\ UNCHANGED <<shared, expired, started, request, work, overlap, cdcVars>>

(* The entries a sweep keeps: unexpired ones, the MaxEntries most recent.  *)
Kept ==
    LET alive == {e \in entries : e.key \notin expired}
    IN  {e \in alive : Cardinality({f \in alive : f.used > e.used}) < MaxEntries}

(* ... then sweep out expired entries and those over the LRU cap.          *)
Evict(t) ==
    /\ Goto(t, "evict", "respond")
    /\ entries' = Kept
    /\ expired' = expired \cap {e.key : e \in Kept}
    /\ LeaveLoop(t)
    /\ UNCHANGED <<shared, clock, started, request, work, overlap, cdcVars>>

Forget(t) ==
    /\ session' = [session EXCEPT ![t] = IdleSession]
    /\ query' = [query EXCEPT ![t] = IdleQuery]
    /\ held' = [held EXCEPT ![t] = {}]
    /\ admitted' = [admitted EXCEPT ![t] = {}]
    /\ cites' = [cites EXCEPT ![t] = {}]
    /\ answer' = [answer EXCEPT ![t] = {}]
    /\ overlap' = [overlap EXCEPT ![t] = {}]
    /\ UNCHANGED snap

Respond(t) ==
    /\ Goto(t, "respond", "idle")
    /\ Forget(t)
    /\ UNCHANGED <<shared, cacheVars, started, dirty, cdcVars>>

(* A loop over the OrderedDict that another actor mutated raises, and so   *)
(* does touching a key that is gone: the query ends without a response.    *)
Fail(t) ==
    /\ \/ pc[t] \in {"scan", "evict"} /\ t \in dirty
       \/ pc[t] = "touch" /\ \A e \in held[t], f \in entries : e.key # f.key
    /\ pc' = [pc EXCEPT ![t] = "idle"]
    /\ Forget(t)
    /\ dirty' = dirty \ {t}
    /\ UNCHANGED <<shared, cacheVars, started, cdcVars>>

(* Every entry has the same TTL: the oldest one runs out first.            *)
Expire ==
    /\ \E e \in entries :
         /\ e.key \notin expired
         /\ \A f \in entries : f.key < e.key => f.key \in expired
         /\ expired' = expired \cup {e.key}
    /\ UNCHANGED <<shared, entries, clock, started, pc, request, work, overlap, dirty, cdcVars>>

-----------------------------------------------------------------------------
(* pipeline.apply_change, run by the one consumer of the change stream.     *)

Stream(from, to) == cdc.pc = from /\ cdc' = [cdc EXCEPT !.pc = to]

(* An event not strictly newer than the last applied one is dropped.       *)
Deliver ==
    /\ cdc.pc = "idle"
    /\ \E e \in Events :
         /\ e.version > applied[e.chunk]
         /\ cdc' = [pc |-> "store", event |-> {e}, attempt |-> 0]
    /\ UNCHANGED <<shared, cacheVars, started, pc, request, work, overlap, dirty,
                   applied, deadLetter>>

(* _InMemStore: replace the chunk under its id, or drop it.                *)
StoreChange ==
    /\ Stream("store", "invalidate")
    /\ \E e \in cdc.event :
         /\ chunks' = [chunks EXCEPT ![e.chunk] =
                         IF e.op = "delete" THEN Absent ELSE e.version]
         /\ overlap' = [t \in Threads |->
                         IF pc[t] = "idle" THEN {} ELSE overlap[t] \cup {e.chunk}]
    /\ UNCHANGED <<dense, lex, cacheVars, started, pc, request, work, dirty,
                   applied, deadLetter>>

(* A mutant: the processor was wired to the cache adapter that does nothing. *)
NoneReferencing(c) == {}

Referencing(c) == {f \in entries : c \in f.chunk_ids}

(* invalidate_chunk, then the version is recorded as applied; apply_change *)
(* re-indexes unless the change was a delete.                              *)
Invalidate ==
    /\ cdc.pc = "invalidate"
    /\ \E e \in cdc.event :
         /\ entries' = entries \ Referencing(e.chunk)
         /\ applied' = [applied EXCEPT ![e.chunk] = e.version]
         /\ deadLetter' = deadLetter \ {e.chunk}
         /\ cdc' = IF e.op = "delete"
                   THEN [pc |-> "idle", event |-> {}, attempt |-> 0]
                   ELSE [cdc EXCEPT !.pc = "indexdense"]
    /\ expired' = expired \cap {f.key : f \in entries'}
    /\ LeaveLoop(Cdc)
    /\ UNCHANGED <<shared, clock, started, pc, request, work, overlap>>

(* The cache changed under invalidate_chunk, which raised, perhaps after   *)
(* removing some entries.  The whole dispatch is retried; after MaxRetries *)
(* the event is dropped, with the store already changed.                   *)
InvalidateFails ==
    /\ cdc.pc = "invalidate" /\ Cdc \in dirty
    /\ \E e \in cdc.event :
         /\ \E gone \in SUBSET Referencing(e.chunk) : entries' = entries \ gone
         /\ IF cdc.attempt < MaxRetries
            THEN /\ cdc' = [cdc EXCEPT !.pc = "store", !.attempt = cdc.attempt + 1]
                 /\ UNCHANGED deadLetter
            ELSE /\ cdc' = [pc |-> "idle", event |-> {}, attempt |-> 0]
                 /\ deadLetter' = deadLetter \cup {e.chunk}
    /\ expired' = expired \cap {f.key : f \in entries'}
    /\ LeaveLoop(Cdc)
    /\ UNCHANGED <<shared, clock, started, pc, request, work, overlap, applied>>

IndexDense ==
    /\ Stream("indexdense", "indexlex")
    /\ dense' = chunks
    /\ UNCHANGED <<chunks, lex, cacheVars, started, pc, request, work, overlap, dirty,
                   applied, deadLetter>>

(* A mutant: only the vector store is rebuilt.                             *)
SkipLex ==
    /\ cdc.pc = "indexlex"
    /\ cdc' = [pc |-> "idle", event |-> {}, attempt |-> 0]
    /\ UNCHANGED <<shared, cacheVars, started, pc, request, work, overlap, dirty,
                   applied, deadLetter>>

IndexLex ==
    /\ cdc.pc = "indexlex"
    /\ lex' = chunks
    /\ cdc' = [pc |-> "idle", event |-> {}, attempt |-> 0]
    /\ UNCHANGED <<chunks, dense, cacheVars, started, pc, request, work, overlap, dirty,
                   applied, deadLetter>>

-----------------------------------------------------------------------------
Lookup(t)  == ScanHit(t) \/ ScanMiss(t) \/ Regovern(t) \/ Touch(t) \/ ServeHit(t)
Answer(t)  == RetrieveDense(t) \/ RetrieveAndGovern(t) \/ LoopRetrieveDense(t) \/ LoopGenerate(t)
Store(t)   == Put(t) \/ Evict(t)
Handle(t)  == Lookup(t) \/ Answer(t) \/ Store(t) \/ Respond(t) \/ Fail(t)
Apply      == StoreChange \/ Invalidate \/ InvalidateFails \/ IndexDense \/ IndexLex

Next ==
    \/ \E t \in Threads : Arrive(t) \/ Handle(t)
    \/ Deliver \/ Apply
    \/ Expire

Spec == Init /\ [][Next]_vars

-----------------------------------------------------------------------------
Entry == [key : Nat, used : Nat, scope : Clearances \X SUBSET Roles, query : Queries,
          chunk_ids : SUBSET ChunkIds, answer : SUBSET Facts, overlap : SUBSET ChunkIds]

Holding == [ChunkIds -> Versions \cup {Absent}]

TypeOK ==
    /\ chunks \in Holding /\ dense \in Holding /\ lex \in Holding
    /\ entries \in SUBSET Entry /\ expired \in SUBSET Nat
    /\ clock \in Nat /\ started \in Nat
    /\ pc \in [Threads -> {"idle", "scan", "regovern", "touch", "hit", "dense", "lex",
                           "loopdense", "looplex", "put", "evict", "respond"}]
    /\ session \in [Threads -> SessionPool] /\ query \in [Threads -> Queries]
    /\ held \in [Threads -> SUBSET Entry]
    /\ snap \in [Threads -> Holding]
    /\ admitted \in [Threads -> SUBSET Objects]
    /\ cites \in [Threads -> SUBSET Facts] /\ answer \in [Threads -> SUBSET Facts]
    /\ overlap \in [Threads -> SUBSET ChunkIds]
    /\ dirty \in SUBSET (Threads \cup {Cdc})
    /\ cdc \in [pc : {"idle", "store", "invalidate", "indexdense", "indexlex"},
                event : SUBSET Events, attempt : Nat]
    /\ applied \in Holding
    /\ deadLetter \in SUBSET ChunkIds

(* A fact may be shown to a session: its chunk version is not denied, and  *)
(* is raw only if it is allowed without redaction.                         *)
Permitted(f, s) ==
    LET d == Evaluate(Payload[f.id][f.ver], s)
    IN  d # "deny" /\ (f.raw => d = "allow")

(* Whatever path an answer took - fresh, or stored by another user and     *)
(* served from the cache - it was generated only from text its reader may  *)
(* see under the footprints that text carried.                             *)
AnswersGoverned ==
    \A t \in Threads : \A f \in answer[t] : Permitted(f, session[t])

(* A settled chunk: no change of it is being applied or was given up on.   *)
Settled(c) ==
    /\ \A e \in cdc.event : e.chunk # c
    /\ c \notin deadLetter

(* Once a change has been applied, no cache hit is served for an entry     *)
(* listing a chunk the session is now denied or that is gone: the entry    *)
(* was either invalidated before the touch or re-governed after the change. *)
HitStep ==
    \A t \in Threads : pc[t] = "touch" /\ pc'[t] = "hit" =>
        \A e \in held[t] : \A c \in e.chunk_ids :
            Settled(c) => c \in Regoverned(e.chunk_ids, session[t])

NoHitOnRevokedChunk == [][HitStep]_vars

(* A cached answer shows an outdated version of a live chunk it lists only *)
(* if that chunk was being changed while the answer was computed.  For all *)
(* other answers invalidation and re-indexing leave nothing stale behind.  *)
(* (With self-RAG the answer may use a chunk its entry does not list: put  *)
(* stores the ids of the first retrieval, the loop retrieves again, and    *)
(* the change of another chunk in between may have moved the ranking.)     *)
StaleOnlyIfOverlapped ==
    \A e \in entries : \A f \in e.answer :
        \/ f.id \in e.overlap
        \/ f.id \notin e.chunk_ids
        \/ chunks[f.id] \in {f.ver, Absent}
        \/ ~Settled(f.id)

(* When the consumer rests, both indexes hold the pipeline's version of    *)
(* every chunk that is there and whose last change was not given up on.    *)
IndexesCatchUp ==
    cdc.pc = "idle" =>
        \A c \in ChunkIds \ deadLetter :
            chunks[c] # Absent => dense[c] = chunks[c] /\ lex[c] = chunks[c]

-----------------------------------------------------------------------------
(* What the repository says and the code does not keep.                     *)

(* filter.py: citations "can only ever see the redaction token": what a    *)
(* response cites raw is allowed to its reader.                            *)
CitationsRedacted ==
    \A t \in Threads : \A f \in cites[t] : Permitted(f, session[t])

(* cdc/__init__.py: "delete/reclassify propagate to retrieval": a deleted  *)
(* chunk is in no index once the consumer has applied the delete.          *)
DeletedUnretrievable ==
    cdc.pc = "idle" =>
        \A c \in ChunkIds : chunks[c] = Absent => dense[c] = Absent /\ lex[c] = Absent

(* cdc/__init__.py: "a data change must NEVER leave stale authorization    *)
(* reachable": what a cache hit shows is permitted to its reader under the *)
(* footprints the pipeline holds when it is served.                        *)
HitsCurrentlyAuthorized ==
    \A t \in Threads : pc[t] = "respond" /\ held[t] # {} =>
        \A f \in answer[t] :
            Settled(f.id) /\ chunks[f.id] # Absent
                => Permitted([f EXCEPT !.ver = chunks[f.id]], session[t])
=============================================================================
