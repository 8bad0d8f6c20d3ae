-------------------------- MODULE QueryPipelineProofs --------------------------
(***************************************************************************)
(* Theorems of QueryPipeline for every set of threads, chunks, footprints, *)
(* change events, sessions and bounds.                                     *)
(***************************************************************************)
EXTENDS QueryPipeline, TLAPS

-----------------------------------------------------------------------------
(* What the governance operators return.                                    *)

(* The redacted objects show facts about admitted objects, raw text only   *)
(* under "allow": every fact is one its session is permitted to see.       *)
LEMMA RevealPermitted ==
    ASSUME NEW R \in SUBSET Objects, NEW s
    PROVE  /\ Admit(R, s) \in SUBSET Objects
           /\ Reveal(R, s) \in SUBSET Facts
           /\ \A f \in Reveal(R, s) : Permitted(f, s)
<1>1. Admit(R, s) \in SUBSET Objects
      BY DEF Admit
<1>2. ASSUME NEW f \in Reveal(R, s) PROVE f \in Facts /\ Permitted(f, s)
  <2>1. PICK o \in Admit(R, s) :
            f = [id |-> o.id, ver |-> o.ver, raw |-> Decision(o, s) = "allow"]
        BY <1>2 DEF Reveal
  <2>2. o \in Objects /\ Decision(o, s) # "deny"
        BY <2>1 DEF Admit
  <2>3. f.id = o.id /\ f.ver = o.ver /\ f.raw = (Decision(o, s) = "allow")
        BY <2>1
  <2>4. f \in Facts
        BY <2>1, <2>2 DEF Objects, Facts
  <2>5. Permitted(f, s)
        BY <2>2, <2>3 DEF Permitted, Decision
  <2>6. QED BY <2>4, <2>5
<1>3. QED BY <1>1, <1>2

LEMMA RetrievalsAreObjects ==
    ASSUME NEW d, NEW l, NEW R \in Retrievals(d, l)
    PROVE  R \in SUBSET Objects
BY DEF Retrievals

(* Sessions of one authorization scope are told apart by nothing the       *)
(* access decision reads.                                                  *)
LEMMA ScopeIsSession ==
    ASSUME NEW s \in Sessions, NEW r \in Sessions, ScopeOf(s) = ScopeOf(r)
    PROVE  s = r
BY DEF ScopeOf, Sessions

-----------------------------------------------------------------------------
LEMMA NewEntryType ==
    ASSUME TypeOK, NEW t \in Threads
    PROVE  NewEntry(t) \in Entry
<1>1. session[t] \in Sessions /\ query[t] \in Queries
      BY ConstantAssumption DEF TypeOK
<1>2. ScopeOf(session[t]) \in Clearances \X SUBSET Roles
      BY <1>1 DEF ScopeOf, Sessions
<1>3. Ids(admitted[t]) \in SUBSET ChunkIds
      BY DEF TypeOK, Ids, Objects
<1>4. clock + 1 \in Nat /\ answer[t] \in SUBSET Facts /\ overlap[t] \in SUBSET ChunkIds
      BY DEF TypeOK
<1>5. QED BY <1>1, <1>2, <1>3, <1>4 DEF NewEntry, Entry

LEMMA InitType == Init => TypeOK
<1> SUFFICES ASSUME Init PROVE TypeOK
    OBVIOUS
<1>1. IdleSession \in SessionPool /\ IdleQuery \in Queries
      BY ConstantAssumption DEF IdleSession, IdleQuery
<1>2. 0 \in Versions /\ chunks \in Holding /\ dense \in Holding /\ lex \in Holding
      BY ConstantAssumption DEF Init, Holding, Versions
<1>3. /\ snap \in [Threads -> Holding] /\ applied \in Holding
      BY DEF Init, Holding
<1>4. QED BY <1>1, <1>2, <1>3 DEF Init, TypeOK

(* The actions of a handler thread keep every variable in its type.        *)
LEMMA HandlerType ==
    ASSUME TypeOK, NEW t \in Threads, Arrive(t) \/ Handle(t)
    PROVE  TypeOK'
<1> USE DEF TypeOK
<1>1. CASE Arrive(t)
  <2>1. Unindexed \in SUBSET ChunkIds
        BY DEF Unindexed
  <2>2. QED BY <1>1, <2>1 DEF Arrive, Goto, shared, cacheVars, work, cdcVars
<1>2. CASE ScanHit(t)
  <2>1. \A e \in BestMatches(query[t], session[t]) : {e} \in SUBSET Entry
        BY DEF BestMatches, Candidates
  <2>2. held' \in [Threads -> SUBSET Entry]
        BY <1>2, <2>1 DEF ScanHit
  <2>3. QED BY <1>2, <2>2 DEF ScanHit, Goto, shared, cacheVars, request, cdcVars
<1>3. CASE ScanMiss(t)
      BY <1>3 DEF ScanMiss, Goto, shared, cacheVars, request, work, cdcVars
<1>4. CASE Regovern(t)
      BY <1>4 DEF Regovern, shared, cacheVars, request, cdcVars
<1>5. CASE Touch(t)
  <2>1. entries' \in SUBSET Entry /\ clock' \in Nat
    <3>1. PICK e \in held[t] : TouchEntry(e.key)
          BY <1>5 DEF Touch
    <3>2. PICK f \in entries : IF MostRecent(f) THEN UNCHANGED <<entries, clock>>
                               ELSE /\ clock' = clock + 1
                                    /\ entries' = (entries \ {f}) \cup {[f EXCEPT !.used = clock + 1]}
          BY <3>1 DEF TouchEntry
    <3>3. [f EXCEPT !.used = clock + 1] \in Entry
          BY DEF Entry
    <3>4. QED BY <3>2, <3>3
  <2>2. dirty' \in SUBSET (Threads \cup {Cdc})
        BY <1>5 DEF Touch, LeaveLoop, Iterating
  <2>3. QED BY <1>5, <2>1, <2>2 DEF Touch, Goto, shared, request, work, cdcVars
<1>6. CASE ServeHit(t)
  <2>1. PICK e \in held[t] :
            /\ answer' = [answer EXCEPT ![t] = e.answer]
            /\ cites' = [cites EXCEPT ![t] =
                           {f \in Facts : /\ f.id \in e.chunk_ids
                                          /\ f.ver = chunks[f.id] /\ f.raw}]
        BY <1>6 DEF ServeHit
  <2>2. e.answer \in SUBSET Facts
        BY DEF Entry
  <2>3. answer' \in [Threads -> SUBSET Facts] /\ cites' \in [Threads -> SUBSET Facts]
        BY <2>1, <2>2
  <2>4. QED BY <1>6, <2>3 DEF ServeHit, Goto, shared, cacheVars, request, cdcVars
<1>7. CASE RetrieveDense(t)
      BY <1>7 DEF RetrieveDense, Goto, shared, cacheVars, request, cdcVars
<1> DEFINE blank == [c \in ChunkIds |-> Absent]
<1>8. blank \in Holding
      BY DEF Holding
<1> HIDE DEF blank
<1>9. CASE RetrieveAndGovern(t)
  <2>1. PICK R \in Retrievals(snap[t], lex) :
            /\ admitted' = [admitted EXCEPT ![t] = Admit(R, session[t])]
            /\ cites' = [cites EXCEPT ![t] = Reveal(R, session[t])]
            /\ IF SelfRag
               THEN pc' = [pc EXCEPT ![t] = "loopdense"] /\ UNCHANGED answer
               ELSE /\ pc' = [pc EXCEPT ![t] = "put"]
                    /\ answer' = [answer EXCEPT ![t] = Reveal(R, session[t])]
        BY <1>9 DEF RetrieveAndGovern
  <2>2. Admit(R, session[t]) \in SUBSET Objects /\ Reveal(R, session[t]) \in SUBSET Facts
        BY RetrievalsAreObjects, RevealPermitted
  <2>3. snap' = [snap EXCEPT ![t] = blank]
        BY <1>9 DEF RetrieveAndGovern, ClearSnap, blank
  <2>4. QED BY <1>8, <1>9, <2>1, <2>2, <2>3
            DEF RetrieveAndGovern, shared, cacheVars, request, cdcVars
<1>10. CASE LoopRetrieveDense(t)
      BY <1>10 DEF LoopRetrieveDense, Goto, shared, cacheVars, request, cdcVars
<1>11. CASE LoopGenerate(t)
  <2> PICK R \in Retrievals(snap[t], lex) :
            \E shown \in {Reveal(R, session[t]), {}} : answer' = [answer EXCEPT ![t] = shown]
      BY <1>11 DEF LoopGenerate
  <2>1. PICK shown \in {Reveal(R, session[t]), {}} : answer' = [answer EXCEPT ![t] = shown]
        OBVIOUS
  <2>2. shown \in SUBSET Facts
    <3>1. R \in SUBSET Objects
          BY RetrievalsAreObjects
    <3>2. Reveal(R, session[t]) \in SUBSET Facts
          BY <3>1, RevealPermitted
    <3>3. QED BY <2>1, <3>2
  <2>3. snap' = [snap EXCEPT ![t] = blank]
        BY <1>11 DEF LoopGenerate, ClearSnap, blank
  <2>4. QED BY <1>8, <1>11, <2>1, <2>2, <2>3
            DEF LoopGenerate, Goto, shared, cacheVars, request, cdcVars
<1>12. CASE Put(t)
  <2>1. entries' \in SUBSET Entry
        BY <1>12, NewEntryType DEF Put
  <2>2. dirty' \in SUBSET (Threads \cup {Cdc})
        BY <1>12 DEF Put, LeaveLoop, Iterating
  <2>3. QED BY <1>12, <2>1, <2>2 DEF Put, Goto, shared, request, work, cdcVars
<1>13. CASE Evict(t)
  <2>1. entries' \in SUBSET Entry /\ expired' \in SUBSET Nat
        BY <1>13 DEF Evict, Kept
  <2>2. dirty' \in SUBSET (Threads \cup {Cdc})
        BY <1>13 DEF Evict, LeaveLoop, Iterating
  <2>3. QED BY <1>13, <2>1, <2>2 DEF Evict, Goto, shared, request, work, cdcVars
<1>14. IdleSession \in SessionPool /\ IdleQuery \in Queries
      BY ConstantAssumption DEF IdleSession, IdleQuery
<1>15. CASE Respond(t)
      BY <1>14, <1>15 DEF Respond, Forget, Goto, shared, cacheVars, cdcVars
<1>16. CASE Fail(t)
      BY <1>14, <1>16 DEF Fail, Forget, shared, cacheVars, cdcVars
<1>17. QED
      BY <1>1, <1>2, <1>3, <1>4, <1>5, <1>6, <1>7, <1>9, <1>10, <1>11, <1>12, <1>13, <1>15, <1>16
      DEF Handle, Lookup, Answer, Store

LEMMA ConsumerType ==
    ASSUME TypeOK, Deliver \/ Apply \/ Expire
    PROVE  TypeOK'
<1> USE DEF TypeOK
<1>1. \A e \in Events : /\ e.chunk \in ChunkIds /\ e.version \in Versions
                        /\ e.op \in Ops
      BY ConstantAssumption
<1>2. CASE Deliver
      BY <1>2 DEF Deliver, shared, cacheVars, request, work
<1>3. CASE StoreChange
  <2>1. PICK e \in cdc.event :
            /\ chunks' = [chunks EXCEPT ![e.chunk] =
                            IF e.op = "delete" THEN Absent ELSE e.version]
            /\ overlap' = [t \in Threads |->
                            IF pc[t] = "idle" THEN {} ELSE overlap[t] \cup {e.chunk}]
        BY <1>3 DEF StoreChange
  <2>2. e.chunk \in ChunkIds /\ e.version \in Versions
        BY <1>1
  <2>3. chunks' \in Holding
        BY <2>1, <2>2 DEF Holding
  <2>4. overlap' \in [Threads -> SUBSET ChunkIds]
        BY <2>1, <2>2
  <2>5. cdc' = [cdc EXCEPT !.pc = "invalidate"]
        BY <1>3 DEF StoreChange, Stream
  <2>6. QED BY <1>3, <2>3, <2>4, <2>5 DEF StoreChange, cacheVars, request, work
<1>4. CASE Invalidate
  <2>1. PICK e \in cdc.event :
            /\ entries' = entries \ Referencing(e.chunk)
            /\ applied' = [applied EXCEPT ![e.chunk] = e.version]
            /\ deadLetter' = deadLetter \ {e.chunk}
            /\ cdc' = IF e.op = "delete"
                      THEN [pc |-> "idle", event |-> {}, attempt |-> 0]
                      ELSE [cdc EXCEPT !.pc = "indexdense"]
        BY <1>4 DEF Invalidate
  <2>2. e.chunk \in ChunkIds /\ e.version \in Versions
        BY <1>1
  <2>3. applied' \in Holding
        BY <2>1, <2>2 DEF Holding
  <2>4. dirty' \in SUBSET (Threads \cup {Cdc})
        BY <1>4 DEF Invalidate, LeaveLoop, Iterating
  <2>5. expired' \in SUBSET Nat
        BY <1>4 DEF Invalidate
  <2>6. QED BY <1>4, <2>1, <2>3, <2>4, <2>5 DEF Invalidate, shared, request, work
<1>5. CASE InvalidateFails
  <2>1. PICK e \in cdc.event :
            /\ \E gone \in SUBSET Referencing(e.chunk) : entries' = entries \ gone
            /\ IF cdc.attempt < MaxRetries
               THEN /\ cdc' = [cdc EXCEPT !.pc = "store", !.attempt = cdc.attempt + 1]
                    /\ UNCHANGED deadLetter
               ELSE /\ cdc' = [pc |-> "idle", event |-> {}, attempt |-> 0]
                    /\ deadLetter' = deadLetter \cup {e.chunk}
        BY <1>5 DEF InvalidateFails
  <2>2. e.chunk \in ChunkIds
        BY <1>1
  <2>3. dirty' \in SUBSET (Threads \cup {Cdc})
        BY <1>5 DEF InvalidateFails, LeaveLoop, Iterating
  <2>4. expired' \in SUBSET Nat
        BY <1>5 DEF InvalidateFails
  <2>5. /\ cdc' \in [pc : {"idle", "store", "invalidate", "indexdense", "indexlex"},
                      event : SUBSET Events, attempt : Nat]
        /\ deadLetter' \in SUBSET ChunkIds
    <3>1. CASE cdc.attempt < MaxRetries
      <4>1. /\ cdc' = [cdc EXCEPT !.pc = "store", !.attempt = cdc.attempt + 1]
            /\ deadLetter' = deadLetter
            BY <2>1, <3>1
      <4>2. cdc.attempt + 1 \in Nat
            OBVIOUS
      <4>3. QED BY <4>1, <4>2
    <3>2. CASE ~(cdc.attempt < MaxRetries)
          BY <2>1, <2>2, <3>2
    <3>3. QED BY <3>1, <3>2
  <2>6. entries' \in SUBSET Entry
        BY <2>1
  <2>7. QED BY <1>5, <2>3, <2>4, <2>5, <2>6 DEF InvalidateFails, shared, request, work
<1>6. CASE IndexDense
      BY <1>6 DEF IndexDense, Stream, cacheVars, request, work
<1>7. CASE IndexLex
      BY <1>7 DEF IndexLex, cacheVars, request, work
<1>8. CASE Expire
      BY <1>8 DEF Expire, Entry, shared, request, work, cdcVars
<1>9. QED BY <1>2, <1>3, <1>4, <1>5, <1>6, <1>7, <1>8 DEF Apply

LEMMA NextType == TypeOK /\ [Next]_vars => TypeOK'
<1>1. ASSUME TypeOK, UNCHANGED vars PROVE TypeOK'
      BY <1>1 DEF TypeOK, vars, shared, cacheVars, request, work, cdcVars
<1>2. QED BY <1>1, HandlerType, ConsumerType DEF Next

(* Every variable of the pipeline keeps its type.                          *)
THEOREM TypeCorrect == Spec => []TypeOK
BY InitType, NextType, PTL DEF Spec

-----------------------------------------------------------------------------
(* Governance of answers.  The invariant behind AnswersGoverned: an entry  *)
(* carries only what every session of its scope is permitted to see, and a *)
(* thread holds an entry of its own session's scope, if any.               *)

EntryGoverned(e) ==
    \A s \in Sessions : ScopeOf(s) = e.scope => \A f \in e.answer : Permitted(f, s)

Governed ==
    /\ AnswersGoverned
    /\ \A e \in entries : EntryGoverned(e)
    /\ \A t \in Threads : \A e \in held[t] :
          EntryGoverned(e) /\ e.scope = ScopeOf(session[t])
    /\ \A t \in Threads : pc[t] = "idle" => held[t] = {} /\ answer[t] = {}

LEMMA NewEntryGoverned ==
    ASSUME TypeOK, AnswersGoverned, NEW t \in Threads
    PROVE  EntryGoverned(NewEntry(t))
<1> SUFFICES ASSUME NEW s \in Sessions, ScopeOf(s) = NewEntry(t).scope,
                    NEW f \in NewEntry(t).answer
             PROVE  Permitted(f, s)
    BY DEF EntryGoverned
<1>1. session[t] \in Sessions
      BY ConstantAssumption DEF TypeOK
<1>2. NewEntry(t).scope = ScopeOf(session[t]) /\ NewEntry(t).answer = answer[t]
      BY DEF NewEntry
<1>3. s = session[t]
      BY <1>1, <1>2, ScopeIsSession
<1>4. QED BY <1>2, <1>3 DEF AnswersGoverned

LEMMA HandlerGoverned ==
    ASSUME TypeOK, Governed, NEW t \in Threads, Arrive(t) \/ Handle(t)
    PROVE  Governed'
<1> USE DEF Governed, AnswersGoverned
<1>1. CASE Arrive(t)
      BY <1>1 DEF Arrive, Goto, TypeOK, cacheVars, work, EntryGoverned
<1>2. CASE ScanHit(t)
  <2>1. PICK e \in entries : held' = [held EXCEPT ![t] = {e}] /\ e.scope = ScopeOf(session[t])
        BY <1>2 DEF ScanHit, BestMatches, Candidates
  <2>2. QED BY <1>2, <2>1 DEF ScanHit, Goto, TypeOK, cacheVars, request, EntryGoverned
<1>3. CASE ScanMiss(t)
      BY <1>3 DEF ScanMiss, Goto, TypeOK, cacheVars, request, work, EntryGoverned
<1>4. CASE Regovern(t)
  <2>1. held' = held \/ held' = [held EXCEPT ![t] = {}]
        BY <1>4 DEF Regovern
  <2>2. \A u \in Threads : pc'[u] = "idle" => pc[u] = "idle"
        BY <1>4 DEF Regovern, TypeOK
  <2>3. QED BY <1>4, <2>1, <2>2 DEF Regovern, TypeOK, cacheVars, request, EntryGoverned
<1>5. CASE Touch(t)
  <2>1. \A e \in entries' : EntryGoverned(e)
    <3>1. PICK k \in held[t] : TouchEntry(k.key)
          BY <1>5 DEF Touch
    <3>2. PICK f \in entries : \/ entries' = entries
                               \/ entries' = (entries \ {f}) \cup {[f EXCEPT !.used = clock + 1]}
          BY <3>1 DEF TouchEntry
    <3>3. [f EXCEPT !.used = clock + 1].scope = f.scope /\ [f EXCEPT !.used = clock + 1].answer = f.answer
          BY DEF TypeOK, Entry
    <3>4. QED BY <3>2, <3>3 DEF EntryGoverned
  <2>2. QED BY <1>5, <2>1 DEF Touch, Goto, TypeOK, request, work, EntryGoverned
<1>6. CASE ServeHit(t)
  <2>1. PICK e \in held[t] : answer' = [answer EXCEPT ![t] = e.answer]
        BY <1>6 DEF ServeHit
  <2>2. \A f \in e.answer : Permitted(f, session[t])
        BY <2>1, ConstantAssumption DEF EntryGoverned, TypeOK
  <2>3. QED BY <1>6, <2>1, <2>2 DEF ServeHit, Goto, TypeOK, cacheVars, request, EntryGoverned
<1>7. CASE RetrieveDense(t) \/ LoopRetrieveDense(t)
      BY <1>7 DEF RetrieveDense, LoopRetrieveDense, Goto, TypeOK, cacheVars, request, EntryGoverned
<1>8. CASE RetrieveAndGovern(t)
  <2>1. PICK R \in Retrievals(snap[t], lex) :
            \/ answer' = answer
            \/ answer' = [answer EXCEPT ![t] = Reveal(R, session[t])]
        BY <1>8 DEF RetrieveAndGovern
  <2>2. \A f \in Reveal(R, session[t]) : Permitted(f, session[t])
        BY RetrievalsAreObjects, RevealPermitted
  <2>3. \A u \in Threads : pc'[u] = "idle" => pc[u] = "idle" /\ u # t
        BY <1>8 DEF RetrieveAndGovern, TypeOK
  <2>4. QED BY <1>8, <2>1, <2>2, <2>3 DEF RetrieveAndGovern, TypeOK, cacheVars, request, EntryGoverned
<1>9. CASE LoopGenerate(t)
  <2>1. PICK R \in Retrievals(snap[t], lex) :
            \/ answer' = [answer EXCEPT ![t] = {}]
            \/ answer' = [answer EXCEPT ![t] = Reveal(R, session[t])]
        BY <1>9 DEF LoopGenerate
  <2>2. \A f \in Reveal(R, session[t]) : Permitted(f, session[t])
        BY RetrievalsAreObjects, RevealPermitted
  <2>3. QED BY <1>9, <2>1, <2>2 DEF LoopGenerate, Goto, TypeOK, cacheVars, request, EntryGoverned
<1>10. CASE Put(t)
  <2>1. \A e \in entries' : EntryGoverned(e)
        BY <1>10, NewEntryGoverned DEF Put
  <2>2. QED BY <1>10, <2>1 DEF Put, Goto, TypeOK, request, work, EntryGoverned
<1>11. CASE Evict(t)
      BY <1>11 DEF Evict, Kept, Goto, TypeOK, request, work, EntryGoverned
<1>12. CASE Respond(t)
      BY <1>12 DEF Respond, Forget, Goto, TypeOK, cacheVars, EntryGoverned
<1>13. CASE Fail(t)
      BY <1>13 DEF Fail, Forget, TypeOK, cacheVars, EntryGoverned
<1>14. QED
      BY <1>1, <1>2, <1>3, <1>4, <1>5, <1>6, <1>7, <1>8, <1>9, <1>10, <1>11, <1>12, <1>13
      DEF Handle, Lookup, Answer, Store

LEMMA ConsumerGoverned ==
    ASSUME Governed, Deliver \/ Apply \/ Expire
    PROVE  Governed'
<1>1. entries' \subseteq entries /\ UNCHANGED <<pc, request, work>>
      BY DEF Apply, Deliver, StoreChange, Invalidate, InvalidateFails, IndexDense, IndexLex,
             Expire, cacheVars
<1>2. QED BY <1>1 DEF Governed, AnswersGoverned, EntryGoverned, request, work

(* Every answer, computed or served from the cache, shows its reader only  *)
(* what the footprint of the text it was made from permits the reader.     *)
THEOREM AnswersAreGoverned == Spec => []AnswersGoverned
<1>1. Init => Governed
      BY DEF Init, Governed, AnswersGoverned
<1>2. TypeOK /\ Governed /\ [Next]_vars => Governed'
  <2>1. ASSUME Governed, UNCHANGED vars PROVE Governed'
        BY <2>1 DEF Governed, AnswersGoverned, EntryGoverned, vars, cacheVars, request, work
  <2>2. QED BY <2>1, HandlerGoverned, ConsumerGoverned DEF Next
<1>3. Governed => AnswersGoverned
      BY DEF Governed
<1>4. QED BY <1>1, <1>2, <1>3, TypeCorrect, PTL DEF Spec

-----------------------------------------------------------------------------
(* Propagation of changes to the indexes.  While an event is being applied *)
(* its own chunk may be out of step, and a chunk whose event was given up  *)
(* on stays so; every other chunk is indexed as the pipeline holds it.     *)

Indexed(c) == chunks[c] # Absent => dense[c] = chunks[c] /\ lex[c] = chunks[c]
InProgress(c) == \E e \in cdc.event : e.chunk = c

Propagated ==
    /\ cdc.pc = "idle" => cdc.event = {}
    /\ \A e, f \in cdc.event : e = f
    /\ \A c \in ChunkIds \ deadLetter : InProgress(c) \/ Indexed(c)
    /\ cdc.pc = "invalidate" =>
          \A e \in cdc.event : e.op = "delete" => chunks[e.chunk] = Absent
    /\ cdc.pc = "indexlex" => dense = chunks

LEMMA ConsumerPropagated ==
    ASSUME TypeOK, Propagated, Deliver \/ Apply
    PROVE  Propagated'
<1> USE DEF Propagated, InProgress, Indexed
<1>1. CASE Deliver
  <2>1. PICK e \in Events : cdc' = [pc |-> "store", event |-> {e}, attempt |-> 0]
        BY <1>1 DEF Deliver
  <2>2. QED BY <1>1, <2>1 DEF Deliver, shared
<1>2. CASE StoreChange
  <2>1. PICK e \in cdc.event :
            chunks' = [chunks EXCEPT ![e.chunk] = IF e.op = "delete" THEN Absent ELSE e.version]
        BY <1>2 DEF StoreChange
  <2>2. e \in Events /\ e.chunk \in ChunkIds /\ cdc.event = {e}
        BY <2>1, ConstantAssumption DEF TypeOK
  <2>3. cdc'.pc = "invalidate" /\ cdc'.event = cdc.event
        BY <1>2 DEF StoreChange, Stream, TypeOK
  <2>4. \A c \in ChunkIds : c # e.chunk => chunks'[c] = chunks[c]
        BY <2>1, <2>2 DEF TypeOK, Holding
  <2>5. e.op = "delete" => chunks'[e.chunk] = Absent
        BY <2>1, <2>2 DEF TypeOK, Holding
  <2>6. QED BY <1>2, <2>2, <2>3, <2>4, <2>5 DEF StoreChange
<1>3. CASE Invalidate
  <2>1. PICK e \in cdc.event :
            /\ deadLetter' = deadLetter \ {e.chunk}
            /\ cdc' = IF e.op = "delete"
                      THEN [pc |-> "idle", event |-> {}, attempt |-> 0]
                      ELSE [cdc EXCEPT !.pc = "indexdense"]
        BY <1>3 DEF Invalidate
  <2>2. cdc.pc = "invalidate" /\ UNCHANGED shared
        BY <1>3 DEF Invalidate
  <2>3. CASE e.op = "delete"
    <3>1. cdc'.pc = "idle" /\ cdc'.event = {}
          BY <2>1, <2>3
    <3>2. chunks[e.chunk] = Absent
          BY <2>2, <2>3
    <3>3. \A c \in ChunkIds : InProgress(c) => c = e.chunk
          BY <2>1
    <3>4. \A c \in ChunkIds \ deadLetter' : Indexed(c)
          BY <2>1, <3>2, <3>3
    <3>5. QED BY <2>2, <3>1, <3>4 DEF shared
  <2>4. CASE e.op # "delete"
    <3>1. cdc'.pc = "indexdense" /\ cdc'.event = cdc.event
          BY <2>1, <2>4 DEF TypeOK
    <3>2. QED BY <2>1, <2>2, <3>1 DEF shared
  <2>5. QED BY <2>3, <2>4
<1>4. CASE InvalidateFails
  <2>1. PICK e \in cdc.event :
            IF cdc.attempt < MaxRetries
            THEN /\ cdc' = [cdc EXCEPT !.pc = "store", !.attempt = cdc.attempt + 1]
                 /\ UNCHANGED deadLetter
            ELSE /\ cdc' = [pc |-> "idle", event |-> {}, attempt |-> 0]
                 /\ deadLetter' = deadLetter \cup {e.chunk}
        BY <1>4 DEF InvalidateFails
  <2>2. UNCHANGED shared
        BY <1>4 DEF InvalidateFails
  <2>3. CASE cdc.attempt < MaxRetries
    <3>1. cdc'.pc = "store" /\ cdc'.event = cdc.event /\ deadLetter' = deadLetter
          BY <2>1, <2>3 DEF TypeOK
    <3>2. QED BY <2>2, <3>1 DEF shared
  <2>4. CASE ~(cdc.attempt < MaxRetries)
    <3>1. cdc'.pc = "idle" /\ cdc'.event = {} /\ deadLetter' = deadLetter \cup {e.chunk}
          BY <2>1, <2>4
    <3>2. \A c \in ChunkIds : InProgress(c) => c = e.chunk
          BY <2>1
    <3>3. QED BY <2>2, <3>1, <3>2 DEF shared
  <2>5. QED BY <2>3, <2>4
<1>5. CASE IndexDense
  <2>1. cdc'.pc = "indexlex" /\ cdc'.event = cdc.event
        BY <1>5 DEF IndexDense, Stream, TypeOK
  <2>2. QED BY <1>5, <2>1 DEF IndexDense
<1>6. CASE IndexLex
      BY <1>6 DEF IndexLex
<1>7. QED BY <1>1, <1>2, <1>3, <1>4, <1>5, <1>6 DEF Apply

LEMMA ElsewherePropagated ==
    ASSUME Propagated, UNCHANGED <<shared, cdcVars>>
    PROVE  Propagated'
BY DEF Propagated, InProgress, Indexed, shared, cdcVars

LEMMA HandlersReadOnly ==
    ASSUME NEW t \in Threads, Arrive(t) \/ Handle(t)
    PROVE  UNCHANGED <<shared, cdcVars>>
BY DEF Arrive, Handle, Lookup, Answer, Store, ScanHit, ScanMiss, Regovern, Touch, ServeHit,
       RetrieveDense, RetrieveAndGovern, LoopRetrieveDense, LoopGenerate, Put, Evict,
       Respond, Fail

LEMMA PropagatedInvariant == Spec => []Propagated
<1>1. Init => Propagated
      BY DEF Init, Propagated, Indexed
<1>2. TypeOK /\ Propagated /\ [Next]_vars => Propagated'
  <2>1. Expire \/ UNCHANGED vars => UNCHANGED <<shared, cdcVars>>
        BY DEF Expire, vars
  <2>2. QED BY <2>1, ConsumerPropagated, ElsewherePropagated, HandlersReadOnly DEF Next
<1>3. QED BY <1>1, <1>2, TypeCorrect, PTL DEF Spec

(* Whenever the consumer rests, both indexes hold the pipeline's version   *)
(* of every chunk that is there and whose last change was not dropped.     *)
THEOREM IndexesAreCaughtUp == Spec => []IndexesCatchUp
<1>1. Propagated => IndexesCatchUp
      BY DEF Propagated, IndexesCatchUp, InProgress, Indexed
<1>2. QED BY <1>1, PropagatedInvariant, PTL

-----------------------------------------------------------------------------
(* Hits on revoked chunks.  A thread about to touch an entry re-governed   *)
(* it some steps ago.  As long as the entry is still in the cache, that    *)
(* verdict holds for every chunk whose change has passed its invalidation. *)

(* Entries of one key, cached or held by a thread, list the same chunks,   *)
(* and no key is in use that the clock has not handed out.                 *)
KeysIdentify ==
    /\ \A e, f \in entries : e.key = f.key => e.chunk_ids = f.chunk_ids
    /\ \A t \in Threads : \A e \in held[t] : \A f \in entries :
          e.key = f.key => e.chunk_ids = f.chunk_ids
    /\ \A e \in entries : e.key <= clock
    /\ \A t \in Threads : \A e \in held[t] : e.key <= clock

Invalidated(c) ==
    /\ c \notin deadLetter
    /\ InProgress(c) => cdc.pc \in {"indexdense", "indexlex"}

Readable(c, s) == chunks[c] # Absent /\ Decision([id |-> c, ver |-> chunks[c]], s) # "deny"

TouchesReadable ==
    \A t \in Threads : pc[t] = "touch" =>
        \A e \in held[t] : (\E f \in entries : f.key = e.key) =>
            \A c \in e.chunk_ids : Invalidated(c) => Readable(c, session[t])

HeldAlone == \A t \in Threads : \A e, f \in held[t] : e = f

Revoking == KeysIdentify /\ TouchesReadable /\ HeldAlone

LEMMA RegovernedIsReadable ==
    ASSUME NEW ids, NEW s, NEW c
    PROVE  c \in Regoverned(ids, s) <=> c \in ids /\ Readable(c, s)
BY DEF Regoverned, Readable

LEMMA InitRevoking == Init => Revoking
BY DEF Init, Revoking, KeysIdentify, TouchesReadable, HeldAlone

(* A step that adds no entry and leaves the threads alone.                 *)
LEMMA FewerEntries ==
    ASSUME KeysIdentify, HeldAlone, entries' \subseteq entries, UNCHANGED <<clock, held>>
    PROVE  KeysIdentify' /\ HeldAlone'
BY DEF KeysIdentify, HeldAlone

LEMMA HandlerKeys ==
    ASSUME TypeOK, KeysIdentify, HeldAlone, NEW t \in Threads, Arrive(t) \/ Handle(t)
    PROVE  KeysIdentify' /\ HeldAlone'
<1> USE DEF KeysIdentify, HeldAlone
<1>1. CASE ScanHit(t)
  <2>1. PICK e \in entries : held' = [held EXCEPT ![t] = {e}]
        BY <1>1 DEF ScanHit, BestMatches, Candidates
  <2>2. QED BY <1>1, <2>1 DEF ScanHit, TypeOK, cacheVars
<1>2. CASE Regovern(t)
  <2>1. held' = held \/ held' = [held EXCEPT ![t] = {}]
        BY <1>2 DEF Regovern
  <2>2. QED BY <1>2, <2>1 DEF Regovern, TypeOK, cacheVars
<1>3. CASE Touch(t)
  <2>1. PICK k \in held[t] : TouchEntry(k.key)
        BY <1>3 DEF Touch
  <2>2. PICK f \in entries : \/ entries' = entries /\ clock' = clock
                             \/ /\ clock' = clock + 1
                                /\ entries' = (entries \ {f}) \cup {[f EXCEPT !.used = clock + 1]}
        BY <2>1 DEF TouchEntry
  <2>3. /\ [f EXCEPT !.used = clock + 1].key = f.key
        /\ [f EXCEPT !.used = clock + 1].chunk_ids = f.chunk_ids
        BY DEF TypeOK, Entry
  <2>4. \A e \in entries' : \E g \in entries : e.key = g.key /\ e.chunk_ids = g.chunk_ids
        BY <2>2, <2>3
  <2>5. clock' \in Nat /\ clock <= clock' /\ \A e \in entries : e.key \in Nat
        BY <2>2 DEF TypeOK, Entry
  <2>6. \A u \in Threads : \A e \in held[u] : e.key \in Nat
        BY DEF TypeOK, Entry
  <2>7. UNCHANGED held
        BY <1>3 DEF Touch, work
  <2>8. QED BY <2>4, <2>5, <2>6, <2>7 DEF TypeOK
<1>4. CASE Put(t)
  <2>1. entries' = entries \cup {NewEntry(t)} /\ clock' = clock + 1 /\ UNCHANGED held
        BY <1>4 DEF Put, work
  <2>2. NewEntry(t).key = clock + 1
        BY DEF NewEntry
  <2>3. clock \in Nat /\ \A e \in entries : e.key \in Nat
        BY DEF TypeOK, Entry
  <2>4. \A u \in Threads : \A e \in held[u] : e.key \in Nat
        BY DEF TypeOK, Entry
  <2>5. QED BY <2>1, <2>2, <2>3, <2>4
<1>5. CASE Respond(t) \/ Fail(t)
  <2>1. held' = [held EXCEPT ![t] = {}] /\ UNCHANGED <<entries, clock>>
        BY <1>5 DEF Respond, Fail, Forget, cacheVars
  <2>2. QED BY <2>1 DEF TypeOK
<1>6. CASE ~(ScanHit(t) \/ Regovern(t) \/ Touch(t) \/ Put(t) \/ Respond(t) \/ Fail(t))
  <2>1. entries' \subseteq entries /\ UNCHANGED <<clock, held>>
        BY <1>6 DEF Arrive, Handle, Lookup, Answer, Store, ScanMiss, ServeHit, RetrieveDense,
                    RetrieveAndGovern, LoopRetrieveDense, LoopGenerate, Evict, Kept,
                    cacheVars, work
  <2>2. QED BY <2>1, FewerEntries
<1>7. QED BY <1>1, <1>2, <1>3, <1>4, <1>5, <1>6

(* No handler step brings back the key of an entry a thread holds.         *)
LEMMA KeysStayGone ==
    ASSUME TypeOK, KeysIdentify, NEW t \in Threads, Arrive(t) \/ Handle(t),
           NEW u \in Threads, NEW e \in held[u], \E f \in entries' : f.key = e.key
    PROVE  \E f \in entries : f.key = e.key
<1>1. CASE Touch(t)
  <2>1. PICK k \in held[t] : TouchEntry(k.key)
        BY <1>1 DEF Touch
  <2>2. PICK f \in entries : \/ entries' = entries
                             \/ entries' = (entries \ {f}) \cup {[f EXCEPT !.used = clock + 1]}
        BY <2>1 DEF TouchEntry
  <2>3. [f EXCEPT !.used = clock + 1].key = f.key
        BY DEF TypeOK, Entry
  <2>4. QED BY <2>2, <2>3
<1>2. CASE Put(t)
  <2>1. entries' = entries \cup {NewEntry(t)} /\ NewEntry(t).key = clock + 1
        BY <1>2 DEF Put, NewEntry
  <2>2. clock \in Nat /\ e.key \in Nat /\ e.key <= clock
        BY DEF TypeOK, Entry, KeysIdentify
  <2>3. QED BY <2>1, <2>2
<1>3. CASE ~(Touch(t) \/ Put(t))
  <2>1. entries' \subseteq entries
        BY <1>3 DEF Arrive, Handle, Lookup, Answer, Store, ScanHit, ScanMiss, Regovern, ServeHit,
                    RetrieveDense, RetrieveAndGovern, LoopRetrieveDense, LoopGenerate, Evict,
                    Kept, Respond, Fail, cacheVars
  <2>2. QED BY <2>1
<1>4. QED BY <1>1, <1>2, <1>3

LEMMA HandlerTouches ==
    ASSUME TypeOK, KeysIdentify, TouchesReadable, HeldAlone,
           NEW t \in Threads, Arrive(t) \/ Handle(t)
    PROVE  TouchesReadable'
<1>1. UNCHANGED <<chunks, cdc, deadLetter>>
      BY HandlersReadOnly DEF shared, cdcVars
<1>2. ASSUME NEW u \in Threads, u # t
      PROVE  pc'[u] = pc[u] /\ held'[u] = held[u] /\ session'[u] = session[u]
      BY <1>2 DEF TypeOK, Arrive, Handle, Lookup, Answer, Store, ScanHit, ScanMiss, Regovern,
                  Touch, ServeHit, RetrieveDense, RetrieveAndGovern, LoopRetrieveDense,
                  LoopGenerate, Put, Evict, Respond, Fail, Forget, Goto, request, work
<1>3. CASE Regovern(t)
  <2>1. UNCHANGED <<entries, session>>
        BY <1>3 DEF Regovern, cacheVars, request
  <2>2. PICK e \in held[t] :
            IF Regoverned(e.chunk_ids, session[t]) = e.chunk_ids
            THEN pc' = [pc EXCEPT ![t] = "touch"] /\ UNCHANGED held
            ELSE pc' = [pc EXCEPT ![t] = "dense"] /\ held' = [held EXCEPT ![t] = {}]
        BY <1>3 DEF Regovern
  <2>3. CASE Regoverned(e.chunk_ids, session[t]) = e.chunk_ids
    <3>1. \A c \in e.chunk_ids : Readable(c, session[t])
          BY <2>3, RegovernedIsReadable
    <3>2. held[t] = {e}
          BY DEF HeldAlone
    <3>3. held' = held
          BY <2>2, <2>3
    <3>4. QED
          BY <1>1, <1>2, <2>1, <3>1, <3>2, <3>3 DEF TouchesReadable, Invalidated, InProgress, Readable
  <2>4. CASE Regoverned(e.chunk_ids, session[t]) # e.chunk_ids
    <3>1. held'[t] = {}
          BY <2>2, <2>4 DEF TypeOK
    <3>2. QED
          BY <1>1, <1>2, <2>1, <3>1 DEF TouchesReadable, Invalidated, InProgress, Readable
  <2>5. QED BY <2>3, <2>4
<1>4. CASE ~Regovern(t)
  <2>1. pc'[t] # "touch"
        BY <1>4 DEF TypeOK, Arrive, Handle, Lookup, Answer, Store, ScanHit, ScanMiss,
                  Touch, ServeHit, RetrieveDense, RetrieveAndGovern, LoopRetrieveDense,
                  LoopGenerate, Put, Evict, Respond, Fail, Goto
  <2>2. QED
    BY <1>1, <1>2, <2>1, KeysStayGone DEF TouchesReadable, Invalidated, InProgress, Readable
<1>5. QED BY <1>3, <1>4

(* The change consumer takes no entry's verdict back: what it rewrites is  *)
(* not invalidated yet, and what it invalidates takes the entries along.   *)
LEMMA ConsumerTouches ==
    ASSUME TypeOK, Propagated, KeysIdentify, TouchesReadable, Deliver \/ Apply \/ Expire
    PROVE  TouchesReadable'
<1>1. /\ entries' \subseteq entries
      /\ UNCHANGED <<pc, held, session>>
      BY DEF Apply, Deliver, StoreChange, Invalidate, InvalidateFails, IndexDense, IndexLex,
             Expire, cacheVars, request, work
<1>2. SUFFICES ASSUME NEW t \in Threads, pc[t] = "touch", NEW e \in held[t],
                      NEW f \in entries', f.key = e.key, NEW c \in e.chunk_ids, Invalidated(c)'
               PROVE  Invalidated(c) /\ chunks'[c] = chunks[c]
      BY <1>1 DEF TouchesReadable, Readable
<1> c \in ChunkIds
    BY DEF TypeOK, Entry
<1> USE DEF Invalidated, InProgress
<1>3. CASE Deliver
      BY <1>3, <1>2 DEF Deliver, Propagated, shared
<1>4. CASE StoreChange
  <2>1. PICK x \in cdc.event :
            chunks' = [chunks EXCEPT ![x.chunk] = IF x.op = "delete" THEN Absent ELSE x.version]
        BY <1>4 DEF StoreChange
  <2>2. cdc'.pc = "invalidate" /\ cdc'.event = cdc.event /\ deadLetter' = deadLetter
        BY <1>4 DEF StoreChange, Stream, TypeOK
  <2>3. c # x.chunk
        BY <1>2, <2>1, <2>2
  <2>4. QED BY <1>2, <2>1, <2>2, <2>3 DEF TypeOK, Holding
<1>5. CASE Invalidate
  <2>1. PICK x \in cdc.event :
            /\ entries' = entries \ Referencing(x.chunk)
            /\ deadLetter' = deadLetter \ {x.chunk}
        BY <1>5 DEF Invalidate
  <2>2. f.chunk_ids = e.chunk_ids
        BY <1>1, <1>2 DEF KeysIdentify
  <2>3. c # x.chunk
        BY <1>1, <1>2, <2>1, <2>2 DEF Referencing
  <2>4. UNCHANGED chunks
        BY <1>5 DEF Invalidate, shared
  <2>5. QED BY <1>2, <2>1, <2>3, <2>4 DEF Propagated
<1>6. CASE InvalidateFails
  <2>1. PICK x \in cdc.event :
            IF cdc.attempt < MaxRetries
            THEN /\ cdc' = [cdc EXCEPT !.pc = "store", !.attempt = cdc.attempt + 1]
                 /\ UNCHANGED deadLetter
            ELSE /\ cdc' = [pc |-> "idle", event |-> {}, attempt |-> 0]
                 /\ deadLetter' = deadLetter \cup {x.chunk}
        BY <1>6 DEF InvalidateFails
  <2>2. UNCHANGED chunks
        BY <1>6 DEF InvalidateFails, shared
  <2>3. CASE cdc.attempt < MaxRetries
    <3>1. cdc'.pc = "store" /\ cdc'.event = cdc.event /\ deadLetter' = deadLetter
          BY <2>1, <2>3 DEF TypeOK
    <3>2. QED BY <1>2, <2>2, <3>1
  <2>4. CASE ~(cdc.attempt < MaxRetries)
        BY <1>2, <2>1, <2>2, <2>4 DEF Propagated
  <2>5. QED BY <2>3, <2>4
<1>7. CASE IndexDense \/ IndexLex \/ Expire
  <2>1. UNCHANGED <<chunks, deadLetter>>
        BY <1>7 DEF IndexDense, IndexLex, Expire, shared, cdcVars
  <2>2. InProgress(c) => cdc.pc \in {"indexdense", "indexlex"}
        BY <1>2, <1>7 DEF IndexDense, IndexLex, Expire, Stream, cdcVars
  <2>3. QED BY <1>2, <2>1, <2>2
<1>8. QED BY <1>3, <1>4, <1>5, <1>6, <1>7 DEF Apply

LEMMA RevokingInvariant == Spec => []Revoking
<1>1. TypeOK /\ Propagated /\ Revoking /\ [Next]_vars => Revoking'
  <2> SUFFICES ASSUME TypeOK, Propagated, Revoking, [Next]_vars PROVE Revoking'
      OBVIOUS
  <2> USE DEF Revoking
  <2>1. ASSUME NEW t \in Threads, Arrive(t) \/ Handle(t) PROVE Revoking'
        BY <2>1, HandlerKeys, HandlerTouches
  <2>2. ASSUME Deliver \/ Apply \/ Expire PROVE Revoking'
    <3>1. entries' \subseteq entries /\ UNCHANGED <<clock, held>>
          BY <2>2 DEF Apply, Deliver, StoreChange, Invalidate, InvalidateFails, IndexDense,
                      IndexLex, Expire, cacheVars, work
    <3>2. QED BY <2>2, <3>1, FewerEntries, ConsumerTouches
  <2>3. ASSUME UNCHANGED vars PROVE Revoking'
        BY <2>3 DEF vars, shared, cacheVars, request, work, cdcVars, KeysIdentify, HeldAlone,
                    TouchesReadable, Invalidated, InProgress, Readable
  <2>4. QED BY <2>1, <2>2, <2>3 DEF Next
<1>2. QED BY <1>1, InitRevoking, TypeCorrect, PropagatedInvariant, PTL DEF Spec

(* No cache hit is served for an entry listing a chunk that the session is *)
(* now denied, or that is gone, once the change has been applied - however *)
(* the steps of handlers and consumer interleave.                          *)
THEOREM NoRevokedHits == Spec => NoHitOnRevokedChunk
<1>1. TypeOK /\ Revoking /\ [Next]_vars => [HitStep]_vars
  <2> SUFFICES ASSUME TypeOK, Revoking, Next, NEW t \in Threads,
                      pc[t] = "touch", pc'[t] = "hit", NEW e \in held[t],
                      NEW c \in e.chunk_ids, Settled(c)
               PROVE  c \in Regoverned(e.chunk_ids, session[t])
      BY DEF HitStep
  <2>1. Touch(t)
        BY DEF Next, TypeOK, Arrive, Handle, Lookup, Answer, Store, ScanHit, ScanMiss, Regovern,
               Touch, ServeHit, RetrieveDense, RetrieveAndGovern, LoopRetrieveDense, LoopGenerate,
               Put, Evict, Respond, Fail, Goto, Deliver, Apply, StoreChange, Invalidate,
               InvalidateFails, IndexDense, IndexLex, Expire
  <2>2. \E f \in entries : f.key = e.key
        BY <2>1 DEF Touch, TouchEntry, Revoking, HeldAlone
  <2>3. Invalidated(c)
        BY DEF Settled, Invalidated, InProgress
  <2>4. Readable(c, session[t])
        BY <2>2, <2>3 DEF Revoking, TouchesReadable
  <2>5. QED BY <2>4, RegovernedIsReadable
<1>2. QED BY <1>1, TypeCorrect, RevokingInvariant, PTL DEF Spec, NoHitOnRevokedChunk

-----------------------------------------------------------------------------
(* Stale entries.  A query answers from the version the pipeline holds of  *)
(* every chunk that was not being changed meanwhile; a later change of a   *)
(* chunk its entry lists takes the entry along.                            *)

(* What thread t has read of chunk c, up to storing the answer made of it. *)
Holds(t, c) ==
    /\ dense[c] = chunks[c] /\ lex[c] = chunks[c]
    /\ pc[t] \in {"lex", "looplex"} => snap[t][c] = chunks[c]
    /\ pc[t] = "put" => \A f \in answer[t] : f.id = c => f.ver = chunks[c]

QueriesInStep ==
    \A t \in Threads : pc[t] # "idle" => \A c \in ChunkIds \ overlap[t] : Holds(t, c)

Explained(e) ==
    \A f \in e.answer :
        \/ f.id \in e.overlap
        \/ f.id \notin e.chunk_ids
        \/ chunks[f.id] \in {f.ver, Absent}
        \/ ~Invalidated(f.id)

EntriesExplained == \A e \in entries : Explained(e)

(* An object whose id both lists hold in one version is of that version.   *)
LEMMA RetrievedAsHeld ==
    ASSUME NEW d, NEW l, NEW R \in Retrievals(d, l), NEW s, NEW c, d[c] = l[c]
    PROVE  \A f \in Reveal(R, s) : f.id = c => f.ver = d[c]
<1> SUFFICES ASSUME NEW f \in Reveal(R, s), f.id = c PROVE f.ver = d[c]
    OBVIOUS
<1>1. PICK o \in R : f = [id |-> o.id, ver |-> o.ver, raw |-> Decision(o, s) = "allow"]
      BY DEF Reveal, Admit
<1>2. o.ver \in {d[o.id], l[o.id]}
      BY DEF Retrievals
<1>3. QED BY <1>1, <1>2

LEMMA HandlerInStep ==
    ASSUME TypeOK, QueriesInStep, NEW t \in Threads, Arrive(t) \/ Handle(t)
    PROVE  QueriesInStep'
<1>1. UNCHANGED <<chunks, dense, lex>>
      BY HandlersReadOnly DEF shared
<1>2. ASSUME NEW u \in Threads, u # t
      PROVE  /\ pc'[u] = pc[u] /\ snap'[u] = snap[u]
             /\ answer'[u] = answer[u] /\ overlap'[u] = overlap[u]
      BY <1>2 DEF TypeOK, Arrive, Handle, Lookup, Answer, Store, ScanHit, ScanMiss, Regovern,
                  Touch, ServeHit, RetrieveDense, RetrieveAndGovern, LoopRetrieveDense,
                  LoopGenerate, Put, Evict, Respond, Fail, Forget, ClearSnap, Goto, request, work
<1> SUFFICES ASSUME pc'[t] # "idle", NEW c \in ChunkIds \ overlap'[t] PROVE Holds(t, c)'
    BY <1>1, <1>2 DEF QueriesInStep, Holds
<1>3. CASE Arrive(t)
  <2>1. overlap'[t] = Unindexed /\ pc'[t] = "scan"
        BY <1>3 DEF Arrive, Goto, TypeOK
  <2>2. QED BY <1>1, <2>1 DEF Unindexed, Holds
<1>4. CASE Handle(t)
  <2>1. pc[t] # "idle" /\ overlap'[t] = overlap[t]
        BY <1>4 DEF TypeOK, Handle, Lookup, Answer, Store, ScanHit, ScanMiss, Regovern, Touch,
                    ServeHit, RetrieveDense, RetrieveAndGovern, LoopRetrieveDense, LoopGenerate,
                    Put, Evict, Respond, Fail, Goto
  <2>2. Holds(t, c)
        BY <2>1 DEF QueriesInStep
  <2>3. CASE RetrieveDense(t) \/ LoopRetrieveDense(t)
    <3>1. snap'[t] = dense /\ pc'[t] \in {"lex", "looplex"}
          BY <2>3 DEF RetrieveDense, LoopRetrieveDense, Goto, TypeOK
    <3>2. QED BY <1>1, <2>2, <3>1 DEF Holds
  <2>4. CASE RetrieveAndGovern(t)
    <3>1. PICK R \in Retrievals(snap[t], lex) :
              IF SelfRag
              THEN pc' = [pc EXCEPT ![t] = "loopdense"] /\ UNCHANGED answer
              ELSE /\ pc' = [pc EXCEPT ![t] = "put"]
                   /\ answer' = [answer EXCEPT ![t] = Reveal(R, session[t])]
          BY <2>4 DEF RetrieveAndGovern
    <3>2. snap[t][c] = chunks[c] /\ lex[c] = chunks[c]
          BY <2>2, <2>4 DEF RetrieveAndGovern, Holds
    <3>3. \A f \in Reveal(R, session[t]) : f.id = c => f.ver = chunks[c]
          BY <3>2, RetrievedAsHeld
    <3>4. \/ pc'[t] = "loopdense"
          \/ pc'[t] = "put" /\ answer'[t] = Reveal(R, session[t])
          BY <3>1 DEF TypeOK
    <3>5. QED BY <1>1, <2>2, <3>3, <3>4 DEF Holds
  <2>5. CASE LoopGenerate(t)
    <3>1. PICK R \in Retrievals(snap[t], lex) :
              \E shown \in {Reveal(R, session[t]), {}} : answer' = [answer EXCEPT ![t] = shown]
          BY <2>5 DEF LoopGenerate
    <3>2. snap[t][c] = chunks[c] /\ lex[c] = chunks[c]
          BY <2>2, <2>5 DEF LoopGenerate, Goto, Holds
    <3>3. \A f \in Reveal(R, session[t]) : f.id = c => f.ver = chunks[c]
          BY <3>2, RetrievedAsHeld
    <3>4. pc'[t] = "put" /\ answer'[t] \in {Reveal(R, session[t]), {}}
          BY <2>5, <3>1 DEF LoopGenerate, Goto, TypeOK
    <3>5. QED BY <1>1, <2>2, <3>3, <3>4 DEF Holds
  <2>6. CASE ~(RetrieveDense(t) \/ LoopRetrieveDense(t) \/ RetrieveAndGovern(t)
               \/ LoopGenerate(t))
    <3>1. pc'[t] \notin {"lex", "looplex", "put"}
          BY <1>4, <2>6 DEF TypeOK, Handle, Lookup, Answer, Store, ScanHit, ScanMiss, Regovern,
                      Touch, ServeHit, Put, Evict, Respond, Fail, Goto
    <3>2. QED BY <1>1, <2>2, <3>1 DEF Holds
  <2>7. QED BY <2>3, <2>4, <2>5, <2>6
<1>5. QED BY <1>3, <1>4

(* The consumer changes one chunk, for queries in flight to remember, and  *)
(* otherwise brings the indexes closer to the chunks.                      *)
LEMMA ConsumerInStep ==
    ASSUME TypeOK, QueriesInStep, Deliver \/ Apply \/ Expire
    PROVE  QueriesInStep'
<1>1. UNCHANGED <<pc, snap, answer>>
      BY DEF Apply, Deliver, StoreChange, Invalidate, InvalidateFails, IndexDense, IndexLex,
             Expire, work
<1>2. CASE StoreChange
  <2>1. PICK e \in cdc.event :
            /\ chunks' = [chunks EXCEPT ![e.chunk] =
                            IF e.op = "delete" THEN Absent ELSE e.version]
            /\ overlap' = [t \in Threads |->
                            IF pc[t] = "idle" THEN {} ELSE overlap[t] \cup {e.chunk}]
        BY <1>2 DEF StoreChange
  <2>2. UNCHANGED <<dense, lex>>
        BY <1>2 DEF StoreChange
  <2>3. \A c \in ChunkIds : c # e.chunk => chunks'[c] = chunks[c]
        BY <2>1 DEF TypeOK, Holding
  <2>4. \A t \in Threads : pc[t] # "idle" => overlap'[t] = overlap[t] \cup {e.chunk}
        BY <2>1
  <2>5. QED BY <1>1, <2>2, <2>3, <2>4 DEF QueriesInStep, Holds
<1>3. CASE ~StoreChange
  <2>1. UNCHANGED <<chunks, overlap>>
        BY <1>3 DEF Apply, Deliver, Invalidate, InvalidateFails, IndexDense, IndexLex, Expire,
                    shared
  <2>2. dense' \in {dense, chunks} /\ lex' \in {lex, chunks}
        BY <1>3 DEF Apply, Deliver, Invalidate, InvalidateFails, IndexDense, IndexLex, Expire,
                    shared
  <2>3. QED BY <1>1, <2>1, <2>2 DEF QueriesInStep, Holds
<1>4. QED BY <1>2, <1>3

LEMMA HandlerExplained ==
    ASSUME TypeOK, QueriesInStep, EntriesExplained, NEW t \in Threads, Arrive(t) \/ Handle(t)
    PROVE  EntriesExplained'
<1>1. UNCHANGED <<chunks, cdc, deadLetter>>
      BY HandlersReadOnly DEF shared, cdcVars
<1>2. \A e \in entries : Explained(e)'
      BY <1>1 DEF EntriesExplained, Explained, Invalidated, InProgress
<1>3. CASE Touch(t)
  <2>1. PICK k \in held[t] : TouchEntry(k.key)
        BY <1>3 DEF Touch
  <2>2. PICK f \in entries : \/ entries' = entries
                             \/ entries' = (entries \ {f}) \cup {[f EXCEPT !.used = clock + 1]}
        BY <2>1 DEF TouchEntry
  <2>3. PICK g \in {[f EXCEPT !.used = clock + 1]} : TRUE
        OBVIOUS
  <2>4. g.answer = f.answer /\ g.overlap = f.overlap /\ g.chunk_ids = f.chunk_ids
        BY <2>3 DEF TypeOK, Entry
  <2>5. Explained(g)'
        BY <1>2, <2>4 DEF Explained
  <2>6. entries' \subseteq entries \cup {g}
        BY <2>2, <2>3
  <2>7. QED BY <1>2, <2>5, <2>6 DEF EntriesExplained
<1>4. CASE Put(t)
  <2>1. entries' = entries \cup {NewEntry(t)}
        BY <1>4 DEF Put
  <2>2. pc[t] = "put"
        BY <1>4 DEF Put, Goto
  <2>3. \A f \in answer[t] : f.id \in ChunkIds
        BY DEF TypeOK, Facts
  <2>4. \A f \in answer[t] : f.id \in overlap[t] \/ chunks[f.id] = f.ver
        BY <2>2, <2>3 DEF QueriesInStep, Holds
  <2>5. NewEntry(t).answer = answer[t] /\ NewEntry(t).overlap = overlap[t]
        BY DEF NewEntry
  <2>6. Explained(NewEntry(t))
        BY <2>4, <2>5 DEF Explained
  <2>7. \A e \in entries' : Explained(e)
        BY <2>1, <2>6 DEF EntriesExplained
  <2>8. QED BY <1>1, <2>7 DEF EntriesExplained, Explained, Invalidated, InProgress
<1>5. CASE ~(Touch(t) \/ Put(t))
  <2>1. entries' \subseteq entries
        BY <1>5 DEF Arrive, Handle, Lookup, Answer, Store, ScanHit, ScanMiss, Regovern, ServeHit,
                    RetrieveDense, RetrieveAndGovern, LoopRetrieveDense, LoopGenerate, Evict,
                    Kept, Respond, Fail, cacheVars
  <2>2. QED BY <1>2, <2>1 DEF EntriesExplained
<1>6. QED BY <1>3, <1>4, <1>5

(* A chunk the consumer rewrites is not invalidated yet; what it           *)
(* invalidates no entry lists any more.                                    *)
LEMMA ConsumerExplained ==
    ASSUME TypeOK, Propagated, EntriesExplained, Deliver \/ Apply \/ Expire
    PROVE  EntriesExplained'
<1>1. entries' \subseteq entries
      BY DEF Apply, Deliver, StoreChange, Invalidate, InvalidateFails, IndexDense, IndexLex,
             Expire, cacheVars
<1>2. SUFFICES ASSUME NEW e \in entries', NEW c \in e.chunk_ids, Invalidated(c)'
               PROVE  Invalidated(c) /\ chunks'[c] = chunks[c]
      BY <1>1 DEF EntriesExplained, Explained
<1> c \in ChunkIds
    BY <1>1 DEF TypeOK, Entry
<1> USE DEF Invalidated, InProgress
<1>3. CASE Deliver
      BY <1>3, <1>2 DEF Deliver, Propagated, shared
<1>4. CASE StoreChange
  <2>1. PICK x \in cdc.event :
            chunks' = [chunks EXCEPT ![x.chunk] = IF x.op = "delete" THEN Absent ELSE x.version]
        BY <1>4 DEF StoreChange
  <2>2. cdc'.pc = "invalidate" /\ cdc'.event = cdc.event /\ deadLetter' = deadLetter
        BY <1>4 DEF StoreChange, Stream, TypeOK
  <2>3. c # x.chunk
        BY <1>2, <2>1, <2>2
  <2>4. QED BY <1>2, <2>1, <2>2, <2>3 DEF TypeOK, Holding
<1>5. CASE Invalidate
  <2>1. PICK x \in cdc.event :
            /\ entries' = entries \ Referencing(x.chunk)
            /\ deadLetter' = deadLetter \ {x.chunk}
        BY <1>5 DEF Invalidate
  <2>2. c # x.chunk
        BY <1>1, <1>2, <2>1 DEF Referencing
  <2>3. UNCHANGED chunks
        BY <1>5 DEF Invalidate, shared
  <2>4. QED BY <1>2, <2>1, <2>2, <2>3 DEF Propagated
<1>6. CASE InvalidateFails
  <2>1. PICK x \in cdc.event :
            IF cdc.attempt < MaxRetries
            THEN /\ cdc' = [cdc EXCEPT !.pc = "store", !.attempt = cdc.attempt + 1]
                 /\ UNCHANGED deadLetter
            ELSE /\ cdc' = [pc |-> "idle", event |-> {}, attempt |-> 0]
                 /\ deadLetter' = deadLetter \cup {x.chunk}
        BY <1>6 DEF InvalidateFails
  <2>2. UNCHANGED chunks
        BY <1>6 DEF InvalidateFails, shared
  <2>3. CASE cdc.attempt < MaxRetries
    <3>1. cdc'.pc = "store" /\ cdc'.event = cdc.event /\ deadLetter' = deadLetter
          BY <2>1, <2>3 DEF TypeOK
    <3>2. QED BY <1>2, <2>2, <3>1
  <2>4. CASE ~(cdc.attempt < MaxRetries)
        BY <1>2, <2>1, <2>2, <2>4 DEF Propagated
  <2>5. QED BY <2>3, <2>4
<1>7. CASE IndexDense \/ IndexLex \/ Expire
  <2>1. UNCHANGED <<chunks, deadLetter>>
        BY <1>7 DEF IndexDense, IndexLex, Expire, shared, cdcVars
  <2>2. InProgress(c) => cdc.pc \in {"indexdense", "indexlex"}
        BY <1>2, <1>7 DEF IndexDense, IndexLex, Expire, Stream, cdcVars
  <2>3. QED BY <1>2, <2>1, <2>2
<1>8. QED BY <1>3, <1>4, <1>5, <1>6, <1>7 DEF Apply

(* An entry that lists a chunk and shows an outdated version of it was     *)
(* computed while that chunk was being changed.                            *)
THEOREM StaleEntriesOverlapped == Spec => []StaleOnlyIfOverlapped
<1>1. Init => QueriesInStep /\ EntriesExplained
      BY DEF Init, QueriesInStep, EntriesExplained
<1>2. TypeOK /\ Propagated /\ QueriesInStep /\ EntriesExplained /\ [Next]_vars
          => QueriesInStep' /\ EntriesExplained'
  <2> SUFFICES ASSUME TypeOK, Propagated, QueriesInStep, EntriesExplained, [Next]_vars
               PROVE  QueriesInStep' /\ EntriesExplained'
      OBVIOUS
  <2>1. ASSUME NEW t \in Threads, Arrive(t) \/ Handle(t)
        PROVE  QueriesInStep' /\ EntriesExplained'
        BY <2>1, HandlerInStep, HandlerExplained
  <2>2. ASSUME Deliver \/ Apply \/ Expire PROVE QueriesInStep' /\ EntriesExplained'
        BY <2>2, ConsumerInStep, ConsumerExplained
  <2>3. ASSUME UNCHANGED vars PROVE QueriesInStep' /\ EntriesExplained'
        BY <2>3 DEF vars, shared, cacheVars, work, cdcVars, QueriesInStep, Holds,
                    EntriesExplained, Explained, Invalidated, InProgress
  <2>4. QED BY <2>1, <2>2, <2>3 DEF Next
<1>3. EntriesExplained => StaleOnlyIfOverlapped
      BY DEF EntriesExplained, Explained, StaleOnlyIfOverlapped, Settled, Invalidated, InProgress
<1>4. QED BY <1>1, <1>2, <1>3, TypeCorrect, PropagatedInvariant, PTL DEF Spec
=============================================================================
