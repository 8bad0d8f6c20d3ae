---------------------------- MODULE AllowlistProofs ----------------------------
(***************************************************************************)
(* Theorems of the two allowlists a request is prefiltered by: the tuples  *)
(* of LocalReBAC, and the store rows of CorrectiveLoop with the request    *)
(* that is answered over them.                                             *)
(***************************************************************************)
EXTENDS LocalReBAC, CorrectiveLoop, TLAPS

(* A recognised class never meets the gate the tuples do not have: on      *)
(* fresh tuples the backend and access.evaluate drop the same sessions.    *)
LEMMA DecisionParity ==
    ASSUME NEW chunk \in Footprints, NEW s \in Sessions, ~Unrecognised(chunk)
    PROVE  RetrievableFromTuples(Tuples(chunk), s) <=> Retrievable(chunk, s)
<1> DEFINE tuples == Tuples(chunk)
<1>1. s.clearance_level \in Int /\ chunk.clearance_level \in Int
      BY DEF Sessions, Footprints, Clearances
<1>2. /\ tuples.public <=> IsPublic(chunk)
      /\ tuples.class = chunk.sensitivity_class
      /\ tuples.min_level = chunk.clearance_level
      /\ tuples.ntk_role = chunk.need_to_know_roles
      /\ tuples.partial_role = chunk.partial_for
      /\ tuples.allowed_role = chunk.allowed_roles
      BY DEF Tuples
<1> HIDE DEF tuples
<1>3. CASE IsPublic(chunk)
      BY <1>2, <1>3 DEF RetrievableFromTuples, Retrievable, Evaluate, tuples
<1>4. CASE ~IsPublic(chunk) /\ chunk.sensitivity_class = PiiClass
      BY <1>1, <1>2, <1>4 DEF RetrievableFromTuples, Retrievable, Evaluate, PiiDecision, tuples
<1>5. CASE ~IsPublic(chunk) /\ chunk.sensitivity_class # PiiClass
  <2> DEFINE high   == s.clearance_level >= chunk.clearance_level
             scoped == /\ chunk.need_to_know_roles # {}
                       /\ Disjoint(chunk.need_to_know_roles, s.roles)
             held   == ~Disjoint(chunk.partial_for, s.roles)
             legacy == chunk.sensitivity_class = "" => ~Disjoint(chunk.allowed_roles, s.roles)
  <2>1. Retrievable(chunk, s) <=> high /\ (scoped => held) /\ (~scoped => legacy)
    <3>1. CASE ~high
      <4>1. s.clearance_level < chunk.clearance_level
            BY <1>1, <3>1
      <4>2. QED BY <1>5, <3>1, <4>1 DEF Retrievable, Evaluate
    <3>2. CASE high /\ scoped
      <4>1. ~(s.clearance_level < chunk.clearance_level)
            BY <1>1, <3>2
      <4>2. Evaluate(chunk, s) = ScopedDecision(chunk, s)
            BY <1>5, <3>2, <4>1 DEF Evaluate
      <4>3. QED BY <3>2, <4>2 DEF Retrievable, ScopedDecision
    <3>3. CASE high /\ ~scoped
      <4>1. ~(s.clearance_level < chunk.clearance_level)
            BY <1>1, <3>3
      <4>2. Evaluate(chunk, s) = IF ~legacy THEN "deny" ELSE "allow"
            BY <1>5, <3>3, <4>1 DEF Evaluate
      <4>3. QED BY <3>3, <4>2 DEF Retrievable
    <3>4. QED BY <3>1, <3>2, <3>3
  <2>2. RetrievableFromTuples(tuples, s) <=> high /\ (scoped => held) /\ (~scoped => legacy)
        BY <1>2, <1>5 DEF RetrievableFromTuples
  <2>3. QED BY <2>1, <2>2 DEF tuples
<1>6. QED BY <1>3, <1>4, <1>5

(* Every class's catalog footprint is decided as the seeds' matrix says,   *)
(* for every session: no clearance and no role set splits the two.         *)
THEOREM OracleParity ==
    ASSUME NEW cls \in ValidClasses, NEW s \in Sessions
    PROVE  Evaluate(ClassFootprint(cls), s) = EvaluateClass(cls, s)
<1> DEFINE chunk == ClassFootprint(cls)
<1>1. /\ chunk.clearance_level = MinLevel[cls]
      /\ chunk.allowed_roles = NeedToKnow[cls]
      /\ chunk.sensitivity_class = cls
      /\ chunk.need_to_know_roles = NeedToKnow[cls]
      /\ chunk.partial_for = {}
      BY DEF ClassFootprint
<1>2. ~Unrecognised(chunk) /\ cls # ""
      BY <1>1 DEF Unrecognised, ValidClasses
<1>3. s.clearance_level \in Int /\ s.clearance_level >= 0
      BY DEF Sessions, Clearances
<1>4. CASE cls = "A"
  <2>1. MinLevel["A"] = 0 /\ NeedToKnow["A"] = {}
        BY DEF MinLevel, NeedToKnow, ValidClasses
  <2>2. QED BY <1>1, <1>3, <1>4, <2>1 DEF Evaluate, EvaluateClass, IsPublic, PiiClass
<1>5. CASE cls # "A"
  <2>1. MinLevel[cls] > 0
        BY <1>5 DEF MinLevel, ValidClasses
  <2>2. ~IsPublic(chunk)
        BY <1>1, <2>1 DEF IsPublic
  <2>3. ScopedDecision(chunk, s) = "deny"
        BY <1>1 DEF ScopedDecision, Disjoint
  <2>4. QED BY <1>1, <1>2, <2>2, <2>3 DEF Evaluate, EvaluateClass
<1>6. QED BY <1>4, <1>5

-----------------------------------------------------------------------------
(* Each row carries a footprint, its tuples are absent or some footprint's, *)
(* and a lookup names rows only.                                           *)
THEOREM TuplesTyped == TupleSpec => []TupleTypeOK
<1>1. TupleInit => TupleTypeOK
      BY DEF TupleInit, TupleTypeOK, NoLookup
<1>2. TupleTypeOK /\ [TupleNext]_tupleVars => TupleTypeOK'
  <2> SUFFICES ASSUME TupleTypeOK, [TupleNext]_tupleVars PROVE TupleTypeOK'
      OBVIOUS
  <2> USE DEF TupleTypeOK
  <2>1. ASSUME NEW c \in ChunkIds, Reclassify(c) PROVE TupleTypeOK'
        BY <2>1 DEF Reclassify, NoLookup
  <2>2. ASSUME NEW S \in SUBSET ChunkIds, Sync(S) PROVE TupleTypeOK'
    <3>1. \A c \in ChunkIds : Tuples(live[c]) \in FactSet
          BY DEF FactSet
    <3>2. facts' \in [ChunkIds -> FactSet \cup {NoFacts}]
          BY <2>2, <3>1 DEF Sync
    <3>3. synced' \in [ChunkIds -> FootprintPool \cup {NoFacts}]
          BY <2>2 DEF Sync, SyncedNow
    <3>4. QED BY <2>2, <3>2, <3>3 DEF Sync, NoLookup
  <2>3. ASSUME NEW s \in Askers, NEW candidates \in SUBSET ChunkIds \ {{}},
               AuthorizedIds(s, candidates)
        PROVE  TupleTypeOK'
    <3>1. \A c \in ChunkIds : Tuples(live[c]) \in FactSet
          BY DEF FactSet
    <3>2. facts' \in [ChunkIds -> FactSet \cup {NoFacts}]
          BY <2>3, <3>1 DEF AuthorizedIds
    <3>3. /\ lookup'.candidates = candidates
          /\ lookup'.ids = {c \in candidates : RetrievableFromTuples(facts'[c], s)}
          BY <2>3 DEF AuthorizedIds
    <3>4. synced' \in [ChunkIds -> FootprintPool \cup {NoFacts}]
          BY <2>3 DEF AuthorizedIds, SyncedNow
    <3>5. QED BY <2>3, <3>2, <3>3, <3>4 DEF AuthorizedIds
  <2>4. CASE UNCHANGED tupleVars
        BY <2>4 DEF tupleVars
  <2>5. QED BY <2>1, <2>2, <2>3, <2>4 DEF TupleNext
<1>3. QED BY <1>1, <1>2, PTL DEF TupleSpec

(* What the backend returned was read from the tuples it holds: nothing    *)
(* changes the tuples without forgetting the lookup.                       *)
LookupInv ==
    lookup.candidates # {} =>
        /\ lookup.session \in Askers
        /\ lookup.ids = {c \in lookup.candidates :
                            RetrievableFromTuples(facts[c], lookup.session)}

LEMMA LookupCorrect == TupleSpec => []LookupInv
<1>1. TupleInit => LookupInv
      BY DEF TupleInit, LookupInv, NoLookup
<1>2. LookupInv /\ [TupleNext]_tupleVars => LookupInv'
  <2> SUFFICES ASSUME LookupInv, [TupleNext]_tupleVars PROVE LookupInv'
      OBVIOUS
  <2>1. ASSUME lookup' = NoLookup PROVE LookupInv'
        BY <2>1 DEF LookupInv, NoLookup
  <2>2. ASSUME NEW s \in Askers, NEW candidates \in SUBSET ChunkIds \ {{}},
               AuthorizedIds(s, candidates)
        PROVE  LookupInv'
        BY <2>2 DEF AuthorizedIds, LookupInv
  <2>3. CASE UNCHANGED tupleVars
        BY <2>3 DEF tupleVars, LookupInv
  <2>4. QED BY <2>1, <2>2, <2>3 DEF TupleNext, Reclassify, Sync
<1>3. QED BY <1>1, <1>2, PTL DEF TupleSpec

(* The backend contract: on tuples as fresh as the row, for a recognised   *)
(* class, authorized_ids returns exactly the rows access.evaluate admits.  *)
THEOREM BackendParity == TupleSpec => []ParityWhenFresh
<1>1. TupleTypeOK /\ LookupInv => ParityWhenFresh
  <2> SUFFICES ASSUME TupleTypeOK, LookupInv, NEW c \in lookup.candidates,
                      Fresh(c), ~Unrecognised(live[c])
               PROVE  c \in lookup.ids <=> Retrievable(live[c], lookup.session)
      BY DEF ParityWhenFresh
  <2>1. c \in lookup.ids <=> RetrievableFromTuples(facts[c], lookup.session)
        BY DEF LookupInv
  <2>2. live[c] \in Footprints /\ lookup.session \in Sessions
        BY PoolAssumption DEF TupleTypeOK, LookupInv
  <2>3. QED BY <2>1, <2>2, DecisionParity DEF Fresh
<1>2. QED BY <1>1, TuplesTyped, LookupCorrect, PTL

(* A chunk has no tuples, or those of the footprint it was last synced     *)
(* with; a candidate of the last lookup has them.                          *)
HasSynced(c) == synced[c] \in FootprintPool /\ facts[c] = Tuples(synced[c])

SyncedInv ==
    /\ \A c \in ChunkIds : facts[c] = NoFacts \/ HasSynced(c)
    /\ \A c \in lookup.candidates : HasSynced(c)

LEMMA SyncedCorrect == TupleSpec => []SyncedInv
<1>1. TupleInit => SyncedInv
      BY DEF TupleInit, SyncedInv, NoLookup
<1>2. TupleTypeOK /\ SyncedInv /\ [TupleNext]_tupleVars => SyncedInv'
  <2> SUFFICES ASSUME TupleTypeOK, SyncedInv, [TupleNext]_tupleVars PROVE SyncedInv'
      OBVIOUS
  <2> USE DEF SyncedInv, HasSynced
  <2>1. ASSUME NEW c \in ChunkIds, Reclassify(c) PROVE SyncedInv'
        BY <2>1 DEF Reclassify, NoLookup
  <2>2. ASSUME NEW S \in SUBSET ChunkIds, Sync(S) PROVE SyncedInv'
    <3>1. \A c \in S : HasSynced(c)'
          BY <2>2 DEF Sync, SyncedNow, TupleTypeOK
    <3>2. \A c \in ChunkIds \ S : UNCHANGED <<facts[c], synced[c]>>
          BY <2>2 DEF Sync, SyncedNow
    <3>3. lookup' = NoLookup
          BY <2>2 DEF Sync
    <3>4. QED BY <3>1, <3>2, <3>3 DEF NoLookup
  <2>3. ASSUME NEW s \in Askers, NEW candidates \in SUBSET ChunkIds \ {{}},
               AuthorizedIds(s, candidates)
        PROVE  SyncedInv'
    <3>1. \A c \in candidates : HasSynced(c)'
      <4> SUFFICES ASSUME NEW c \in candidates PROVE HasSynced(c)'
          OBVIOUS
      <4>1. CASE facts[c] = NoFacts
            BY <2>3, <4>1 DEF AuthorizedIds, SyncedNow, TupleTypeOK
      <4>2. CASE facts[c] # NoFacts
            BY <2>3, <4>2 DEF AuthorizedIds, SyncedNow
      <4>3. QED BY <4>1, <4>2
    <3>2. \A c \in ChunkIds \ candidates : UNCHANGED <<facts[c], synced[c]>>
          BY <2>3 DEF AuthorizedIds, SyncedNow
    <3>3. lookup'.candidates = candidates
          BY <2>3 DEF AuthorizedIds
    <3>4. QED BY <3>1, <3>2, <3>3
  <2>4. CASE UNCHANGED tupleVars
        BY <2>4 DEF tupleVars
  <2>5. QED BY <2>1, <2>2, <2>3, <2>4 DEF TupleNext
<1>3. QED BY <1>1, <1>2, TuplesTyped, PTL DEF TupleSpec

(* What a lookup returns is what access.evaluate admits on the footprints  *)
(* last synced: drift between rows and tuples delays a decision and never  *)
(* mixes two.                                                              *)
THEOREM DecisionsAreAsSynced == TupleSpec => []DecidedAsSynced
<1>1. LookupInv /\ SyncedInv => DecidedAsSynced
  <2> SUFFICES ASSUME LookupInv, SyncedInv, NEW c \in lookup.candidates, ~Unrecognised(synced[c])
               PROVE  c \in lookup.ids <=> Retrievable(synced[c], lookup.session)
      BY DEF DecidedAsSynced
  <2>1. c \in lookup.ids <=> RetrievableFromTuples(Tuples(synced[c]), lookup.session)
        BY DEF LookupInv, SyncedInv, HasSynced
  <2>2. synced[c] \in Footprints /\ lookup.session \in Sessions
        BY PoolAssumption DEF LookupInv, SyncedInv, HasSynced
  <2>3. QED BY <2>1, <2>2, DecisionParity
<1>2. QED BY <1>1, LookupCorrect, SyncedCorrect, PTL

(* The leak-audit oracle agrees with the engine on every row that carries  *)
(* a class's catalog footprint.                                            *)
THEOREM OracleAgreement == TupleSpec => []EngineMatchesOracle
<1>1. EngineMatchesOracle
  <2> SUFFICES ASSUME NEW cls \in ValidClasses, NEW s \in Askers
               PROVE  Evaluate(ClassFootprint(cls), s) = EvaluateClass(cls, s)
      BY DEF EngineMatchesOracle
  <2>1. s \in Sessions
        BY PoolAssumption
  <2>2. QED BY <2>1, OracleParity
<1>2. QED BY <1>1, PTL

-----------------------------------------------------------------------------
(* The rows, and the request answered over them.                           *)

(* A class's footprint rebuilt from a row at or above the class's level is *)
(* decided as the seeds' matrix decides, or denied: the store path opens   *)
(* nothing the matrix closes, for any class, level and session.            *)
THEOREM StoreNeverMoreOpen ==
    ASSUME NEW row, Known(row), Valid(row), NEW s \in Sessions,
           row.level >= MinLevel[row.cls]
    PROVE  Evaluate(Security(row), s) \in {EvaluateClass(row.cls, s), "deny"}
<1> DEFINE chunk == Security(row)
<1>1. /\ chunk.clearance_level = row.level
      /\ chunk.allowed_roles = NeedToKnow[row.cls]
      /\ chunk.sensitivity_class = row.cls
      /\ chunk.need_to_know_roles = NeedToKnow[row.cls]
      /\ chunk.partial_for = {}
      BY DEF Security
<1>2. ~Unrecognised(chunk) /\ row.cls # "" /\ row.cls \in ValidClasses
      BY <1>1 DEF Known, Unrecognised, ValidClasses
<1>3. /\ s.clearance_level \in Int /\ s.clearance_level >= 0
      /\ row.level \in Int /\ row.level >= 0
      BY DEF Sessions, Clearances, Valid
<1> HIDE DEF chunk
<1>4. CASE row.cls = "A"
  <2>1. MinLevel["A"] = 0 /\ NeedToKnow["A"] = {}
        BY DEF MinLevel, NeedToKnow, ValidClasses
  <2>2. EvaluateClass(row.cls, s) = "allow"
        BY <1>3, <1>4, <2>1 DEF EvaluateClass, PiiClass
  <2>3. Evaluate(chunk, s) \in {"allow", "deny"}
        BY <1>1, <1>2, <1>4, <2>1 DEF Evaluate, PiiClass
  <2>4. QED BY <2>2, <2>3 DEF chunk
<1>5. CASE row.cls # "A"
  <2>1. MinLevel[row.cls] \in Int /\ MinLevel[row.cls] > 0
    <3>1. \A c \in ValidClasses : c # "A" => MinLevel[c] \in Int /\ MinLevel[c] > 0
          BY DEF MinLevel, ValidClasses
    <3>2. QED BY <1>2, <1>5, <3>1
  <2>2. row.level > 0
        BY <1>3, <2>1
  <2>3. ~IsPublic(chunk)
        BY <1>1, <2>2 DEF IsPublic
  <2>4. CASE row.cls = PiiClass
        BY <1>1, <1>2, <2>3, <2>4 DEF Evaluate, EvaluateClass, chunk
  <2>5. CASE row.cls # PiiClass /\ s.clearance_level < row.level
        BY <1>1, <1>2, <2>3, <2>5 DEF Evaluate, chunk
  <2>6. CASE row.cls # PiiClass /\ ~(s.clearance_level < row.level)
    <3>1. ~(s.clearance_level < MinLevel[row.cls])
          BY <1>3, <2>1, <2>6
    <3>2. ScopedDecision(chunk, s) = "deny"
          BY <1>1 DEF ScopedDecision, Disjoint
    <3>3. Evaluate(chunk, s) = IF /\ NeedToKnow[row.cls] # {}
                                  /\ Disjoint(NeedToKnow[row.cls], s.roles)
                               THEN "deny" ELSE "allow"
          BY <1>1, <1>2, <2>3, <2>6, <3>2 DEF Evaluate
    <3>4. EvaluateClass(row.cls, s) = IF /\ NeedToKnow[row.cls] # {}
                                         /\ Disjoint(NeedToKnow[row.cls], s.roles)
                                      THEN "deny" ELSE "allow"
          BY <2>6, <3>1 DEF EvaluateClass
    <3>5. QED BY <3>3, <3>4 DEF chunk
  <2>7. QED BY <2>4, <2>5, <2>6
<1>6. QED BY <1>4, <1>5

(* The invariant of the last theorem over the reachable rows.              *)
THEOREM StoreKeepsTheMatrix == Spec => []StoreKeepsMatrix
<1>1. StoreKeepsMatrix
  <2> SUFFICES ASSUME NEW c \in Stored, NEW s \in SessionPool, Known(rows[c]),
                      Valid(rows[c]), rows[c].level >= MinLevel[rows[c].cls]
               PROVE  Evaluate(Security(rows[c]), s) \in {EvaluateClass(rows[c].cls, s), "deny"}
      BY DEF StoreKeepsMatrix
  <2>1. s \in Sessions
        BY ConstantAssumption
  <2>2. QED BY <2>1, StoreNeverMoreOpen
<1>2. QED BY <1>1, PTL

-----------------------------------------------------------------------------
LEMMA Bounds == MaxChanges \in Nat /\ MaxIterations \in Nat /\ MaxIterations >= 1
<1>1. MaxChanges \in Nat /\ MaxIterations \in Nat \ {0}
      BY ConstantAssumption
<1>2. QED BY <1>1

LEMMA Count ==
    ASSUME NEW n \in Nat, NEW i \in 0 .. n
    PROVE  /\ n >= 1 => 1 \in 0 .. n
           /\ i < n => i + 1 \in 0 .. n
OBVIOUS

LEMMA ObjectType ==
    ASSUME rows \in [Chunks -> RowPool \cup {Gone}], NEW c \in Stored
    PROVE  Object(c) \in Objects
<1>1. rows[c] \in Rows /\ c \in Chunks
      BY ConstantAssumption DEF Stored
<1>2. QED BY <1>1 DEF Object, Objects, Rows

LEMMA VisibleType ==
    ASSUME rows \in [Chunks -> RowPool \cup {Gone}], NEW s
    PROVE  Visible(s) \subseteq Objects
BY ObjectType DEF Visible

(* Every reachable state is well typed: the loop never exceeds its budget. *)
THEOREM TypeCorrect == Spec => []TypeOK
<1>1. Init => TypeOK
  <2> SUFFICES ASSUME Init PROVE TypeOK
      OBVIOUS
  <2>1. rows \in [Chunks -> RowPool \cup {Gone}]
        BY DEF Init
  <2>2. changes \in 0 .. MaxChanges /\ iteration \in 0 .. MaxIterations
    <3>1. changes = 0 /\ iteration = 0
          BY DEF Init
    <3>2. QED BY <3>1, Bounds
  <2>3. found \cup chunks \cup answer \cup best \cup provenance \cup graded \subseteq Objects
        BY DEF Init
  <2>4. seeable \subseteq Objects
        BY <2>1, VisibleType DEF Init
  <2>5. QED BY <2>1, <2>2, <2>3, <2>4 DEF Init, TypeOK
<1>2. TypeOK /\ [Next]_vars => TypeOK'
  <2> SUFFICES ASSUME TypeOK, [Next]_vars PROVE TypeOK'
      OBVIOUS
  <2> USE DEF TypeOK
  <2>1. CASE Ask
    <3>1. iteration' \in 0 .. MaxIterations
      <4>1. iteration' = 1
            BY <2>1 DEF Ask
      <4>2. iteration \in 0 .. MaxIterations
            OBVIOUS
      <4>3. QED BY <4>1, <4>2, Bounds, Count
    <3>2. (found \cup chunks \cup answer \cup best \cup provenance \cup graded \subseteq Objects)'
          BY <2>1 DEF Ask
    <3>3. seeable' \subseteq Objects
      <4>1. seeable' = Visible(session')
            BY <2>1 DEF Ask
      <4>2. QED BY <4>1, VisibleType
    <3>4. QED BY <2>1, <3>1, <3>2, <3>3 DEF Ask, store
  <2>2. ASSUME NEW c \in Chunks, Change(c) PROVE TypeOK'
    <3>1. UNCHANGED <<pc, loop, fetch, chunks, result>>
          BY <2>2 DEF Change
    <3>2. changes' \in 0 .. MaxChanges
      <4>1. changes \in 0 .. MaxChanges
            OBVIOUS
      <4>2. changes < MaxChanges /\ changes' = changes + 1
            BY <2>2 DEF Change
      <4>3. QED BY <4>1, <4>2, Bounds, Count
    <3>3. rows' \in [Chunks -> RowPool \cup {Gone}] /\ since' \in SUBSET Chunks
          BY <2>2 DEF Change
    <3>4. seeable' \subseteq Objects
      <4>1. \A d \in Stored' : rows'[d] \in Rows /\ d \in Chunks
            BY <3>3, ConstantAssumption DEF Stored
      <4>2. \A d \in Stored' : Object(d)' \in Objects
            BY <4>1 DEF Object, Objects, Rows
      <4>3. Visible(session)' \subseteq Objects
            BY <4>2 DEF Visible
      <4>4. QED BY <2>2, <4>3 DEF Change
    <3>5. QED BY <3>1, <3>2, <3>3, <3>4 DEF loop, fetch, result
  <2>3. CASE DeriveAllowlist
        BY <2>3 DEF DeriveAllowlist, Snapshot, Stored, store, loop, result, history
  <2>4. CASE Search
        BY <2>4 DEF Search, AtMost, store, loop, result, history
  <2>5. CASE Hydrate
    <3>1. PICK c \in hits :
             /\ found' = IF c \in Stored /\ Known(rows[c])
                         THEN found \cup {Object(c)} ELSE found
             /\ hits' = hits \ {c}
             /\ pc' = IF hits = {c} THEN "rerank" ELSE "hydrate"
          BY <2>5 DEF Hydrate
    <3>2. found' \subseteq Objects
          BY <3>1, ObjectType
    <3>3. QED BY <2>5, <3>1, <3>2 DEF Hydrate, store, loop, result, history
  <2>6. CASE RerankAndGovern
        BY <2>6 DEF RerankAndGovern, Goto, AtMost, store, loop, fetch, result, history
  <2>7. CASE Raise
        BY <2>7 DEF Raise, Goto, store, loop, fetch, result, history
  <2>8. CASE Sufficient \/ Generate
        BY <2>8 DEF Sufficient, Generate, Goto, store, loop, fetch, result, history
  <2>9. CASE RetrieveAgain \/ Refine
    <3>1. iteration' \in 0 .. MaxIterations
      <4>1. iteration \in 0 .. MaxIterations
            OBVIOUS
      <4>2. iteration < MaxIterations /\ iteration' = iteration + 1
            BY <2>9 DEF RetrieveAgain, Refine, NextIteration
      <4>3. QED BY <4>1, <4>2, Bounds, Count
    <3>2. /\ chunks' = {} /\ best' \in {best, chunks}
          /\ pc' = "allow" /\ session' = session
          BY <2>9 DEF RetrieveAgain, Refine, NextIteration, result, history
    <3>3. UNCHANGED <<store, fetch, answer, provenance, stop, graded, history>>
          BY <2>9 DEF RetrieveAgain, Refine, result, history
    <3>4. QED BY <3>1, <3>2, <3>3 DEF store, fetch, history
  <2>10. CASE GiveUp \/ Grounded \/ Abstain \/ Degrade
        BY <2>10 DEF GiveUp, Grounded, Abstain, Degrade, Goto, store, loop, fetch, history
  <2>11. CASE DeriveModeAllowlist
        BY <2>11 DEF DeriveModeAllowlist, Goto, Snapshot, Stored, store, loop, result, history
  <2>12. CASE QueryRows
    <3>1. found' \subseteq Objects
          BY <2>12, ObjectType DEF QueryRows
    <3>2. QED BY <2>12, <3>1 DEF QueryRows, Goto, store, loop, result, history
  <2>13. CASE UNCHANGED vars
        BY <2>13 DEF vars, store, loop, fetch, result, history
  <2>14. QED
        BY <2>1, <2>2, <2>3, <2>4, <2>5, <2>6, <2>7, <2>8, <2>9, <2>10, <2>11, <2>12,
           <2>13 DEF Next, Step, Retrieve, Grade, Modes
<1>3. QED BY <1>1, <1>2, PTL DEF Spec

-----------------------------------------------------------------------------
(* The allowlist ages: what it still says truly is what has not changed    *)
(* since it was derived.  A mode request starts with nothing found.        *)
AllowlistInv ==
    /\ \A c \in allow : c \in since \/ (c \in Stored /\ Authorized(rows[c], session))
    /\ hits \subseteq allow
    /\ pc = "modeallow" => found = {} /\ hits = {}

PrefilterInv == AllowlistInv /\ PrefilterHolds

LEMMA ObjectDecision ==
    ASSUME NEW c PROVE Authorized(Object(c), session) <=> Authorized(rows[c], session)
BY DEF Object, Authorized, Known, Security

(* The pre-filter: a retriever hands on no chunk the session is denied,    *)
(* save one whose row changed after the allowlist was derived.             *)
THEOREM PrefilterCorrect == Spec => []PrefilterHolds
<1>1. Init => PrefilterInv
      BY DEF Init, PrefilterInv, AllowlistInv, PrefilterHolds
<1>2. PrefilterInv /\ [Next]_vars => PrefilterInv'
  <2> SUFFICES ASSUME PrefilterInv, [Next]_vars PROVE PrefilterInv'
      OBVIOUS
  <2> USE DEF PrefilterInv, AllowlistInv, PrefilterHolds
  <2>1. CASE Ask
        BY <2>1 DEF Ask
  <2>2. ASSUME NEW c \in Chunks, Change(c) PROVE PrefilterInv'
    <3>1. /\ UNCHANGED <<pc, session, allow, hits, found>>
          /\ since' = since \cup {c}
          BY <2>2 DEF Change, loop, fetch
    <3>2. \A d : d # c => rows'[d] = rows[d]
          BY <2>2 DEF Change
    <3>3. \A d \in allow : d \in since' \/ (d \in Stored' /\ Authorized(rows'[d], session))
      <4> SUFFICES ASSUME NEW d \in allow, d # c, d \notin since
                   PROVE  d \in Stored' /\ Authorized(rows'[d], session)
          BY <3>1
      <4>1. rows'[d] = rows[d] /\ d \in Stored /\ Authorized(rows[d], session)
            BY <3>2
      <4>2. QED BY <4>1 DEF Stored
    <3>4. QED BY <3>1, <3>3
  <2>3. ASSUME Snapshot, UNCHANGED <<rows, session>>, found' = {}, hits' = {}
        PROVE  PrefilterInv'
    <3>1. \A c \in allow' : c \in Stored /\ Authorized(rows[c], session)
          BY <2>3 DEF Snapshot
    <3>2. \A c \in allow' : c \in Stored' /\ Authorized(rows'[c], session')
          BY <2>3, <3>1 DEF Stored
    <3>3. QED BY <2>3, <3>2
  <2>4. CASE DeriveAllowlist
        BY <2>3, <2>4 DEF DeriveAllowlist, store, loop, history
  <2>5. CASE Search
        BY <2>5 DEF Search, AtMost, store, loop, Stored, history
  <2>6. CASE Hydrate
    <3>1. PICK c \in hits :
             /\ found' = IF c \in Stored /\ Known(rows[c])
                         THEN found \cup {Object(c)} ELSE found
             /\ hits' = hits \ {c}
             /\ pc' = IF hits = {c} THEN "rerank" ELSE "hydrate"
          BY <2>6 DEF Hydrate
    <3>2. UNCHANGED <<rows, session, allow, since>>
          BY <2>6 DEF Hydrate, store, loop, history
    <3>3. Authorized(Object(c), session) \/ c \in since
          BY ObjectDecision
    <3>4. Object(c).id = c
          BY DEF Object
    <3>5. QED BY <3>1, <3>2, <3>3, <3>4 DEF Stored
  <2>7. CASE RerankAndGovern \/ Raise \/ Sufficient \/ Generate
        BY <2>7 DEF RerankAndGovern, Raise, Sufficient, Generate, Goto, Stored, store, loop, fetch,
                    history
  <2>8. CASE RetrieveAgain \/ Refine
        BY <2>8 DEF RetrieveAgain, Refine, NextIteration, Stored, store, fetch, history
  <2>9. CASE GiveUp \/ Grounded \/ Abstain \/ Degrade
        BY <2>9 DEF GiveUp, Grounded, Abstain, Degrade, Goto, Stored, store, loop, fetch, history
  <2>10. CASE DeriveModeAllowlist
        BY <2>3, <2>10 DEF DeriveModeAllowlist, Goto, store, loop, history
  <2>11. CASE QueryRows
    <3>1. UNCHANGED <<rows, session, allow, hits, since>>
          BY <2>11 DEF QueryRows, store, loop, history
    <3>2. PICK matching \in SUBSET (allow \cap Stored) : found' = {Object(c) : c \in matching}
          BY <2>11 DEF QueryRows
    <3>3. \A c \in matching : Object(c).id = c
          BY DEF Object
    <3>4. \A c \in matching : Authorized(Object(c), session) \/ c \in since
          BY ObjectDecision
    <3>5. PrefilterHolds'
          BY <3>1, <3>2, <3>3, <3>4
    <3>6. QED BY <2>11, <3>1, <3>5 DEF QueryRows, Goto, Stored
  <2>12. CASE UNCHANGED vars
        BY <2>12 DEF vars, store, loop, fetch, Stored, history
  <2>13. QED
        BY <2>1, <2>2, <2>4, <2>5, <2>6, <2>7, <2>8, <2>9, <2>10, <2>11, <2>12
        DEF Next, Step, Retrieve, Grade, Modes
<1>3. QED BY <1>1, <1>2, PTL DEF Spec, PrefilterInv

-----------------------------------------------------------------------------
(* The loop hands only what its own filter let through to the grader, the  *)
(* generator and the result, whatever became of the rows meanwhile.        *)
THEOREM LoopIsGoverned == Spec => []LoopGoverned
<1>1. Init => LoopGoverned
      BY DEF Init, LoopGoverned
<1>2. LoopGoverned /\ [Next]_vars => LoopGoverned'
  <2> SUFFICES ASSUME LoopGoverned, [Next]_vars PROVE LoopGoverned'
      OBVIOUS
  <2> USE DEF LoopGoverned
  <2>1. CASE Ask
        BY <2>1 DEF Ask
  <2>2. ASSUME NEW c \in Chunks, Change(c) PROVE LoopGoverned'
        BY <2>2 DEF Change, loop, result
  <2>3. CASE RerankAndGovern
        BY <2>3 DEF RerankAndGovern, loop, result
  <2>4. CASE RetrieveAgain \/ Refine
        BY <2>4 DEF RetrieveAgain, Refine, NextIteration, result
  <2>5. CASE GiveUp \/ Grounded \/ Abstain \/ Degrade
        BY <2>5 DEF GiveUp, Grounded, Abstain, Degrade, loop
  <2>6. CASE DeriveAllowlist \/ Search \/ Hydrate \/ Modes \/ Raise \/ Sufficient \/ Generate
        BY <2>6 DEF DeriveAllowlist, Search, Hydrate, Modes, DeriveModeAllowlist, QueryRows,
                    Raise, Sufficient, Generate, loop, result
  <2>7. CASE UNCHANGED vars
        BY <2>7 DEF vars, loop, result
  <2>8. QED BY <2>1, <2>2, <2>3, <2>4, <2>5, <2>6, <2>7 DEF Next, Step, Retrieve, Grade
<1>3. QED BY <1>1, <1>2, PTL DEF Spec

-----------------------------------------------------------------------------
(* Before a request is done it has no answer, and it generates only over   *)
(* chunks.                                                                 *)
AnswerInv ==
    /\ pc # "done" => answer = {} /\ graded = {} /\ stop = ""
    /\ pc \in {"generate", "groundedness"} => chunks # {}

LEMMA AnswerInvariant == Spec => [](AnswerInv /\ AnswersGrounded)
<1>1. Init => AnswerInv /\ AnswersGrounded
      BY DEF Init, AnswerInv, AnswersGrounded
<1>2. AnswerInv /\ AnswersGrounded /\ [Next]_vars => AnswerInv' /\ AnswersGrounded'
  <2> SUFFICES ASSUME AnswerInv, AnswersGrounded, [Next]_vars
               PROVE  AnswerInv' /\ AnswersGrounded'
      OBVIOUS
  <2> USE DEF AnswerInv, AnswersGrounded
  <2>1. CASE Ask
        BY <2>1 DEF Ask
  <2>2. ASSUME NEW c \in Chunks, Change(c) PROVE AnswerInv' /\ AnswersGrounded'
        BY <2>2 DEF Change, result
  <2>3. CASE Retrieve
        BY <2>3 DEF Retrieve, DeriveAllowlist, Search, Hydrate, RerankAndGovern, Goto, result
  <2>4. CASE Modes \/ Raise
        BY <2>4 DEF Modes, DeriveModeAllowlist, QueryRows, Raise, Goto, result
  <2>5. CASE Sufficient \/ Generate
        BY <2>5 DEF Sufficient, Generate, Goto, result
  <2>6. CASE RetrieveAgain \/ Refine
        BY <2>6 DEF RetrieveAgain, Refine, NextIteration, result
  <2>7. CASE GiveUp \/ Abstain \/ Degrade
        BY <2>7 DEF GiveUp, Abstain, Degrade, Goto
  <2>8. CASE Grounded
        BY <2>8 DEF Grounded, Goto
  <2>9. CASE UNCHANGED vars
        BY <2>9 DEF vars, result
  <2>10. QED
        BY <2>1, <2>2, <2>3, <2>4, <2>5, <2>6, <2>7, <2>8, <2>9 DEF Next, Step, Grade
<1>3. QED BY <1>1, <1>2, PTL DEF Spec
(* Abstaining is fail-closed: no end of a request but a grounded grade     *)
(* returns an answer, and that end always does.                            *)
THEOREM AnswersAreGrounded == Spec => []AnswersGrounded
BY AnswerInvariant, PTL

-----------------------------------------------------------------------------
(* What was authorised at some moment of the request: everything that is   *)
(* now, a version of each chunk of the allowlist, and whatever a filter    *)
(* let through.  Before a request is done it has given nothing.            *)
PromiseInv ==
    /\ Visible(session) \subseteq seeable
    /\ \A c \in allow : \E p \in seeable : p.id = c
    /\ \A o \in found : Authorized(o, session) => o \in seeable
    /\ chunks \cup provenance \subseteq seeable
    /\ pc # "done" => provenance = {}

LEMMA PromiseInvariant == Spec => []PromiseInv
<1>1. Init => PromiseInv
      BY DEF Init, PromiseInv
<1>2. PromiseInv /\ [Next]_vars => PromiseInv'
  <2> SUFFICES ASSUME PromiseInv, [Next]_vars PROVE PromiseInv'
      OBVIOUS
  <2> USE DEF PromiseInv
  <2>1. CASE Ask
    <3>1. Visible(session)' \subseteq seeable'
          BY <2>1 DEF Ask, store, Visible, Stored, Object
    <3>2. QED BY <2>1, <3>1 DEF Ask
  <2>2. ASSUME NEW c \in Chunks, Change(c) PROVE PromiseInv'
        BY <2>2 DEF Change, loop, fetch, result
  <2>3. ASSUME UNCHANGED <<rows, session, seeable>>
        PROVE  Visible(session)' \subseteq seeable'
        BY <2>3 DEF Visible, Stored, Object
  <2>4. ASSUME Snapshot, UNCHANGED <<rows, session>>
        PROVE  /\ seeable' = seeable
               /\ \A c \in allow' : \E p \in seeable' : p.id = c
    <3>1. seeable' = seeable /\ allow' = {c \in Stored : Authorized(rows[c], session)}
          BY <2>4 DEF Snapshot
    <3>2. \A c \in allow' : Object(c) \in seeable /\ Object(c).id = c
          BY <3>1 DEF Visible, Object
    <3>3. QED BY <3>1, <3>2
  <2>5. CASE DeriveAllowlist
    <3>1. UNCHANGED <<rows, session, chunks, provenance>> /\ found' = {} /\ Snapshot
          BY <2>5 DEF DeriveAllowlist, store, loop, result
    <3>2. pc = "allow" /\ pc' \in {"rerank", "search"}
          BY <2>5 DEF DeriveAllowlist
    <3>3. QED BY <2>3, <2>4, <3>1, <3>2
  <2>6. CASE Search
    <3>1. /\ UNCHANGED <<rows, session, seeable, allow, found, chunks, provenance>>
          /\ pc = "search" /\ pc' \in {"rerank", "hydrate"}
          BY <2>6 DEF Search, store, loop, result, history
    <3>2. QED BY <2>3, <3>1
  <2>7. CASE Hydrate
    <3>1. PICK c \in hits :
             /\ found' = IF c \in Stored /\ Known(rows[c])
                         THEN found \cup {Object(c)} ELSE found
             /\ pc' \in {"rerank", "hydrate"}
          BY <2>7 DEF Hydrate
    <3>2. UNCHANGED <<rows, session, seeable, allow, chunks, provenance>> /\ pc = "hydrate"
          BY <2>7 DEF Hydrate, store, loop, result, history
    <3>3. c \in Stored /\ Authorized(Object(c), session) => Object(c) \in seeable
          BY ObjectDecision DEF Visible
    <3>4. QED BY <2>3, <3>1, <3>2, <3>3
  <2>8. CASE RerankAndGovern
    <3>1. PICK R \in SUBSET found : chunks' = {o \in R : Authorized(o, session)}
          BY <2>8 DEF RerankAndGovern, AtMost
    <3>2. /\ UNCHANGED <<rows, session, seeable, allow, found, provenance>>
          /\ pc = "rerank" /\ pc' = "relevance"
          BY <2>8 DEF RerankAndGovern, Goto, store, loop, fetch, result, history
    <3>3. QED BY <2>3, <3>1, <3>2
  <2>9. CASE Raise \/ Sufficient \/ Generate \/ GiveUp \/ Degrade
    <3>1. /\ UNCHANGED <<rows, session, seeable, allow, found, chunks, provenance>>
          /\ pc # "done"
          BY <2>9 DEF Raise, Sufficient, Generate, GiveUp, Degrade, Goto, store, loop, fetch,
                      result, history
    <3>2. QED BY <2>3, <3>1
  <2>10. CASE RetrieveAgain \/ Refine
    <3>1. /\ UNCHANGED <<rows, session, seeable, allow, found, provenance>>
          /\ pc # "done" /\ chunks' = {}
          BY <2>10 DEF RetrieveAgain, Refine, NextIteration, store, fetch, result, history
    <3>2. QED BY <2>3, <3>1
  <2>11. CASE Grounded \/ Abstain
    <3>1. /\ UNCHANGED <<rows, session, seeable, allow, found, chunks>>
          /\ pc' = "done" /\ provenance' = chunks
          BY <2>11 DEF Grounded, Abstain, Goto, store, loop, fetch, history
    <3>2. QED BY <2>3, <3>1
  <2>12. CASE DeriveModeAllowlist
    <3>1. /\ UNCHANGED <<rows, session, found, chunks, provenance>> /\ Snapshot
          /\ pc = "modeallow" /\ pc' = "moderows"
          BY <2>12 DEF DeriveModeAllowlist, Goto, store, loop, result
    <3>2. QED BY <2>3, <2>4, <3>1
  <2>13. CASE QueryRows
    <3>1. PICK matching \in SUBSET Stored : found' = {Object(c) : c \in matching}
          BY <2>13 DEF QueryRows
    <3>2. /\ UNCHANGED <<rows, session, seeable, allow, chunks, provenance>>
          /\ pc = "moderows" /\ pc' = "rows"
          BY <2>13 DEF QueryRows, Goto, store, loop, result, history
    <3>3. \A c \in matching : Authorized(Object(c), session) => Object(c) \in seeable
          BY ObjectDecision DEF Visible
    <3>4. QED BY <2>3, <3>1, <3>2, <3>3
  <2>14. CASE UNCHANGED vars
        BY <2>3, <2>14 DEF vars, store, loop, fetch, result, history
  <2>15. QED
        BY <2>1, <2>2, <2>5, <2>6, <2>7, <2>8, <2>9, <2>10, <2>11, <2>12, <2>13, <2>14
        DEF Next, Step, Retrieve, Grade, Modes
<1>3. QED BY <1>1, <1>2, PTL DEF Spec

(* What the promise calls visible is what the request is authorised for,   *)
(* and what it calls current are the rows as they would be read.           *)
LEMMA CurrentAsPromised ==
    /\ Promise!Current = {Object(c) : c \in Stored}
    /\ \A s : Promise!Visible(s) = Visible(s)
<1>1. \A c : Promise!Object(c) = Object(c)
      BY DEF Promise!Object, Object
<1>2. Promise!Current = {Object(c) : c \in Stored}
      BY <1>1 DEF Promise!Current, Stored
<1>3. \A c, s : Authorized(Object(c), s) <=> Authorized(rows[c], s)
      BY DEF Object, Authorized, Known, Security
<1>4. QED BY <1>2, <1>3 DEF Promise!Visible, Visible

LEMMA VisibleAsPromised == Promise!Visible(session) = Visible(session)
BY CurrentAsPromised

(* Every step of the loop, or of a mode retriever, is a step of a governed *)
(* request or leaves what the reader knows as it was.                      *)
LEMMA PromiseSimulation ==
    TypeOK /\ AnswerInv /\ PromiseInv /\ [Next]_vars => [Promise!Next]_(Promise!request)
<1> SUFFICES ASSUME TypeOK, AnswerInv, PromiseInv, [Next]_vars
             PROVE  [Promise!Next]_(Promise!request)
    OBVIOUS
<1> USE DEF Promise!request
<1>1. CASE Ask
  <2>1. Status \notin {"asked", "listing"} /\ Status' \in {"asked", "listing"}
        BY <1>1 DEF Ask, Status
  <2>2. session' \in SessionPool /\ UNCHANGED rows /\ Given' = {}
        BY <1>1 DEF Ask, store, Given
  <2>3. seeable' = Promise!Visible(session')
        BY <1>1, CurrentAsPromised DEF Ask
  <2>4. QED BY <2>1, <2>2, <2>3 DEF Promise!Next, Promise!Ask
<1>2. ASSUME NEW c \in Chunks, Change(c) PROVE Promise!Next
  <2>1. UNCHANGED <<session, Status, Given>>
        BY <1>2 DEF Change, loop, fetch, result, Status, Given
  <2>2. \E row \in RowPool \cup {Gone} : rows' = [rows EXCEPT ![c] = row]
        BY <1>2 DEF Change
  <2>3. (Promise!Visible(session) = Visible(session))'
        BY VisibleAsPromised, PTL
  <2>4. seeable' = seeable \cup Promise!Visible(session)'
        BY <1>2, <2>3 DEF Change
  <2>5. QED BY <2>1, <2>2, <2>4 DEF Promise!Next, Promise!Change
<1>3. CASE Raise
  <2>1. Status \in {"asked", "listing"} /\ Status' = "failed"
        BY <1>3 DEF Raise, Goto, Status
  <2>2. UNCHANGED <<rows, session, seeable, Given>>
        BY <1>3 DEF Raise, Goto, store, loop, fetch, result, history, Given
  <2>3. QED BY <2>1, <2>2 DEF Promise!Next, Promise!Fail
<1>4. CASE Grounded
  <2>1. chunks # {} /\ chunks \subseteq seeable
        BY <1>4 DEF Grounded, Goto, AnswerInv, PromiseInv
  <2>2. UNCHANGED <<rows, session, seeable>> /\ Given' = chunks
        BY <1>4 DEF Grounded, Goto, store, loop, history, Given
  <2>3. Status = "asked" /\ Status' = "answered"
        BY <1>4, <2>1 DEF Grounded, Goto, Status
  <2>4. QED BY <2>1, <2>2, <2>3 DEF Promise!Next, Promise!Answer, Promise!Give
<1>5. CASE GiveUp \/ Abstain \/ Degrade
  <2>1. Given' \subseteq seeable
        BY <1>5 DEF GiveUp, Abstain, Degrade, Goto, PromiseInv, Given
  <2>2. UNCHANGED <<rows, session, seeable>>
        BY <1>5 DEF GiveUp, Abstain, Degrade, store, loop, history
  <2>3. Status = "asked" /\ Status' = "abstained"
        BY <1>5 DEF GiveUp, Abstain, Degrade, Goto, AnswerInv, Status
  <2>4. QED BY <2>1, <2>2, <2>3 DEF Promise!Next, Promise!Abstain, Promise!Give
<1>6. CASE QueryRows
  <2>1. PICK matching \in SUBSET (allow \cap Stored) : found' = {Object(c) : c \in matching}
        BY <1>6 DEF QueryRows
  <2>2. \A c \in matching : Object(c) \in Promise!Current /\ \E p \in seeable : p.id = Object(c).id
        BY CurrentAsPromised DEF PromiseInv, Object
  <2>3. UNCHANGED <<rows, session, seeable>> /\ Given' = found'
        BY <1>6 DEF QueryRows, Goto, store, loop, history, Given
  <2>4. Status = "listing" /\ Status' = "listed"
        BY <1>6 DEF QueryRows, Goto, Status
  <2>5. QED BY <2>1, <2>2, <2>3, <2>4 DEF Promise!Next, Promise!List
<1>7. CASE DeriveAllowlist \/ Search \/ Hydrate \/ RerankAndGovern
  <2>1. Status = "asked" /\ Status' = "asked"
        BY <1>7 DEF DeriveAllowlist, Search, Hydrate, RerankAndGovern, Goto, Status
  <2>2. UNCHANGED <<rows, session, seeable, Given>>
        BY <1>7 DEF DeriveAllowlist, Snapshot, Search, Hydrate, RerankAndGovern, Goto,
                    store, loop, result, history, Given
  <2>3. QED BY <2>1, <2>2
<1>8. CASE Sufficient \/ Generate \/ RetrieveAgain \/ Refine
  <2>1. Status = "asked" /\ Status' = "asked"
        BY <1>8 DEF Sufficient, Generate, RetrieveAgain, Refine, NextIteration, Goto, Status
  <2>2. UNCHANGED <<rows, session, seeable, Given>>
        BY <1>8 DEF Sufficient, Generate, RetrieveAgain, Refine, NextIteration, Goto,
                    store, loop, result, history, Given
  <2>3. QED BY <2>1, <2>2
<1>9. CASE DeriveModeAllowlist
  <2>1. UNCHANGED Status
        BY <1>9 DEF DeriveModeAllowlist, Goto, Status
  <2>2. UNCHANGED <<rows, session, seeable, Given>>
        BY <1>9 DEF DeriveModeAllowlist, Snapshot, Goto, store, loop, result, Given
  <2>3. QED BY <2>1, <2>2
<1>10. CASE UNCHANGED vars
       BY <1>10 DEF vars, store, loop, fetch, result, history, Status, Given
<1>11. QED
       BY <1>1, <1>2, <1>3, <1>4, <1>5, <1>6, <1>7, <1>8, <1>9, <1>10
       DEF Next, Step, Retrieve, Grade, Modes

(* Both paths implement a governed request: whatever becomes of the rows   *)
(* meanwhile, a reader is handed what was stored during the request and    *)
(* was the reader's to see at some moment of it.                           *)
THEOREM PromiseKept == Spec => AnswersAsPromised
<1>1. Init => Promise!Init
  <2> SUFFICES ASSUME Init PROVE Promise!Init
      OBVIOUS
  <2>1. Status = "idle" /\ Given = {}
        BY DEF Init, Status, Given
  <2>2. QED BY <2>1, CurrentAsPromised DEF Init, Promise!Init
<1>2. QED
      BY <1>1, PromiseSimulation, PromiseInvariant, AnswerInvariant, TypeCorrect, PTL
      DEF Spec, AnswersAsPromised, Promise!Spec
=============================================================================
