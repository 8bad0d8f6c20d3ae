------------------------------ MODULE LocalReBAC ------------------------------
(***************************************************************************)
(* The relationship-tuple allowlist.  It keeps, per chunk, the tuples      *)
(* written when the chunk was last synced; authorized_ids decides from     *)
(* them and syncs a candidate only when it has no tuples for it at all.    *)
(* Nothing in the engine calls sync when a row is reclassified: a row's    *)
(* live footprint and its tuples may drift apart.                          *)
(***************************************************************************)
EXTENDS SeedOracle, FiniteSets

CONSTANTS
    ChunkIds,          \* rows of the store
    FootprintPool,     \* footprints a row may carry
    Askers,            \* sessions that ask
    NoFacts            \* not a footprint: the chunk was never synced

ASSUME PoolAssumption ==
    /\ FootprintPool \subseteq Footprints
    /\ Askers \subseteq Sessions

VARIABLES
    live,      \* live[c]: the footprint the store row carries now
    facts,     \* facts[c]: the tuples in _facts, or NoFacts
    lookup,    \* the last authorized_ids call, until the rows change again
    synced     \* history: the footprint c carried when last synced, or NoFacts

tupleVars == <<live, facts, lookup, synced>>

(* governance_tuples: what is written for a chunk.                         *)
Tuples(chunk) ==
    [public       |-> IsPublic(chunk),
     class        |-> chunk.sensitivity_class,
     min_level    |-> chunk.clearance_level,
     ntk_role     |-> chunk.need_to_know_roles,
     partial_role |-> chunk.partial_for,
     allowed_role |-> chunk.allowed_roles]

(* A mutant: the legacy role gate of un-classed chunks is missing.         *)
RetrievableWithoutRoleGate(tuples, session) ==
    \/ tuples.public
    \/ /\ tuples.class = PiiClass
       /\ session.clearance_level >= 2
    \/ /\ tuples.class # PiiClass
       /\ session.clearance_level >= tuples.min_level
       /\ \/ tuples.ntk_role = {}
          \/ ~Disjoint(tuples.ntk_role \cup tuples.partial_role, session.roles)

(* _decision_is_retrievable: the deny conditions, read from the tuples.    *)
RetrievableFromTuples(tuples, session) ==
    \/ tuples.public
    \/ /\ tuples.class = PiiClass
       /\ session.clearance_level >= 2
    \/ /\ tuples.class # PiiClass
       /\ session.clearance_level >= tuples.min_level
       /\ IF tuples.ntk_role # {} /\ Disjoint(tuples.ntk_role, session.roles)
          THEN ~Disjoint(tuples.partial_role, session.roles)
          ELSE tuples.class = "" => ~Disjoint(tuples.allowed_role, session.roles)

NoLookup == [candidates |-> {}, ids |-> {}]
FactSet  == {Tuples(chunk) : chunk \in FootprintPool}

TupleInit ==
    /\ live \in [ChunkIds -> FootprintPool]
    /\ facts = [c \in ChunkIds |-> NoFacts]
    /\ lookup = NoLookup
    /\ synced = facts

(* A change event rewrites the row; the allowlist is not told.             *)
Reclassify(c) ==
    /\ \E chunk \in FootprintPool \ {live[c]} : live' = [live EXCEPT ![c] = chunk]
    /\ lookup' = NoLookup
    /\ UNCHANGED <<facts, synced>>

SyncedNow(S) == [c \in ChunkIds |-> IF c \in S THEN live[c] ELSE synced[c]]

(* A mutant: a sync adds to the role tuples the chunk already has.         *)
SyncOnTop(S) ==
    /\ facts' = [c \in ChunkIds |->
                   CASE c \notin S        -> facts[c]
                     [] facts[c] = NoFacts -> Tuples(live[c])
                     [] OTHER              ->
                          [Tuples(live[c]) EXCEPT
                              !.ntk_role = @ \cup facts[c].ntk_role,
                              !.partial_role = @ \cup facts[c].partial_role,
                              !.allowed_role = @ \cup facts[c].allowed_role]]
    /\ lookup' = NoLookup
    /\ synced' = SyncedNow(S)
    /\ UNCHANGED live

(* Each chunk's tuples are built anew and replace the ones it had.         *)
Sync(S) ==
    /\ facts' = [c \in ChunkIds |-> IF c \in S THEN Tuples(live[c]) ELSE facts[c]]
    /\ lookup' = NoLookup
    /\ synced' = SyncedNow(S)
    /\ UNCHANGED live

AuthorizedIds(session, candidates) ==
    /\ facts' = [c \in ChunkIds |->
                   IF c \in candidates /\ facts[c] = NoFacts
                   THEN Tuples(live[c]) ELSE facts[c]]
    /\ lookup' = [candidates |-> candidates, session |-> session,
                  ids |-> {c \in candidates : RetrievableFromTuples(facts'[c], session)}]
    /\ synced' = SyncedNow({c \in candidates : facts[c] = NoFacts})
    /\ UNCHANGED live

TupleNext ==
    \/ \E c \in ChunkIds : Reclassify(c)
    \/ \E S \in SUBSET ChunkIds : Sync(S)
    \/ \E session \in Askers, candidates \in SUBSET ChunkIds \ {{}} :
          AuthorizedIds(session, candidates)

TupleSpec == TupleInit /\ [][TupleNext]_tupleVars

-----------------------------------------------------------------------------
TupleTypeOK ==
    /\ live \in [ChunkIds -> FootprintPool]
    /\ facts \in [ChunkIds -> FactSet \cup {NoFacts}]
    /\ lookup.ids \subseteq lookup.candidates
    /\ lookup.candidates \subseteq ChunkIds
    /\ synced \in [ChunkIds -> FootprintPool \cup {NoFacts}]

Fresh(c) == facts[c] = Tuples(live[c])

(* The backend contract, where it can hold: a candidate whose tuples are   *)
(* those of its live row, and whose class is recognised, is returned       *)
(* exactly when access.evaluate does not deny it.                          *)
ParityWhenFresh ==
    \A c \in lookup.candidates :
        Fresh(c) /\ ~Unrecognised(live[c])
            => (c \in lookup.ids <=> Retrievable(live[c], lookup.session))

(* What drift costs, and no more: a lookup decides each candidate as       *)
(* access.evaluate would on the footprint its row carried when it was last *)
(* synced, whatever was synced, asked and reclassified before.             *)
DecidedAsSynced ==
    \A c \in lookup.candidates :
        ~Unrecognised(synced[c])
            => (c \in lookup.ids <=> Retrievable(synced[c], lookup.session))

(* The leak oracle: on the footprint oracle._chunk_for gives an asset of a *)
(* class, the engine decides what the seeds' access matrix says.           *)
EngineMatchesOracle ==
    \A c \in ChunkIds, cls \in ValidClasses, session \in Askers :
        live[c] = ClassFootprint(cls)
            => Evaluate(live[c], session) = EvaluateClass(cls, session)
=============================================================================
