----------------------------- MODULE EstateLoad -----------------------------
(***************************************************************************)
(* The batch jobs that carry the estate of a release of the code to where  *)
(* the server finds it, and the server that loads it.  emit writes the     *)
(* manifest and row files, load_estate the asset rows, build_index the     *)
(* index file, its id map and the chunk rows: one file or row at a time,   *)
(* each may crash, and none deletes.  Generation is deterministic, so what *)
(* a place holds is told by the release whose job wrote it last.           *)
(***************************************************************************)
EXTENDS Estate, SequencesExt

CONSTANTS Releases,           \* the estates of successive releases
          BuildOrder, Sorted, \* asset ids as generated, and as sorted
          SessionPool, MaxJobs, MaxDeploys, MaxCrashes

AssetIds == Range(Sorted)
Versions == DOMAIN Releases
Specs == [cls : ValidClasses, level : Int, mode : STRING,
          pii : SUBSET STRING, masked : SUBSET STRING, rows : Nat, text : Nat]

ASSUME EstateAssumption ==
    /\ Versions = 1..Len(Releases) /\ 1 \in Versions
    /\ \A r \in Versions : /\ DOMAIN Releases[r] \subseteq AssetIds
                           /\ \A a \in DOMAIN Releases[r] : Releases[r][a] \in Specs
    /\ Sorted \in Seq(STRING) /\ BuildOrder \in Seq(AssetIds)
    /\ SessionPool \subseteq Sessions
    /\ MaxJobs \in Nat /\ MaxDeploys \in Nat /\ MaxCrashes \in Nat

VARIABLES
    release,            \* the deployed code
    stored,             \* place -> release that last wrote it, 0 for never
    job, clean,         \* the running jobs; the release a job last completed
    registry, index,    \* the server's catalog and open index files
    jobs, deploys, crashes

server == <<registry, index>>
bounds == <<jobs, deploys, crashes>>
vars == <<release, stored, job, clean, server, bounds>>

Kinds == {"emit", "load", "build"}
NoJob == [release |-> 0, todo |-> {}]

Assets(r) == DOMAIN Releases[r]
Declared(r, a) == Releases[r][a]

\* turbovec_target._chunk_texts: the rows of the vector-mode assets, in order.
RowsOf(r, a) == [i \in 1..Declared(r, a).rows |-> <<a, i>>]
ChunksOf(r) ==
    FlattenSeq([i \in DOMAIN BuildOrder |->
        IF BuildOrder[i] \in Assets(r) /\ Declared(r, BuildOrder[i]).mode = "vector"
        THEN RowsOf(r, BuildOrder[i]) ELSE <<>>])

\* The places a job writes: a build with no rows to embed returns at once.
Writes(kind, r) ==
    CASE kind = "emit" ->
            ({"file"} \X {"manifest", "oracle", "glossary"})
            \cup ({"rows"} \X {a \in Assets(r) : Declared(r, a).rows > 0})
      [] kind = "load" -> {"asset"} \X Assets(r)
      [] kind = "build" ->
            IF ChunksOf(r) = <<>> THEN {}
            ELSE ({"index"} \X {"tvim", "idmap"}) \cup ({"chunk"} \X Range(ChunksOf(r)))

\* The order it writes them in.
Place(table, keys) == [i \in DOMAIN keys |-> <<table, keys[i]>>]
Order(kind, r) ==
    CASE kind = "emit" ->
            Place("file", <<"manifest">>) \o Place("rows", BuildOrder)
            \o Place("file", <<"oracle", "glossary">>)
      [] kind = "load" -> Place("asset", Sorted)
      [] kind = "build" -> Place("index", <<"tvim", "idmap">>) \o Place("chunk", ChunksOf(r))

\* The place a running job writes next, if any is left.
Due(kind) ==
    LET order == Order(kind, job[kind].release)
    IN IF job[kind].todo = {} THEN {}
       ELSE {order[Min({i \in DOMAIN order : order[i] \in job[kind].todo})]}

AllChunks == UNION {Range(ChunksOf(r)) : r \in Versions}
Places ==
    ({"file"} \X {"manifest", "oracle", "glossary"}) \cup ({"rows", "asset"} \X AssetIds)
    \cup ({"index"} \X {"tvim", "idmap"}) \cup ({"chunk"} \X AllChunks)
Holds(table, key) == stored[<<table, key>>]

Init ==
    /\ release = 1
    /\ stored = [p \in Places |-> 0]
    /\ job = [k \in Kinds |-> NoJob]
    /\ clean = [k \in Kinds |-> 0]
    /\ registry = [a \in AssetIds |-> 0]
    /\ index = [tvim |-> 0, idmap |-> 0]
    /\ jobs = 0 /\ deploys = 0 /\ crashes = 0

\* Another release is deployed, or the same one restarted: the server starts anew.
Deploy(r) ==
    /\ deploys < MaxDeploys
    /\ release' = r
    /\ registry' = [a \in AssetIds |-> 0]
    /\ index' = [tvim |-> 0, idmap |-> 0]
    /\ deploys' = deploys + 1
    /\ UNCHANGED <<stored, job, clean, jobs, crashes>>

Idle(kind) == job[kind].release = 0
Gated(r) == \A a \in Assets(r) : ~MaskingViolation(Declared(r, a))

\* A mutant: every job runs without the gate.
BeginUngated(kind) ==
    /\ Idle(kind) /\ jobs < MaxJobs
    /\ job' = [job EXCEPT ![kind] = [release |-> release, todo |-> Writes(kind, release)]]
    /\ clean' = [clean EXCEPT ![kind] = 0]
    /\ jobs' = jobs + 1
    /\ UNCHANGED <<release, stored, server, deploys, crashes>>

\* A job builds the estate of its release first; emit alone has the masking gate.
Begin(kind) ==
    /\ Idle(kind) /\ jobs < MaxJobs
    /\ kind = "emit" => Gated(release)
    /\ job' = [job EXCEPT ![kind] = [release |-> release, todo |-> Writes(kind, release)]]
    /\ clean' = [clean EXCEPT ![kind] = 0]
    /\ jobs' = jobs + 1
    /\ UNCHANGED <<release, stored, server, deploys, crashes>>

\* A mutant: rows are inserted, and one already there is kept.
WriteInsert(kind) ==
    \E p \in job[kind].todo \cap Due(kind) :
        /\ stored' = [stored EXCEPT ![p] =
                          IF p[1] \in {"asset", "chunk"} /\ @ # 0 THEN @ ELSE job[kind].release]
        /\ job' = [job EXCEPT ![kind].todo = @ \ {p}]
        /\ UNCHANGED <<release, clean, server, bounds>>

Write(kind) ==
    \E p \in job[kind].todo \cap Due(kind) :
        /\ stored' = [stored EXCEPT ![p] = job[kind].release]
        /\ job' = [job EXCEPT ![kind].todo = @ \ {p}]
        /\ UNCHANGED <<release, clean, server, bounds>>

Finish(kind) ==
    /\ ~Idle(kind) /\ job[kind].todo = {}
    /\ clean' = [clean EXCEPT ![kind] = job[kind].release]
    /\ job' = [job EXCEPT ![kind] = NoJob]
    /\ UNCHANGED <<release, stored, server, bounds>>

Crash(kind) ==
    /\ ~Idle(kind) /\ crashes < MaxCrashes
    /\ job' = [job EXCEPT ![kind] = NoJob]
    /\ crashes' = crashes + 1
    /\ UNCHANGED <<release, stored, clean, server, jobs, deploys>>

\* What a connector discovers: the estate of the code, or the stored rows.
Found(source) ==
    [a \in AssetIds |-> IF source = "store" THEN Holds("asset", a)
                        ELSE IF a \in Assets(release) THEN release ELSE 0]

\* The first asset whose level no SecurityContext accepts raises out of the load:
\* those before it are registered.
Accepted(found, a) == found[a] # 0 => Valid(Declared(found[a], a))
Before(i, found) == \A j \in 1..i : Accepted(found, Sorted[j])
Registered(found) == {Sorted[i] : i \in {j \in DOMAIN Sorted : found[Sorted[j]] # 0 /\ Before(j, found)}}

LoadCatalog(source) ==
    LET found == Found(source) IN
    /\ registry' = [a \in AssetIds |-> IF a \in Registered(found) THEN found[a] ELSE registry[a]]
    /\ UNCHANGED <<release, stored, job, clean, index, bounds>>

\* TurboVecIndex.load: the index file, then the id map beside it.
OpenIndex ==
    /\ index.tvim = 0 /\ Holds("index", "tvim") # 0
    /\ index' = [index EXCEPT !.tvim = Holds("index", "tvim")]
    /\ UNCHANGED <<release, stored, job, clean, registry, bounds>>

OpenIdMap ==
    /\ index.tvim # 0 /\ index.idmap = 0 /\ Holds("index", "idmap") # 0
    /\ index' = [index EXCEPT !.idmap = Holds("index", "idmap")]
    /\ UNCHANGED <<release, stored, job, clean, registry, bounds>>

Next ==
    \/ \E r \in Versions : Deploy(r)
    \/ \E k \in Kinds : Begin(k) \/ Write(k) \/ Finish(k) \/ Crash(k)
    \/ LoadCatalog("seed") \/ LoadCatalog("store")
    \/ OpenIndex \/ OpenIdMap

Spec == Init /\ [][Next]_vars
----------------------------------------------------------------------------
Release0 == Versions \cup {0}

\* What is stored, running, completed and open is told by releases.
TypeOK ==
    /\ release \in Versions
    /\ stored \in [Places -> Release0]
    /\ job \in [Kinds -> [release : Release0, todo : SUBSET Places]]
    /\ clean \in [Kinds -> Release0]
    /\ registry \in [AssetIds -> Release0]
    /\ index \in [tvim : Release0, idmap : Release0]
    /\ jobs \in Nat /\ deploys \in Nat /\ crashes \in Nat

\* The store's row of a chunk: the class and level of its asset in the release
\* that wrote it, and the text.
Row(c) == Declared(Holds("chunk", c), c[1])
StoredChunks == {c \in AllChunks : Holds("chunk", c) # 0}

\* A search filters the open index by the ids of the chunks whose rows the
\* session may see, and names the vectors it finds by the open id map.
Hits(session) ==
    LET ids == ChunksOf(index.idmap)
        vectors == ChunksOf(index.tvim)
        allowed == {u \in DOMAIN ids : ids[u] \in StoredChunks /\ Authorized(Row(ids[u]), session)}
    IN IF \E c \in StoredChunks : ~Valid(Row(c)) THEN {}
       ELSE {[chunk |-> ids[u], vector |-> vectors[u]] : u \in allowed \cap DOMAIN vectors}

\* Once a build has completed and the server has its files open, each hit's
\* vector is that of the hit's own stored text, and no hit is of an asset the
\* release's matrix denies to the session: rows an earlier release left behind
\* are out of reach.
RebuiltIndexFaithful ==
    LET r == index.tvim IN
    r # 0 /\ index.idmap = r /\ clean["build"] = r =>
        \A s \in SessionPool : \A h \in Hits(s) :
            /\ h.vector = h.chunk /\ Row(h.chunk).text = Declared(r, h.chunk[1]).text
            /\ EvaluateClass(Declared(r, h.chunk[1]).cls, s) # "deny" \/ ~LevelFitsClass(Declared(r, h.chunk[1]))

\* A row of an earlier release that the connector cannot load.
StaleInvalid == \E a \in AssetIds \ Assets(release) : ~Accepted(Found("store"), a)

\* The two connectors' parity: after load_estate has completed for the deployed
\* code, a load of the catalog from the store registers every asset the seeds
\* declare, as they declare it.  Rows of removed assets stay, and one with a
\* level no context accepts ends the load early.
ConnectorsAgree ==
    clean["load"] = release /\ ~StaleInvalid =>
        \A a \in Registered(Found("seed")) :
            a \in Registered(Found("store")) /\ Found("store")[a] = release

\* No entry of the catalog is decided more openly than the matrix, whichever
\* connector it came from and whatever was reclassified meanwhile, while its
\* level fits its class.
CatalogNoMoreOpen ==
    \A a \in {b \in AssetIds : registry[b] # 0}, s \in SessionPool :
        LET spec == Declared(registry[a], a) IN
        LevelFitsClass(spec) => ~Leaked(CatalogFootprint(spec), spec.cls, s)

\* Nothing is written of an estate with an unmaskable asset, and a completed
\* emit leaves a manifest and the row files it lists of one release.
EmittedWhole ==
    /\ \A p \in Places : p[1] \in {"file", "rows"} /\ stored[p] # 0 => Gated(stored[p])
    /\ LET r == clean["emit"] IN r # 0 =>
         /\ Holds("file", "manifest") = r
         /\ \A a \in Assets(r) : Declared(r, a).rows > 0 => Holds("rows", a) = r
=============================================================================
