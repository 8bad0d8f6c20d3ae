--------------------------- MODULE MCQueryPipeline ---------------------------
(***************************************************************************)
(* Two handler threads and the change consumer over two chunks.  Chunk c1  *)
(* starts readable by everyone at level 1, is reclassified to customer PII *)
(* (masked for the analyst, raw for the director), then to executive       *)
(* compensation (denied to both); c2 is deleted.                           *)
(***************************************************************************)
EXTENDS QueryPipeline, TLC

CONSTANTS c1, c2, q1, t1, t2

MCRoles == {"PUBLIC", "C_SUITE"}

Footprint(level, cls, ntk) ==
    [clearance_level |-> level, allowed_roles |-> ntk, sensitivity_class |-> cls,
     need_to_know_roles |-> ntk, partial_for |-> {}]

General  == Footprint(1, "B", {})
Pii      == Footprint(3, "D", {})
ExecComp == Footprint(5, "F", {"C_SUITE"})

MCPayload ==
    (c1 :> (0 :> General @@ 1 :> Pii @@ 2 :> ExecComp)) @@
    (c2 :> (0 :> General @@ 1 :> General @@ 2 :> General))

Change(c, v, op) == [chunk |-> c, version |-> v, op |-> op]

\* c1 is reclassified up twice while c2 is deleted.
MCEvents == {Change(c1, 1, "upsert"), Change(c1, 2, "upsert"), Change(c2, 1, "delete")}

\* Same roles, different clearance: customer PII is masked for the analyst.
Analyst  == [roles |-> {}, clearance_level |-> 2]
Director == [roles |-> {}, clearance_level |-> 4]
MCReaders == {Analyst, Director}

MCSimilarity == [p \in Queries \X Queries |-> IF p[1] = p[2] THEN 2 ELSE 1]

ThreadSymmetry == Permutations(Threads)
=============================================================================
