----------------------------- MODULE MCIngestion -----------------------------
(***************************************************************************)
(* Two file names and front matter of six kinds: need-to-know with scoped  *)
(* access, roles without a class, PII in a lower-case spelling, PII at     *)
(* level 0, a level out of range, and none at all.  index_multimodal may   *)
(* be handed a PII document or one with scoped access; a reclassification  *)
(* and a delete of document 1 arrive meanwhile.                            *)
(***************************************************************************)
EXTENDS Ingestion, TLC

IngesterSymmetry == Permutations(Ingesters)

MCRoles == {"HR", "ON_CALL", "PUBLIC"}
MCUpper == ("" :> "" @@ "d" :> "D" @@ "F" :> "F")

Matter(keys, roles, level, cls, ntk, partial) ==
    [keys |-> keys, allowed_roles |-> roles, clearance_level |-> level,
     sensitivity_class |-> cls, need_to_know_roles |-> ntk, partial_for |-> partial]

Both == {"allowed_roles", "clearance_level"}

MCFrontMatters ==
    {Matter(Both, {}, 2, "F", {"HR"}, {"ON_CALL"}),
     Matter({"allowed_roles"}, {"HR"}, 0, "", {}, {}),
     Matter(Both, {}, 2, "d", {}, {}),
     Matter({"allowed_roles"}, {}, 0, "d", {}, {}),
     Matter(Both, {}, 9, "F", {}, {}),
     Matter({}, {}, 0, "", {}, {})}

Declared == CHOOSE m \in MCFrontMatters : m.need_to_know_roles # {}
Unclassed == CHOOSE m \in MCFrontMatters : m.allowed_roles = {"HR"}

MCCorpus == (1 :> Declared @@ 2 :> Unclassed)

Doc(level, cls, ntk, partial) ==
    [clearance_level |-> level, allowed_roles |-> {}, sensitivity_class |-> cls,
     need_to_know_roles |-> ntk, partial_for |-> partial]

MCDocuments ==
    {[doc_id |-> 1, security |-> Doc(1, "D", {}, {})],
     [doc_id |-> 1, security |-> Doc(2, "F", {"HR"}, {"ON_CALL"})]}

MCEvents ==
    {[id |-> <<1, "text">>, version |-> 1, op |-> "upsert", security |-> Doc(5, "F", {}, {})],
     [id |-> <<1, "text">>, version |-> 2, op |-> "delete", security |-> Doc(0, "", {}, {})]}

MCReaders ==
    {[roles |-> r, clearance_level |-> l] : r \in {{}, {"HR"}, {"ON_CALL"}}, l \in {0, 2, 4}}
=============================================================================
