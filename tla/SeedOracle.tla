------------------------------ MODULE SeedOracle ------------------------------
(***************************************************************************)
(* The seeds-side ground truth for an asset of a sensitivity class, derived *)
(* independently of the engine, and the footprint the leak oracle drives   *)
(* through the engine for such an asset.                                   *)
(***************************************************************************)
EXTENDS AccessControl

(* seeds.access_matrix.CLASSES: minimum level and need-to-know roles.      *)
MinLevel ==
    [c \in ValidClasses |->
        CASE c = "A"                       -> 0
          [] c = "B"                       -> 1
          [] c \in {"C", "L"}              -> 2
          [] c \in {"D", "K"}              -> 3
          [] c \in {"E", "G", "H", "J"}    -> 4
          [] c \in {"F", "I", "M", "N"}    -> 5]

NeedToKnow ==
    [c \in ValidClasses |->
        CASE c \in {"A", "B", "C", "D"}    -> {}
          [] c \in {"E", "L", "M", "N"}    -> {"FINANCE", "C_SUITE"}
          [] c = "F"                       -> {"C_SUITE"}
          [] c = "G"                       -> {"LEGAL", "C_SUITE", "STRATEGY"}
          [] c = "H"                       -> {"CISO", "SECURITY", "BOARD"}
          [] c \in {"I", "J", "K"}         -> {"HR", "C_SUITE"}]

EvaluateClass(cls, session) ==
    IF cls = PiiClass THEN PiiDecision(session.clearance_level)
    ELSE IF session.clearance_level < MinLevel[cls] THEN "deny"
    ELSE IF NeedToKnow[cls] # {} /\ Disjoint(NeedToKnow[cls], session.roles)
         THEN "deny"
    ELSE "allow"

(* oracle._chunk_for: the class's roles are both allowed and need-to-know. *)
ClassFootprint(cls) ==
    [clearance_level    |-> MinLevel[cls],
     allowed_roles      |-> NeedToKnow[cls],
     sensitivity_class  |-> cls,
     need_to_know_roles |-> NeedToKnow[cls],
     partial_for        |-> {}]
=============================================================================
