---------------------------- MODULE AccessControl ----------------------------
(***************************************************************************)
(* The access decision of the engine, as pure operators.                   *)
(*                                                                         *)
(* A footprint is what a chunk's SecurityContext and its partial_for       *)
(* metadata say; a session is the caller's roles and clearance.  Roles are *)
(* sets: the validators upper-case and de-duplicate them, and every test   *)
(* the code makes on them is a membership or disjointness test.            *)
(***************************************************************************)
EXTENDS Integers

CONSTANT Roles                \* role identifiers; may contain "PUBLIC"

ValidClasses == {"A", "B", "C", "D", "E", "F", "G", "H",
                 "I", "J", "K", "L", "M", "N"}
PiiClass     == "D"
Clearances   == 0 .. 5
Decisions    == {"allow", "mask", "partial", "deny"}

Footprints == [clearance_level    : Clearances,
               allowed_roles      : SUBSET Roles,
               sensitivity_class  : STRING,
               need_to_know_roles : SUBSET Roles,
               partial_for        : SUBSET Roles]

Sessions == [roles : SUBSET Roles, clearance_level : Clearances]

Disjoint(A, B) == A \cap B = {}

IsPublic(chunk) ==
    /\ chunk.clearance_level = 0
    /\ chunk.allowed_roles = {} \/ "PUBLIC" \in chunk.allowed_roles

Unrecognised(chunk) == chunk.sensitivity_class \notin ValidClasses \cup {""}

PiiDecision(level) ==
    IF level >= 4 THEN "allow" ELSE IF level >= 2 THEN "mask" ELSE "deny"

(* The session holds no full need-to-know role: scoped access or none.     *)
ScopedDecision(chunk, session) ==
    IF Disjoint(chunk.partial_for, session.roles) THEN "deny" ELSE "partial"

(* A mutant of Evaluate: the gates without the need-to-know gate.          *)
EvaluateWithoutNeedToKnow(chunk, session) ==
    IF IsPublic(chunk) THEN "allow"
    ELSE IF Unrecognised(chunk) THEN "deny"
    ELSE IF chunk.sensitivity_class = PiiClass
         THEN PiiDecision(session.clearance_level)
    ELSE IF session.clearance_level < chunk.clearance_level THEN "deny"
    ELSE "allow"

(***************************************************************************)
(* access.evaluate: the gates in the order the code tries them.  The role  *)
(* gate is the legacy path: it applies to un-classed chunks alone.         *)
(***************************************************************************)
Evaluate(chunk, session) ==
    IF IsPublic(chunk) THEN "allow"
    ELSE IF Unrecognised(chunk) THEN "deny"
    ELSE IF chunk.sensitivity_class = PiiClass
         THEN PiiDecision(session.clearance_level)
    ELSE IF session.clearance_level < chunk.clearance_level THEN "deny"
    ELSE IF /\ chunk.need_to_know_roles # {}
            /\ Disjoint(chunk.need_to_know_roles, session.roles)
         THEN ScopedDecision(chunk, session)
    ELSE IF /\ chunk.sensitivity_class = ""
            /\ Disjoint(chunk.allowed_roles, session.roles)
         THEN "deny"
    ELSE "allow"

(* InProcessAllowlist admits a chunk exactly when it is not denied.        *)
Retrievable(chunk, session) == Evaluate(chunk, session) # "deny"
=============================================================================
