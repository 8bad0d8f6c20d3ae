----------------------------- MODULE ChunkSource -----------------------------
(***************************************************************************)
(* SurrealChunkSource: the footprint of a stored chunk is rebuilt from the *)
(* class and level of its row, its roles from the catalog's table.  The    *)
(* table is schemaless: a row may carry any class name and any level.      *)
(***************************************************************************)
EXTENDS SeedOracle

Rows == [cls : STRING, level : Int]

(* _CLASS_ROLES has the class; every other row is left out, fail-closed.   *)
Known(row) == row.cls \in ValidClasses

(* SecurityContext accepts the level; another one raises a ValidationError, *)
(* which the source does not catch.                                        *)
Valid(row) == row.level \in Clearances

(* A mutant: the catalog's roles are not looked up.                        *)
SecurityWithoutRoles(row) ==
    [clearance_level    |-> row.level,
     allowed_roles      |-> {},
     sensitivity_class  |-> row.cls,
     need_to_know_roles |-> {},
     partial_for        |-> {}]

(* _security: level-only classes have no roles in the table.               *)
Security(row) ==
    [clearance_level    |-> row.level,
     allowed_roles      |-> NeedToKnow[row.cls],
     sensitivity_class  |-> row.cls,
     need_to_know_roles |-> NeedToKnow[row.cls],
     partial_for        |-> {}]

(* The row gets onto the session's allowlist.                              *)
Authorized(row, session) == Known(row) /\ Retrievable(Security(row), session)
=============================================================================
