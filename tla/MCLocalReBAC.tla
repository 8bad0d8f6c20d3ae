----------------------------- MODULE MCLocalReBAC -----------------------------
(***************************************************************************)
(* Footprints that take every leg of access.evaluate (public, level, PII,  *)
(* need-to-know, scoped, legacy role gate, unrecognised class) and the     *)
(* sessions on each side of them.                                          *)
(***************************************************************************)
EXTENDS LocalReBAC, TLC

RowSymmetry == Permutations(ChunkIds)

MCRoles == {"PUBLIC", "C_SUITE", "FINANCE", "LEGAL", "STRATEGY", "CISO",
            "SECURITY", "BOARD", "HR"}

Print1(level, cls, allowed, ntk, partial) ==
    [clearance_level |-> level, allowed_roles |-> allowed, sensitivity_class |-> cls,
     need_to_know_roles |-> ntk, partial_for |-> partial]

MCFootprints ==
    {ClassFootprint(cls) : cls \in {"A", "C", "D", "E", "F", "H"}} \cup
    {Print1(0, "", {"PUBLIC"}, {}, {}),
     Print1(0, "", {"HR"}, {}, {}),
     Print1(1, "", {"HR"}, {}, {}),
     Print1(3, "G", {"LEGAL"}, {"LEGAL"}, {"SECURITY"}),
     Print1(2, "Z", {}, {}, {})}

Person(level, roles) == [roles |-> roles, clearance_level |-> level]

MCSessions ==
    {Person(0, {}), Person(1, {"HR"}), Person(2, {"FINANCE"}), Person(3, {"SECURITY"}),
     Person(4, {"LEGAL"}), Person(4, {"FINANCE"}), Person(5, {"C_SUITE", "BOARD"})}
=============================================================================
