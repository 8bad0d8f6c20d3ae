----------------------------- MODULE MCWarehouse -----------------------------
(***************************************************************************)
(* Two callers, an asset whose e-mail column is masked, one with nothing   *)
(* masked that most are denied, and one with another masked column.  The   *)
(* statements name a masked column, alias it, compute from it, star it,    *)
(* rename it in a derived table, or fail one of the gates.                 *)
(***************************************************************************)
EXTENDS Warehouse, TLC

CallerSymmetry == Permutations(Threads)

MCRoles == {"C_SUITE"}

MCNames == {"email", "salary", "alias"}

Footprint(cls, level, roles) ==
    [clearance_level |-> level, allowed_roles |-> roles, sensitivity_class |-> cls,
     need_to_know_roles |-> roles, partial_for |-> {}]

MCAssets ==
    {[security |-> Footprint("D", 3, {}), masked |-> {"email"}],
     [security |-> Footprint("F", 5, {"C_SUITE"}), masked |-> {}],
     [security |-> Footprint("D", 3, {}), masked |-> {"salary"}]}

MCSessions ==
    {[roles |-> {}, clearance_level |-> 2],
     [roles |-> {"C_SUITE"}, clearance_level |-> 5]}

Column(name) == [key |-> name, names |-> {name}, star |-> FALSE, shows |-> {name}]

Starred(name) == [key |-> name, names |-> {}, star |-> TRUE, shows |-> {name}]

Expression(names, base) == [key |-> "alias", names |-> names, star |-> FALSE, shows |-> base]

Select(outputs) == [select |-> TRUE, filtered |-> TRUE, bytes |-> 1, outputs |-> outputs]

MCDrafts ==
    {Select({Column("email"), Column("salary")}),
     Select({Starred("email"), Expression({"salary"}, {"salary"})}),
     Select({Expression({"email", "salary"}, {"email", "salary"})}),
     Select({Expression({"alias"}, {"email"}), Column("salary")}),
     Select({Expression({}, {})}),
     [Select({Starred("email")}) EXCEPT !.select = FALSE],
     [Select({Starred("email")}) EXCEPT !.filtered = FALSE],
     [Select({Starred("email")}) EXCEPT !.bytes = 2]}
=============================================================================
