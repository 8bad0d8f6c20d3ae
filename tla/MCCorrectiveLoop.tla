--------------------------- MODULE MCCorrectiveLoop ---------------------------
(***************************************************************************)
(* Three rows, one of them missing from the index; reranking keeps one.    *)
(* A row is masked for the analyst, denied to the analyst by level, denied *)
(* to both readers by need-to-know, of no known class, or of no valid      *)
(* level.                                                                  *)
(***************************************************************************)
EXTENDS CorrectiveLoop

CONSTANTS k1, k2, k3

MCRoles == {"PUBLIC", "C_SUITE", "FINANCE", "LEGAL", "STRATEGY", "CISO",
            "SECURITY", "BOARD", "HR"}

Row(cls, level) == [cls |-> cls, level |-> level]

MCRows == {Row("D", 3), Row("F", 5), Row("H", 4), Row("Z", 1), Row("B", 9)}

MCSessions ==
    {[roles |-> {}, clearance_level |-> 2],
     [roles |-> {"C_SUITE"}, clearance_level |-> 5]}
=============================================================================
