----------------------------- MODULE MCReEmbedder -----------------------------
(***************************************************************************)
(* Three rows in batches of two: the loop queries twice.  A payload names  *)
(* no version, as those of the tests, or the old one.                      *)
(***************************************************************************)
EXTENDS ReEmbedder

MCPayloads == {Untagged, Old}
=============================================================================
