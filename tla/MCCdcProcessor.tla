---------------------------- MODULE MCCdcProcessor ----------------------------
(***************************************************************************)
(* Two chunks; the second change of chunk a deletes it.                    *)
(***************************************************************************)
EXTENDS CdcProcessor

CONSTANTS a, b

MCDeletes == {<<a, 2>>}
=============================================================================
