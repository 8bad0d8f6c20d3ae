--------------------------- MODULE ChangeRegister ---------------------------
(***************************************************************************)
(* What applying a stream of change events promises: the row of a chunk    *)
(* moves only forward through the versions its source minted, and ends at  *)
(* the last one.  Where the record of what was applied is lost, a row may  *)
(* be rewritten with any minted version until the record is regained.      *)
(***************************************************************************)
EXTENDS Integers

CONSTANTS Chunks, MaxVersion

VARIABLES
    minted,    \* minted[c]: the last version the source emitted for c
    row,       \* row[c]: the version the stored row of c reflects
    lost       \* chunks whose applied version is not on record

register == <<minted, row, lost>>

Init == /\ minted = [c \in Chunks |-> 0]
        /\ row = [c \in Chunks |-> 0]
        /\ lost = {}

Mint(c) == /\ minted[c] < MaxVersion
           /\ minted' = [minted EXCEPT ![c] = @ + 1]
           /\ UNCHANGED <<row, lost>>

Advance(c) == /\ \E v \in row[c] + 1 .. minted[c] : row' = [row EXCEPT ![c] = v]
              /\ UNCHANGED <<minted, lost>>

Rewrite(c) == /\ c \in lost
              /\ \E v \in 1 .. minted[c] : row' = [row EXCEPT ![c] = v]
              /\ UNCHANGED <<minted, lost>>

Lose(S) == /\ lost' = lost \cup S
           /\ UNCHANGED <<minted, row>>

Regain(c) == /\ lost' = lost \ {c}
             /\ UNCHANGED <<minted, row>>

Next == \/ \E c \in Chunks : Mint(c) \/ Advance(c) \/ Rewrite(c) \/ Regain(c)
        \/ \E S \in SUBSET Chunks : Lose(S)

Convergence == \A c \in Chunks : <>[](c \in lost \/ row[c] = minted[c])

Safety == Init /\ [][Next]_register
Spec   == Safety /\ Convergence
=============================================================================
