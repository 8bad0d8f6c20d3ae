-------------------------- MODULE CdcProcessorProofs --------------------------
(***************************************************************************)
(* Theorems of CdcProcessor for every set of chunks, every choice of the   *)
(* deletes and every bound.                                                *)
(***************************************************************************)
EXTENDS CdcProcessor, TLAPS

LEMMA InitType == Init => TypeOK
BY ConstantAssumption DEF Init, TypeOK, Zero

LEMMA NextType == TypeOK /\ [Next]_vars => TypeOK'
<1> SUFFICES ASSUME TypeOK, [Next]_vars PROVE TypeOK'
    OBVIOUS
<1> USE ConstantAssumption DEF TypeOK, Events, durable, call
<1>1. ASSUME NEW c \in Chunks, Emit(c) PROVE TypeOK'
      BY <1>1 DEF Emit
<1>2. ASSUME NEW c \in Chunks, CacheAnswer(c) PROVE TypeOK'
      BY <1>2 DEF CacheAnswer, Present
<1>3. ASSUME NEW c \in Chunks, NEW v \in 1 .. MaxVersion, Apply(c, v) PROVE TypeOK'
  <2>1. CASE ApplyNewer(c, v)
    <3>1. peak' \in [Chunks -> 0 .. MaxVersion]
          BY <2>1 DEF ApplyNewer, Max2
    <3>2. QED BY <2>1, <3>1 DEF ApplyNewer
  <2>2. CASE ApplyStale(c, v)
        BY <2>2 DEF ApplyStale
  <2>3. QED BY <1>3, <2>1, <2>2 DEF Apply
<1>4. CASE WriteStore
      BY <1>4 DEF WriteStore
<1>5. CASE InvalidateCache
      BY <1>5 DEF InvalidateCache
<1>6. CASE Record
  <2>1. PICK e \in event :
            /\ applied' = [applied EXCEPT ![e[1]] = e[2]]
            /\ lost' = IF e[2] = peak[e[1]] THEN lost \ {e[1]} ELSE lost
        BY <1>6 DEF Record
  <2>2. applied' \in [Chunks -> 0 .. MaxVersion] /\ lost' \in SUBSET Chunks
        BY <2>1
  <2>3. QED BY <1>6, <2>2 DEF Record
<1>7. CASE Retry
      BY <1>7 DEF Retry, Raises
<1>8. CASE Drop
      BY <1>8 DEF Drop, Raises
<1>9. CASE Restart
      BY <1>9 DEF Restart, Zero
<1>10. CASE UNCHANGED vars
      BY <1>10 DEF vars
<1>11. QED BY <1>1, <1>2, <1>3, <1>4, <1>5, <1>6, <1>7, <1>8, <1>9, <1>10 DEF Next, Work

(* Versions, attempts, faults and crashes stay within their bounds.        *)
THEOREM TypeCorrect == Spec => []TypeOK
BY InitType, NextType, PTL DEF Spec

-----------------------------------------------------------------------------
(* The inductive invariant.  A row is on record when _applied_version has  *)
(* caught up with it; the only rows that are not are the one in flight and *)
(* those marked lost, and a row in flight is written only forward.         *)

OneEvent ==
    /\ pc = "idle" => event = {}
    /\ \A e, f \in event : e = f

OnRecord ==
    /\ \A c \in Chunks : c \in lost \/ InFlight(c) \/ store[c] <= applied[c]
    /\ \A c \in Chunks : store[c] <= peak[c]
    /\ \A e \in event :
         /\ e[2] <= minted[e[1]] /\ e[2] <= peak[e[1]]
         /\ e[1] \in lost \/ store[e[1]] <= e[2]
         /\ pc \in {"cache", "record"} => store[e[1]] = e[2]
         /\ pc = "record" => cache[e[1]] \subseteq {store[e[1]]}

Inv == OneEvent /\ OnRecord /\ NoStaleAnswerCached

LEMMA InitInv == Init => Inv
BY DEF Init, Inv, OneEvent, OnRecord, NoStaleAnswerCached, Zero

LEMMA NextInv == TypeOK /\ Inv /\ [Next]_vars => Inv'
<1> SUFFICES ASSUME TypeOK, Inv, [Next]_vars PROVE Inv'
    OBVIOUS
<1> USE DEF TypeOK, Events, durable, call, Inv, OneEvent, OnRecord, NoStaleAnswerCached, InFlight
<1>1. ASSUME NEW c \in Chunks, Emit(c) PROVE Inv'
      BY <1>1 DEF Emit
<1>2. ASSUME NEW c \in Chunks, CacheAnswer(c) PROVE Inv'
      BY <1>2 DEF CacheAnswer
<1>3. ASSUME NEW c \in Chunks, NEW v \in 1 .. MaxVersion, Apply(c, v) PROVE Inv'
  <2>1. CASE ApplyNewer(c, v)
    <3>1. /\ peak' \in [Chunks -> Int] /\ \A d \in Chunks : peak[d] <= peak'[d]
          /\ v <= peak'[c]
          BY <2>1 DEF ApplyNewer, Max2
    <3>2. QED BY <2>1, <3>1 DEF ApplyNewer
  <2>2. CASE ApplyStale(c, v)
        BY <2>2 DEF ApplyStale
  <2>3. QED BY <1>3, <2>1, <2>2 DEF Apply
<1>4. CASE WriteStore
      BY <1>4 DEF WriteStore
<1>5. CASE InvalidateCache
      BY <1>5 DEF InvalidateCache
<1>6. CASE Record
  <2>1. PICK e \in event :
            /\ applied' = [applied EXCEPT ![e[1]] = e[2]]
            /\ lost' = IF e[2] = peak[e[1]] THEN lost \ {e[1]} ELSE lost
        BY <1>6 DEF Record
  <2>2. \A c \in Chunks : InFlight(c) => c = e[1]
        BY <2>1
  <2>3. QED BY <1>6, <2>1, <2>2 DEF Record
<1>7. CASE Retry
      BY <1>7 DEF Retry, Raises
<1>8. CASE Drop
      BY <1>8 DEF Drop, Raises
<1>9. CASE Restart
  <2>1. \A c \in Chunks : c \in lost' \/ (store[c] = 0 /\ ~InFlight(c))
        BY <1>9 DEF Restart
  <2>2. QED BY <1>9, <2>1 DEF Restart, Zero
<1>10. CASE UNCHANGED vars
      BY <1>10 DEF vars
<1>11. QED BY <1>1, <1>2, <1>3, <1>4, <1>5, <1>6, <1>7, <1>8, <1>9, <1>10 DEF Next, Work

LEMMA Invariance == Spec => []Inv
BY InitInv, NextInv, TypeCorrect, PTL DEF Spec

(* Failed attempts and crashes included, an applied change leaves no       *)
(* cached answer of another version of its chunk behind.                   *)
THEOREM NoStaleAnswers == Spec => []NoStaleAnswerCached
BY Invariance, PTL DEF Inv

-----------------------------------------------------------------------------
(* Safety of the implementation relation: every step of the processor is a *)
(* step of the register, which moves rows only forward unless the record   *)
(* of the chunk was lost.                                                  *)
LEMMA StepSimulation == TypeOK /\ Inv /\ [Next]_vars => [Register!Next]_(Register!register)
<1> SUFFICES ASSUME TypeOK, Inv, [Next]_vars PROVE [Register!Next]_(Register!register)
    OBVIOUS
<1> USE DEF Register!register
<1>1. ASSUME NEW c \in Chunks, Emit(c) PROVE Register!Next
      BY <1>1 DEF Emit, Register!Next, Register!Mint, durable
<1>2. CASE WriteStore
  <2>1. PICK e \in event : store' = [store EXCEPT ![e[1]] = e[2]]
        BY <1>2 DEF WriteStore
  <2>2. /\ e[1] \in Chunks /\ e[2] \in 1 .. minted[e[1]]
        /\ e[1] \in lost \/ store[e[1]] <= e[2]
        /\ minted[e[1]] \in Nat /\ store[e[1]] \in Nat
        BY <2>1 DEF Inv, OnRecord, TypeOK, Events
  <2>3. UNCHANGED <<minted, lost>>
        BY <1>2 DEF WriteStore
  <2>4. CASE e[1] \in lost
        BY <2>1, <2>2, <2>3, <2>4 DEF Register!Next, Register!Rewrite
  <2>5. CASE store[e[1]] < e[2]
    <3>1. e[2] \in store[e[1]] + 1 .. minted[e[1]]
          BY <2>2, <2>5
    <3>2. QED BY <2>1, <2>2, <2>3, <3>1 DEF Register!Next, Register!Advance
  <2>6. CASE store[e[1]] = e[2]
    <3>1. store' = store
          BY <2>1, <2>6 DEF TypeOK
    <3>2. QED BY <2>3, <3>1
  <2>7. QED BY <2>2, <2>4, <2>5, <2>6
<1>3. CASE Record
  <2>1. PICK e \in event : lost' = lost \ {e[1]} \/ lost' = lost
        BY <1>3 DEF Record
  <2>2. e[1] \in Chunks /\ UNCHANGED <<minted, store>>
        BY <1>3 DEF Record, TypeOK, Events, durable
  <2>3. QED BY <2>1, <2>2 DEF Register!Next, Register!Regain
<1>4. CASE Drop \/ Restart
  <2>1. \E S \in SUBSET Chunks : lost' = lost \cup S
        BY <1>4 DEF Drop, Restart, TypeOK, Events
  <2>2. UNCHANGED <<minted, store>>
        BY <1>4 DEF Drop, Raises, Restart, durable
  <2>3. QED BY <2>1, <2>2 DEF Register!Next, Register!Lose
<1>5. CASE ~ (\E c \in Chunks : Emit(c)) /\ ~WriteStore /\ ~Record /\ ~Drop /\ ~Restart
  <2>1. UNCHANGED <<minted, store, lost>>
        BY <1>5 DEF Next, CacheAnswer, Apply, ApplyNewer, ApplyStale, Work, InvalidateCache,
                    Retry, Raises, vars, durable
  <2>2. QED BY <2>1
<1>6. QED BY <1>1, <1>2, <1>3, <1>4, <1>5

(* The processor implements the safety of the register: duplicated and     *)
(* reordered events, retries and crashes move a row back only where the    *)
(* record of what was applied has been lost.                               *)
THEOREM ImplementsRegisterSafety == Spec => Register!Safety
<1>1. Init => Register!Init
      BY DEF Init, Register!Init, Zero
<1>2. QED BY <1>1, StepSimulation, TypeCorrect, Invariance, PTL DEF Spec, Register!Safety
=============================================================================
