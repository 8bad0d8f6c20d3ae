--------------------------- MODULE WarehouseProofs ---------------------------
(***************************************************************************)
(* Theorems of Warehouse for any number of callers, any assets, sessions   *)
(* and statements, and any cap.                                            *)
(***************************************************************************)
EXTENDS Warehouse, TLAPS

LEMMA MaskedType ==
    ASSUME NEW outputs \in SUBSET Outputs, NEW policy
    PROVE  MaskRows(outputs, policy) \in SUBSET Outputs
<1>1. \A o \in outputs : [o EXCEPT !.shows = {}] \in Outputs
      BY DEF Outputs
<1>2. QED BY <1>1 DEF MaskRows

(* Every reachable state is well typed.                                    *)
THEOREM TypeCorrect == Spec => []TypeOK
<1>1. Init => TypeOK
      BY WarehouseAssumption DEF Init, TypeOK
<1>2. TypeOK /\ [Next]_vars => TypeOK'
  <2> SUFFICES ASSUME TypeOK, [Next]_vars PROVE TypeOK'
      OBVIOUS
  <2> USE DEF TypeOK, Goto
  <2>1. ASSUME NEW t \in Threads, Ask(t) PROVE TypeOK'
        BY <2>1 DEF Ask
  <2>2. ASSUME NEW t \in Threads, Assign(t) PROVE TypeOK'
    <3>1. asset[t].masked \in Policies
          BY DEF Policies
    <3>2. QED BY <2>2, <3>1 DEF Assign
  <2>3. ASSUME NEW t \in Threads, DraftSql(t) PROVE TypeOK'
        BY <2>3 DEF DraftSql
  <2>4. ASSUME NEW t \in Threads, Guard(t) PROVE TypeOK'
        BY <2>4 DEF Guard
  <2>5. ASSUME NEW t \in Threads, Execute(t) PROVE TypeOK'
    <3>1. draft[t].outputs \in SUBSET Outputs
          BY WarehouseAssumption DEF Statements
    <3>2. QED BY <2>5, <3>1 DEF Execute
  <2>6. ASSUME NEW t \in Threads, Refuse(t) PROVE TypeOK'
        BY <2>6 DEF Refuse
  <2>7. ASSUME NEW t \in Threads, Mask(t) PROVE TypeOK'
    <3>1. MaskRows(rows[t], columns) \in SUBSET Outputs
          BY MaskedType
    <3>2. QED BY <2>7, <3>1 DEF Mask
  <2>8. ASSUME NEW t \in Threads, Answer(t) PROVE TypeOK'
        BY <2>8 DEF Answer
  <2>9. CASE UNCHANGED vars
        BY <2>9 DEF vars
  <2>10. QED
         BY <2>1, <2>2, <2>3, <2>4, <2>5, <2>6, <2>7, <2>8, <2>9 DEF Next, Call
<1>3. QED BY <1>1, <1>2, PTL DEF Spec

-----------------------------------------------------------------------------
(* How far a call has come says what it has passed.                        *)
Admitted ==
    \A t \in Threads :
        \/ pc[t] \in {"assign", "draft", "guard", "execute", "mask", "answer", "answered"}
        \/ rows[t] # {}
        => Decision(t) # "deny"

Guarded ==
    \A t \in Threads :
        pc[t] \in {"execute", "mask", "answer", "answered"} \/ rows[t] # {} =>
            /\ draft[t].select /\ draft[t].bytes <= MaxBytes
            /\ RequireFilter => draft[t].filtered

(* Rows are there only from the execution on, until the next call.         *)
RowsOnlyAfter ==
    \A t \in Threads : rows[t] # {} => pc[t] \in {"mask", "answer", "answered", "refused"}

(* The gates hold a call back: rows are there only behind all of them.     *)
THEOREM GuardsHold == Spec => []OnlyGuardedRuns
<1>1. Init => Admitted /\ Guarded /\ RowsOnlyAfter
      BY DEF Init, Admitted, Guarded, RowsOnlyAfter
<1>2. TypeOK /\ Admitted /\ Guarded /\ RowsOnlyAfter /\ [Next]_vars
      => Admitted' /\ Guarded' /\ RowsOnlyAfter'
  <2> SUFFICES ASSUME TypeOK, Admitted, Guarded, RowsOnlyAfter, [Next]_vars
               PROVE  Admitted' /\ Guarded' /\ RowsOnlyAfter'
      OBVIOUS
  <2> USE DEF TypeOK, Admitted, Guarded, RowsOnlyAfter, Goto
  <2>1. ASSUME NEW t \in Threads, Ask(t) PROVE Admitted' /\ Guarded' /\ RowsOnlyAfter'
    <3>1. /\ rows' = [rows EXCEPT ![t] = {}]
          /\ pc' = [pc EXCEPT ![t] = IF Decision(t)' = "deny" THEN "denied" ELSE "assign"]
          /\ draft' = draft
          BY <2>1 DEF Ask
    <3>2. \A u \in Threads : u # t => session'[u] = session[u] /\ asset'[u] = asset[u]
          BY <2>1 DEF Ask
    <3>3. \A u \in Threads : u # t => (Decision(u)' = Decision(u))
          BY <3>2 DEF Decision
    <3>4. Admitted'
          BY <3>1, <3>3
    <3>5. QED BY <3>1, <3>4
  <2>2. ASSUME UNCHANGED <<session, asset>> PROVE \A u : Decision(u)' = Decision(u)
        BY <2>2 DEF Decision
  <2>3. ASSUME NEW t \in Threads, Assign(t) \/ Guard(t) \/ Refuse(t) \/ Answer(t)
        PROVE  Admitted' /\ Guarded' /\ RowsOnlyAfter'
        BY <2>2, <2>3 DEF Assign, Guard, Refuse, Answer
  <2>4. ASSUME NEW t \in Threads, DraftSql(t) PROVE Admitted' /\ Guarded' /\ RowsOnlyAfter'
        BY <2>2, <2>4 DEF DraftSql
  <2>5. ASSUME NEW t \in Threads, Execute(t) PROVE Admitted' /\ Guarded' /\ RowsOnlyAfter'
        BY <2>2, <2>5 DEF Execute
  <2>6. ASSUME NEW t \in Threads, Mask(t) PROVE Admitted' /\ Guarded' /\ RowsOnlyAfter'
        BY <2>2, <2>6 DEF Mask
  <2>7. CASE UNCHANGED vars
        BY <2>2, <2>7 DEF vars
  <2>8. QED BY <2>1, <2>3, <2>4, <2>5, <2>6, <2>7 DEF Next, Call
<1>3. Admitted /\ Guarded => OnlyGuardedRuns
      BY DEF Admitted, Guarded, OnlyGuardedRuns
<1>4. QED BY <1>1, <1>2, <1>3, TypeCorrect, PTL DEF Spec

-----------------------------------------------------------------------------
(* What mask_rows promises of any result and any policy: no traceable      *)
(* column is left that shows a masked one.                                 *)
LEMMA MaskHides ==
    ASSUME NEW outputs \in SUBSET Outputs, NEW policy
    PROVE  \A o \in MaskRows(outputs, policy) : Traceable(o) => Disjoint(o.shows, policy)
<1> SUFFICES ASSUME NEW p \in outputs,
                    NEW o, o = IF p.key \in RedactedKeys(outputs, policy)
                               THEN [p EXCEPT !.shows = {}] ELSE p,
                    Traceable(o)
             PROVE  Disjoint(o.shows, policy)
    BY DEF MaskRows
<1>1. p \in Outputs
      OBVIOUS
<1>2. CASE p.key \in RedactedKeys(outputs, policy)
  <2>1. o.shows = {}
        BY <1>1, <1>2 DEF Outputs
  <2>2. QED BY <2>1 DEF Disjoint
<1>3. CASE p.key \notin RedactedKeys(outputs, policy) /\ policy # {}
  <2>1. o = p
        BY <1>3
  <2>2. p.key \notin policy
        BY <1>3 DEF RedactedKeys
  <2>3. p.star \/ Disjoint(p.names, policy)
        BY <1>3 DEF RedactedKeys
  <2>4. CASE p.star
        BY <2>1, <2>2, <2>4 DEF Traceable, Disjoint
  <2>5. CASE ~p.star
        BY <2>1, <2>3, <2>5 DEF Traceable, Disjoint
  <2>6. QED BY <2>4, <2>5
<1>4. CASE policy = {}
      BY <1>4 DEF Disjoint
<1>5. QED BY <1>2, <1>3, <1>4

(* Between the execution and the masking a call has its own raw rows and   *)
(* the flag its session calls for; who assigned the policy last finds its  *)
(* own asset's.                                                            *)
FlagFollows ==
    \A t \in Threads :
        pc[t] \in {"assign", "draft", "guard", "execute", "mask"} =>
            (mask[t] <=> Decision(t) # "allow")

RawBeforeMask == \A t \in Threads : pc[t] = "mask" => rows[t] = draft[t].outputs

PolicyHeld ==
    \A t \in writer :
        pc[t] \in {"draft", "guard", "execute", "mask"} => columns = asset[t].masked

Masking == FlagFollows /\ RawBeforeMask /\ PolicyHeld

LEMMA MaskingInvariant == Spec => []Masking
<1>1. Init => Masking
      BY DEF Init, Masking, FlagFollows, RawBeforeMask, PolicyHeld
<1>2. TypeOK /\ Masking /\ [Next]_vars => Masking'
  <2> SUFFICES ASSUME TypeOK, Masking, [Next]_vars PROVE Masking'
      OBVIOUS
  <2> USE DEF TypeOK, Masking, FlagFollows, RawBeforeMask, PolicyHeld, Goto
  <2>1. ASSUME NEW t \in Threads, Ask(t) PROVE Masking'
    <3>1. /\ pc' = [pc EXCEPT ![t] = IF Decision(t)' = "deny" THEN "denied" ELSE "assign"]
          /\ mask' = [mask EXCEPT ![t] = Decision(t)' # "allow"]
          /\ rows' = [rows EXCEPT ![t] = {}]
          /\ writer' = writer \ {t}
          /\ UNCHANGED <<columns, draft>>
          BY <2>1 DEF Ask
    <3>2. \A u \in Threads : u # t => session'[u] = session[u] /\ asset'[u] = asset[u]
          BY <2>1 DEF Ask
    <3>3. \A u \in Threads : u # t => (Decision(u)' = Decision(u))
          BY <3>2 DEF Decision
    <3>4. FlagFollows'
          BY <3>1, <3>3
    <3>5. RawBeforeMask'
          BY <3>1
    <3>6. PolicyHeld'
          BY <3>1, <3>2
    <3>7. QED BY <3>4, <3>5, <3>6
  <2>2. ASSUME UNCHANGED <<session, asset>> PROVE \A u : Decision(u)' = Decision(u)
        BY <2>2 DEF Decision
  <2>3. ASSUME NEW t \in Threads, Assign(t) PROVE Masking'
        BY <2>2, <2>3 DEF Assign
  <2>4. ASSUME NEW t \in Threads, DraftSql(t) PROVE Masking'
        BY <2>2, <2>4 DEF DraftSql
  <2>5. ASSUME NEW t \in Threads, Guard(t) \/ Refuse(t) \/ Answer(t) PROVE Masking'
        BY <2>2, <2>5 DEF Guard, Refuse, Answer
  <2>6. ASSUME NEW t \in Threads, Execute(t) PROVE Masking'
        BY <2>2, <2>6 DEF Execute
  <2>7. ASSUME NEW t \in Threads, Mask(t) PROVE Masking'
        BY <2>2, <2>7 DEF Mask
  <2>8. CASE UNCHANGED vars
        BY <2>2, <2>8 DEF vars
  <2>9. QED BY <2>1, <2>3, <2>4, <2>5, <2>6, <2>7, <2>8 DEF Next, Call
<1>3. QED BY <1>1, <1>2, TypeCorrect, PTL DEF Spec

(* A session that may read the asset gets the rows as they are.            *)
THEOREM ClearedReaders == Spec => []ClearedSeesRaw
<1>1. Init => ClearedSeesRaw
      BY DEF Init, ClearedSeesRaw
<1>2. TypeOK /\ Masking /\ ClearedSeesRaw /\ [Next]_vars => ClearedSeesRaw'
  <2> SUFFICES ASSUME TypeOK, Masking, ClearedSeesRaw, [Next]_vars PROVE ClearedSeesRaw'
      OBVIOUS
  <2> USE DEF TypeOK, ClearedSeesRaw, Goto
  <2>1. ASSUME NEW t \in Threads, Ask(t) PROVE ClearedSeesRaw'
    <3>1. /\ pc' = [pc EXCEPT ![t] = IF Decision(t)' = "deny" THEN "denied" ELSE "assign"]
          /\ rows' = [rows EXCEPT ![t] = {}] /\ draft' = draft
          BY <2>1 DEF Ask
    <3>2. \A u \in Threads : u # t => (Decision(u)' = Decision(u))
          BY <2>1 DEF Ask, Decision
    <3>3. QED BY <3>1, <3>2
  <2>2. ASSUME UNCHANGED <<session, asset>> PROVE \A u : Decision(u)' = Decision(u)
        BY <2>2 DEF Decision
  <2>3. ASSUME NEW t \in Threads, Assign(t) \/ DraftSql(t) \/ Guard(t) PROVE ClearedSeesRaw'
        BY <2>2, <2>3 DEF Assign, DraftSql, Guard
  <2>4. ASSUME NEW t \in Threads, Execute(t) \/ Refuse(t) \/ Answer(t) PROVE ClearedSeesRaw'
        BY <2>2, <2>4 DEF Execute, Refuse, Answer
  <2>5. ASSUME NEW t \in Threads, Mask(t) PROVE ClearedSeesRaw'
    <3>1. Decision(t) = "allow" => rows'[t] = rows[t] /\ rows[t] = draft[t].outputs
          BY <2>5 DEF Mask, Masking, FlagFollows, RawBeforeMask
    <3>2. QED BY <2>2, <2>5, <3>1 DEF Mask
  <2>6. CASE UNCHANGED vars
        BY <2>2, <2>6 DEF vars
  <2>7. QED BY <2>1, <2>3, <2>4, <2>5, <2>6 DEF Next, Call
<1>3. QED BY <1>1, <1>2, TypeCorrect, MaskingInvariant, PTL DEF Spec

(* A session that may only see the asset masked sees no masked column of   *)
(* it in any statement that names its columns, while nobody else sets the  *)
(* policy.                                                                 *)
THEOREM MaskedColumnsStayHidden == Spec => []MaskedColumnsHidden
<1>1. Init => MaskedColumnsHidden
      BY DEF Init, MaskedColumnsHidden
<1>2. TypeOK /\ Masking /\ MaskedColumnsHidden /\ [Next]_vars => MaskedColumnsHidden'
  <2> SUFFICES ASSUME TypeOK, Masking, MaskedColumnsHidden, [Next]_vars
               PROVE  MaskedColumnsHidden'
      OBVIOUS
  <2> USE DEF TypeOK, MaskedColumnsHidden, Goto
  <2>1. ASSUME NEW t \in Threads, Ask(t) PROVE MaskedColumnsHidden'
    <3>1. /\ pc' = [pc EXCEPT ![t] = IF Decision(t)' = "deny" THEN "denied" ELSE "assign"]
          /\ rows' = [rows EXCEPT ![t] = {}] /\ foreign' = foreign \ {t}
          BY <2>1 DEF Ask
    <3>2. \A u \in Threads : u # t => (Decision(u)' = Decision(u) /\ asset'[u] = asset[u])
          BY <2>1 DEF Ask, Decision
    <3>3. QED BY <3>1, <3>2
  <2>2. ASSUME UNCHANGED <<session, asset>> PROVE \A u : Decision(u)' = Decision(u)
        BY <2>2 DEF Decision
  <2>3. ASSUME NEW t \in Threads, Assign(t) \/ DraftSql(t) \/ Guard(t)
        PROVE  MaskedColumnsHidden'
        BY <2>2, <2>3 DEF Assign, DraftSql, Guard
  <2>4. ASSUME NEW t \in Threads, Execute(t) \/ Refuse(t) \/ Answer(t)
        PROVE  MaskedColumnsHidden'
        BY <2>2, <2>4 DEF Execute, Refuse, Answer
  <2>5. ASSUME NEW t \in Threads, Mask(t) PROVE MaskedColumnsHidden'
    <3>1. ASSUME Decision(t) # "allow", t \in writer
          PROVE  \A o \in rows'[t] : Traceable(o) => Disjoint(o.shows, asset[t].masked)
      <4>1. rows'[t] = MaskRows(rows[t], columns) /\ columns = asset[t].masked
            BY <2>5, <3>1 DEF Mask, Masking, FlagFollows, PolicyHeld
      <4>2. rows[t] \in SUBSET Outputs
            OBVIOUS
      <4>3. QED BY <4>1, <4>2, MaskHides
    <3>2. /\ foreign' = IF t \in writer THEN foreign ELSE foreign \cup {t}
          /\ pc' = [pc EXCEPT ![t] = "answer"]
          /\ \A u \in Threads : u # t => rows'[u] = rows[u]
          /\ UNCHANGED <<session, asset>>
          BY <2>5 DEF Mask
    <3>3. QED BY <2>2, <3>1, <3>2
  <2>6. CASE UNCHANGED vars
        BY <2>2, <2>6 DEF vars
  <2>7. QED BY <2>1, <2>3, <2>4, <2>5, <2>6 DEF Next, Call
<1>3. QED BY <1>1, <1>2, TypeCorrect, MaskingInvariant, PTL DEF Spec
=============================================================================
