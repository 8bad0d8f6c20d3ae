---------------------------- MODULE GatewayProofs ----------------------------
(***************************************************************************)
(* Theorems of Gateway for every number of handlers and keys, every limit, *)
(* every length of a minute and a day, and every clock.                    *)
(***************************************************************************)
EXTENDS Gateway, FiniteSetTheorems, TLAPS

\* What the assumption says of each constant.
LEMMA Constants ==
    /\ PerMin \in Nat /\ PerMin >= 1 /\ InstancePerMin \in Nat /\ InstancePerMin >= 1
    /\ PerDay \in Nat /\ PerDay >= 1 /\ Minute \in Nat /\ Minute >= 1
    /\ Day \in Nat /\ Day >= 1 /\ MaxTime \in Nat /\ MaxCalls \in Nat
    /\ Idle \notin Places /\ Instance \notin Keys /\ IsFiniteSet(Handlers)
<1>1. {PerMin, InstancePerMin, PerDay, Minute} \subseteq Nat \ {0}
      BY GatewayAssumption
<1>2. {Day, MaxTime, MaxCalls} \subseteq Nat /\ Minute <= Day
      BY GatewayAssumption
<1>3. QED BY <1>1, <1>2, GatewayAssumption

\* Where there is a handler, the number of the others is not negative.
LEMMA OthersType ==
    /\ Others \in Int /\ Others >= -1
    /\ \A h \in Handlers : Others >= 0
<1>1. Cardinality(Handlers) \in Nat
      BY Constants, FS_CardinalityType
<1>2. ASSUME NEW h \in Handlers PROVE Cardinality(Handlers) # 0
      BY Constants, FS_EmptySet
<1>3. QED BY <1>1, <1>2 DEF Others

\* Every deque's limit lets at least one call through.
LEMMA LimitType == \A q \in Queues : Limit(q) \in Nat /\ Limit(q) >= 1
BY Constants DEF Limit

-----------------------------------------------------------------------------
(* The handlers' locals.                                                   *)

\* The locals of a handler in a call.
LEMMA InCall ==
    ASSUME TypeOK, NEW h \in Handlers, ~At(h, Idle)
    PROVE  /\ call[h].at \in Places /\ Queue(h) \in Queues /\ Key(h) \in Keys
           /\ call[h].now \in Times /\ call[h].read \in Nat /\ call[h].nth \in Nat
           /\ call[h] \in [at : Places, queue : Queues, key : Keys, now : Times,
                           read : Nat, nth : Nat]
           /\ Stamp(h) \in Grants
           /\ Stamp(h).key = Key(h) /\ Stamp(h).now = call[h].now /\ Stamp(h).nth = call[h].nth
<1>1. call[h] \in Calls /\ call[h].at # Idle
      BY DEF TypeOK, At
<1>2. call[h] \in [at : Places, queue : Queues, key : Keys, now : Times,
                   read : Nat, nth : Nat]
      BY <1>1 DEF Calls, NoCall
<1>3. QED BY <1>2 DEF Queue, Key, Stamp, Grants

\* A handler at a place of the code is in a call.
LEMMA NotIdle ==
    ASSUME NEW h \in Handlers, call[h].at \in Places
    PROVE  ~At(h, Idle)
BY Constants DEF At

(* Only h moved, to l, or away.                                            *)
LEMMA Moved ==
    ASSUME TypeOK, NEW h \in Handlers, ~At(h, Idle), NEW l \in Places, Goto(h, l)
    PROVE  /\ call' \in [Handlers -> Calls]
           /\ call'[h].at = l /\ call'[h].queue = call[h].queue /\ call'[h].key = call[h].key
           /\ call'[h].now = call[h].now /\ call'[h].read = call[h].read
           /\ call'[h].nth = call[h].nth
           /\ \A g \in Handlers \ {h} : call'[g] = call[g]
<1>1. call[h] \in [at : Places, queue : Queues, key : Keys, now : Times, read : Nat, nth : Nat]
      BY InCall
<1>2. call \in [Handlers -> Calls]
      BY DEF TypeOK
<1>3. call' = [call EXCEPT ![h] = [call[h] EXCEPT !.at = l]]
      BY DEF Goto
<1>4. [call[h] EXCEPT !.at = l] \in Calls
      BY <1>1 DEF Calls
<1>5. QED BY <1>1, <1>2, <1>3, <1>4

\* h ended its call.
LEMMA Left ==
    ASSUME TypeOK, NEW h \in Handlers, Leave(h)
    PROVE  /\ call' \in [Handlers -> Calls] /\ call'[h] = NoCall
           /\ \A g \in Handlers \ {h} : call'[g] = call[g]
BY DEF TypeOK, Leave, Calls

\* h, and no other, went on from the daily cap to its key's deque.
LEMMA PastDay ==
    ASSUME TypeOK, NEW h \in Handlers, ~At(h, Idle), NEW l \in Places,
           call' = [call EXCEPT ![h].at = l, ![h].queue = Key(h)]
    PROVE  /\ call' \in [Handlers -> Calls]
           /\ call'[h].at = l /\ call'[h].queue = call[h].key /\ call'[h].key = call[h].key
           /\ call'[h].now = call[h].now /\ call'[h].read = call[h].read
           /\ call'[h].nth = call[h].nth
           /\ \A g \in Handlers \ {h} : call'[g] = call[g]
<1>1. call[h] \in [at : Places, queue : Queues, key : Keys, now : Times, read : Nat, nth : Nat]
      BY InCall
<1>2. call \in [Handlers -> Calls]
      BY DEF TypeOK
<1>3. call' = [call EXCEPT ![h] = [call[h] EXCEPT !.at = l, !.queue = Key(h)]]
      BY <1>1, <1>2
<1>4. Key(h) \in Queues /\ Key(h) = call[h].key
      BY <1>1 DEF Queues, Key
<1>5. [call[h] EXCEPT !.at = l, !.queue = Key(h)] \in Calls
      BY <1>1, <1>4 DEF Calls
<1>6. QED BY <1>1, <1>2, <1>3, <1>4, <1>5

\* h, and no other, was let through as the nth of its key and time.
LEMMA LetThrough ==
    ASSUME TypeOK, NEW h \in Handlers, ~At(h, Idle), NEW n \in Nat,
           call' = [call EXCEPT ![h].at = "record", ![h].nth = n]
    PROVE  /\ call' \in [Handlers -> Calls]
           /\ call'[h].at = "record" /\ call'[h].queue = call[h].queue
           /\ call'[h].key = call[h].key /\ call'[h].now = call[h].now
           /\ call'[h].read = call[h].read /\ call'[h].nth = n
           /\ \A g \in Handlers \ {h} : call'[g] = call[g]
<1>1. call[h] \in [at : Places, queue : Queues, key : Keys, now : Times, read : Nat, nth : Nat]
      BY InCall
<1>2. call \in [Handlers -> Calls]
      BY DEF TypeOK
<1>3. call' = [call EXCEPT ![h] = [call[h] EXCEPT !.at = "record", !.nth = n]]
      BY <1>1, <1>2
<1>4. [call[h] EXCEPT !.at = "record", !.nth = n] \in Calls
      BY <1>1 DEF Calls, Places
<1>5. QED BY <1>1, <1>2, <1>3, <1>4

\* h, and no other, read the count.
LEMMA ReadsCount ==
    ASSUME TypeOK, NEW h \in Handlers, At(h, "count"), ReadCount(h)
    PROVE  /\ call' \in [Handlers -> Calls]
           /\ call'[h].at = "add" /\ call'[h].queue = call[h].queue
           /\ call'[h].key = call[h].key /\ call'[h].now = call[h].now
           /\ call'[h].nth = call[h].nth
           /\ \A g \in Handlers \ {h} : call'[g] = call[g]
<1>1. call[h] \in [at : Places, queue : Queues, key : Keys, now : Times, read : Nat, nth : Nat]
      BY InCall, NotIdle DEF At, Places
<1>2. call \in [Handlers -> Calls] /\ dayCount[Key(h)] \in Nat
      BY <1>1 DEF TypeOK, Key
<1>3. call' = [call EXCEPT ![h] = [call[h] EXCEPT !.at = "add", !.read = dayCount[Key(h)]]]
      BY <1>1, <1>2 DEF ReadCount
<1>4. [call[h] EXCEPT !.at = "add", !.read = dayCount[Key(h)]] \in Calls
      BY <1>1, <1>2 DEF Calls, Places
<1>5. QED BY <1>1, <1>2, <1>3, <1>4

\* h, and no other, began a call now.
LEMMA Arrives ==
    ASSUME TypeOK, NEW h \in Handlers, Arrive(h)
    PROVE  /\ call' \in [Handlers -> Calls]
           /\ call'[h].at = "prune" /\ call'[h].queue = Instance
           /\ call'[h].key \in Keys /\ call'[h].now = clock
           /\ \A g \in Handlers \ {h} : call'[g] = call[g]
<1>1. PICK k \in Keys :
        call' = [call EXCEPT ![h] = [at |-> "prune", queue |-> Instance,
                                     key |-> k, now |-> clock, read |-> 0, nth |-> 0]]
      BY DEF Arrive
<1>2. call \in [Handlers -> Calls] /\ clock \in Times
      BY DEF TypeOK
<1>3. [at |-> "prune", queue |-> Instance, key |-> k, now |-> clock, read |-> 0, nth |-> 0]
        \in Calls
      BY <1>2 DEF Calls, Places, Queues
<1>4. QED BY <1>1, <1>2, <1>3

-----------------------------------------------------------------------------
(* Types.                                                                  *)

(* The limiter's state and its callers' locals are well typed.             *)
THEOREM TypeCorrect == Spec => []TypeOK
<1>1. Init => TypeOK
  <2> SUFFICES ASSUME Init PROVE TypeOK
      OBVIOUS
  <2>1. NoCall \in Calls /\ 0 \in Times /\ <<>> \in Seq(Grants) /\ IsFiniteSet({})
        BY Constants, FS_EmptySet DEF Calls, Times
  <2>2. 0 \in 0..MaxCalls
        BY Constants
  <2>3. QED BY <2>1, <2>2 DEF Init, TypeOK
<1>2. TypeOK /\ [Next]_vars => TypeOK'
  <2> SUFFICES ASSUME TypeOK, [Next]_vars PROVE TypeOK'
      OBVIOUS
  <2> USE DEF process, day, environment, history
  <2>1. CASE Start
        BY <2>1 DEF Start, TypeOK, Calls, Grants, Queue, Key
  <2>2. CASE Tick
    <3>1. clock' \in Times
          BY <2>2, Constants DEF Tick, TypeOK, Times
    <3>2. QED BY <2>2, <3>1 DEF Tick, TypeOK
  <2> SUFFICES ASSUME NEW h \in Handlers,
                      \/ Arrive(h) \/ Prune(h) \/ Pop(h) \/ PopFails(h)
                      \/ Refuse(h) \/ PassInstance(h)
                      \/ ReadDay(h) \/ Reset(h) \/ Zero(h) \/ RefuseDay(h) \/ PassDay(h)
                      \/ Grant(h) \/ Record(h) \/ ReadCount(h) \/ WriteCount(h) \/ RecordAll(h)
               PROVE  TypeOK'
    <3>1. CASE UNCHANGED vars
          BY <3>1 DEF vars, TypeOK
    <3>2. QED BY <2>1, <2>2, <3>1 DEF Next
  <2>3. CASE Arrive(h)
    <3>1. call' \in [Handlers -> Calls]
          BY <2>3, Arrives
    <3>2. calls' \in 0..MaxCalls /\ internals' \in BOOLEAN
          BY <2>3, Constants DEF Arrive, TypeOK
    <3>3. QED BY <2>3, <3>1, <3>2 DEF Arrive, TypeOK
  <2>4. CASE ~At(h, Idle) /\ call' \in [Handlers -> Calls]
             /\ UNCHANGED <<process, window, day, environment, granted, fresh, late, internals>>
             /\ raced' \in [Keys -> BOOLEAN]
        BY <2>4 DEF TypeOK
  <2>5. CASE Prune(h) \/ PopFails(h) \/ Refuse(h) \/ PassInstance(h) \/ RefuseDay(h)
    <3>1. ~At(h, Idle)
          BY <2>5, NotIdle DEF Prune, PopFails, Refuse, PassInstance, RefuseDay, Full, NotFull,
                               At, Places
    <3>2. call' \in [Handlers -> Calls]
          BY <2>5, <3>1, Moved, Left
             DEF Prune, PopFails, Refuse, PassInstance, RefuseDay, Places
    <3>3. QED BY <2>5, <3>1, <3>2, <2>4
                 DEF Prune, PopFails, Refuse, PassInstance, RefuseDay, TypeOK
  <2>6. CASE Pop(h)
    <3>1. ~At(h, Idle)
          BY <2>6, NotIdle DEF Pop, At, Places
    <3>2. call' \in [Handlers -> Calls] /\ Queue(h) \in Queues
          BY <2>6, <3>1, Moved, InCall DEF Pop, Places
    <3>3. window[Queue(h)] \in Seq(Grants) /\ window[Queue(h)] # <<>>
          BY <2>6, <3>2 DEF Pop, TypeOK
    <3>4. Tail(window[Queue(h)]) \in Seq(Grants) /\ Head(window[Queue(h)]) \in Grants
          BY <3>3
    <3>5. window' \in [Queues -> Seq(Grants)]
          BY <2>6, <3>2, <3>4 DEF Pop, TypeOK
    <3>6. fresh' \in [Queues -> SUBSET Grants]
          BY <2>6, <3>2, <3>4 DEF Pop, TypeOK
    <3>7. QED BY <2>6, <3>2, <3>5, <3>6 DEF Pop, TypeOK
  <2>7. CASE ReadDay(h)
    <3>1. ~At(h, Idle)
          BY <2>7, NotIdle DEF ReadDay, At, Places
    <3>2. call' \in [Handlers -> Calls]
          BY <2>7, <3>1, Moved DEF ReadDay, Places
    <3>3. QED BY <2>7, <3>1, <3>2, <2>4 DEF ReadDay, TypeOK, Race
  <2>8. CASE Reset(h)
    <3>1. ~At(h, Idle)
          BY <2>8, NotIdle DEF Reset, At, Places
    <3>2. call' \in [Handlers -> Calls] /\ call[h].now \in Times
          BY <2>8, <3>1, Moved, InCall DEF Reset, Places
    <3>3. QED BY <2>8, <3>1, <3>2 DEF Reset, TypeOK, Race
  <2>9. CASE Zero(h)
    <3>1. ~At(h, Idle)
          BY <2>9, NotIdle DEF Zero, At, Places
    <3>2. call' \in [Handlers -> Calls]
          BY <2>9, <3>1, Moved DEF Zero, Places
    <3>3. QED BY <2>9, <3>1, <3>2 DEF Zero, TypeOK
  <2>10. CASE PassDay(h)
    <3>1. ~At(h, Idle)
          BY <2>10, NotIdle DEF PassDay, At, Places
    <3>2. call' \in [Handlers -> Calls]
          BY <2>10, <3>1, PastDay DEF PassDay, Places
    <3>3. QED BY <2>10, <3>1, <3>2, <2>4 DEF PassDay, TypeOK
  <2>11. CASE Grant(h)
    <3>1. ~At(h, Idle)
          BY <2>11, NotIdle DEF Grant, NotFull, At, Places
    <3> DEFINE n == Cardinality({g \in granted : g.key = Key(h) /\ g.now = call[h].now}) + 1
    <3>2. n \in Nat
      <4>1. IsFiniteSet({g \in granted : g.key = Key(h) /\ g.now = call[h].now})
            BY FS_Subset DEF TypeOK
      <4>2. QED BY <4>1, FS_CardinalityType
    <3>3. call' \in [Handlers -> Calls]
          BY <2>11, <3>1, <3>2, LetThrough DEF Grant
    <3>4. [Stamp(h) EXCEPT !.nth = n] \in Grants
          BY <3>1, <3>2, InCall DEF Grants
    <3>5. granted' = granted \cup {[Stamp(h) EXCEPT !.nth = n]}
          BY <2>11 DEF Grant
    <3> HIDE DEF n
    <3>6. granted' \subseteq Grants /\ IsFiniteSet(granted')
          BY <3>4, <3>5, FS_AddElement DEF TypeOK
    <3>7. QED BY <2>11, <3>3, <3>6 DEF Grant, TypeOK, Race
  <2>12. CASE Record(h) \/ RecordAll(h)
    <3>1. ~At(h, Idle)
          BY <2>12, NotIdle DEF Record, RecordAll, At, Places
    <3>2. call' \in [Handlers -> Calls] /\ Key(h) \in Queues /\ Instance \in Queues
          BY <2>12, <3>1, Moved, Left, InCall DEF Record, RecordAll, Places, Queues
    <3>3. \A q \in Queues : Append(window[q], Stamp(h)) \in Seq(Grants)
          BY <3>1, InCall DEF TypeOK
    <3>4. ASSUME NEW q \in Queues, AppendTo(h, q)
          PROVE  window' \in [Queues -> Seq(Grants)] /\ late' \in [Queues -> BOOLEAN]
          BY <3>3, <3>4 DEF AppendTo, TypeOK
    <3>5. window' \in [Queues -> Seq(Grants)] /\ late' \in [Queues -> BOOLEAN]
          BY <2>12, <3>2, <3>4 DEF Record, RecordAll
    <3>6. QED BY <2>12, <3>2, <3>5 DEF Record, RecordAll, TypeOK
  <2>13. CASE ReadCount(h)
    <3>1. At(h, "count") /\ ~At(h, Idle)
          BY <2>13, NotIdle DEF ReadCount, At, Places
    <3>2. call' \in [Handlers -> Calls]
          BY <2>13, <3>1, ReadsCount
    <3>3. QED BY <2>13, <3>1, <3>2, <2>4 DEF ReadCount, TypeOK
  <2>14. CASE WriteCount(h)
    <3>1. ~At(h, Idle)
          BY <2>14, NotIdle DEF WriteCount, At, Places
    <3>2. call' \in [Handlers -> Calls] /\ call[h].read + 1 \in Nat
          BY <2>14, <3>1, Moved, InCall DEF WriteCount, Places
    <3>3. QED BY <2>14, <3>2 DEF WriteCount, TypeOK, Race
  <2>15. QED BY <2>3, <2>5, <2>6, <2>7, <2>8, <2>9, <2>10, <2>11, <2>12, <2>13, <2>14
<1>3. QED BY <1>1, <1>2, PTL DEF Spec

-----------------------------------------------------------------------------
(* The profile guards.                                                     *)

(* What the start-up guard let through stays so, and internals were handed *)
(* out by a process that serves under the synthetic profile.               *)
ProfileInv ==
    /\ serving /\ config.profile = "synthetic" => ~Violations(config)
    /\ internals => serving /\ config.profile = "synthetic"

\* Steps keep ProfileInv.
LEMMA ProfileStep == TypeOK /\ ProfileInv /\ [Next]_vars => ProfileInv'
<1> SUFFICES ASSUME TypeOK, ProfileInv, [Next]_vars PROVE ProfileInv'
    OBVIOUS
<1> USE DEF process, environment, history
<1>1. CASE Start
      BY <1>1 DEF Start, ProfileInv, Violations
<1>2. ASSUME NEW h \in Handlers, Arrive(h) PROVE ProfileInv'
  <2>1. PICK e \in Endpoints : RequireSynthetic(e) /\ internals' = (internals \/ e # "query")
        BY <1>2 DEF Arrive
  <2>2. e # "query" => config.profile = "synthetic"
        BY <2>1, GatewayAssumption DEF RequireSynthetic
  <2>3. serving /\ serving' = serving /\ config' = config
        BY <1>2 DEF Arrive
  <2>4. QED BY <2>1, <2>2, <2>3 DEF ProfileInv, Violations
<1>3. CASE UNCHANGED <<process, internals>>
      BY <1>3 DEF ProfileInv, Violations
<1>4. ASSUME NEW h \in Handlers,
             \/ Prune(h) \/ Pop(h) \/ PopFails(h) \/ Refuse(h) \/ PassInstance(h)
             \/ ReadDay(h) \/ Reset(h) \/ Zero(h) \/ RefuseDay(h) \/ PassDay(h)
             \/ Grant(h) \/ Record(h) \/ ReadCount(h) \/ WriteCount(h) \/ RecordAll(h)
      PROVE  UNCHANGED <<process, internals>>
      BY <1>4 DEF Prune, Pop, PopFails, Refuse, PassInstance, ReadDay, Reset, Zero, RefuseDay,
                  PassDay, Grant, Record, ReadCount, WriteCount, RecordAll
<1>5. Tick \/ UNCHANGED vars => UNCHANGED <<process, internals>>
      BY DEF Tick, vars
<1>6. QED BY <1>1, <1>2, <1>3, <1>4, <1>5 DEF Next

(* No process hands out governance internals while its configuration       *)
(* reaches a live source: neither guard lets the other's case through.     *)
THEOREM InternalsStaySynthetic == Spec => []InternalsOnlySynthetic
<1>1. Init => ProfileInv
      BY DEF Init, ProfileInv
<1>2. TypeOK /\ ProfileInv => InternalsOnlySynthetic
  <2> SUFFICES ASSUME TypeOK, ProfileInv, internals PROVE ~Live(config)
      BY DEF InternalsOnlySynthetic
  <2>1. ~Violations(config)
        BY DEF ProfileInv
  <2>2. config.grader \in {"fake", "openai"} /\ config.sql \in {"fake", "groq", "nvidia"}
        BY GatewayAssumption DEF TypeOK
  <2>3. QED BY <2>1, <2>2 DEF Violations, Live
<1>3. QED BY <1>1, <1>2, TypeCorrect, ProfileStep, PTL DEF Spec

-----------------------------------------------------------------------------
(* What a step does to the calls let through and to the deques.            *)

Through(h) == call[h].at \in {"record", "count", "add", "recordAll"}

\* A step that lets nothing through and touches no deque: h ends its call, or
\* goes on with it.
Quiet(h) ==
    /\ UNCHANGED <<window, granted, fresh, late, clock>>
    /\ h \in Handlers /\ ~At(h, Idle)
    /\ \A g \in Handlers \ {h} : call'[g] = call[g]
    /\ \/ call'[h] = NoCall /\ ~Through(h)
       \/ /\ call'[h].at \in Places /\ call'[h].queue \in {call[h].queue, call[h].key}
          /\ call'[h].key = call[h].key /\ call'[h].now = call[h].now
          /\ call'[h].nth = call[h].nth
          /\ Through(h)' <=> Through(h)
          /\ call'[h].at = "record" <=> call[h].at = "record"

\* A step of no handler.
Outside ==
    /\ UNCHANGED <<window, call, granted, fresh, late>>
    /\ clock' \in {clock, clock + 1}

\* Every step is of one of seven kinds.
LEMMA StepKinds ==
    ASSUME TypeOK, [Next]_vars
    PROVE  \/ Outside
           \/ \E h \in Handlers :
                Arrive(h) \/ Quiet(h) \/ Pop(h) \/ Grant(h) \/ Record(h) \/ RecordAll(h)
<1> USE DEF process, day, environment, history
<1>1. CASE Start \/ Tick \/ UNCHANGED vars
      BY <1>1 DEF Start, Tick, vars, Outside
<1>2. ASSUME NEW h \in Handlers,
             Prune(h) \/ PassInstance(h) \/ ReadDay(h) \/ Reset(h) \/ Zero(h) \/ WriteCount(h)
      PROVE  Quiet(h)
  <2>1. PICK l \in Places : /\ Goto(h, l) /\ call[h].at # "record" /\ l # "record"
                            /\ l \in {"record", "count", "add", "recordAll"} <=> Through(h)
    <3>1. CASE Prune(h)
          BY <3>1 DEF Prune, Places, Through, At
    <3>2. CASE PassInstance(h)
          BY <3>2 DEF PassInstance, NotFull, Places, Through, At
    <3>3. CASE ReadDay(h)
          BY <3>3 DEF ReadDay, Places, Through, At
    <3>4. CASE Reset(h) \/ Zero(h)
          BY <3>4 DEF Reset, Zero, Places, Through, At
    <3>5. CASE WriteCount(h)
          BY <3>5 DEF WriteCount, Places, Through, At
    <3>6. QED BY <1>2, <3>1, <3>2, <3>3, <3>4, <3>5
  <2>2. ~At(h, Idle)
        BY <1>2, NotIdle DEF Prune, PassInstance, ReadDay, Reset, Zero, WriteCount, NotFull,
                             At, Places
  <2>3. UNCHANGED <<window, granted, fresh, late, clock>>
        BY <1>2 DEF Prune, PassInstance, ReadDay, Reset, Zero, WriteCount
  <2>4. QED BY <2>1, <2>2, <2>3, Moved DEF Quiet, Through
<1>3. ASSUME NEW h \in Handlers, PopFails(h) \/ Refuse(h) \/ RefuseDay(h)
      PROVE  Quiet(h)
  <2>1. ~At(h, Idle) /\ ~Through(h)
        BY <1>3, NotIdle DEF PopFails, Refuse, RefuseDay, Full, At, Places, Through
  <2>2. QED BY <1>3, <2>1, Left DEF PopFails, Refuse, RefuseDay, Quiet
<1>4. ASSUME NEW h \in Handlers, PassDay(h) PROVE Quiet(h)
  <2>1. ~At(h, Idle) /\ call[h].at = "cap"
        BY <1>4, NotIdle DEF PassDay, At, Places
  <2>2. QED BY <1>4, <2>1, PastDay DEF PassDay, Quiet, Through, Places
<1>5. ASSUME NEW h \in Handlers, ReadCount(h) PROVE Quiet(h)
  <2>1. ~At(h, Idle) /\ call[h].at = "count" /\ At(h, "count")
        BY <1>5, NotIdle DEF ReadCount, At, Places
  <2>2. QED BY <1>5, <2>1, ReadsCount DEF ReadCount, Quiet, Through, Places
<1>6. QED BY <1>1, <1>2, <1>3, <1>4, <1>5 DEF Next

\* What Pop does, spelt out.
LEMMA PopStep ==
    ASSUME TypeOK, NEW h \in Handlers, Pop(h)
    PROVE  /\ ~At(h, Idle) /\ call[h].at = "pop" /\ Queue(h) \in Queues
           /\ window[Queue(h)] # <<>> /\ window[Queue(h)] \in Seq(Grants)
           /\ Goto(h, "prune")
           /\ call' \in [Handlers -> Calls]
           /\ call'[h].at = "prune" /\ call'[h].queue = call[h].queue
           /\ call'[h].key = call[h].key /\ call'[h].now = call[h].now
           /\ \A g \in Handlers \ {h} : call'[g] = call[g]
           /\ window' = [window EXCEPT ![Queue(h)] = Tail(window[Queue(h)])]
           /\ fresh' = [fresh EXCEPT ![Queue(h)] =
                          IF Needed(Head(window[Queue(h)]).now)
                          THEN fresh[Queue(h)] \cup {Head(window[Queue(h)])} ELSE fresh[Queue(h)]]
           /\ UNCHANGED <<granted, late, clock, day, raced>>
<1>1. ~At(h, Idle) /\ call[h].at = "pop" /\ "prune" \in Places
      BY NotIdle DEF Pop, At, Places
<1>2. Queue(h) \in Queues
      BY <1>1, InCall
<1>3. window[Queue(h)] \in Seq(Grants)
      BY <1>2 DEF TypeOK
<1>4. QED BY <1>1, <1>2, <1>3, Moved DEF Pop, environment

\* What Grant does: a call with a new number, and the rest as it was.
LEMMA GrantStep ==
    ASSUME TypeOK, NEW h \in Handlers, Grant(h)
    PROVE  \E n \in Nat :
             /\ n = Cardinality({g \in granted : g.key = Key(h) /\ g.now = call[h].now}) + 1
             /\ granted' = granted \cup {[Stamp(h) EXCEPT !.nth = n]}
             /\ Stamp(h)' = [Stamp(h) EXCEPT !.nth = n]
             /\ Stamp(h)' \in Grants /\ Stamp(h)'.key = Key(h) /\ Stamp(h)'.now = call[h].now
             /\ Stamp(h)'.nth = n
             /\ ~At(h, Idle) /\ call[h].at = "full" /\ Queue(h) = Key(h) /\ Key(h) \in Keys
             /\ Len(window[Key(h)]) < PerMin
             /\ call' \in [Handlers -> Calls]
             /\ call'[h].at = "record" /\ call'[h].queue = call[h].queue
             /\ call'[h].key = call[h].key /\ call'[h].now = call[h].now
             /\ \A g \in Handlers \ {h} : call'[g] = call[g]
             /\ UNCHANGED <<window, fresh, late, clock, day>>
             /\ Race(h, call[h].now < dayStart[Key(h)])
<1> DEFINE twins == {g \in granted : g.key = Key(h) /\ g.now = call[h].now}
           n == Cardinality(twins) + 1
<1>1. ~At(h, Idle) /\ call[h].at = "full"
      BY NotIdle DEF Grant, NotFull, At, Places
<1>2. IsFiniteSet(twins)
      BY FS_Subset DEF TypeOK
<1>3. n \in Nat
      BY <1>2, FS_CardinalityType
<1>4. /\ granted' = granted \cup {[Stamp(h) EXCEPT !.nth = n]}
      /\ call' = [call EXCEPT ![h].at = "record", ![h].nth = n]
      /\ UNCHANGED <<window, fresh, late, clock, day>>
      /\ Race(h, call[h].now < dayStart[Key(h)])
      /\ Queue(h) = Key(h) /\ Len(window[Queue(h)]) < Limit(Queue(h))
      BY DEF Grant, NotFull, environment
<1> HIDE DEF n
<1>5. /\ call' \in [Handlers -> Calls]
      /\ call'[h].at = "record" /\ call'[h].queue = call[h].queue
      /\ call'[h].key = call[h].key /\ call'[h].now = call[h].now
      /\ call'[h].nth = n
      /\ \A g \in Handlers \ {h} : call'[g] = call[g]
      BY <1>1, <1>3, <1>4, LetThrough
<1>6. /\ Key(h) \in Keys /\ call[h].now \in Times /\ Key(h) # Instance
      BY <1>1, InCall, Constants
<1>7. /\ Stamp(h)' = [Stamp(h) EXCEPT !.nth = n]
      /\ Stamp(h)' \in Grants /\ Stamp(h)'.key = Key(h) /\ Stamp(h)'.now = call[h].now
      /\ Stamp(h)'.nth = n
      BY <1>3, <1>5, <1>6 DEF Stamp, Key, Grants
<1>8. Len(window[Key(h)]) < PerMin
      BY <1>4, <1>6 DEF Limit
<1>9. QED BY <1>1, <1>3, <1>4, <1>5, <1>6, <1>7, <1>8 DEF n

\* What the two records do: one stamp more at the end of one deque.
LEMMA RecordStep ==
    ASSUME TypeOK, NEW h \in Handlers, NEW q,
           \/ Record(h) /\ q = Key(h)
           \/ RecordAll(h) /\ q = Instance
    PROVE  /\ ~At(h, Idle) /\ Through(h) /\ q \in Queues
           /\ q # Instance <=> call[h].at = "record"
           /\ window[q] \in Seq(Grants) /\ Stamp(h) \in Grants
           /\ window' = [window EXCEPT ![q] = Append(window[q], Stamp(h))]
           /\ late' = [late EXCEPT ![q] = \/ late[q] \/ clock - call[h].now >= Minute
                                          \/ /\ window[q] # <<>>
                                             /\ Last(window[q]).now > call[h].now]
           /\ UNCHANGED <<granted, fresh, clock, day, raced>>
           /\ call' \in [Handlers -> Calls]
           /\ \A g \in Handlers \ {h} : call'[g] = call[g]
           /\ q # Instance => /\ call'[h].at = "count" /\ call'[h].queue = call[h].queue
                              /\ call'[h].key = call[h].key /\ call'[h].now = call[h].now
                              /\ call'[h].nth = call[h].nth
           /\ q = Instance => call'[h] = NoCall
<1>1. call[h].at \in {"record", "recordAll"} /\ ~At(h, Idle) /\ "count" \in Places
      BY NotIdle DEF Record, RecordAll, At, Places
<1>2. Key(h) \in Keys /\ Instance \in Queues /\ Key(h) # Instance /\ Key(h) \in Queues
      BY <1>1, InCall, Constants DEF Queues
<1>3. Stamp(h) \in Grants /\ \A r \in Queues : window[r] \in Seq(Grants)
      BY <1>1, InCall DEF TypeOK
<1>4. /\ AppendTo(h, q) /\ UNCHANGED <<granted, fresh, clock, day, raced>>
      /\ Record(h) => Goto(h, "count")
      /\ RecordAll(h) => Leave(h)
      BY <1>2 DEF Record, RecordAll, environment
<1>5. Record(h) => /\ call' \in [Handlers -> Calls]
                   /\ call'[h].at = "count" /\ call'[h].queue = call[h].queue
                   /\ call'[h].key = call[h].key /\ call'[h].now = call[h].now
                   /\ call'[h].nth = call[h].nth
                   /\ \A g \in Handlers \ {h} : call'[g] = call[g]
      BY <1>1, <1>4, Moved
<1>6. RecordAll(h) => /\ call' \in [Handlers -> Calls] /\ call'[h] = NoCall
                      /\ \A g \in Handlers \ {h} : call'[g] = call[g]
      BY <1>4, Left
<1>7. /\ q # Instance <=> call[h].at = "record"
      /\ q # Instance <=> Record(h)
      BY <1>2 DEF Record, RecordAll, At
<1>8. QED BY <1>1, <1>2, <1>3, <1>4, <1>5, <1>6, <1>7 DEF AppendTo, Through

-----------------------------------------------------------------------------
(* The calls in flight and the calls let through.                          *)

Twins(k, t) == {g \in granted : g.key = k /\ g.now = t}

\* A call in flight that was let through is among those let through.
LocalsInv ==
    \A h \in Handlers : ~At(h, Idle) =>
        /\ call[h].now <= clock
        /\ Queue(h) \in {Instance, Key(h)}
        /\ Through(h) => Stamp(h) \in granted

\* No two calls in flight are the same call let through.
ApartInv ==
    \A g, h \in Handlers : g # h /\ Through(g) /\ Through(h) => Stamp(g) # Stamp(h)

\* The numbers of a key and time are those of its calls.
NumberInv == \A g \in granted : g.now <= clock /\ g.nth <= Cardinality(Twins(g.key, g.now))

CallInv == LocalsInv /\ ApartInv /\ NumberInv

\* The calls of one key and time are finitely many.
LEMMA TwinsType ==
    ASSUME TypeOK, NEW k, NEW t
    PROVE  IsFiniteSet(Twins(k, t)) /\ Cardinality(Twins(k, t)) \in Nat
<1>1. IsFiniteSet(Twins(k, t))
      BY FS_Subset DEF TypeOK, Twins
<1>2. QED BY <1>1, FS_CardinalityType

\* A number is given once.
LEMMA NewGrant ==
    ASSUME TypeOK, NumberInv, NEW h \in Handlers, Grant(h)
    PROVE  Stamp(h)' \notin granted
<1>1. /\ Stamp(h)'.key = Key(h) /\ Stamp(h)'.now = call[h].now
      /\ Stamp(h)'.nth = Cardinality(Twins(Key(h), call[h].now)) + 1
      BY GrantStep DEF Twins
<1>2. Cardinality(Twins(Key(h), call[h].now)) \in Nat
      BY TwinsType
<1>3. SUFFICES ASSUME Stamp(h)' \in granted PROVE FALSE
      OBVIOUS
<1>4. Stamp(h)'.nth <= Cardinality(Twins(Key(h), call[h].now))
      BY <1>1, <1>3 DEF NumberInv
<1>5. QED BY <1>1, <1>2, <1>4

\* Steps keep CallInv.
LEMMA CallStep == TypeOK /\ CallInv /\ [Next]_vars => CallInv'
<1> SUFFICES ASSUME TypeOK, CallInv, [Next]_vars PROVE CallInv'
    OBVIOUS
<1> USE DEF CallInv
<1>0. clock \in Int /\ \A g \in granted : g.now \in Int /\ g.nth \in Nat
      BY DEF TypeOK, Times, Grants
<1>1. CASE Outside
  <2>1. LocalsInv'
    <3>1. \A h \in Handlers : ~At(h, Idle) => call[h].now \in Int
          BY InCall DEF Times
    <3>2. QED BY <1>0, <1>1, <3>1 DEF Outside, LocalsInv, At, Queue, Key, Through, Stamp
  <2>2. ApartInv'
        BY <1>1 DEF Outside, ApartInv, Through, Stamp, Key
  <2>3. NumberInv'
        BY <1>0, <1>1 DEF Outside, NumberInv, Twins
  <2>4. QED BY <2>1, <2>2, <2>3
<1>2. ASSUME UNCHANGED <<granted, clock>>
      PROVE  NumberInv'
      BY <1>2 DEF NumberInv, Twins
<1>3. ASSUME NEW h \in Handlers, \A g \in Handlers \ {h} : call'[g] = call[g],
             granted \subseteq granted', clock' = clock,
             \/ call'[h] = NoCall
             \/ /\ call'[h].at \in Places /\ call'[h].now <= clock
                /\ call'[h].queue \in {Instance, call'[h].key}
                /\ Through(h)' => Stamp(h)' \in granted'
      PROVE  LocalsInv'
  <2>1. Through(h)' => call'[h] # NoCall
        BY Constants DEF Through, NoCall, Places
  <2>2. QED BY <1>3, <2>1 DEF LocalsInv, At, Queue, Key, Through, Stamp, NoCall
<1>4. ASSUME NEW h \in Handlers, \A g \in Handlers \ {h} : call'[g] = call[g],
             Through(h)' => Through(h) /\ Stamp(h)' = Stamp(h)
      PROVE  ApartInv'
      BY <1>4 DEF ApartInv, Through, Stamp, Key
<1>5. ASSUME NEW h \in Handlers, Arrive(h) PROVE CallInv'
  <2>1. UNCHANGED <<granted, clock>>
        BY <1>5 DEF Arrive
  <2>2. ~Through(h)' /\ call'[h].at \in Places
        BY <1>5, Arrives DEF Through, Places
  <2>3. QED BY <1>0, <1>2, <1>3, <1>4, <1>5, <2>1, <2>2, Arrives
<1>6. ASSUME NEW h \in Handlers, Quiet(h) PROVE CallInv'
  <2>1. ~At(h, Idle) /\ call[h].now <= clock /\ call[h].queue \in {Instance, call[h].key}
        BY <1>6 DEF Quiet, LocalsInv, Queue, Key
  <2>2. Through(h)' => Through(h) /\ Stamp(h)' = Stamp(h)
    <3>1. NoCall.at \notin Places
          BY Constants DEF NoCall
    <3>2. QED BY <1>6, <3>1 DEF Quiet, Through, Stamp, Key, Places
  <2>3. Through(h)' => Stamp(h)' \in granted
        BY <2>1, <2>2 DEF LocalsInv
  <2>4. QED BY <1>2, <1>3, <1>4, <1>6, <2>1, <2>2, <2>3 DEF Quiet
<1>7. ASSUME NEW h \in Handlers, Pop(h) PROVE CallInv'
  <2>1. /\ ~At(h, Idle) /\ call'[h].at = "prune" /\ UNCHANGED <<granted, clock>>
        /\ call'[h].queue = call[h].queue
        /\ call'[h].key = call[h].key /\ call'[h].now = call[h].now
        /\ \A g \in Handlers \ {h} : call'[g] = call[g]
        BY <1>7, PopStep
  <2>2. call[h].now <= clock /\ call[h].queue \in {Instance, call[h].key}
        BY <2>1 DEF LocalsInv, Queue, Key
  <2>3. ~Through(h)' /\ call'[h].at \in Places
        BY <2>1 DEF Through, Places
  <2>4. QED BY <1>2, <1>3, <1>4, <2>1, <2>2, <2>3
<1>8. ASSUME NEW h \in Handlers, Grant(h) PROVE CallInv'
  <2>1. PICK n \in Nat :
             /\ n = Cardinality(Twins(Key(h), call[h].now)) + 1
             /\ granted' = granted \cup {Stamp(h)'}
             /\ Stamp(h)'.key = Key(h) /\ Stamp(h)'.now = call[h].now /\ Stamp(h)'.nth = n
             /\ ~At(h, Idle)
             /\ call'[h].at = "record" /\ call'[h].queue = call[h].queue
             /\ call'[h].key = call[h].key /\ call'[h].now = call[h].now
             /\ \A g \in Handlers \ {h} : call'[g] = call[g]
             /\ clock' = clock
    <3>1. PICK n \in Nat :
             /\ n = Cardinality({g \in granted : g.key = Key(h) /\ g.now = call[h].now}) + 1
             /\ granted' = granted \cup {[Stamp(h) EXCEPT !.nth = n]}
             /\ Stamp(h)' = [Stamp(h) EXCEPT !.nth = n]
             /\ Stamp(h)'.key = Key(h) /\ Stamp(h)'.now = call[h].now /\ Stamp(h)'.nth = n
             /\ ~At(h, Idle)
             /\ call'[h].at = "record" /\ call'[h].queue = call[h].queue
             /\ call'[h].key = call[h].key /\ call'[h].now = call[h].now
             /\ \A g \in Handlers \ {h} : call'[g] = call[g]
             /\ clock' = clock
          BY <1>8, GrantStep
    <3>2. QED BY <3>1 DEF Twins
  <2>2. call[h].now <= clock /\ call[h].queue \in {Instance, call[h].key}
        BY <2>1 DEF LocalsInv, Queue, Key
  <2>3. Stamp(h)' \notin granted
        BY <1>8, NewGrant
  <2>4. LocalsInv'
        BY <1>3, <2>1, <2>2 DEF Places
  <2>5. ApartInv'
    <3>1. \A g \in Handlers \ {h} : /\ Through(g)' <=> Through(g)
                                    /\ Stamp(g)' = Stamp(g)
                                    /\ Through(g) => Stamp(g) \in granted
          BY <2>1, NotIdle DEF Through, Stamp, Key, LocalsInv, Places
    <3>2. QED BY <2>3, <3>1 DEF ApartInv
  <2>6. NumberInv'
    <3> SUFFICES ASSUME NEW g \in granted'
                 PROVE  g.now <= clock /\ g.nth <= Cardinality(Twins(g.key, g.now)')
        BY <2>1 DEF NumberInv
    <3>1. IsFiniteSet(granted')
          BY <2>1, FS_AddElement DEF TypeOK
    <3>2. ASSUME NEW k, NEW t
          PROVE  /\ Cardinality(Twins(k, t)) <= Cardinality(Twins(k, t)')
                 /\ Cardinality(Twins(k, t)') \in Nat
      <4>1. IsFiniteSet(Twins(k, t)')
            BY <3>1, FS_Subset DEF Twins
      <4>2. Twins(k, t) \subseteq Twins(k, t)'
            BY <2>1 DEF Twins
      <4>3. QED BY <4>1, <4>2, FS_Subset, FS_CardinalityType
    <3>3. CASE g \in granted
      <4>1. g.now <= clock /\ g.nth <= Cardinality(Twins(g.key, g.now))
            BY <3>3 DEF NumberInv
      <4>2. QED BY <1>0, <3>2, <3>3, <4>1, TwinsType
    <3>4. CASE g = Stamp(h)'
      <4> DEFINE T == Twins(Key(h), call[h].now)
      <4>1. Twins(Key(h), call[h].now)' = T \cup {g}
        <5>1. Key(h)' = Key(h) /\ call'[h].now = call[h].now
              BY <2>1 DEF Key
        <5>2. QED BY <2>1, <3>4, <5>1 DEF Twins
      <4>2. g \notin T
            BY <2>3, <3>4 DEF Twins
      <4>3. IsFiniteSet(T)
            BY TwinsType
      <4>4. Cardinality(T \cup {g}) = Cardinality(T) + 1
            BY <4>2, <4>3, FS_AddElement
      <4>5. Twins(g.key, g.now)' = T \cup {g}
            BY <2>1, <3>4 DEF Twins
      <4>6. QED BY <2>1, <2>2, <3>4, <4>4, <4>5
    <3>5. QED BY <2>1, <3>3, <3>4
  <2>7. QED BY <2>4, <2>5, <2>6
<1>9. ASSUME NEW h \in Handlers, Record(h) \/ RecordAll(h) PROVE CallInv'
  <2> DEFINE q == IF Record(h) THEN Key(h) ELSE Instance
  <2>1. \/ Record(h) /\ q = Key(h)
        \/ RecordAll(h) /\ q = Instance
        BY <1>9
  <2> HIDE DEF q
  <2>2. /\ ~At(h, Idle) /\ Through(h) /\ UNCHANGED <<granted, clock>>
        /\ \A g \in Handlers \ {h} : call'[g] = call[g]
        /\ q # Instance => /\ call'[h].at = "count" /\ call'[h].queue = call[h].queue
                           /\ call'[h].key = call[h].key /\ call'[h].now = call[h].now
                           /\ call'[h].nth = call[h].nth
        /\ q = Instance => call'[h] = NoCall
        BY <2>1, RecordStep
  <2>3. call[h].now <= clock /\ call[h].queue \in {Instance, call[h].key} /\ Stamp(h) \in granted
        BY <2>2 DEF LocalsInv, Queue, Key
  <2>4. Through(h)' => q # Instance
        BY <2>2, Constants DEF Through, NoCall, Places
  <2>5. Through(h)' => Stamp(h)' = Stamp(h)
        BY <2>2, <2>4 DEF Stamp, Key
  <2>6. QED BY <1>2, <1>3, <1>4, <2>2, <2>3, <2>4, <2>5 DEF Places
<1>10. QED BY <1>1, <1>5, <1>6, <1>7, <1>8, <1>9, StepKinds

-----------------------------------------------------------------------------
(* What the deques hold.                                                   *)

\* Let through, and not yet on the deque of q.
Unrecorded(q) == {h \in Handlers : Through(h) /\ (q = Instance \/ (At(h, "record") /\ Key(h) = q))}

\* A deque holds calls let through, each once, and none that is yet to record.
WindowInv ==
    \A q \in Queues :
        /\ \A i \in DOMAIN window[q] : /\ window[q][i] \in granted
                                       /\ q \in {Instance, window[q][i].key}
        /\ \A i, j \in DOMAIN window[q] : i # j => window[q][i] # window[q][j]
        /\ \A h \in Unrecorded(q), i \in DOMAIN window[q] : window[q][i] # Stamp(h)
        /\ fresh[q] \subseteq granted

\* What is yet to be recorded is changed by a grant and a record only.
LEMMA UnrecordedSame ==
    ASSUME TypeOK, Outside \/ \E h \in Handlers : Arrive(h) \/ Quiet(h) \/ Pop(h)
    PROVE  \A q : /\ Unrecorded(q)' = Unrecorded(q)
                  /\ \A g \in Unrecorded(q) : Stamp(g)' = Stamp(g)
<1>1. CASE Outside
      BY <1>1 DEF Outside, Unrecorded, Through, At, Key, Stamp
<1>2. ASSUME NEW h \in Handlers, \A g \in Handlers \ {h} : call'[g] = call[g],
             Through(h)' <=> Through(h),
             Through(h) => /\ call'[h].at = "record" <=> call[h].at = "record"
                           /\ Key(h)' = Key(h) /\ Stamp(h)' = Stamp(h)
      PROVE  \A q : /\ Unrecorded(q)' = Unrecorded(q)
                    /\ \A g \in Unrecorded(q) : Stamp(g)' = Stamp(g)
  <2>1. ASSUME NEW g \in Handlers
        PROVE  /\ Through(g)' <=> Through(g)
               /\ Through(g) => /\ At(g, "record")' <=> At(g, "record")
                                /\ Key(g)' = Key(g) /\ Stamp(g)' = Stamp(g)
        BY <1>2 DEF Through, At, Key, Stamp
  <2>2. QED BY <2>1 DEF Unrecorded
<1>3. NoCall.at \notin Places
      BY Constants DEF NoCall
<1>4. ASSUME NEW h \in Handlers, Arrive(h)
      PROVE  (Through(h)' <=> Through(h)) /\ ~Through(h)
  <2>1. ~Through(h) /\ ~Through(h)'
        BY <1>4, Arrives, Constants DEF Arrive, At, Through, Places
  <2>2. QED BY <2>1
<1>5. ASSUME NEW h \in Handlers, Pop(h)
      PROVE  (Through(h)' <=> Through(h)) /\ ~Through(h)
  <2>1. ~Through(h) /\ ~Through(h)'
        BY <1>5, PopStep DEF Through
  <2>2. QED BY <2>1
<1>6. ASSUME NEW h \in Handlers, Quiet(h)
      PROVE  /\ Through(h)' <=> Through(h)
             /\ Through(h) => /\ call'[h].at = "record" <=> call[h].at = "record"
                              /\ Key(h)' = Key(h) /\ Stamp(h)' = Stamp(h)
  <2>1. Through(h)' <=> Through(h)
        BY <1>3, <1>6 DEF Quiet, Through, Places
  <2>2. QED BY <1>6, <2>1 DEF Quiet, Key, Stamp
<1>7. ASSUME NEW h \in Handlers, Arrive(h) \/ Quiet(h) \/ Pop(h)
      PROVE  \A g \in Handlers \ {h} : call'[g] = call[g]
      BY <1>7, Arrives, PopStep DEF Quiet
<1>8. QED BY <1>1, <1>2, <1>4, <1>5, <1>6, <1>7

\* A grant adds its handler to what two deques are yet to record.
LEMMA UnrecordedGrant ==
    ASSUME TypeOK, NEW h \in Handlers, Grant(h), NEW q \in Queues
    PROVE  /\ q \in {Instance, Key(h)} => Unrecorded(q)' = Unrecorded(q) \cup {h}
           /\ q \notin {Instance, Key(h)} => Unrecorded(q)' = Unrecorded(q)
           /\ \A g \in Unrecorded(q) : Stamp(g)' = Stamp(g)
           /\ ~Through(h)
<1>1. /\ call[h].at = "full" /\ call'[h].at = "record" /\ call'[h].key = call[h].key
      /\ \A g \in Handlers \ {h} : call'[g] = call[g]
      BY GrantStep
<1>2. ~Through(h) /\ Through(h)' /\ At(h, "record")' /\ Key(h)' = Key(h)
      BY <1>1 DEF Through, At, Key
<1>3. \A g \in Handlers \ {h} : /\ Through(g)' <=> Through(g)
                                /\ At(g, "record")' <=> At(g, "record")
                                /\ Key(g)' = Key(g) /\ Stamp(g)' = Stamp(g)
      BY <1>1 DEF Through, At, Key, Stamp
<1>4. QED BY <1>2, <1>3 DEF Unrecorded

\* A record takes its handler from what its deque is yet to record.
LEMMA UnrecordedRecord ==
    ASSUME TypeOK, NEW h \in Handlers, NEW q,
           \/ Record(h) /\ q = Key(h)
           \/ RecordAll(h) /\ q = Instance
    PROVE  /\ h \in Unrecorded(q) /\ Unrecorded(q)' = Unrecorded(q) \ {h}
           /\ \A r \in Queues \ {q} : Unrecorded(r)' = Unrecorded(r)
           /\ \A r \in Queues : \A g \in Unrecorded(r)' : Stamp(g)' = Stamp(g)
<1>1. /\ Through(h) /\ (q # Instance <=> call[h].at = "record")
      /\ \A g \in Handlers \ {h} : call'[g] = call[g]
      /\ q # Instance => /\ call'[h].at = "count" /\ call'[h].queue = call[h].queue
                         /\ call'[h].key = call[h].key /\ call'[h].now = call[h].now
                         /\ call'[h].nth = call[h].nth
      /\ q = Instance => call'[h] = NoCall
      BY RecordStep
<1>2. \A g \in Handlers \ {h} : /\ Through(g)' <=> Through(g)
                                /\ At(g, "record")' <=> At(g, "record")
                                /\ Key(g)' = Key(g) /\ Stamp(g)' = Stamp(g)
      BY <1>1 DEF Through, At, Key, Stamp
<1>3. q = Instance => ~Through(h)' /\ ~At(h, "record")
      BY <1>1, Constants DEF Through, NoCall, Places, At
<1>4. q # Instance => /\ Through(h)' /\ ~At(h, "record")' /\ At(h, "record")
                      /\ Key(h)' = Key(h) /\ Stamp(h)' = Stamp(h)
      BY <1>1 DEF Through, At, Key, Stamp
<1>5. q # Instance => q = Key(h)
      OBVIOUS
<1>6. h \in Unrecorded(q)
      BY <1>1, <1>4, <1>5 DEF Unrecorded
<1>7. Unrecorded(q)' = Unrecorded(q) \ {h}
      BY <1>2, <1>3, <1>4, <1>5 DEF Unrecorded
<1>8. ASSUME NEW r \in Queues \ {q} PROVE Unrecorded(r)' = Unrecorded(r)
      BY <1>1, <1>2, <1>3, <1>4, <1>5 DEF Unrecorded
<1>9. ASSUME NEW r \in Queues, NEW g \in Unrecorded(r)' PROVE Stamp(g)' = Stamp(g)
      BY <1>2, <1>3, <1>4 DEF Unrecorded
<1>10. QED BY <1>6, <1>7, <1>8, <1>9

\* The entries of a tail are those from the second on.
LEMMA TailEntries ==
    ASSUME NEW S, NEW w \in Seq(S), w # <<>>
    PROVE  /\ Head(w) = w[1] /\ 1 \in DOMAIN w
           /\ \A i \in DOMAIN Tail(w) : i + 1 \in DOMAIN w /\ Tail(w)[i] = w[i + 1] /\ i \in Int
           /\ \A i \in DOMAIN w : i = 1 \/ (i - 1 \in DOMAIN Tail(w) /\ Tail(w)[i - 1] = w[i])
<1>1. Len(w) \in Nat /\ Len(w) >= 1 /\ DOMAIN w = 1..Len(w)
      OBVIOUS
<1>2. DOMAIN Tail(w) = 1..(Len(w) - 1) /\ \A i \in 1..(Len(w) - 1) : Tail(w)[i] = w[i + 1]
      BY <1>1
<1>3. QED BY <1>1, <1>2

\* The entries after an append are those before it, and the new one.
LEMMA AppendEntries ==
    ASSUME NEW S, NEW w \in Seq(S), NEW e \in S
    PROVE  /\ DOMAIN w = 1..Len(w) /\ DOMAIN Append(w, e) = 1..(Len(w) + 1) /\ Len(w) \in Nat
           /\ \A i \in DOMAIN w : i \in DOMAIN Append(w, e) /\ Append(w, e)[i] = w[i]
           /\ Append(w, e)[Len(w) + 1] = e
           /\ \A i \in DOMAIN Append(w, e) : i \in DOMAIN w \/ i = Len(w) + 1
<1>1. Len(w) \in Nat /\ DOMAIN w = 1..Len(w)
      OBVIOUS
<1>2. /\ DOMAIN Append(w, e) = 1..(Len(w) + 1)
      /\ \A i \in 1..Len(w) : Append(w, e)[i] = w[i]
      /\ Append(w, e)[Len(w) + 1] = e
      BY <1>1
<1>3. QED BY <1>1, <1>2

\* Steps keep WindowInv.
LEMMA WindowStep == TypeOK /\ CallInv /\ WindowInv /\ [Next]_vars => WindowInv'
<1> SUFFICES ASSUME TypeOK, CallInv, WindowInv, [Next]_vars PROVE WindowInv'
    OBVIOUS
<1>0. \A q \in Queues : window[q] \in Seq(Grants)
      BY DEF TypeOK
<1>1. ASSUME UNCHANGED <<window, granted, fresh>>,
             \A q : /\ Unrecorded(q)' = Unrecorded(q)
                    /\ \A g \in Unrecorded(q) : Stamp(g)' = Stamp(g)
      PROVE  WindowInv'
      BY <1>1 DEF WindowInv
<1>2. CASE Outside \/ \E h \in Handlers : Arrive(h) \/ Quiet(h)
      BY <1>1, <1>2, UnrecordedSame DEF Outside, Arrive, Quiet, history
<1>3. ASSUME NEW h \in Handlers, Pop(h) PROVE WindowInv'
  <2> DEFINE p == Queue(h)
  <2>1. /\ p \in Queues /\ window[p] # <<>>
        /\ window' = [window EXCEPT ![p] = Tail(window[p])]
        /\ fresh' = [fresh EXCEPT ![p] = IF Needed(Head(window[p]).now)
                                         THEN fresh[p] \cup {Head(window[p])} ELSE fresh[p]]
        /\ granted' = granted
        BY <1>3, PopStep
  <2>2. \A q : /\ Unrecorded(q)' = Unrecorded(q)
               /\ \A g \in Unrecorded(q) : Stamp(g)' = Stamp(g)
        BY <1>3, UnrecordedSame
  <2> HIDE DEF p
  <2>3. ASSUME NEW q \in Queues
        PROVE  /\ window'[q] = IF q = p THEN Tail(window[q]) ELSE window[q]
               /\ fresh'[q] \subseteq granted
    <3>1. window'[q] = IF q = p THEN Tail(window[q]) ELSE window[q]
          BY <2>1 DEF TypeOK
    <3>2. Head(window[p]) \in granted
          BY <1>0, <2>1, TailEntries DEF WindowInv
    <3>3. fresh'[q] \subseteq fresh[q] \cup (IF q = p THEN {Head(window[p])} ELSE {})
          BY <2>1 DEF TypeOK
    <3>4. fresh[q] \subseteq granted
          BY DEF WindowInv
    <3>5. QED BY <3>1, <3>2, <3>3, <3>4
  <2>4. ASSUME NEW q \in Queues
        PROVE  /\ \A i \in DOMAIN window'[q] :
                    \E j \in DOMAIN window[q] : /\ window'[q][i] = window[q][j]
                                                /\ j = IF q = p THEN i + 1 ELSE i
               /\ \A i \in DOMAIN window'[q] : i \in Int
    <3>1. CASE q = p
      <4>1. window'[q] = Tail(window[q]) /\ window[q] # <<>> /\ window[q] \in Seq(Grants)
            BY <1>0, <2>1, <2>3, <3>1
      <4>2. QED BY <3>1, <4>1, TailEntries
    <3>2. CASE q # p
          BY <1>0, <2>3, <3>2
    <3>3. QED BY <3>1, <3>2
  <2>5. ASSUME NEW q \in Queues
        PROVE  /\ \A i \in DOMAIN window'[q] : /\ window'[q][i] \in granted
                                               /\ q \in {Instance, window'[q][i].key}
               /\ \A h1 \in Unrecorded(q), i \in DOMAIN window'[q] : window'[q][i] # Stamp(h1)
        BY <2>4 DEF WindowInv
  <2>6. ASSUME NEW q \in Queues, NEW i \in DOMAIN window'[q], NEW j \in DOMAIN window'[q], i # j
        PROVE  window'[q][i] # window'[q][j]
    <3>1. PICK k \in DOMAIN window[q] : /\ window'[q][i] = window[q][k]
                                        /\ k = IF q = p THEN i + 1 ELSE i
          BY <2>4
    <3>2. PICK l \in DOMAIN window[q] : /\ window'[q][j] = window[q][l]
                                        /\ l = IF q = p THEN j + 1 ELSE j
          BY <2>4
    <3>3. k # l
          BY <2>4, <2>6, <3>1, <3>2
    <3>4. QED BY <3>1, <3>2, <3>3 DEF WindowInv
  <2>7. QED BY <2>1, <2>2, <2>3, <2>5, <2>6 DEF WindowInv
<1>4. ASSUME NEW h \in Handlers, Grant(h) PROVE WindowInv'
  <2>1. /\ UNCHANGED <<window, fresh>> /\ granted \subseteq granted'
        /\ Stamp(h)' \notin granted
        BY <1>4, GrantStep, NewGrant DEF CallInv
  <2>2. ASSUME NEW q \in Queues, NEW g \in Unrecorded(q)', NEW i \in DOMAIN window[q]
        PROVE  window[q][i] # Stamp(g)'
    <3>1. CASE g = h
          BY <2>1, <3>1 DEF WindowInv
    <3>2. CASE g # h
      <4>1. g \in Unrecorded(q) /\ Stamp(g)' = Stamp(g)
            BY <1>4, <3>2, UnrecordedGrant
      <4>2. QED BY <4>1 DEF WindowInv
    <3>3. QED BY <3>1, <3>2
  <2>3. QED BY <2>1, <2>2 DEF WindowInv
<1>5. ASSUME NEW h \in Handlers, NEW p,
             \/ Record(h) /\ p = Key(h)
             \/ RecordAll(h) /\ p = Instance
      PROVE  WindowInv'
  <2>1. /\ p \in Queues /\ Stamp(h) \in Grants /\ ~At(h, Idle) /\ Through(h)
        /\ window' = [window EXCEPT ![p] = Append(window[p], Stamp(h))]
        /\ UNCHANGED <<granted, fresh>>
        BY <1>5, RecordStep
  <2>2. /\ h \in Unrecorded(p) /\ Unrecorded(p)' = Unrecorded(p) \ {h}
        /\ \A r \in Queues \ {p} : Unrecorded(r)' = Unrecorded(r)
        /\ \A r \in Queues : \A g \in Unrecorded(r)' : Stamp(g)' = Stamp(g)
        BY <1>5, UnrecordedRecord
  <2>3. Stamp(h) \in granted /\ p \in {Instance, Stamp(h).key}
    <3>1. Stamp(h) \in granted
          BY <2>1 DEF CallInv, LocalsInv
    <3>2. Stamp(h).key = Key(h)
          BY <2>1, InCall
    <3>3. QED BY <1>5, <3>1, <3>2
  <2>4. ASSUME NEW q \in Queues, q # p
        PROVE  /\ \A i \in DOMAIN window'[q] : /\ window'[q][i] \in granted'
                                               /\ q \in {Instance, window'[q][i].key}
               /\ \A i, j \in DOMAIN window'[q] : i # j => window'[q][i] # window'[q][j]
               /\ \A g \in Unrecorded(q)', i \in DOMAIN window'[q] : window'[q][i] # Stamp(g)'
               /\ fresh'[q] \subseteq granted'
    <3>1. window'[q] = window[q]
          BY <2>1, <2>4 DEF TypeOK
    <3>2. QED BY <2>1, <2>2, <2>4, <3>1 DEF WindowInv
  <2> DEFINE w == window[p]
             e == Stamp(h)
  <2>5. window'[p] = Append(w, e) /\ w \in Seq(Grants) /\ e \in Grants
        BY <1>0, <2>1 DEF TypeOK
  <2>6. /\ \A i \in DOMAIN w : w[i] # e /\ w[i] \in granted /\ p \in {Instance, w[i].key}
        /\ \A i, j \in DOMAIN w : i # j => w[i] # w[j]
        /\ \A g \in Unrecorded(p), i \in DOMAIN w : w[i] # Stamp(g)
        BY <2>1, <2>2 DEF WindowInv
  <2>7. \A g \in Unrecorded(p) \ {h} : Stamp(g) # e
        BY <2>1 DEF Unrecorded, CallInv, ApartInv
  <2> HIDE DEF w, e
  <2>8. /\ DOMAIN w = 1..Len(w) /\ Len(w) \in Nat
        /\ \A i \in DOMAIN w : Append(w, e)[i] = w[i]
        /\ Append(w, e)[Len(w) + 1] = e
        /\ \A i \in DOMAIN Append(w, e) : i \in DOMAIN w \/ i = Len(w) + 1
        BY <2>5, AppendEntries
  <2>9. \A i \in DOMAIN window'[p] : /\ window'[p][i] \in granted'
                                     /\ p \in {Instance, window'[p][i].key}
        BY <2>1, <2>3, <2>5, <2>6, <2>8 DEF e
  <2>10. \A i, j \in DOMAIN window'[p] : i # j => window'[p][i] # window'[p][j]
         BY <2>5, <2>6, <2>8
  <2>11. \A g \in Unrecorded(p)', i \in DOMAIN window'[p] : window'[p][i] # Stamp(g)'
    <3> SUFFICES ASSUME NEW g \in Unrecorded(p) \ {h}, NEW i \in DOMAIN Append(w, e)
                 PROVE  Append(w, e)[i] # Stamp(g)
        BY <2>1, <2>2, <2>5
    <3>1. CASE i \in DOMAIN w
          BY <2>6, <2>8, <3>1
    <3>2. CASE i = Len(w) + 1
          BY <2>7, <2>8, <3>2
    <3>3. QED BY <2>8, <3>1, <3>2
  <2>12. fresh'[p] \subseteq granted'
         BY <2>1 DEF WindowInv
  <2>13. ASSUME NEW q \in Queues
         PROVE  /\ \A i \in DOMAIN window'[q] : /\ window'[q][i] \in granted'
                                                /\ q \in {Instance, window'[q][i].key}
                /\ \A i, j \in DOMAIN window'[q] : i # j => window'[q][i] # window'[q][j]
                /\ \A g \in Unrecorded(q)', i \in DOMAIN window'[q] : window'[q][i] # Stamp(g)'
                /\ fresh'[q] \subseteq granted'
    <3>1. CASE q = p
          BY <2>9, <2>10, <2>11, <2>12, <3>1
    <3>2. CASE q # p
          BY <2>4, <3>2
    <3>3. QED BY <3>1, <3>2
  <2>14. QED BY <2>13 DEF WindowInv
<1>6. QED BY <1>2, <1>3, <1>4, <1>5, StepKinds

\* A record no call in flight, or to come, counts for.
Old(g) ==
    /\ clock - g.now >= Minute
    /\ \A h \in Handlers : ~At(h, Idle) => Stale(h, g.now)

\* No call let through is forgotten: it is on the deque, was taken off it too
\* soon, is yet to be recorded, or is out of every window.
Covered ==
    \A q \in Queues : \A g \in granted : q \in {Instance, g.key} =>
        \/ \E i \in DOMAIN window[q] : window[q][i] = g
        \/ g \in fresh[q]
        \/ \E h \in Unrecorded(q) : Stamp(h) = g
        \/ Old(g)

\* What is out of every window stays so: the clock does not go back.
LEMMA OldStays ==
    ASSUME TypeOK, [Next]_vars, NEW g \in granted, Old(g)
    PROVE  Old(g)'
<1>0. clock \in Int /\ g.now \in Int /\ Minute \in Nat
      BY Constants DEF TypeOK, Times, Grants
<1>1. CASE Outside
      BY <1>0, <1>1 DEF Outside, Old, At, Stale
<1>2. ASSUME NEW h \in Handlers, \A f \in Handlers \ {h} : call'[f] = call[f], clock' = clock,
             \/ call'[h] = NoCall
             \/ ~At(h, Idle) /\ call'[h].now = call[h].now
             \/ call'[h].now = clock
      PROVE  Old(g)'
      BY <1>0, <1>2 DEF Old, At, Stale, NoCall
<1>3. ASSUME NEW h \in Handlers, Arrive(h) PROVE Old(g)'
      BY <1>2, <1>3, Arrives DEF Arrive
<1>4. ASSUME NEW h \in Handlers, Quiet(h) PROVE Old(g)'
      BY <1>2, <1>4 DEF Quiet
<1>5. ASSUME NEW h \in Handlers, Pop(h) PROVE Old(g)'
      BY <1>2, <1>5, PopStep
<1>6. ASSUME NEW h \in Handlers, Grant(h) PROVE Old(g)'
      BY <1>2, <1>6, GrantStep
<1>7. ASSUME NEW h \in Handlers, NEW q, \/ Record(h) /\ q = Key(h)
                                        \/ RecordAll(h) /\ q = Instance
      PROVE  Old(g)'
      BY <1>2, <1>7, RecordStep
<1>8. QED BY <1>1, <1>3, <1>4, <1>5, <1>6, <1>7, StepKinds

\* Steps keep Covered.
LEMMA CoveredStep == TypeOK /\ CallInv /\ WindowInv /\ Covered /\ [Next]_vars => Covered'
<1> SUFFICES ASSUME TypeOK, CallInv, WindowInv, Covered, [Next]_vars,
                    NEW q \in Queues, NEW g \in granted', q \in {Instance, g.key}
             PROVE  \/ \E i \in DOMAIN window'[q] : window'[q][i] = g
                    \/ g \in fresh'[q]
                    \/ \E h \in Unrecorded(q)' : Stamp(h)' = g
                    \/ Old(g)'
    BY DEF Covered
<1> DEFINE Goal == \/ \E i \in DOMAIN window'[q] : window'[q][i] = g
                   \/ g \in fresh'[q]
                   \/ \E h \in Unrecorded(q)' : Stamp(h)' = g
                   \/ Old(g)'
<1>0. window[q] \in Seq(Grants)
      BY DEF TypeOK
<1>1. g \in granted => \/ \E i \in DOMAIN window[q] : window[q][i] = g
                       \/ g \in fresh[q]
                       \/ \E h \in Unrecorded(q) : Stamp(h) = g
                       \/ Old(g)'
      BY OldStays DEF Covered
<1>2. CASE Outside \/ \E h \in Handlers : Arrive(h) \/ Quiet(h)
  <2>1. UNCHANGED <<window, granted, fresh>>
        BY <1>2 DEF Outside, Arrive, Quiet, history
  <2>2. QED BY <1>1, <1>2, <2>1, UnrecordedSame
<1>3. ASSUME NEW h \in Handlers, Pop(h) PROVE Goal
  <2> DEFINE p == Queue(h)
             head == Head(window[p])
  <2>1. /\ p \in Queues /\ window[p] # <<>> /\ ~At(h, Idle)
        /\ window' = [window EXCEPT ![p] = Tail(window[p])]
        /\ fresh' = [fresh EXCEPT ![p] = IF Needed(head.now)
                                         THEN fresh[p] \cup {head} ELSE fresh[p]]
        /\ granted' = granted
        /\ UNCHANGED <<granted>>
        BY <1>3, PopStep
  <2> HIDE DEF p
  <2>2. /\ window'[q] = IF q = p THEN Tail(window[q]) ELSE window[q]
        /\ fresh'[q] = IF q = p /\ Needed(head.now) THEN fresh[q] \cup {head} ELSE fresh[q]
        BY <2>1 DEF TypeOK
  <2>3. \A f \in Unrecorded(q) : f \in Unrecorded(q)' /\ Stamp(f)' = Stamp(f)
        BY <1>3, UnrecordedSame
  <2>4. ASSUME NEW i \in DOMAIN window[q], window[q][i] = g, q = p
        PROVE  Goal
    <3>1. i = 1 \/ (i - 1 \in DOMAIN Tail(window[q]) /\ Tail(window[q])[i - 1] = window[q][i])
          BY <1>0, <2>1, <2>4, TailEntries
    <3>2. CASE i = 1 /\ Needed(head.now)
      <4>1. head = g
            BY <1>0, <2>1, <2>4, <3>2, TailEntries
      <4>2. QED BY <2>2, <2>4, <3>2, <4>1
    <3>3. CASE i = 1 /\ ~Needed(head.now)
      <4>1. head = g /\ g \in granted
            BY <1>0, <2>1, <2>4, <3>3, TailEntries DEF WindowInv
      <4>2. \A f \in Handlers : ~At(f, Idle) => Stale(f, g.now)
            BY <3>3, <4>1 DEF Needed
      <4>3. call[h].now <= clock /\ call[h].now - g.now >= Minute
            BY <2>1, <4>2 DEF CallInv, LocalsInv, Stale
      <4>4. call[h].now \in Int /\ g.now \in Int /\ clock \in Int /\ Minute \in Int
        <5>1. call[h].now \in Times
              BY <2>1, InCall
        <5>2. g \in Grants /\ clock \in Times
              BY <4>1 DEF TypeOK
        <5>3. QED BY <5>1, <5>2, Constants DEF Times, Grants
      <4>5. Old(g)
            BY <4>2, <4>3, <4>4 DEF Old
      <4>6. QED BY <4>1, <4>5, OldStays
    <3>4. CASE i - 1 \in DOMAIN Tail(window[q]) /\ Tail(window[q])[i - 1] = window[q][i]
          BY <2>2, <2>4, <3>4
    <3>5. QED BY <3>1, <3>2, <3>3, <3>4
  <2>5. ASSUME NEW i \in DOMAIN window[q], window[q][i] = g, q # p
        PROVE  Goal
        BY <2>2, <2>5
  <2>6. QED BY <1>1, <2>1, <2>2, <2>3, <2>4, <2>5
<1>4. ASSUME NEW h \in Handlers, Grant(h) PROVE Goal
  <2>1. /\ granted' = granted \cup {Stamp(h)'} /\ Stamp(h)'.key = Key(h)
        /\ UNCHANGED <<window, fresh>>
        BY <1>4, GrantStep
  <2>2. /\ q \in {Instance, Key(h)} => Unrecorded(q)' = Unrecorded(q) \cup {h}
        /\ q \notin {Instance, Key(h)} => Unrecorded(q)' = Unrecorded(q)
        /\ \A f \in Unrecorded(q) : Stamp(f)' = Stamp(f)
        BY <1>4, UnrecordedGrant
  <2>3. CASE g = Stamp(h)'
        BY <2>1, <2>2, <2>3
  <2>4. CASE g \in granted
        BY <1>1, <2>1, <2>2, <2>4
  <2>5. QED BY <2>1, <2>3, <2>4
<1>5. ASSUME NEW h \in Handlers, NEW p, \/ Record(h) /\ p = Key(h)
                                        \/ RecordAll(h) /\ p = Instance
      PROVE  Goal
  <2>1. /\ p \in Queues /\ Stamp(h) \in Grants
        /\ window' = [window EXCEPT ![p] = Append(window[p], Stamp(h))]
        /\ UNCHANGED <<granted, fresh>>
        BY <1>5, RecordStep
  <2>2. /\ h \in Unrecorded(p) /\ Unrecorded(p)' = Unrecorded(p) \ {h}
        /\ \A r \in Queues \ {p} : Unrecorded(r)' = Unrecorded(r)
        /\ \A r \in Queues : \A f \in Unrecorded(r)' : Stamp(f)' = Stamp(f)
        BY <1>5, UnrecordedRecord
  <2>3. CASE q # p
    <3>1. window'[q] = window[q]
          BY <2>1, <2>3 DEF TypeOK
    <3>2. QED BY <1>1, <2>1, <2>2, <2>3, <3>1
  <2>4. CASE q = p
    <3>1. window'[q] = Append(window[q], Stamp(h))
          BY <2>1, <2>4 DEF TypeOK
    <3>2. /\ \A i \in DOMAIN window[q] : i \in DOMAIN window'[q] /\ window'[q][i] = window[q][i]
          /\ Len(window[q]) + 1 \in DOMAIN window'[q]
          /\ window'[q][Len(window[q]) + 1] = Stamp(h)
          BY <1>0, <2>1, <3>1, AppendEntries
    <3>3. QED BY <1>1, <2>1, <2>2, <2>4, <3>2
  <2>5. QED BY <2>3, <2>4
<1>6. QED BY <1>2, <1>3, <1>4, <1>5, StepKinds

-----------------------------------------------------------------------------
(* Counting.                                                               *)

\* A part has no more members than the whole.
LEMMA PartCount ==
    ASSUME NEW T, IsFiniteSet(T), NEW S \in SUBSET T
    PROVE  /\ IsFiniteSet(S) /\ Cardinality(S) \in Nat /\ Cardinality(T) \in Nat
           /\ Cardinality(S) <= Cardinality(T)
<1>1. IsFiniteSet(S) /\ Cardinality(S) <= Cardinality(T)
      BY FS_Subset
<1>2. QED BY <1>1, FS_CardinalityType

\* One element adds at most one.
LEMMA OneMore ==
    ASSUME NEW S, IsFiniteSet(S), NEW x, NEW T \in SUBSET (S \cup {x})
    PROVE  /\ IsFiniteSet(T) /\ Cardinality(T) \in Nat /\ Cardinality(S) \in Nat
           /\ Cardinality(T) <= Cardinality(S) + 1
<1>1. /\ IsFiniteSet(S \cup {x}) /\ Cardinality(S) \in Nat
      /\ Cardinality(S \cup {x}) = IF x \in S THEN Cardinality(S) ELSE Cardinality(S) + 1
      BY FS_AddElement, FS_CardinalityType
<1>2. Cardinality(S \cup {x}) <= Cardinality(S) + 1
      BY <1>1
<1>3. /\ IsFiniteSet(T) /\ Cardinality(T) \in Nat /\ Cardinality(S \cup {x}) \in Nat
      /\ Cardinality(T) <= Cardinality(S \cup {x})
      BY <1>1, PartCount
<1>4. QED BY <1>1, <1>2, <1>3

\* A union has at most the members of both, and exactly when they are apart.
LEMMA UnionCount ==
    ASSUME NEW S, IsFiniteSet(S), NEW T, IsFiniteSet(T)
    PROVE  /\ IsFiniteSet(S \cup T) /\ Cardinality(S \cup T) \in Nat
           /\ Cardinality(S) \in Nat /\ Cardinality(T) \in Nat
           /\ Cardinality(S \cup T) <= Cardinality(S) + Cardinality(T)
           /\ S \cap T = {} => Cardinality(S \cup T) = Cardinality(S) + Cardinality(T)
<1>1. /\ IsFiniteSet(S \cup T)
      /\ Cardinality(S \cup T) = Cardinality(S) + Cardinality(T) - Cardinality(S \cap T)
      BY FS_Union
<1>2. /\ Cardinality(S \cup T) \in Nat /\ Cardinality(S) \in Nat /\ Cardinality(T) \in Nat
      BY <1>1, FS_CardinalityType
<1>3. IsFiniteSet(S \cap T) /\ Cardinality(S \cap T) \in Nat
      BY FS_Intersection, FS_CardinalityType
<1>4. S \cap T = {} => Cardinality(S \cap T) = 0
      BY FS_EmptySet
<1>5. QED BY <1>1, <1>2, <1>3, <1>4

\* A sequence has at most its length of entries, exactly if no two are equal.
LEMMA EntryCount ==
    ASSUME NEW S, NEW w \in Seq(S)
    PROVE  /\ IsFiniteSet({w[i] : i \in DOMAIN w})
           /\ Cardinality({w[i] : i \in DOMAIN w}) <= Len(w)
           /\ Cardinality({w[i] : i \in DOMAIN w}) \in Nat /\ Len(w) \in Nat
           /\ (\A i, j \in DOMAIN w : i # j => w[i] # w[j])
                => Cardinality({w[i] : i \in DOMAIN w}) = Len(w)
<1> DEFINE T == {w[i] : i \in DOMAIN w}
           n == Len(w)
<1>1. n \in Nat /\ DOMAIN w = 1..n
      OBVIOUS
<1>2. w \in [1..n -> T] /\ \A t \in T : \E i \in 1..n : w[i] = t
      BY <1>1
<1>3. w \in Surjection(1..n, T)
      BY <1>2 DEF Surjection
<1>4. IsFiniteSet(1..n) /\ Cardinality(1..n) = n
      BY <1>1, FS_Interval
<1>5. IsFiniteSet(T) /\ Cardinality(T) <= n
      BY <1>3, <1>4, FS_Surjection
<1>6. ASSUME \A i, j \in DOMAIN w : i # j => w[i] # w[j]
      PROVE  Cardinality(T) = n
  <2>1. w \in Injection(1..n, T)
        BY <1>1, <1>2, <1>6 DEF Injection, IsInjective
  <2>2. QED BY <1>3, <1>4, <2>1, FS_Surjection
<1>7. QED BY <1>1, <1>5, <1>6, FS_CardinalityType

\* A group of handlers has at most as many stamps.
LEMMA StampCount ==
    ASSUME NEW H \in SUBSET Handlers
    PROVE  /\ IsFiniteSet({Stamp(h) : h \in H}) /\ IsFiniteSet(H)
           /\ Cardinality({Stamp(h) : h \in H}) <= Cardinality(H)
           /\ Cardinality({Stamp(h) : h \in H}) \in Nat /\ Cardinality(H) \in Nat
<1> DEFINE T == {Stamp(h) : h \in H}
           f == [h \in H |-> Stamp(h)]
<1>1. IsFiniteSet(H)
      BY Constants, FS_Subset
<1>2. f \in Surjection(H, T)
      BY DEF Surjection
<1>3. IsFiniteSet(T) /\ Cardinality(T) <= Cardinality(H)
      BY <1>1, <1>2, FS_Surjection
<1>4. QED BY <1>1, <1>3, FS_CardinalityType

\* Two disjoint groups of handlers, neither with h.
LEMMA OtherHandlers ==
    ASSUME NEW h \in Handlers, NEW G \in SUBSET (Handlers \ {h}),
           NEW H \in SUBSET (Handlers \ {h}), G \cap H = {}
    PROVE  /\ IsFiniteSet(G) /\ IsFiniteSet(H)
           /\ Cardinality(G) \in Nat /\ Cardinality(H) \in Nat
           /\ Cardinality(G) + Cardinality(H) <= Others
<1>1. /\ IsFiniteSet(Handlers \ {h}) /\ Cardinality(Handlers) \in Nat
      /\ Cardinality(Handlers \ {h}) = Cardinality(Handlers) - 1
      BY Constants, FS_RemoveElement, FS_CardinalityType
<1>2. IsFiniteSet(G) /\ IsFiniteSet(H)
      BY <1>1, FS_Subset
<1>3. Cardinality(G \cup H) = Cardinality(G) + Cardinality(H)
      BY <1>2, UnionCount
<1>4. Cardinality(G \cup H) <= Cardinality(Handlers \ {h})
      BY <1>1, FS_Subset
<1>5. QED BY <1>1, <1>2, <1>3, <1>4, FS_CardinalityType DEF Others

-----------------------------------------------------------------------------
(* How far a limit is overshot.                                            *)

\* Past the instance's limit, and not yet let through.
PastInstance(h) == call[h].at \in {"day", "reset", "zero", "cap"} \/ PastCap(h)

\* Calls that will be let through in a minute of q without another look at its
\* deque: a key's deque is looked at last, the instance's first.
Waiting(q, s) ==
    {h \in Handlers : /\ q = Instance /\ PastInstance(h)
                      /\ s <= call[h].now /\ call[h].now < s + Minute}

Room ==
    \A q \in Queues, s \in Times :
        Granted(q, s, Minute) + Cardinality(Waiting(q, s))
            <= Limit(q) + Others + Cardinality(fresh[q])

\* What is counted for a limit is finite.
LEMMA CountTypes ==
    ASSUME TypeOK, WindowInv, NEW q \in Queues, NEW s, NEW n
    PROVE  /\ IsFiniteSet(granted) /\ IsFiniteSet(fresh[q])
           /\ IsFiniteSet(Span(q, s, n)) /\ Granted(q, s, n) \in Nat
           /\ IsFiniteSet(Waiting(q, s)) /\ Cardinality(Waiting(q, s)) \in Nat
           /\ Cardinality(fresh[q]) \in Nat
           /\ Limit(q) \in Nat /\ Others \in Int
<1>1. IsFiniteSet(granted) /\ Span(q, s, n) \subseteq granted /\ fresh[q] \subseteq granted
      BY DEF TypeOK, Span, WindowInv
<1>2. IsFiniteSet(Handlers) /\ Waiting(q, s) \subseteq Handlers
      BY Constants DEF Waiting
<1>3. QED BY <1>1, <1>2, PartCount, LimitType, OthersType DEF Granted

\* A look that finds a deque not full: what was let through in a minute around
\* it is on the deque, popped too soon, or another handler's to record.
LEMMA BeforeTest ==
    ASSUME TypeOK, CallInv, WindowInv, Covered,
           NEW h \in Handlers, NEW q \in Queues, NotFull(h), Queue(h) = q, NEW s \in Times,
           s <= call[h].now, call[h].now < s + Minute, h \notin Waiting(q, s)
    PROVE  Granted(q, s, Minute) + Cardinality(Waiting(q, s)) + 1
             <= Limit(q) + Others + Cardinality(fresh[q])
<1> DEFINE W == {window[q][i] : i \in DOMAIN window[q]}
           P == {Stamp(g) : g \in Unrecorded(q)}
<1>1. /\ ~At(h, Idle) /\ call[h].at = "full" /\ Len(window[q]) < Limit(q)
      BY NotIdle DEF NotFull, At, Places
<1>2. h \notin Unrecorded(q)
      BY <1>1 DEF Unrecorded, Through
<1>3. Span(q, s, Minute) \subseteq (W \cup fresh[q]) \cup P
  <2> SUFFICES ASSUME NEW g \in granted, q \in {Instance, g.key}, s <= g.now, g.now < s + Minute
               PROVE  g \in (W \cup fresh[q]) \cup P
      BY DEF Span
  <2>1. ~Old(g)
    <3>1. call[h].now \in Times /\ g \in Grants
          BY <1>1, InCall DEF TypeOK
    <3>2. call[h].now \in Int /\ g.now \in Int /\ s \in Int /\ Minute \in Int
          BY <3>1, Constants DEF Times, Grants
    <3>3. ~(call[h].now - g.now >= Minute)
          BY <3>2
    <3>4. QED BY <1>1, <3>3 DEF Old, Stale
  <2>2. QED BY <2>1 DEF Covered
<1>4. /\ IsFiniteSet(W) /\ Cardinality(W) <= Len(window[q])
      /\ Cardinality(W) \in Nat /\ Len(window[q]) \in Nat
  <2>1. window[q] \in Seq(Grants)
        BY DEF TypeOK
  <2>2. QED BY <2>1, EntryCount
<1>5. /\ IsFiniteSet(P) /\ Cardinality(P) <= Cardinality(Unrecorded(q))
      /\ Cardinality(P) \in Nat /\ Cardinality(Unrecorded(q)) \in Nat
      BY StampCount DEF Unrecorded
<1>6. /\ IsFiniteSet(fresh[q]) /\ Cardinality(fresh[q]) \in Nat
      /\ Granted(q, s, Minute) \in Nat /\ Cardinality(Waiting(q, s)) \in Nat
      /\ Limit(q) \in Nat /\ Others \in Int
      BY CountTypes
<1> HIDE DEF W, P
<1>7. /\ IsFiniteSet(W \cup fresh[q]) /\ Cardinality(W \cup fresh[q]) \in Nat
      /\ Cardinality(W \cup fresh[q]) <= Cardinality(W) + Cardinality(fresh[q])
      BY <1>4, <1>6, UnionCount
<1>8. /\ IsFiniteSet((W \cup fresh[q]) \cup P) /\ Cardinality((W \cup fresh[q]) \cup P) \in Nat
      /\ Cardinality((W \cup fresh[q]) \cup P) <= Cardinality(W \cup fresh[q]) + Cardinality(P)
      BY <1>5, <1>7, UnionCount
<1>9. Granted(q, s, Minute) <= Cardinality((W \cup fresh[q]) \cup P)
      BY <1>3, <1>8, PartCount DEF Granted
<1>10. Cardinality(Waiting(q, s)) + Cardinality(Unrecorded(q)) <= Others
  <2>1. Waiting(q, s) \cap Unrecorded(q) = {}
        BY DEF Waiting, Unrecorded, Through, PastInstance, PastCap
  <2>2. /\ Waiting(q, s) \subseteq Handlers \ {h}
        /\ Unrecorded(q) \subseteq Handlers \ {h}
        BY <1>2 DEF Waiting, Unrecorded
  <2>3. QED BY <2>1, <2>2, OtherHandlers
<1>11. QED BY <1>1, <1>4, <1>5, <1>6, <1>7, <1>8, <1>9, <1>10

\* Only PassInstance adds to the calls past the instance's limit, and only Grant
\* to those let through.
LEMMA NoNewWaiting ==
    ASSUME TypeOK, NEW h \in Handlers,
           \/ Arrive(h) \/ Prune(h) \/ Pop(h) \/ PopFails(h) \/ Refuse(h)
           \/ ReadDay(h) \/ Reset(h) \/ Zero(h) \/ RefuseDay(h) \/ PassDay(h)
           \/ Record(h) \/ ReadCount(h) \/ WriteCount(h) \/ RecordAll(h)
    PROVE  /\ granted' = granted
           /\ \A q \in Queues : fresh[q] \subseteq fresh'[q]
           /\ \A g \in Handlers : PastInstance(g)' => PastInstance(g) /\ call'[g].now = call[g].now
<1> USE DEF environment, history
<1>1. ASSUME \A g \in Handlers \ {h} : call'[g] = call[g],
             PastInstance(h)' => PastInstance(h) /\ call'[h].now = call[h].now
      PROVE  \A g \in Handlers : PastInstance(g)' => PastInstance(g) /\ call'[g].now = call[g].now
      BY <1>1 DEF PastInstance, PastCap, Queue, Key
<1>2. ASSUME call'[h] = NoCall PROVE ~PastInstance(h)'
  <2>1. NoCall.at \notin Places
        BY Constants DEF NoCall
  <2>2. QED BY <1>2, <2>1 DEF PastInstance, PastCap, Places
<1>3. CASE Arrive(h)
  <2>1. Key(h)' # Queue(h)' /\ call'[h].at = "prune"
        BY <1>3, Arrives, Constants DEF Key, Queue
  <2>2. ~PastInstance(h)'
        BY <2>1 DEF PastInstance, PastCap
  <2>3. QED BY <1>1, <1>3, <2>2, Arrives DEF Arrive
<1>4. CASE PopFails(h) \/ Refuse(h) \/ RefuseDay(h)
      BY <1>1, <1>2, <1>4, Left DEF PopFails, Refuse, RefuseDay
<1>5. CASE Prune(h) \/ ReadDay(h) \/ Reset(h) \/ Zero(h) \/ WriteCount(h)
  <2>1. ~At(h, Idle)
        BY <1>5, NotIdle DEF Prune, ReadDay, Reset, Zero, WriteCount, At, Places
  <2>2. PICK l \in Places :
          /\ Goto(h, l)
          /\ \/ call[h].at = "prune" /\ l \in {"pop", "full"}
             \/ call[h].at \in {"day", "reset", "zero", "cap"} /\ l \in {"reset", "zero", "cap"}
             \/ l = "recordAll"
    <3>1. CASE Prune(h)
          BY <3>1 DEF Prune, At, Places
    <3>2. CASE ReadDay(h)
          BY <3>2 DEF ReadDay, At, Places
    <3>3. CASE Reset(h) \/ Zero(h)
          BY <3>3 DEF Reset, Zero, At, Places
    <3>4. CASE WriteCount(h)
          BY <3>4 DEF WriteCount, At, Places
    <3>5. QED BY <1>5, <3>1, <3>2, <3>3, <3>4
  <2>3. /\ call'[h].at = l /\ call'[h].queue = call[h].queue /\ call'[h].key = call[h].key
        /\ call'[h].now = call[h].now
        /\ \A g \in Handlers \ {h} : call'[g] = call[g]
        BY <2>1, <2>2, Moved
  <2>4. PastInstance(h)' => PastInstance(h)
        BY <2>2, <2>3 DEF PastInstance, PastCap, Queue, Key
  <2>5. granted' = granted /\ fresh' = fresh
        BY <1>5 DEF Prune, ReadDay, Reset, Zero, WriteCount
  <2>6. QED BY <1>1, <2>3, <2>4, <2>5
<1>6. CASE Pop(h)
  <2>1. PastInstance(h)' => PastInstance(h)
        BY <1>6, PopStep DEF PastInstance, PastCap, Queue, Key
  <2>2. \A q \in Queues : fresh[q] \subseteq fresh'[q]
        BY <1>6, PopStep DEF TypeOK
  <2>3. QED BY <1>1, <1>6, <2>1, <2>2, PopStep
<1>7. CASE PassDay(h)
  <2>1. ~At(h, Idle) /\ call[h].at = "cap" /\ "prune" \in Places
        BY <1>7, NotIdle DEF PassDay, At, Places
  <2>2. PastInstance(h)
        BY <2>1 DEF PastInstance
  <2>3. QED BY <1>1, <1>7, <2>1, <2>2, PastDay DEF PassDay
<1>8. CASE ReadCount(h)
  <2>1. At(h, "count")
        BY <1>8 DEF ReadCount
  <2>2. ~PastInstance(h)'
        BY <1>8, <2>1, ReadsCount DEF PastInstance, PastCap
  <2>3. QED BY <1>1, <1>8, <2>1, <2>2, ReadsCount DEF ReadCount
<1>9. ASSUME NEW q, \/ Record(h) /\ q = Key(h)
                    \/ RecordAll(h) /\ q = Instance
      PROVE  /\ granted' = granted /\ fresh' = fresh
             /\ \A g \in Handlers \ {h} : call'[g] = call[g]
             /\ ~PastInstance(h)'
  <2>1. call'[h].at = "count" => ~PastInstance(h)'
        BY DEF PastInstance, PastCap
  <2>2. QED BY <1>2, <1>9, <2>1, RecordStep
<1>10. CASE Record(h) \/ RecordAll(h)
      BY <1>1, <1>9, <1>10
<1>11. QED BY <1>3, <1>4, <1>5, <1>6, <1>7, <1>8, <1>10

\* Steps keep Room: each look at a deque leaves room for those that passed it.
LEMMA RoomStep ==
    TypeOK /\ CallInv /\ WindowInv /\ WindowInv' /\ Covered /\ Room /\ TypeOK' /\ [Next]_vars
        => Room'
<1> SUFFICES ASSUME TypeOK, CallInv, WindowInv, WindowInv', Covered, Room, TypeOK', [Next]_vars,
                    NEW q \in Queues, NEW s \in Times
             PROVE  Granted(q, s, Minute)' + Cardinality(Waiting(q, s))'
                        <= Limit(q) + Others + Cardinality(fresh'[q])
    BY DEF Room, Limit, Others
<1> DEFINE Goal == Granted(q, s, Minute)' + Cardinality(Waiting(q, s))'
                        <= Limit(q) + Others + Cardinality(fresh'[q])
<1>0. Granted(q, s, Minute) + Cardinality(Waiting(q, s)) <= Limit(q) + Others + Cardinality(fresh[q])
      BY DEF Room
<1>1. /\ IsFiniteSet(granted) /\ IsFiniteSet(fresh[q])
      /\ IsFiniteSet(Span(q, s, Minute)) /\ Granted(q, s, Minute) \in Nat
      /\ IsFiniteSet(Waiting(q, s)) /\ Cardinality(Waiting(q, s)) \in Nat
      /\ Cardinality(fresh[q]) \in Nat
      /\ Limit(q) \in Nat /\ Others \in Int
      BY CountTypes
<1>2. /\ IsFiniteSet(fresh'[q]) /\ Cardinality(fresh'[q]) \in Nat
  <2>1. IsFiniteSet(granted') /\ fresh'[q] \subseteq granted'
        BY DEF TypeOK, WindowInv
  <2>2. QED BY <2>1, PartCount
<1>3. ASSUME granted' = granted, fresh[q] \subseteq fresh'[q],
             \A g \in Handlers : PastInstance(g)' => PastInstance(g) /\ call'[g].now = call[g].now
      PROVE  Goal
  <2>1. Granted(q, s, Minute)' = Granted(q, s, Minute)
        BY <1>3 DEF Granted, Span
  <2>2. Waiting(q, s)' \subseteq Waiting(q, s)
        BY <1>3 DEF Waiting
  <2>3. /\ Cardinality(Waiting(q, s)') <= Cardinality(Waiting(q, s))
        /\ Cardinality(Waiting(q, s)') \in Nat
        BY <1>1, <2>2, PartCount
  <2>4. Cardinality(fresh[q]) <= Cardinality(fresh'[q])
        BY <1>2, <1>3, PartCount
  <2>5. QED BY <1>0, <1>1, <1>2, <2>1, <2>3, <2>4
<1>4. CASE Start \/ Tick \/ UNCHANGED vars
  <2>1. granted' = granted /\ fresh' = fresh /\ call' = call
        BY <1>4 DEF Start, Tick, vars, history
  <2>2. \A g \in Handlers : PastInstance(g)' => PastInstance(g) /\ call'[g].now = call[g].now
        BY <2>1 DEF PastInstance, PastCap, Queue, Key
  <2>3. QED BY <1>3, <2>1, <2>2
<1>5. ASSUME NEW h \in Handlers, PassInstance(h) PROVE Goal
  <2>1. /\ ~At(h, Idle) /\ call[h].at = "full" /\ Queue(h) = Instance
        /\ granted' = granted /\ fresh' = fresh /\ NotFull(h)
        BY <1>5, NotIdle DEF PassInstance, NotFull, At, Places, history
  <2>2. /\ call'[h].at = "day" /\ call'[h].now = call[h].now
        /\ \A g \in Handlers \ {h} : call'[g] = call[g]
        BY <1>5, <2>1, Moved DEF PassInstance, Places
  <2>3. Granted(q, s, Minute)' = Granted(q, s, Minute)
        BY <2>1 DEF Granted, Span
  <2>4. \A g \in Handlers \ {h} : PastInstance(g)' <=> PastInstance(g)
        BY <2>2 DEF PastInstance, PastCap, Queue, Key
  <2>5. CASE q = Instance /\ s <= call[h].now /\ call[h].now < s + Minute
    <3>1. h \notin Waiting(q, s)
      <4>1. Key(h) # Instance
            BY <2>1, InCall, Constants
      <4>2. QED BY <2>1, <4>1 DEF Waiting, PastInstance, PastCap
    <3>2. Granted(q, s, Minute) + Cardinality(Waiting(q, s)) + 1
             <= Limit(q) + Others + Cardinality(fresh[q])
          BY <2>1, <2>5, <3>1, BeforeTest
    <3>3. Waiting(q, s)' \subseteq Waiting(q, s) \cup {h}
          BY <2>2, <2>4 DEF Waiting
    <3>4. /\ Cardinality(Waiting(q, s)') <= Cardinality(Waiting(q, s)) + 1
          /\ Cardinality(Waiting(q, s)') \in Nat
          BY <1>1, <3>3, OneMore
    <3>5. QED BY <1>1, <2>1, <2>3, <3>2, <3>4
  <2>6. CASE ~(q = Instance /\ s <= call[h].now /\ call[h].now < s + Minute)
    <3>1. Waiting(q, s)' \subseteq Waiting(q, s)
          BY <2>2, <2>4, <2>6 DEF Waiting
    <3>2. /\ Cardinality(Waiting(q, s)') <= Cardinality(Waiting(q, s))
          /\ Cardinality(Waiting(q, s)') \in Nat
          BY <1>1, <3>1, PartCount
    <3>3. QED BY <1>0, <1>1, <2>1, <2>3, <3>2
  <2>7. QED BY <2>5, <2>6
<1>6. ASSUME NEW h \in Handlers, Grant(h) PROVE Goal
  <2>1. /\ granted' = granted \cup {Stamp(h)'} /\ Stamp(h)'.key = Key(h)
        /\ Stamp(h)'.now = call[h].now
        /\ ~At(h, Idle) /\ call[h].at = "full" /\ Queue(h) = Key(h) /\ Key(h) \in Keys
        /\ fresh' = fresh /\ call'[h].at = "record"
        /\ \A g \in Handlers \ {h} : call'[g] = call[g]
        BY <1>6, GrantStep
  <2>2. NotFull(h) /\ Key(h) # Instance
        BY <1>6, <2>1, Constants DEF Grant
  <2>3. PastInstance(h) /\ ~PastInstance(h)'
        BY <2>1 DEF PastInstance, PastCap
  <2>4. \A g \in Handlers \ {h} : PastInstance(g)' <=> PastInstance(g)
        BY <2>1 DEF PastInstance, PastCap, Queue, Key
  <2>5. Waiting(q, s)' = Waiting(q, s) \ {h}
        BY <2>1, <2>3, <2>4 DEF Waiting
  <2>6. CASE ~(q \in {Instance, Key(h)} /\ s <= call[h].now /\ call[h].now < s + Minute)
    <3>1. Span(q, s, Minute)' = Span(q, s, Minute)
          BY <2>1, <2>6 DEF Span
    <3>2. /\ Cardinality(Waiting(q, s)') <= Cardinality(Waiting(q, s))
          /\ Cardinality(Waiting(q, s)') \in Nat
          BY <1>1, <2>5, PartCount
    <3>3. QED BY <1>0, <1>1, <2>1, <3>1, <3>2 DEF Granted
  <2>7. CASE q \in {Instance, Key(h)} /\ s <= call[h].now /\ call[h].now < s + Minute
    <3>1. Span(q, s, Minute)' \subseteq Span(q, s, Minute) \cup {Stamp(h)'}
          BY <2>1 DEF Span
    <3>2. Granted(q, s, Minute)' <= Granted(q, s, Minute) + 1 /\ Granted(q, s, Minute)' \in Nat
          BY <1>1, <3>1, OneMore DEF Granted
    <3>3. CASE q = Instance
      <4>1. h \in Waiting(q, s)
            BY <2>3, <2>7, <3>3 DEF Waiting
      <4>2. Cardinality(Waiting(q, s)') = Cardinality(Waiting(q, s)) - 1
            BY <1>1, <2>5, <4>1, FS_RemoveElement
      <4>3. QED BY <1>0, <1>1, <2>1, <3>2, <4>2
    <3>4. CASE q = Key(h)
      <4>1. Waiting(q, s) = {} /\ Waiting(q, s)' = {}
            BY <2>2, <3>4 DEF Waiting
      <4>2. Granted(q, s, Minute) + Cardinality(Waiting(q, s)) + 1
               <= Limit(q) + Others + Cardinality(fresh[q])
            BY <2>1, <2>2, <2>7, <3>4, <4>1, BeforeTest
      <4>3. QED BY <1>1, <2>1, <3>2, <4>1, <4>2
    <3>5. QED BY <2>7, <3>3, <3>4
  <2>8. QED BY <2>6, <2>7
<1>7. ASSUME NEW h \in Handlers,
             \/ Arrive(h) \/ Prune(h) \/ Pop(h) \/ PopFails(h) \/ Refuse(h)
             \/ ReadDay(h) \/ Reset(h) \/ Zero(h) \/ RefuseDay(h) \/ PassDay(h)
             \/ Record(h) \/ ReadCount(h) \/ WriteCount(h) \/ RecordAll(h)
      PROVE  Goal
      BY <1>3, <1>7, NoNewWaiting
<1>8. QED BY <1>4, <1>5, <1>6, <1>7 DEF Next

\* What the limits are counted on.
DequeInv == CallInv /\ WindowInv /\ Covered

\* The deques are accounted for in every reachable state.
LEMMA DequeCorrect == Spec => []DequeInv
<1>1. Init => DequeInv
  <2> SUFFICES ASSUME Init PROVE DequeInv
      OBVIOUS
  <2>1. \A h \in Handlers : At(h, Idle) /\ ~Through(h)
        BY Constants DEF Init, NoCall, At, Through, Places
  <2>2. QED BY <2>1 DEF Init, DequeInv, CallInv, LocalsInv, ApartInv, NumberInv, WindowInv,
                        Unrecorded, Covered
<1>2. TypeOK /\ DequeInv /\ [Next]_vars => DequeInv'
      BY CallStep, WindowStep, CoveredStep DEF DequeInv
<1>3. QED BY <1>1, <1>2, TypeCorrect, PTL DEF Spec

(* In any minute a limit lets through at most its number of calls, one     *)
(* more per other handler, and one for each record popped while a call it  *)
(* counts for was in flight.                                               *)
THEOREM OvershootIsBounded == Spec => []BoundedOvershoot
<1>1. Init => Room
  <2> SUFFICES ASSUME Init, NEW q \in Queues, NEW s \in Times
               PROVE  Granted(q, s, Minute) + Cardinality(Waiting(q, s))
                        <= Limit(q) + Others + Cardinality(fresh[q])
      BY DEF Room
  <2>1. Span(q, s, Minute) = {} /\ fresh[q] = {}
        BY DEF Init, Span
  <2>2. Waiting(q, s) = {}
        BY Constants DEF Init, NoCall, Waiting, PastInstance, PastCap, Places
  <2>3. Limit(q) \in Nat /\ Limit(q) >= 1 /\ Others \in Int /\ Others >= -1
        BY LimitType, OthersType
  <2>4. QED BY <2>1, <2>2, <2>3, FS_EmptySet DEF Granted
<1>2. TypeOK /\ DequeInv /\ Room => BoundedOvershoot
  <2> SUFFICES ASSUME TypeOK, DequeInv, Room, NEW q \in Queues, NEW s \in Times
               PROVE  Granted(q, s, Minute) <= Limit(q) + Others + Cardinality(fresh[q])
      BY DEF BoundedOvershoot
  <2>1. /\ Granted(q, s, Minute) \in Nat /\ Cardinality(Waiting(q, s)) \in Nat
        /\ Cardinality(fresh[q]) \in Nat /\ Limit(q) \in Nat /\ Others \in Int
        BY CountTypes DEF DequeInv
  <2>2. QED BY <2>1 DEF Room
<1>3. TypeOK /\ DequeInv /\ Room /\ TypeOK' /\ DequeInv' /\ [Next]_vars => Room'
      BY RoomStep DEF DequeInv
<1>4. QED BY <1>1, <1>2, <1>3, TypeCorrect, DequeCorrect, PTL DEF Spec

-----------------------------------------------------------------------------
(* What a full deque holds.                                                *)

\* A deque nothing was recorded late on is in order of time, and one that a
\* handler is about to measure holds its last minute only.
OrderInv ==
    /\ \A q \in Queues : ~late[q] =>
         \A i, j \in DOMAIN window[q] : i <= j => window[q][i].now <= window[q][j].now
    /\ \A h \in Handlers : At(h, "full") /\ ~late[Queue(h)] =>
         \A i \in DOMAIN window[Queue(h)] : ~Stale(h, window[Queue(h)][i].now)

\* No other step ends a look at a deque or changes one.
LEMMA OnlyPruneFills ==
    ASSUME TypeOK, NEW h \in Handlers,
           \/ Arrive(h) \/ PopFails(h)
           \/ Refuse(h) \/ PassInstance(h)
           \/ ReadDay(h) \/ Reset(h) \/ Zero(h) \/ RefuseDay(h) \/ PassDay(h)
           \/ Grant(h) \/ ReadCount(h) \/ WriteCount(h)
    PROVE  /\ UNCHANGED <<window, late>> /\ ~At(h, "full")'
           /\ \A g \in Handlers \ {h} : call'[g] = call[g]
<1> USE DEF environment, history
<1>0. NoCall.at \notin Places
      BY Constants DEF NoCall
<1>1. CASE Arrive(h)
      BY <1>1, Arrives DEF Arrive, At
<1>2. CASE PopFails(h) \/ Refuse(h) \/ RefuseDay(h)
  <2>1. call'[h] = NoCall /\ \A g \in Handlers \ {h} : call'[g] = call[g]
        BY <1>2, Left DEF PopFails, Refuse, RefuseDay
  <2>2. ~At(h, "full")'
        BY <1>0, <2>1 DEF At, Places
  <2>3. QED BY <1>2, <2>1, <2>2 DEF PopFails, Refuse, RefuseDay
<1>3. CASE PassInstance(h) \/ ReadDay(h) \/ Reset(h) \/ Zero(h) \/ WriteCount(h)
  <2>1. ~At(h, Idle)
        BY <1>3, NotIdle DEF PassInstance, NotFull, ReadDay, Reset, Zero, WriteCount, At, Places
  <2>2. PICK l \in Places \ {"full"} : Goto(h, l)
    <3>1. CASE PassInstance(h)
          BY <3>1 DEF PassInstance, Places
    <3>2. CASE ReadDay(h)
          BY <3>2 DEF ReadDay, Places
    <3>3. CASE Reset(h) \/ Zero(h)
          BY <3>3 DEF Reset, Zero, Places
    <3>4. CASE WriteCount(h)
          BY <3>4 DEF WriteCount, Places
    <3>5. QED BY <1>3, <3>1, <3>2, <3>3, <3>4
  <2>3. call'[h].at # "full" /\ \A g \in Handlers \ {h} : call'[g] = call[g]
        BY <2>1, <2>2, Moved
  <2>4. QED BY <1>3, <2>3 DEF PassInstance, ReadDay, Reset, Zero, WriteCount, At
<1>4. CASE PassDay(h)
  <2>1. ~At(h, Idle) /\ "prune" \in Places
        BY <1>4, NotIdle DEF PassDay, At, Places
  <2>2. QED BY <1>4, <2>1, PastDay DEF PassDay, At
<1>5. CASE Grant(h)
      BY <1>5, GrantStep DEF Grant, At
<1>6. CASE ReadCount(h)
      BY <1>6, ReadsCount DEF ReadCount, At
<1>7. QED BY <1>1, <1>2, <1>3, <1>4, <1>5, <1>6

\* Steps keep OrderInv.
LEMMA OrderStep == TypeOK /\ CallInv /\ OrderInv /\ [Next]_vars => OrderInv'
<1> SUFFICES ASSUME TypeOK, CallInv, OrderInv, [Next]_vars PROVE OrderInv'
    OBVIOUS
<1>0. /\ \A q \in Queues : window[q] \in Seq(Grants)
      /\ clock \in Int /\ Minute \in Int
      /\ \A g \in Grants : g.now \in Int
      /\ \A h \in Handlers : ~At(h, Idle) => /\ call[h].now \in Int /\ call[h].now <= clock
                                             /\ Queue(h) \in Queues
  <2>1. \A q \in Queues : window[q] \in Seq(Grants)
        BY DEF TypeOK
  <2>2. clock \in Int /\ Minute \in Int /\ \A g \in Grants : g.now \in Int
        BY Constants DEF TypeOK, Times, Grants
  <2>3. ASSUME NEW h \in Handlers, ~At(h, Idle)
        PROVE  call[h].now \in Times /\ call[h].now <= clock /\ Queue(h) \in Queues
        BY <2>3, InCall DEF CallInv, LocalsInv
  <2>4. QED BY <2>1, <2>2, <2>3 DEF Times
<1>1. CASE Start \/ Tick \/ UNCHANGED vars
  <2>1. UNCHANGED <<window, call, late>>
        BY <1>1 DEF Start, Tick, vars, history
  <2>2. QED BY <2>1 DEF OrderInv, At, Queue, Stale
<1>2. ASSUME NEW h \in Handlers, UNCHANGED <<window, late>>, ~At(h, "full")',
             \A g \in Handlers \ {h} : call'[g] = call[g]
      PROVE  OrderInv'
      BY <1>2 DEF OrderInv, At, Queue, Stale
<1>3. ASSUME NEW h \in Handlers, Prune(h) PROVE OrderInv'
  <2>1. ~At(h, Idle) /\ UNCHANGED <<window, late>> /\ Queue(h) \in Queues
        BY <1>0, <1>3, NotIdle DEF Prune, At, Places, history
  <2>2. PICK l \in {"pop", "full"} :
          /\ Goto(h, l)
          /\ l = "full" => \/ window[Queue(h)] = <<>>
                           \/ ~Stale(h, Head(window[Queue(h)]).now)
        BY <1>3 DEF Prune
  <2>3. /\ call'[h].at = l /\ call'[h].queue = call[h].queue /\ call'[h].now = call[h].now
        /\ \A g \in Handlers \ {h} : call'[g] = call[g]
        BY <2>1, <2>2, Moved DEF Places
  <2>4. ASSUME l = "full", ~late[Queue(h)], NEW i \in DOMAIN window[Queue(h)]
        PROVE  ~Stale(h, window[Queue(h)][i].now)
    <3> DEFINE w == window[Queue(h)]
    <3>1. w \in Seq(Grants) /\ i \in 1..Len(w)
          BY <1>0, <2>1, <2>4
    <3>2. w # <<>> /\ Head(w) = w[1] /\ 1 \in DOMAIN w /\ 1 <= i
          BY <3>1
    <3>3. w[1] \in Grants /\ w[i] \in Grants
          BY <3>1, <3>2
    <3>4. w[1].now <= w[i].now
          BY <2>1, <2>4, <3>1, <3>2 DEF OrderInv
    <3>5. ~Stale(h, w[1].now)
          BY <2>2, <2>4, <3>2
    <3> HIDE DEF w
    <3>6. w[1].now \in Int /\ w[i].now \in Int /\ call[h].now \in Int
          BY <1>0, <2>1, <3>3
    <3>7. ~Stale(h, w[i].now)
          BY <1>0, <3>4, <3>5, <3>6 DEF Stale
    <3>8. QED BY <3>7 DEF w
  <2>5. QED BY <2>1, <2>3, <2>4 DEF OrderInv, At, Queue, Stale
<1>4. ASSUME NEW h \in Handlers, Pop(h) PROVE OrderInv'
  <2>1. PICK p \in Queues : p = Queue(h)
        BY <1>4, PopStep
  <2>2. /\ window[p] # <<>>
        /\ window' = [window EXCEPT ![p] = Tail(window[p])]
        /\ late' = late /\ call'[h].at = "prune"
        /\ \A g \in Handlers \ {h} : call'[g] = call[g]
        BY <1>4, <2>1, PopStep
  <2>3. ASSUME NEW q \in Queues
        PROVE  \A i \in DOMAIN window'[q] :
                 \E j \in DOMAIN window[q] : /\ window'[q][i] = window[q][j] /\ i \in Int
                                             /\ j = IF q = p THEN i + 1 ELSE i
    <3>1. CASE q = p
      <4>1. window'[q] = Tail(window[q]) /\ window[q] # <<>> /\ window[q] \in Seq(Grants)
            BY <1>0, <2>2, <3>1 DEF TypeOK
      <4>2. QED BY <3>1, <4>1, TailEntries
    <3>2. CASE q # p
          BY <1>0, <2>2, <3>2 DEF TypeOK
    <3>3. QED BY <3>1, <3>2
  <2>4. ASSUME NEW q \in Queues, ~late[q], NEW i \in DOMAIN window'[q],
               NEW j \in DOMAIN window'[q], i <= j
        PROVE  window'[q][i].now <= window'[q][j].now
    <3>1. PICK k \in DOMAIN window[q] : /\ window'[q][i] = window[q][k] /\ i \in Int
                                        /\ k = IF q = p THEN i + 1 ELSE i
          BY <2>3
    <3>2. PICK l \in DOMAIN window[q] : /\ window'[q][j] = window[q][l] /\ j \in Int
                                        /\ l = IF q = p THEN j + 1 ELSE j
          BY <2>3
    <3>3. k <= l
          BY <2>4, <3>1, <3>2
    <3>4. QED BY <2>4, <3>1, <3>2, <3>3 DEF OrderInv
  <2>5. ASSUME NEW g \in Handlers, At(g, "full"), ~late[Queue(g)],
               NEW i \in DOMAIN window'[Queue(g)]
        PROVE  ~Stale(g, window'[Queue(g)][i].now)
    <3>1. Queue(g) \in Queues
          BY <1>0, <2>5, NotIdle DEF At, Places
    <3>2. PICK j \in DOMAIN window[Queue(g)] : window'[Queue(g)][i] = window[Queue(g)][j]
          BY <2>3, <2>5, <3>1
    <3>3. QED BY <2>5, <3>2 DEF OrderInv
  <2>6. ~At(h, "full")'
        BY <2>2 DEF At
  <2>7. QED BY <2>2, <2>4, <2>5, <2>6 DEF OrderInv, At, Queue, Stale
<1>5. ASSUME NEW h \in Handlers, NEW p, \/ Record(h) /\ p = Key(h)
                                        \/ RecordAll(h) /\ p = Instance
      PROVE  OrderInv'
  <2> DEFINE w == window[p]
             e == Stamp(h)
  <2>1. /\ p \in Queues /\ e \in Grants /\ w \in Seq(Grants) /\ ~At(h, Idle)
        /\ window' = [window EXCEPT ![p] = Append(w, e)]
        /\ late' = [late EXCEPT ![p] = \/ late[p] \/ clock - call[h].now >= Minute
                                       \/ w # <<>> /\ Last(w).now > call[h].now]
        /\ \A g \in Handlers \ {h} : call'[g] = call[g]
        /\ p # Instance => call'[h].at = "count"
        /\ p = Instance => call'[h] = NoCall
        BY <1>5, RecordStep
  <2>2. ~At(h, "full")'
        BY <2>1, Constants DEF At, NoCall, Places
  <2>3. e.now = call[h].now /\ e.now \in Int
        BY <1>0, <2>1, InCall
  <2>4. late'[p] = \/ late[p] \/ clock - call[h].now >= Minute
                   \/ w # <<>> /\ Last(w).now > call[h].now
        BY <2>1 DEF TypeOK
  <2>5. ~late'[p] => /\ ~late[p] /\ ~(clock - e.now >= Minute)
                     /\ w # <<>> => ~(Last(w).now > e.now)
        BY <2>3, <2>4
  <2>6. \A q \in Queues \ {p} : window'[q] = window[q] /\ late'[q] = late[q]
        BY <2>1 DEF TypeOK
  <2>7. window'[p] = Append(w, e)
        BY <2>1 DEF TypeOK
  <2>8. ~late[p] => \A i, j \in DOMAIN w : i <= j => w[i].now <= w[j].now
        BY <2>1 DEF OrderInv
  <2> HIDE DEF w, e
  <2>9. /\ DOMAIN w = 1..Len(w) /\ Len(w) \in Nat
        /\ \A i \in DOMAIN w : Append(w, e)[i] = w[i] /\ w[i] \in Grants
        /\ Append(w, e)[Len(w) + 1] = e
        /\ \A i \in DOMAIN Append(w, e) : i \in DOMAIN w \/ i = Len(w) + 1
        BY <2>1, AppendEntries
  <2>10. ASSUME NEW i \in DOMAIN w, ~late'[p]
         PROVE  w[i].now <= e.now
    <3>1. w # <<>> /\ Last(w) = w[Len(w)] /\ Len(w) \in DOMAIN w /\ i <= Len(w)
          BY <2>1, <2>9, <2>10 DEF Last
    <3>2. w[i].now <= w[Len(w)].now
          BY <2>5, <2>8, <2>10, <3>1
    <3>3. w[i].now \in Int /\ w[Len(w)].now \in Int
          BY <1>0, <2>9, <2>10, <3>1
    <3>4. QED BY <2>3, <2>5, <2>10, <3>1, <3>2, <3>3
  <2>11. ASSUME ~late'[p], NEW i \in DOMAIN window'[p], NEW j \in DOMAIN window'[p], i <= j
         PROVE  window'[p][i].now <= window'[p][j].now
    <3>1. CASE i \in DOMAIN w /\ j \in DOMAIN w
          BY <2>5, <2>7, <2>8, <2>9, <2>11, <3>1
    <3>2. CASE i \in DOMAIN w /\ j = Len(w) + 1
          BY <2>7, <2>9, <2>10, <2>11, <3>2
    <3>3. CASE i = Len(w) + 1
      <4>1. j = Len(w) + 1
            BY <2>7, <2>9, <2>11, <3>3
      <4>2. QED BY <2>3, <2>7, <2>9, <3>3, <4>1
    <3>4. QED BY <2>7, <2>9, <2>11, <3>1, <3>2, <3>3
  <2>12. ASSUME NEW q \in Queues, ~late'[q], NEW i \in DOMAIN window'[q],
                NEW j \in DOMAIN window'[q], i <= j
         PROVE  window'[q][i].now <= window'[q][j].now
    <3>1. CASE q = p
          BY <2>11, <2>12, <3>1
    <3>2. CASE q # p
          BY <2>6, <2>12, <3>2 DEF OrderInv
    <3>3. QED BY <3>1, <3>2
  <2>13. ASSUME NEW g \in Handlers, At(g, "full"), ~late'[Queue(g)],
                NEW i \in DOMAIN window'[Queue(g)]
         PROVE  ~Stale(g, window'[Queue(g)][i].now)
    <3>1. Queue(g) \in Queues /\ call[g].now \in Int /\ call[g].now <= clock
          BY <1>0, <2>13, NotIdle DEF At, Places
    <3>2. CASE Queue(g) # p
          BY <2>6, <2>13, <3>1, <3>2 DEF OrderInv
    <3>3. CASE Queue(g) = p
      <4>1. i \in DOMAIN w \/ i = Len(w) + 1
            BY <2>7, <2>9, <2>13, <3>3
      <4>2. CASE i \in DOMAIN w
        <5>1. ~Stale(g, w[i].now)
              BY <2>5, <2>13, <3>3, <4>2 DEF OrderInv, w
        <5>2. QED BY <2>7, <2>9, <3>3, <4>2, <5>1
      <4>3. CASE i = Len(w) + 1
        <5>1. ~(clock - e.now >= Minute)
              BY <2>5, <2>13, <3>3
        <5>2. ~(call[g].now - e.now >= Minute)
              BY <1>0, <2>3, <3>1, <5>1
        <5>3. QED BY <2>7, <2>9, <3>3, <4>3, <5>2 DEF Stale
      <4>4. QED BY <4>1, <4>2, <4>3
    <3>4. QED BY <3>2, <3>3
  <2>14. QED BY <2>1, <2>2, <2>12, <2>13 DEF OrderInv, At, Queue, Stale
<1>6. ASSUME NEW h \in Handlers,
             \/ Arrive(h) \/ PopFails(h) \/ Refuse(h) \/ PassInstance(h)
             \/ ReadDay(h) \/ Reset(h) \/ Zero(h) \/ RefuseDay(h) \/ PassDay(h)
             \/ Grant(h) \/ ReadCount(h) \/ WriteCount(h)
      PROVE  OrderInv'
      BY <1>2, <1>6, OnlyPruneFills
<1>7. QED BY <1>1, <1>3, <1>4, <1>5, <1>6 DEF Next

\* A deque without late records is in order in every reachable state.
LEMMA OrderCorrect == Spec => []OrderInv
<1>1. Init => OrderInv
      BY Constants DEF Init, OrderInv, NoCall, At, Places
<1>2. TypeOK /\ DequeInv /\ OrderInv /\ [Next]_vars => OrderInv'
      BY OrderStep DEF DequeInv
<1>3. QED BY <1>1, <1>2, TypeCorrect, DequeCorrect, PTL DEF Spec

-----------------------------------------------------------------------------
(* The count of a key's day.                                               *)

GrantsOf(k) == {g \in granted : g.key = k}
\* Let through, and not yet added to the count.
Uncounted(k) == {h \in Handlers : call[h].at \in {"record", "count", "add"} /\ Key(h) = k}
Counted(k) == Today(k) \ {Stamp(h) : h \in Uncounted(k)}
\* Past the count, and not yet let through.
Passed(k) == {h \in Handlers : PastCap(h) /\ Key(h) = k}
\* Let through in the day before the count restarted.
Yesterday(k) == {g \in GrantsOf(k) : dayStart[k] - Day < g.now /\ g.now < dayStart[k]}

\* A handler that looked at the day's start saw the one that still stands; no
\* call let through is a day past it; a handler about to clear the count is
\* alone, and nothing of the new day was let through before.
StartInv(k) ==
    /\ \A h \in Handlers : Key(h) = k /\ Counts(h) => (At(h, "reset") <=> DayOver(h))
    /\ \A g \in GrantsOf(k) : dayStart[k] # Never /\ g.now - dayStart[k] < Day
    /\ \A h \in Uncounted(k) : dayStart[k] <= call[h].now
    /\ \A h \in Handlers : Key(h) = k /\ At(h, "zero") =>
         Today(k) = {} /\ \A g \in Handlers \ {h} : ~(Key(g) = k /\ Counts(g))

\* The count is the number of the day's calls that were added to it.
CountInv(k) ==
    (\A h \in Handlers : ~(Key(h) = k /\ At(h, "zero")))
        => dayCount[k] = Cardinality(Counted(k))

CapInv(k) == Cardinality(Today(k)) + Cardinality(Passed(k)) <= PerDay + Others
YesterdayInv(k) == Cardinality(Yesterday(k)) <= PerDay + Others
SpanInv(k) == \A s \in Times : Granted(k, s, Day) <= 2 * (PerDay + Others)

DayParts(k) == StartInv(k) /\ CountInv(k) /\ CapInv(k) /\ YesterdayInv(k) /\ SpanInv(k)
DayInv == \A k \in Keys : ~raced[k] => DayParts(k)

\* What is counted for the day is finite.
LEMMA DayTypes ==
    ASSUME TypeOK, NEW k \in Keys
    PROVE  /\ dayStart[k] \in Int /\ Day \in Int /\ Day >= 1 /\ PerDay \in Int /\ PerDay >= 1
           /\ Others \in Int /\ dayCount[k] \in Int
           /\ dayStart[k] # Never => dayStart[k] >= 0
           /\ \A g \in granted : g.now \in Int
           /\ \A h \in Handlers : ~At(h, Idle) => call[h].now \in Int /\ call[h].now >= 0
           /\ IsFiniteSet(granted) /\ GrantsOf(k) \subseteq granted
           /\ IsFiniteSet(Today(k)) /\ Cardinality(Today(k)) \in Nat
           /\ IsFiniteSet(Yesterday(k)) /\ Cardinality(Yesterday(k)) \in Nat
           /\ IsFiniteSet(Passed(k)) /\ Cardinality(Passed(k)) \in Nat
           /\ IsFiniteSet(Counted(k)) /\ Cardinality(Counted(k)) \in Nat
           /\ IsFiniteSet(Uncounted(k)) /\ Cardinality(Uncounted(k)) \in Nat
           /\ \A s : IsFiniteSet(Span(k, s, Day)) /\ Granted(k, s, Day) \in Nat
<1>1. /\ dayStart[k] \in Times \cup {Never} /\ dayCount[k] \in Nat
      /\ granted \subseteq Grants /\ IsFiniteSet(granted)
      BY DEF TypeOK
<1>2. /\ dayStart[k] \in Int /\ Day \in Int /\ Day >= 1 /\ PerDay \in Int /\ PerDay >= 1
      /\ Others \in Int /\ dayCount[k] \in Int
      /\ dayStart[k] # Never => dayStart[k] >= 0
      /\ \A g \in granted : g.now \in Int
      BY <1>1, Constants, OthersType DEF Times, Never, Grants
<1>3. ASSUME NEW h \in Handlers, ~At(h, Idle) PROVE call[h].now \in Int /\ call[h].now >= 0
  <2>1. call[h].now \in Times
        BY <1>3, InCall
  <2>2. QED BY <2>1, Constants DEF Times
<1>4. /\ Today(k) \subseteq granted /\ Yesterday(k) \subseteq granted /\ Counted(k) \subseteq granted
      /\ \A s : Span(k, s, Day) \subseteq granted
      /\ GrantsOf(k) \subseteq granted
      BY DEF Today, Yesterday, Counted, Span, GrantsOf
<1>5. IsFiniteSet(Handlers) /\ Passed(k) \subseteq Handlers /\ Uncounted(k) \subseteq Handlers
      BY Constants DEF Passed, Uncounted
<1>6. QED BY <1>1, <1>2, <1>3, <1>4, <1>5, PartCount DEF Granted

\* What holds of the day's parts depends on the key's calls let through, its
\* start and count, and the handlers past their look at it.
Calm(k) ==
    /\ GrantsOf(k)' = GrantsOf(k) /\ dayStart'[k] = dayStart[k] /\ dayCount'[k] = dayCount[k]
    /\ \A g \in Handlers : Key(g)' = k /\ Counts(g)' =>
         /\ Key(g) = k /\ Counts(g) /\ call'[g].now = call[g].now
         /\ At(g, "reset")' <=> At(g, "reset")
         /\ At(g, "zero")' => At(g, "zero")
    /\ \A g \in Handlers : Key(g) = k /\ At(g, "zero") => Key(g)' = k /\ At(g, "zero")'
    /\ Uncounted(k)' = Uncounted(k)
    /\ \A g \in Uncounted(k) : Stamp(g)' = Stamp(g)
    /\ Passed(k)' \subseteq Passed(k)

\* A calm step keeps what holds of the day.
LEMMA CalmStep ==
    ASSUME TypeOK, TypeOK', NEW k \in Keys, DayParts(k), Calm(k)
    PROVE  DayParts(k)'
<1>1. Today(k)' = Today(k)
      BY DEF Today, GrantsOf, Calm
<1>2. StartInv(k)'
  <2>1. \A h \in Handlers : Key(h)' = k /\ Counts(h)' => (At(h, "reset")' <=> DayOver(h)')
        BY DEF Calm, DayParts, StartInv, DayOver
  <2>2. \A g \in GrantsOf(k)' : dayStart'[k] # Never /\ g.now - dayStart'[k] < Day
        BY DEF Calm, DayParts, StartInv
  <2>3. \A h \in Uncounted(k)' : dayStart'[k] <= call'[h].now
    <3>1. \A h \in Uncounted(k) : Stamp(h)'.now = Stamp(h).now
          BY DEF Calm
    <3>2. QED BY <3>1 DEF Calm, DayParts, StartInv, Stamp
  <2>4. ASSUME NEW h \in Handlers, Key(h)' = k /\ At(h, "zero")'
        PROVE  Today(k)' = {} /\ \A g \in Handlers \ {h} : ~(Key(g)' = k /\ Counts(g)')
    <3>1. Counts(h)'
          BY <2>4 DEF Counts, At
    <3>2. Key(h) = k /\ At(h, "zero")
          BY <2>4, <3>1 DEF Calm
    <3>3. QED BY <1>1, <3>2 DEF Calm, DayParts, StartInv
  <2>5. QED BY <2>1, <2>2, <2>3, <2>4 DEF StartInv
<1>3. CountInv(k)'
  <2>1. Counted(k)' = Counted(k)
        BY <1>1 DEF Counted, Calm
  <2>2. QED BY <2>1 DEF Calm, DayParts, CountInv
<1>4. CapInv(k)'
  <2>1. /\ Cardinality(Passed(k)') <= Cardinality(Passed(k)) /\ Cardinality(Passed(k)') \in Nat
        BY DayTypes, PartCount DEF Calm
  <2>2. /\ Cardinality(Today(k)) \in Nat /\ Cardinality(Passed(k)) \in Nat
        /\ PerDay \in Int /\ Others \in Int
        BY DayTypes
  <2>3. QED BY <1>1, <2>1, <2>2 DEF DayParts, CapInv, Others
<1>5. YesterdayInv(k)'
  <2>1. Yesterday(k)' = Yesterday(k)
        BY DEF Yesterday, Calm
  <2>2. QED BY <2>1 DEF DayParts, YesterdayInv, Others
<1>6. SpanInv(k)'
  <2>1. \A s \in Times : Span(k, s, Day)' = Span(k, s, Day)
    <3>1. Instance # k
          BY Constants
    <3>2. QED BY <3>1 DEF Span, Calm, GrantsOf
  <2>2. QED BY <2>1 DEF DayParts, SpanInv, Granted, Others
<1>7. QED BY <1>2, <1>3, <1>4, <1>5, <1>6 DEF DayParts

\* A step of one handler that is calm for a key: of another key, the end of a
\* call not let through, or a move that leaves where it stands with the count.
LEMMA CalmMove ==
    ASSUME TypeOK, NEW k \in Keys, NEW h \in Handlers,
           \A g \in Handlers \ {h} : call'[g] = call[g],
           GrantsOf(k)' = GrantsOf(k), dayStart'[k] = dayStart[k], dayCount'[k] = dayCount[k],
           \/ ~(Key(h) = k /\ Counts(h)) /\ ~(Key(h)' = k /\ Counts(h)')
           \/ call[h].at \in {"prune", "pop", "full", "cap"} /\ ~Counts(h)'
           \/ /\ Key(h) = k /\ call'[h].key = call[h].key /\ call'[h].now = call[h].now
              /\ call'[h].nth = call[h].nth
              /\ \/ PastCap(h) /\ PastCap(h)'
                 \/ /\ call[h].at \in {"record", "count", "add"}
                    /\ call'[h].at \in {"record", "count", "add"}
    PROVE  Calm(k)
<1>1. \A g \in Handlers \ {h} :
        /\ Key(g)' = Key(g) /\ Queue(g)' = Queue(g) /\ Stamp(g)' = Stamp(g)
        /\ PastCap(g)' <=> PastCap(g)
        /\ Counts(g)' <=> Counts(g)
      BY DEF Key, Queue, Stamp, PastCap, Counts
<1>2. Key(h)' = k /\ Counts(h)' =>
         /\ Key(h) = k /\ Counts(h) /\ call'[h].now = call[h].now
         /\ At(h, "reset")' <=> At(h, "reset")
         /\ At(h, "zero")' => At(h, "zero")
      BY DEF Key, Counts, PastCap, At
<1>3. Key(h) = k /\ At(h, "zero") => Key(h)' = k /\ At(h, "zero")'
      BY DEF Key, Counts, PastCap, At
<1>4. /\ h \in Uncounted(k)' <=> h \in Uncounted(k)
      /\ h \in Uncounted(k) => Stamp(h)' = Stamp(h)
      BY DEF Uncounted, Key, Counts, PastCap, Stamp
<1>5. h \in Passed(k)' => h \in Passed(k)
      BY DEF Passed, Key, Counts, PastCap
<1>6. Uncounted(k)' = Uncounted(k) /\ \A g \in Uncounted(k) : Stamp(g)' = Stamp(g)
      BY <1>1, <1>4 DEF Uncounted
<1>7. Passed(k)' \subseteq Passed(k)
      BY <1>1, <1>5 DEF Passed
<1>8. ASSUME NEW g \in Handlers
      PROVE  /\ Key(g)' = k /\ Counts(g)' =>
                  /\ Key(g) = k /\ Counts(g) /\ call'[g].now = call[g].now
                  /\ At(g, "reset")' <=> At(g, "reset")
                  /\ At(g, "zero")' => At(g, "zero")
             /\ Key(g) = k /\ At(g, "zero") => Key(g)' = k /\ At(g, "zero")'
      BY <1>1, <1>2, <1>3 DEF At
<1>9. QED BY <1>6, <1>7, <1>8 DEF Calm

\* A call keeps its key and its time until it ends.
LEMMA SameCall ==
    ASSUME TypeOK, NEW h \in Handlers,
           \/ Prune(h) \/ Pop(h) \/ PopFails(h) \/ Refuse(h) \/ PassInstance(h)
           \/ ReadDay(h) \/ Reset(h) \/ Zero(h) \/ RefuseDay(h) \/ PassDay(h)
           \/ Grant(h) \/ Record(h) \/ ReadCount(h) \/ WriteCount(h) \/ RecordAll(h)
    PROVE  /\ ~At(h, Idle) /\ Key(h) \in Keys
           /\ \A g \in Handlers \ {h} : call'[g] = call[g]
           /\ \/ call'[h] = NoCall
              \/ call'[h].key = call[h].key /\ call'[h].now = call[h].now
<1>1. /\ ~At(h, Idle)
      /\ PassDay(h) => "prune" \in Places
      /\ ReadCount(h) => At(h, "count")
      BY NotIdle DEF Prune, Pop, PopFails, Refuse, PassInstance, ReadDay, Reset, Zero, RefuseDay,
                     PassDay, Grant, Record, ReadCount, WriteCount, RecordAll, Full, NotFull, At,
                     Places
<1>2. Key(h) \in Keys
      BY <1>1, InCall
<1>3. CASE \/ Prune(h) \/ Pop(h) \/ PassInstance(h) \/ ReadDay(h) \/ Reset(h) \/ Zero(h)
           \/ Record(h) \/ WriteCount(h)
  <2>1. PICK l \in Places : Goto(h, l)
        BY <1>3 DEF Prune, Pop, PassInstance, ReadDay, Reset, Zero, Record, WriteCount, Places
  <2>2. QED BY <1>1, <1>2, <2>1, Moved
<1>4. CASE PopFails(h) \/ Refuse(h) \/ RefuseDay(h) \/ RecordAll(h)
      BY <1>1, <1>2, <1>4, Left DEF PopFails, Refuse, RefuseDay, RecordAll
<1>5. CASE PassDay(h)
      BY <1>1, <1>2, <1>5, PastDay DEF PassDay
<1>6. CASE Grant(h)
      BY <1>1, <1>2, <1>6, GrantStep
<1>7. CASE ReadCount(h)
      BY <1>1, <1>2, <1>7, ReadsCount
<1>8. QED BY <1>3, <1>4, <1>5, <1>6, <1>7

\* No step of another key's call touches the day of k, and no arrival does.
LEMMA CalmElsewhere ==
    ASSUME TypeOK, NEW k \in Keys, NEW h \in Handlers,
           \/ Arrive(h)
           \/ /\ Key(h) # k
              /\ \/ Prune(h) \/ Pop(h) \/ PopFails(h) \/ Refuse(h) \/ PassInstance(h)
                 \/ ReadDay(h) \/ Reset(h) \/ Zero(h) \/ RefuseDay(h) \/ PassDay(h)
                 \/ Grant(h) \/ Record(h) \/ ReadCount(h) \/ WriteCount(h) \/ RecordAll(h)
    PROVE  Calm(k) /\ raced'[k] = raced[k]
<1> USE DEF environment, history, day
<1>1. CASE Arrive(h)
  <2>1. UNCHANGED <<granted, dayStart, dayCount, raced>>
        BY <1>1 DEF Arrive
  <2>2. ~Counts(h)
        BY <1>1, Constants DEF Arrive, At, Counts, PastCap, Places
  <2>3. ~Counts(h)'
        BY <1>1, Arrives, Constants DEF Counts, PastCap, Key, Queue
  <2>4. QED BY <1>1, <2>1, <2>2, <2>3, Arrives, CalmMove DEF GrantsOf
<1>2. CASE ~Arrive(h)
  <2>1. /\ Key(h) \in Keys /\ Key(h) # k
        /\ \A g \in Handlers \ {h} : call'[g] = call[g]
        /\ \/ call'[h] = NoCall
           \/ call'[h].key = call[h].key
        BY <1>2, SameCall
  <2>2. ~(Key(h)' = k /\ Counts(h)')
    <3>1. NoCall.at \notin Places
          BY Constants DEF NoCall
    <3>2. QED BY <2>1, <3>1 DEF Key, Counts, PastCap, Places
  <2>3. GrantsOf(k)' = GrantsOf(k)
    <3>1. CASE Grant(h)
      <4>1. granted' = granted \cup {Stamp(h)'} /\ Stamp(h)'.key = Key(h)
            BY <3>1, GrantStep
      <4>2. QED BY <2>1, <4>1 DEF GrantsOf
    <3>2. CASE granted' = granted
          BY <3>2 DEF GrantsOf
    <3>3. QED BY <1>2, <3>1, <3>2 DEF Prune, Pop, PopFails, Refuse, PassInstance, ReadDay, Reset,
                     Zero, RefuseDay, PassDay, Record, ReadCount, WriteCount, RecordAll
  <2>4. dayStart'[k] = dayStart[k] /\ dayCount'[k] = dayCount[k] /\ raced'[k] = raced[k]
    <3>1. CASE UNCHANGED <<dayStart, dayCount, raced>>
          BY <3>1
    <3>3. CASE Zero(h)
          BY <2>1, <3>3 DEF Zero, TypeOK
    <3>4. CASE WriteCount(h)
          BY <2>1, <3>4 DEF WriteCount, TypeOK, Race
    <3>5. CASE Reset(h)
          BY <2>1, <3>5 DEF Reset, TypeOK, Race
    <3>6. CASE ReadDay(h)
          BY <2>1, <3>6 DEF ReadDay, TypeOK, Race
    <3>7. CASE Grant(h)
          BY <2>1, <3>7 DEF Grant, TypeOK, Race
    <3>8. QED BY <1>2, <3>1, <3>3, <3>4, <3>5, <3>6, <3>7
              DEF Prune, Pop, PopFails, Refuse, PassInstance, RefuseDay, PassDay, Record,
                  ReadCount, RecordAll
  <2>5. QED BY <2>1, <2>2, <2>3, <2>4, CalmMove
<1>3. QED BY <1>1, <1>2

\* Nor does a step of its own calls, but the seven that look at it or change it.
LEMMA CalmOwn ==
    ASSUME TypeOK, NEW k \in Keys, NEW h \in Handlers, Key(h) = k,
           \/ Prune(h) \/ Pop(h) \/ PopFails(h) \/ Refuse(h) \/ PassInstance(h)
           \/ RefuseDay(h) \/ Record(h) \/ ReadCount(h) \/ RecordAll(h)
    PROVE  Calm(k) /\ raced'[k] = raced[k]
<1> USE DEF environment, history, day
<1>1. /\ ~At(h, Idle) /\ \A g \in Handlers \ {h} : call'[g] = call[g]
      /\ UNCHANGED <<granted, dayStart, dayCount, raced>>
      BY SameCall DEF Prune, Pop, PopFails, Refuse, PassInstance, RefuseDay, Record, ReadCount,
                      RecordAll
<1>2. GrantsOf(k)' = GrantsOf(k)
      BY <1>1 DEF GrantsOf
<1>3. ASSUME call'[h] = NoCall PROVE ~Counts(h)'
  <2>1. NoCall.at \notin Places
        BY Constants DEF NoCall
  <2>2. QED BY <1>3, <2>1 DEF Counts, PastCap, Places
<1>4. CASE PopFails(h) \/ Refuse(h) \/ RefuseDay(h)
  <2>1. call'[h] = NoCall /\ call[h].at \in {"pop", "full", "cap"}
        BY <1>4, Left DEF PopFails, Refuse, RefuseDay, Full, At
  <2>2. QED BY <1>1, <1>2, <1>3, <2>1, CalmMove
<1>5. CASE RecordAll(h)
  <2>1. call'[h] = NoCall /\ ~Counts(h)
        BY <1>5, Left DEF RecordAll, At, Counts, PastCap
  <2>2. QED BY <1>1, <1>2, <1>3, <2>1, CalmMove
<1>6. CASE Prune(h) \/ Pop(h)
  <2>1. PICK l \in Places : Goto(h, l) /\ l \in {"prune", "pop", "full"}
        BY <1>6 DEF Prune, Pop, Places
  <2>2. call[h].at \in {"prune", "pop"}
        BY <1>6 DEF Prune, Pop, At
  <2>3. /\ call'[h].at \in {"prune", "pop", "full"} /\ call'[h].queue = call[h].queue
        /\ call'[h].key = call[h].key /\ call'[h].now = call[h].now /\ call'[h].nth = call[h].nth
        BY <1>1, <2>1, Moved
  <2>4. PastCap(h)' <=> PastCap(h)
        BY <2>2, <2>3 DEF PastCap, Queue, Key
  <2>5. ~PastCap(h) => ~Counts(h) /\ ~Counts(h)'
        BY <2>2, <2>3, <2>4 DEF Counts
  <2>6. QED BY <1>1, <1>2, <2>3, <2>4, <2>5, CalmMove
<1>7. CASE PassInstance(h)
  <2>1. call[h].at = "full" /\ Queue(h) = Instance /\ Goto(h, "day") /\ "day" \in Places
        BY <1>7 DEF PassInstance, NotFull, At, Places
  <2>2. ~Counts(h)
    <3>1. Key(h) # Instance
          BY Constants
    <3>2. QED BY <2>1, <3>1 DEF Counts, PastCap
  <2>3. ~Counts(h)'
        BY <1>1, <2>1, Moved DEF Counts, PastCap
  <2>4. QED BY <1>1, <1>2, <2>2, <2>3, CalmMove
<1>8. CASE Record(h)
  <2>1. /\ call[h].at = "record" /\ call'[h].at = "count"
        /\ call'[h].key = call[h].key /\ call'[h].now = call[h].now /\ call'[h].nth = call[h].nth
    <3>1. Key(h) # Instance
          BY Constants
    <3>2. QED BY <1>8, <3>1, RecordStep
  <2>2. QED BY <1>1, <1>2, <2>1, CalmMove
<1>9. CASE ReadCount(h)
  <2>1. At(h, "count") /\ call[h].at = "count"
        BY <1>9 DEF ReadCount, At
  <2>2. QED BY <1>1, <1>2, <1>9, <2>1, ReadsCount, CalmMove
<1>10. QED BY <1>4, <1>5, <1>6, <1>7, <1>8, <1>9

\* ReadDay: h sees whether the day is over; nobody is about to clear its count.
LEMMA ReadDayParts ==
    ASSUME TypeOK, TypeOK', NEW k \in Keys, DayParts(k), NEW h \in Handlers, Key(h) = k,
           ReadDay(h), ~raced'[k]
    PROVE  DayParts(k)'
<1>1. /\ ~At(h, Idle) /\ call[h].at = "day"
      /\ UNCHANGED <<dayStart, dayCount, granted>>
      /\ Goto(h, IF DayOver(h) THEN "reset" ELSE "cap")
      /\ \A g \in Counting(h) : ~At(g, "zero")
      BY NotIdle DEF ReadDay, At, Places, day, Race, TypeOK
<1>2. /\ call'[h].at = IF DayOver(h) THEN "reset" ELSE "cap"
      /\ call'[h].key = call[h].key /\ call'[h].now = call[h].now
      /\ \A g \in Handlers \ {h} : call'[g] = call[g]
      BY <1>1, Moved DEF Places
<1>3. /\ Key(h)' = k /\ ~PastCap(h)' /\ ~Counts(h)
      /\ \A g \in Handlers \ {h} :
           /\ Key(g)' = Key(g) /\ (PastCap(g)' <=> PastCap(g)) /\ (Counts(g)' <=> Counts(g))
           /\ DayOver(g)' <=> DayOver(g)
      /\ DayOver(h)' <=> DayOver(h)
      BY <1>1, <1>2 DEF Key, PastCap, Counts, Queue, DayOver
<1>4. /\ Today(k)' = Today(k) /\ GrantsOf(k)' = GrantsOf(k) /\ Yesterday(k)' = Yesterday(k)
      /\ \A s \in Times : Span(k, s, Day)' = Span(k, s, Day)
      BY <1>1 DEF Today, GrantsOf, Yesterday, Span
<1>5. /\ Uncounted(k)' = Uncounted(k)
      /\ \A g \in Uncounted(k) : Stamp(g)' = Stamp(g) /\ call'[g].now = call[g].now
      BY <1>1, <1>2 DEF Uncounted, Key, Stamp
<1>6. Passed(k)' = Passed(k)
      BY <1>1, <1>2, <1>3 DEF Passed, PastCap
<1>7. \A g \in Handlers : Key(g) = k /\ At(g, "zero") => g \notin Handlers \ {h}
  <2>1. \A g \in Handlers \ {h} : Key(g) = k /\ At(g, "zero") => g \in Counting(h)
    <3>1. \A g \in Handlers : At(g, "zero") => ~At(g, Idle) /\ Counts(g)
          BY Constants DEF At, Counts, Places
    <3>2. QED BY <3>1 DEF Counting
  <2>2. QED BY <1>1, <2>1
<1>8. \A g \in Handlers : Key(g)' = k => ~At(g, "zero")' /\ ~(Key(g) = k /\ At(g, "zero"))
      BY <1>1, <1>2, <1>3, <1>7 DEF At
<1>9. StartInv(k)'
  <2>1. \A g \in Handlers : Key(g)' = k /\ Counts(g)' => (At(g, "reset")' <=> DayOver(g)')
        BY <1>2, <1>3 DEF DayParts, StartInv, At
  <2>2. QED BY <1>1, <1>4, <1>5, <1>8, <2>1 DEF DayParts, StartInv
<1>10. CountInv(k)'
  <2>1. Counted(k)' = Counted(k)
        BY <1>4, <1>5 DEF Counted
  <2>2. \A g \in Handlers : ~(Key(g) = k /\ At(g, "zero"))
        BY <1>1, <1>7 DEF At
  <2>3. QED BY <1>1, <2>1, <2>2 DEF DayParts, CountInv
<1>11. QED BY <1>4, <1>6, <1>9, <1>10
           DEF DayParts, CapInv, YesterdayInv, SpanInv, Granted, Others

\* Reset: h is alone with the count, and everything let through is older.
LEMMA ResetParts ==
    ASSUME TypeOK, TypeOK', NEW k \in Keys, DayParts(k), NEW h \in Handlers, Key(h) = k,
           Reset(h), ~raced'[k]
    PROVE  DayParts(k)'
<1>1. /\ ~At(h, Idle) /\ call[h].at = "reset" /\ At(h, "reset")
      /\ UNCHANGED <<dayCount, granted>> /\ dayStart'[k] = call[h].now
      /\ Goto(h, "zero") /\ "zero" \in Places
      /\ Counting(h) = {}
      BY NotIdle DEF Reset, At, Places, Race, TypeOK
<1>2. /\ call'[h].at = "zero"
      /\ call'[h].key = call[h].key /\ call'[h].now = call[h].now
      /\ \A g \in Handlers \ {h} : call'[g] = call[g]
      BY <1>1, Moved
<1>3. \A g \in Handlers \ {h} : ~(Key(g) = k /\ Counts(g)) /\ ~(Key(g)' = k /\ Counts(g)')
  <2>1. ASSUME NEW g \in Handlers \ {h}, Key(g) = k, Counts(g)
        PROVE  FALSE
    <3>1. ~At(g, Idle)
          BY <2>1, Constants DEF At, Counts, PastCap, Places
    <3>2. QED BY <1>1, <2>1, <3>1 DEF Counting
  <2>2. \A g \in Handlers \ {h} : Key(g)' = Key(g) /\ (Counts(g)' <=> Counts(g))
        BY <1>2 DEF Key, Counts, PastCap, Queue
  <2>3. QED BY <2>1, <2>2
<1>4. Uncounted(k)' = {} /\ Passed(k)' = {}
  <2>1. h \notin Uncounted(k)' /\ h \notin Passed(k)'
        BY <1>2 DEF Uncounted, Passed, PastCap
  <2>2. QED BY <1>3, <2>1 DEF Uncounted, Passed, Counts, Key
<1>5. DayOver(h)
      BY <1>1 DEF DayParts, StartInv, Counts
<1>6. /\ dayStart[k] \in Int /\ Day \in Int /\ Day >= 1 /\ PerDay \in Int /\ PerDay >= 1
      /\ Others \in Int /\ Others >= 0
      /\ dayStart[k] # Never => dayStart[k] >= 0
      /\ call[h].now \in Int /\ call[h].now >= 0
      /\ \A g \in granted : g.now \in Int
      BY <1>1, DayTypes, OthersType
<1>7. \A g \in GrantsOf(k) : /\ dayStart[k] # Never /\ dayStart[k] + Day <= call[h].now
                             /\ g.now < dayStart[k] + Day
  <2>1. \A g \in GrantsOf(k) : dayStart[k] # Never /\ g.now - dayStart[k] < Day /\ g \in granted
        BY DEF DayParts, StartInv, GrantsOf
  <2>2. QED BY <1>5, <1>6, <2>1 DEF DayOver
<1>8. Today(k)' = {}
      BY <1>1, <1>6, <1>7 DEF Today, GrantsOf
<1>9. StartInv(k)'
  <2>1. GrantsOf(k)' = GrantsOf(k)
        BY <1>1 DEF GrantsOf
  <2>2. \A g \in GrantsOf(k) : dayStart'[k] # Never /\ g.now - dayStart'[k] < Day
        BY <1>1, <1>6, <1>7 DEF Never, GrantsOf
  <2>3. ~DayOver(h)' /\ ~At(h, "reset")'
        BY <1>1, <1>2, <1>6 DEF DayOver, Key, Never, At
  <2>4. \A g \in Handlers : Key(g)' = k /\ Counts(g)' => (At(g, "reset")' <=> DayOver(g)')
        BY <1>3, <2>3
  <2>5. \A g \in Handlers : Key(g)' = k /\ At(g, "zero")' => g = h
        BY <1>3 DEF At, Counts
  <2>6. QED BY <1>3, <1>4, <1>8, <2>1, <2>2, <2>4, <2>5 DEF StartInv
<1>10. CountInv(k)'
      BY <1>2 DEF CountInv, At, Key
<1>11. CapInv(k)'
  <2>1. Others' = Others
        BY DEF Others
  <2>2. QED BY <1>4, <1>6, <1>8, <2>1, FS_EmptySet DEF CapInv
<1>12. YesterdayInv(k)'
  <2>1. Yesterday(k)' \subseteq Today(k)
        BY <1>1, <1>6, <1>7 DEF Yesterday, Today, GrantsOf
  <2>2. /\ Cardinality(Yesterday(k)') <= Cardinality(Today(k)) /\ Cardinality(Yesterday(k)') \in Nat
        /\ Cardinality(Today(k)) \in Nat /\ Cardinality(Passed(k)) \in Nat
        BY <2>1, DayTypes, PartCount
  <2>3. Others' = Others
        BY DEF Others
  <2>4. QED BY <1>6, <2>2, <2>3 DEF DayParts, CapInv, YesterdayInv
<1>13. SpanInv(k)'
      BY <1>1 DEF DayParts, SpanInv, Granted, Span, Others
<1>14. QED BY <1>9, <1>10, <1>11, <1>12, <1>13 DEF DayParts

\* Zero: the count of a day that nothing was let through in is 0.
LEMMA ZeroParts ==
    ASSUME TypeOK, TypeOK', NEW k \in Keys, DayParts(k), NEW h \in Handlers, Key(h) = k,
           Zero(h)
    PROVE  DayParts(k)'
<1>1. /\ ~At(h, Idle) /\ call[h].at = "zero" /\ At(h, "zero")
      /\ UNCHANGED <<dayStart, granted>> /\ dayCount'[k] = 0
      /\ Goto(h, "cap") /\ "cap" \in Places
      BY NotIdle DEF Zero, At, Places, TypeOK, history
<1>2. /\ call'[h].at = "cap"
      /\ call'[h].key = call[h].key /\ call'[h].now = call[h].now
      /\ \A g \in Handlers \ {h} : call'[g] = call[g]
      BY <1>1, Moved
<1>3. /\ Today(k)' = Today(k) /\ GrantsOf(k)' = GrantsOf(k) /\ Yesterday(k)' = Yesterday(k)
      /\ \A s \in Times : Span(k, s, Day)' = Span(k, s, Day)
      BY <1>1 DEF Today, GrantsOf, Yesterday, Span
<1>4. Today(k) = {} /\ \A g \in Handlers \ {h} : ~(Key(g) = k /\ Counts(g))
      BY <1>1 DEF DayParts, StartInv
<1>5. \A g \in Handlers \ {h} : ~(Key(g)' = k /\ Counts(g)')
  <2>1. \A g \in Handlers \ {h} : Key(g)' = Key(g) /\ (Counts(g)' <=> Counts(g))
        BY <1>2 DEF Key, Counts, PastCap, Queue
  <2>2. QED BY <1>4, <2>1
<1>6. Uncounted(k)' = {} /\ Passed(k)' = {}
  <2>1. h \notin Uncounted(k)' /\ h \notin Passed(k)'
        BY <1>2 DEF Uncounted, Passed, PastCap
  <2>2. QED BY <1>5, <2>1 DEF Uncounted, Passed, Counts
<1>7. StartInv(k)'
  <2>1. ~DayOver(h)
        BY <1>1 DEF DayParts, StartInv, Counts, At
  <2>2. ~DayOver(h)' /\ ~At(h, "reset")' /\ ~At(h, "zero")'
        BY <1>1, <1>2, <2>1 DEF DayOver, Key, At
  <2>3. \A g \in Handlers : Key(g)' = k /\ At(g, "zero")' => FALSE
        BY <1>5, <2>2 DEF At, Counts
  <2>4. QED BY <1>1, <1>3, <1>5, <1>6, <2>2, <2>3 DEF DayParts, StartInv
<1>8. CountInv(k)'
  <2>1. Counted(k)' = {}
        BY <1>3, <1>4 DEF Counted
  <2>2. QED BY <1>1, <2>1, FS_EmptySet DEF CountInv
<1>9. PerDay \in Int /\ PerDay >= 1 /\ Others \in Int /\ Others >= 0
      BY DayTypes, OthersType
<1>10. CapInv(k)'
  <2>1. Others' = Others
        BY DEF Others
  <2>2. QED BY <1>3, <1>4, <1>6, <1>9, <2>1, FS_EmptySet DEF CapInv
<1>11. YesterdayInv(k)' /\ SpanInv(k)'
      BY <1>3 DEF DayParts, YesterdayInv, SpanInv, Granted, Others
<1>12. QED BY <1>7, <1>8, <1>10, <1>11 DEF DayParts

\* PassDay: the count leaves one call below the cap, and each other handler at
\* most one more, uncounted or past the cap itself.
LEMMA PassDayParts ==
    ASSUME TypeOK, TypeOK', NEW k \in Keys, DayParts(k), NEW h \in Handlers, Key(h) = k,
           PassDay(h)
    PROVE  DayParts(k)'
<1>1. /\ ~At(h, Idle) /\ call[h].at = "cap" /\ Counts(h) /\ ~At(h, "zero") /\ ~At(h, "reset")
      /\ UNCHANGED <<dayStart, dayCount, granted>> /\ dayCount[k] < PerDay
      /\ "prune" \in Places /\ call' = [call EXCEPT ![h].at = "prune", ![h].queue = Key(h)]
      BY NotIdle DEF PassDay, At, Counts, Places, day, history
<1>2. /\ call'[h].at = "prune" /\ call'[h].queue = call[h].key
      /\ call'[h].key = call[h].key /\ call'[h].now = call[h].now
      /\ \A g \in Handlers \ {h} : call'[g] = call[g]
      BY <1>1, PastDay
<1>3. /\ Key(h)' = k /\ Counts(h)'
      /\ \A g \in Handlers \ {h} :
           /\ Key(g)' = Key(g) /\ (PastCap(g)' <=> PastCap(g)) /\ (Counts(g)' <=> Counts(g))
           /\ call'[g] = call[g]
      BY <1>2 DEF Key, PastCap, Counts, Queue
<1>4. /\ Today(k)' = Today(k) /\ GrantsOf(k)' = GrantsOf(k) /\ Yesterday(k)' = Yesterday(k)
      /\ \A s \in Times : Span(k, s, Day)' = Span(k, s, Day)
      BY <1>1 DEF Today, GrantsOf, Yesterday, Span
<1>5. /\ Uncounted(k)' = Uncounted(k) /\ h \notin Uncounted(k) /\ h \notin Passed(k)
      /\ \A g \in Uncounted(k) : Stamp(g)' = Stamp(g) /\ call'[g].now = call[g].now
      BY <1>1, <1>2 DEF Uncounted, Passed, PastCap, Key, Stamp
<1>6. Passed(k)' \subseteq Passed(k) \cup {h}
      BY <1>3 DEF Passed
<1>7. \A g \in Handlers : Key(g) = k => ~At(g, "zero")
      BY <1>1 DEF DayParts, StartInv
<1>8. \A g \in Handlers : Key(g)' = k => ~At(g, "zero")'
      BY <1>2, <1>3, <1>7 DEF At
<1>9. StartInv(k)'
  <2>1. \A g \in Handlers : Key(g)' = k /\ Counts(g)' => (At(g, "reset")' <=> DayOver(g)')
    <3>1. ~DayOver(h)
          BY <1>1 DEF DayParts, StartInv
    <3>2. ~DayOver(h)' /\ ~At(h, "reset")'
          BY <1>1, <1>2, <3>1 DEF DayOver, Key, At
    <3>3. \A g \in Handlers \ {h} : /\ DayOver(g)' <=> DayOver(g)
                                    /\ At(g, "reset")' <=> At(g, "reset")
          BY <1>1, <1>3 DEF DayOver, Key, At
    <3>4. QED BY <1>3, <3>2, <3>3 DEF DayParts, StartInv
  <2>2. QED BY <1>1, <1>4, <1>5, <1>8, <2>1 DEF DayParts, StartInv
<1>10. CountInv(k)'
  <2>1. Counted(k)' = Counted(k)
        BY <1>4, <1>5 DEF Counted
  <2>2. QED BY <1>1, <1>7, <2>1 DEF DayParts, CountInv
<1>11. CapInv(k)'
  <2> DEFINE P == {Stamp(g) : g \in Uncounted(k)}
  <2>1. /\ IsFiniteSet(Counted(k)) /\ Cardinality(Counted(k)) = dayCount[k]
        /\ Cardinality(Counted(k)) \in Nat /\ Cardinality(Today(k)) \in Nat
        /\ PerDay \in Int /\ Others \in Int
        BY <1>7, DayTypes DEF DayParts, CountInv
  <2>2. IsFiniteSet(P) /\ Cardinality(P) \in Nat /\ Cardinality(P) <= Cardinality(Uncounted(k))
        BY StampCount DEF Uncounted
  <2>3. Today(k) \subseteq Counted(k) \cup P
        BY DEF Counted
  <2> HIDE DEF P
  <2>4. /\ IsFiniteSet(Counted(k) \cup P) /\ Cardinality(Counted(k) \cup P) \in Nat
        /\ Cardinality(Counted(k) \cup P) <= Cardinality(Counted(k)) + Cardinality(P)
        BY <2>1, <2>2, UnionCount
  <2>5. Cardinality(Today(k)) <= Cardinality(Counted(k) \cup P)
        BY <2>3, <2>4, PartCount
  <2>6. /\ Cardinality(Uncounted(k)) \in Nat /\ Cardinality(Passed(k)) \in Nat
        /\ Cardinality(Uncounted(k)) + Cardinality(Passed(k)) <= Others
    <3>1. Uncounted(k) \cap Passed(k) = {}
          BY DEF Uncounted, Passed, PastCap
    <3>2. Uncounted(k) \subseteq Handlers \ {h} /\ Passed(k) \subseteq Handlers \ {h}
          BY <1>5 DEF Uncounted, Passed
    <3>3. QED BY <3>1, <3>2, OtherHandlers
  <2>7. /\ Cardinality(Passed(k)') \in Nat
        /\ Cardinality(Passed(k)') <= Cardinality(Passed(k)) + 1
    <3>1. IsFiniteSet(Passed(k))
          BY DayTypes
    <3>2. QED BY <1>6, <3>1, OneMore
  <2>8. Others' = Others
        BY DEF Others
  <2>9. QED BY <1>1, <1>4, <2>1, <2>2, <2>4, <2>5, <2>6, <2>7, <2>8 DEF CapInv
<1>12. YesterdayInv(k)' /\ SpanInv(k)'
      BY <1>4 DEF DayParts, YesterdayInv, SpanInv, Granted, Others
<1>13. QED BY <1>9, <1>10, <1>11, <1>12 DEF DayParts

\* WriteCount: nothing was added since h read the count, and h adds its own call.
LEMMA WriteCountParts ==
    ASSUME TypeOK, TypeOK', CallInv, NEW k \in Keys, DayParts(k), NEW h \in Handlers,
           Key(h) = k, WriteCount(h), ~raced'[k]
    PROVE  DayParts(k)'
<1>1. /\ ~At(h, Idle) /\ call[h].at = "add" /\ Through(h) /\ h \in Uncounted(k)
      /\ UNCHANGED <<dayStart, granted>> /\ dayCount'[k] = dayCount[k] + 1
      /\ Goto(h, "recordAll") /\ "recordAll" \in Places
      BY NotIdle DEF WriteCount, At, Through, Uncounted, Places, Race, TypeOK
<1>2. /\ call'[h].at = "recordAll"
      /\ call'[h].key = call[h].key /\ call'[h].now = call[h].now
      /\ \A g \in Handlers \ {h} : call'[g] = call[g]
      BY <1>1, Moved
<1>3. /\ ~Counts(h)' /\ ~At(h, "zero") /\ ~At(h, "zero")'
      /\ \A g \in Handlers \ {h} :
           /\ Key(g)' = Key(g) /\ (PastCap(g)' <=> PastCap(g)) /\ (Counts(g)' <=> Counts(g))
           /\ (At(g, "zero")' <=> At(g, "zero")) /\ (At(g, "reset")' <=> At(g, "reset"))
           /\ DayOver(g)' <=> DayOver(g)
      BY <1>1, <1>2 DEF Key, PastCap, Counts, Queue, At, DayOver
<1>4. /\ Today(k)' = Today(k) /\ GrantsOf(k)' = GrantsOf(k) /\ Yesterday(k)' = Yesterday(k)
      /\ \A s \in Times : Span(k, s, Day)' = Span(k, s, Day)
      BY <1>1 DEF Today, GrantsOf, Yesterday, Span
<1>5. /\ Uncounted(k)' = Uncounted(k) \ {h}
      /\ \A g \in Uncounted(k) \ {h} : Stamp(g)' = Stamp(g) /\ call'[g].now = call[g].now
      BY <1>1, <1>2 DEF Uncounted, Key, Stamp
<1>6. Passed(k)' = Passed(k)
      BY <1>1, <1>2, <1>3 DEF Passed, PastCap
<1>7. StartInv(k)'
  <2>1. \A g \in Handlers : Key(g)' = k /\ Counts(g)' => (At(g, "reset")' <=> DayOver(g)')
        BY <1>3 DEF DayParts, StartInv
  <2>2. \A g \in Uncounted(k)' : dayStart'[k] <= call'[g].now
        BY <1>1, <1>5 DEF DayParts, StartInv
  <2>3. ASSUME NEW g \in Handlers, Key(g)' = k /\ At(g, "zero")' PROVE FALSE
    <3>1. Key(g) = k /\ At(g, "zero") /\ g # h
          BY <1>3, <2>3
    <3>2. ~Counts(h)
          BY <3>1 DEF DayParts, StartInv
    <3>3. QED BY <1>1, <3>2 DEF Counts
  <2>4. QED BY <1>1, <1>4, <2>1, <2>2, <2>3 DEF DayParts, StartInv
<1>8. CountInv(k)'
  <2> SUFFICES ASSUME \A g \in Handlers : ~(Key(g)' = k /\ At(g, "zero")')
               PROVE  dayCount'[k] = Cardinality(Counted(k)')
      BY DEF CountInv
  <2>1. dayCount[k] = Cardinality(Counted(k)) /\ IsFiniteSet(Counted(k))
    <3>1. \A g \in Handlers : ~(Key(g) = k /\ At(g, "zero"))
          BY <1>3
    <3>2. QED BY <3>1, DayTypes DEF DayParts, CountInv
  <2>2. Stamp(h) \in Today(k)
    <3>1. Stamp(h) \in granted
          BY <1>1 DEF CallInv, LocalsInv
    <3>2. Stamp(h).key = k /\ Stamp(h).now = call[h].now
          BY DEF Stamp
    <3>3. dayStart[k] <= call[h].now
          BY <1>1 DEF DayParts, StartInv
    <3>4. QED BY <3>1, <3>2, <3>3 DEF Today
  <2>3. \A g \in Uncounted(k) \ {h} : Stamp(g) # Stamp(h)
        BY <1>1 DEF CallInv, ApartInv, Uncounted, Through
  <2>4. Counted(k)' = Counted(k) \cup {Stamp(h)} /\ Stamp(h) \notin Counted(k)
    <3>1. {Stamp(g) : g \in Uncounted(k)}' = {Stamp(g) : g \in Uncounted(k) \ {h}}
          BY <1>5
    <3>2. QED BY <1>1, <1>4, <2>2, <2>3, <3>1 DEF Counted
  <2>5. Cardinality(Counted(k)') = Cardinality(Counted(k)) + 1
        BY <2>1, <2>4, FS_AddElement
  <2>6. QED BY <1>1, <2>1, <2>5
<1>9. CapInv(k)' /\ YesterdayInv(k)' /\ SpanInv(k)'
      BY <1>4, <1>6 DEF DayParts, CapInv, YesterdayInv, SpanInv, Granted, Others
<1>10. QED BY <1>7, <1>8, <1>9 DEF DayParts

\* Grant: the call joins its day, which it did not arrive before, and leaves
\* those past the cap.
LEMMA GrantParts ==
    ASSUME TypeOK, TypeOK', CallInv, NEW k \in Keys, DayParts(k), NEW h \in Handlers,
           Key(h) = k, Grant(h), ~raced'[k]
    PROVE  DayParts(k)'
<1> DEFINE e == Stamp(h)'
<1>1. /\ granted' = granted \cup {e} /\ e.key = k /\ e.now = call[h].now
      /\ ~At(h, Idle) /\ call[h].at = "full" /\ PastCap(h) /\ Counts(h)
      /\ call'[h].at = "record" /\ call'[h].key = call[h].key /\ call'[h].now = call[h].now
      /\ \A g \in Handlers \ {h} : call'[g] = call[g]
      /\ UNCHANGED <<dayStart, dayCount>>
      /\ ~(call[h].now < dayStart[k])
      /\ e \notin granted
  <2>1. Race(h, call[h].now < dayStart[Key(h)]) => ~(call[h].now < dayStart[k])
        BY DEF Race, TypeOK
  <2>2. e \notin granted
        BY NewGrant DEF CallInv
  <2>3. QED BY <2>1, <2>2, GrantStep DEF PastCap, Counts, day
<1> HIDE DEF e
<1>2. /\ dayStart[k] \in Int /\ Day \in Int /\ Day >= 1 /\ PerDay \in Int
      /\ Others \in Int /\ call[h].now \in Int
      /\ \A g \in granted : g.now \in Int
      BY <1>1, DayTypes
<1>3. /\ dayStart[k] # Never /\ call[h].now - dayStart[k] < Day /\ dayStart[k] <= call[h].now
  <2>1. ~DayOver(h)
        BY <1>1 DEF DayParts, StartInv, At
  <2>2. QED BY <1>1, <1>2, <2>1 DEF DayOver
<1>4. /\ GrantsOf(k)' = GrantsOf(k) \cup {e} /\ Today(k)' = Today(k) \cup {e} /\ e \notin Today(k)
      /\ Yesterday(k)' = Yesterday(k)
      BY <1>1, <1>2, <1>3 DEF GrantsOf, Today, Yesterday
<1>5. /\ Uncounted(k)' = Uncounted(k) \cup {h} /\ h \notin Uncounted(k)
      /\ \A g \in Uncounted(k) : Stamp(g)' = Stamp(g) /\ call'[g].now = call[g].now
      BY <1>1 DEF Uncounted, Key, Stamp
<1>6. Passed(k)' = Passed(k) \ {h} /\ h \in Passed(k)
      BY <1>1 DEF Passed, PastCap, Key, Queue
<1>7. /\ \A g \in Handlers : Key(g) = k => ~At(g, "zero")
      /\ \A g \in Handlers : Key(g)' = k => ~At(g, "zero")'
  <2>1. \A g \in Handlers \ {h} : Key(g) = k => ~At(g, "zero")
        BY <1>1 DEF DayParts, StartInv
  <2>2. QED BY <1>1, <2>1 DEF At, Key
<1>8. StartInv(k)'
  <2>1. \A g \in Handlers : Key(g)' = k /\ Counts(g)' => (At(g, "reset")' <=> DayOver(g)')
    <3>1. ~DayOver(h)' /\ ~At(h, "reset")'
          BY <1>1, <1>2, <1>3 DEF DayOver, Key, At
    <3>2. \A g \in Handlers \ {h} : /\ Key(g)' = Key(g) /\ (Counts(g)' <=> Counts(g))
                                    /\ DayOver(g)' <=> DayOver(g)
                                    /\ At(g, "reset")' <=> At(g, "reset")
          BY <1>1 DEF DayOver, Key, At, Counts, PastCap, Queue
    <3>3. QED BY <3>1, <3>2 DEF DayParts, StartInv
  <2>2. \A g \in GrantsOf(k)' : dayStart'[k] # Never /\ g.now - dayStart'[k] < Day
        BY <1>1, <1>3, <1>4 DEF DayParts, StartInv
  <2>3. \A g \in Uncounted(k)' : dayStart'[k] <= call'[g].now
        BY <1>1, <1>3, <1>5 DEF DayParts, StartInv
  <2>4. QED BY <1>7, <2>1, <2>2, <2>3 DEF StartInv
<1>9. CountInv(k)'
  <2>1. {Stamp(g) : g \in Uncounted(k)}' = {Stamp(g) : g \in Uncounted(k)} \cup {e}
        BY <1>5 DEF e
  <2>2. Counted(k)' = Counted(k)
        BY <1>4, <2>1 DEF Counted
  <2>3. QED BY <1>1, <1>7, <2>2 DEF DayParts, CountInv
<1>10. /\ IsFiniteSet(Today(k)) /\ Cardinality(Today(k)) \in Nat
       /\ IsFiniteSet(Today(k)') /\ Cardinality(Today(k)') = Cardinality(Today(k)) + 1
       BY <1>4, DayTypes, FS_AddElement
<1>11. Others' = Others
       BY DEF Others
<1>12. CapInv(k)'
  <2>1. Cardinality(Passed(k)') = Cardinality(Passed(k)) - 1 /\ Cardinality(Passed(k)) \in Nat
        BY <1>6, DayTypes, FS_RemoveElement
  <2>2. QED BY <1>2, <1>10, <1>11, <2>1 DEF DayParts, CapInv
<1>13. YesterdayInv(k)'
       BY <1>4, <1>11 DEF DayParts, YesterdayInv
<1>14. SpanInv(k)'
  <2> SUFFICES ASSUME NEW s \in Times
               PROVE  Granted(k, s, Day)' <= 2 * (PerDay + Others)
      BY <1>11 DEF SpanInv
  <2>0. s \in Int /\ k # Instance
        BY Constants DEF Times
  <2>1. CASE s <= e.now /\ e.now < s + Day
    <3>1. Span(k, s, Day)' \subseteq Yesterday(k) \cup Today(k)'
          BY <1>1, <1>2, <1>3, <2>0, <2>1 DEF Span, Yesterday, Today, GrantsOf
    <3>2. /\ IsFiniteSet(Yesterday(k)) /\ Cardinality(Yesterday(k)) \in Nat
          BY DayTypes
    <3>3. /\ IsFiniteSet(Yesterday(k) \cup Today(k)')
          /\ Cardinality(Yesterday(k) \cup Today(k)')
               <= Cardinality(Yesterday(k)) + Cardinality(Today(k)')
          /\ Cardinality(Yesterday(k) \cup Today(k)') \in Nat
          BY <1>10, <3>2, UnionCount
    <3>4. /\ Granted(k, s, Day)' <= Cardinality(Yesterday(k) \cup Today(k)')
          /\ Granted(k, s, Day)' \in Nat
          BY <3>1, <3>3, PartCount DEF Granted
    <3>5. Cardinality(Passed(k)') \in Nat
      <4>1. IsFiniteSet(Passed(k)) /\ Passed(k)' \subseteq Passed(k)
            BY <1>6, DayTypes
      <4>2. QED BY <4>1, PartCount
    <3>6. QED BY <1>2, <1>10, <1>11, <1>12, <3>2, <3>3, <3>4, <3>5
              DEF DayParts, CapInv, YesterdayInv
  <2>2. CASE ~(s <= e.now /\ e.now < s + Day)
    <3>1. Span(k, s, Day)' = Span(k, s, Day)
          BY <1>1, <2>2 DEF Span
    <3>2. QED BY <3>1 DEF DayParts, SpanInv, Granted
  <2>3. QED BY <2>1, <2>2
<1>15. QED BY <1>8, <1>9, <1>12, <1>13, <1>14 DEF DayParts

\* Steps keep DayInv.
LEMMA DayStep == TypeOK /\ TypeOK' /\ CallInv /\ DayInv /\ [Next]_vars => DayInv'
<1> SUFFICES ASSUME TypeOK, TypeOK', CallInv, DayInv, [Next]_vars, NEW k \in Keys, ~raced'[k]
             PROVE  DayParts(k)'
    BY DEF DayInv
<1>1. ASSUME Calm(k), raced'[k] = raced[k] PROVE DayParts(k)'
      BY <1>1, CalmStep DEF DayInv
<1>2. CASE Start \/ Tick \/ UNCHANGED vars
  <2>1. UNCHANGED <<granted, call, dayStart, dayCount, raced>>
        BY <1>2 DEF Start, Tick, vars, day, history
  <2>2. Calm(k)
        BY <2>1 DEF Calm, GrantsOf, Key, Counts, PastCap, Queue, At, Uncounted, Stamp, Passed
  <2>3. QED BY <1>1, <2>1, <2>2
<1>3. ASSUME NEW h \in Handlers,
             \/ Arrive(h)
             \/ /\ Key(h) # k
                /\ \/ Prune(h) \/ Pop(h) \/ PopFails(h) \/ Refuse(h) \/ PassInstance(h)
                   \/ ReadDay(h) \/ Reset(h) \/ Zero(h) \/ RefuseDay(h) \/ PassDay(h)
                   \/ Grant(h) \/ Record(h) \/ ReadCount(h) \/ WriteCount(h) \/ RecordAll(h)
      PROVE  DayParts(k)'
      BY <1>1, <1>3, CalmElsewhere
<1>4. ASSUME NEW h \in Handlers, Key(h) = k,
             \/ Prune(h) \/ Pop(h) \/ PopFails(h) \/ Refuse(h) \/ PassInstance(h)
             \/ RefuseDay(h) \/ Record(h) \/ ReadCount(h) \/ RecordAll(h)
      PROVE  DayParts(k)'
      BY <1>1, <1>4, CalmOwn
<1>5. ASSUME NEW h \in Handlers, Key(h) = k,
             \/ ReadDay(h) \/ Reset(h) \/ Zero(h) \/ PassDay(h) \/ Grant(h) \/ WriteCount(h)
      PROVE  DayParts(k)'
  <2>1. ~raced[k]
        BY <1>5 DEF ReadDay, Reset, Zero, PassDay, Grant, WriteCount, Race, TypeOK, history
  <2>2. DayParts(k)
        BY <2>1 DEF DayInv
  <2>3. QED BY <1>5, <2>2, ReadDayParts, ResetParts, ZeroParts, PassDayParts, GrantParts,
               WriteCountParts
<1>6. QED BY <1>2, <1>3, <1>4, <1>5 DEF Next

\* The day of a key whose count is not torn is as DayInv says.
LEMMA DayCorrect == Spec => []DayInv
<1>1. Init => DayInv
  <2> SUFFICES ASSUME Init, NEW k \in Keys PROVE DayParts(k)
      BY DEF DayInv
  <2>1. /\ granted = {} /\ dayCount[k] = 0
        /\ \A h \in Handlers : call[h].at = Idle /\ ~Counts(h) /\ ~At(h, "zero")
        BY Constants DEF Init, NoCall, Counts, PastCap, At, Places
  <2>2. Today(k) = {} /\ Yesterday(k) = {} /\ GrantsOf(k) = {} /\ Passed(k) = {}
        /\ Uncounted(k) = {} /\ Counted(k) = {} /\ \A s : Span(k, s, Day) = {}
    <3>1. Passed(k) = {} /\ Uncounted(k) = {}
          BY <2>1 DEF Passed, Uncounted, Counts
    <3>2. Today(k) = {} /\ Yesterday(k) = {} /\ GrantsOf(k) = {} /\ \A s : Span(k, s, Day) = {}
          BY <2>1 DEF Today, Yesterday, GrantsOf, Span
    <3>3. QED BY <3>1, <3>2 DEF Counted
  <2>3. PerDay \in Int /\ PerDay >= 1 /\ Others \in Int /\ Others >= -1
        BY Constants, OthersType
  <2>4. StartInv(k) /\ CountInv(k)
        BY <2>1, <2>2, FS_EmptySet DEF StartInv, CountInv
  <2>5. CapInv(k) /\ YesterdayInv(k) /\ SpanInv(k)
        BY <2>2, <2>3, FS_EmptySet DEF CapInv, YesterdayInv, SpanInv, Granted
  <2>6. QED BY <2>4, <2>5 DEF DayParts
<1>2. TypeOK /\ TypeOK' /\ DequeInv /\ DayInv /\ [Next]_vars => DayInv'
      BY DayStep DEF DequeInv
<1>3. QED BY <1>1, <1>2, TypeCorrect, DequeCorrect, PTL DEF Spec

(* While the count of a key is not torn, what is let through since it last *)
(* restarted is at most the cap and one call per other handler, and in any *)
(* day at most twice that.                                                 *)
THEOREM DayIsCapped == Spec => []DayCap
<1>1. TypeOK /\ DayInv => DayCap
  <2> SUFFICES ASSUME TypeOK, DayInv, NEW k \in Keys, ~raced[k]
               PROVE  /\ Cardinality(Today(k)) <= PerDay + Others
                      /\ \A s \in Times : Granted(k, s, Day) <= 2 * (PerDay + Others)
      BY DEF DayCap
  <2>1. DayParts(k)
        BY DEF DayInv
  <2>2. /\ Cardinality(Today(k)) \in Nat /\ Cardinality(Passed(k)) \in Nat
        /\ PerDay \in Int /\ Others \in Int
        BY DayTypes
  <2>3. QED BY <2>1, <2>2 DEF DayParts, CapInv, SpanInv
<1>2. QED BY <1>1, TypeCorrect, DayCorrect, PTL

-----------------------------------------------------------------------------
(* A caller is refused with 429 only for calls let through: a deque that   *)
(* is full holds that many of the last minute, and a count at the cap has  *)
(* that many of the last day, unless a record was late or the count torn.  *)
THEOREM RefusalsAreJustified == Spec => RefusalsJustified
<1>1. ASSUME TypeOK, DequeInv, OrderInv, NEW h \in Handlers, NEW q, q = Queue(h), Refuse(h),
             ~late[q]
      PROVE  Granted(q, call[h].now - Minute + 1, MaxTime + Minute) >= Limit(q)
  <2> DEFINE W == {window[q][i] : i \in DOMAIN window[q]}
             S == Span(q, call[h].now - Minute + 1, MaxTime + Minute)
  <2>1. ~At(h, Idle) /\ At(h, "full") /\ Len(window[q]) >= Limit(q)
        BY <1>1, NotIdle DEF Refuse, Full, At, Places
  <2>2. q \in Queues /\ call[h].now \in Times
        BY <1>1, <2>1, InCall
  <2>3. window[q] \in Seq(Grants) /\ IsFiniteSet(granted) /\ granted \subseteq Grants
        BY <1>1, <2>2 DEF TypeOK
  <2>4. Cardinality(W) = Len(window[q]) /\ Len(window[q]) \in Nat
        BY <1>1, <2>2, <2>3, EntryCount DEF DequeInv, WindowInv
  <2>5. W \subseteq S
    <3> SUFFICES ASSUME NEW i \in DOMAIN window[q] PROVE window[q][i] \in S
        OBVIOUS
    <3>1. window[q][i] \in granted /\ q \in {Instance, window[q][i].key}
          BY <1>1, <2>2 DEF DequeInv, WindowInv
    <3>2. call[h].now - window[q][i].now < Minute
      <4>1. ~Stale(h, window[q][i].now)
            BY <1>1, <2>1 DEF OrderInv
      <4>2. window[q][i].now \in Int /\ call[h].now \in Int /\ Minute \in Int
            BY <2>2, <2>3, <3>1, Constants DEF Grants, Times
      <4>3. QED BY <4>1, <4>2 DEF Stale
    <3>3. window[q][i].now \in 0..MaxTime /\ call[h].now \in 0..MaxTime
          BY <2>2, <2>3, <3>1 DEF Grants, Times
    <3>4. QED BY <3>1, <3>2, <3>3, Constants DEF Span
  <2>6. Cardinality(W) <= Cardinality(S) /\ Cardinality(S) \in Nat
    <3>1. IsFiniteSet(S)
          BY <2>3, FS_Subset DEF Span
    <3>2. QED BY <2>5, <3>1, PartCount
  <2>7. Limit(q) \in Nat
        BY <2>2, LimitType
  <2>8. QED BY <2>1, <2>4, <2>6, <2>7 DEF Granted
<1>2. ASSUME TypeOK, DayInv, NEW h \in Handlers, NEW k, k = Key(h), RefuseDay(h), ~raced[k]
      PROVE  Granted(k, call[h].now - Day + 1, MaxTime + Day) >= PerDay
  <2> DEFINE S == Span(k, call[h].now - Day + 1, MaxTime + Day)
  <2>1. ~At(h, Idle) /\ call[h].at = "cap" /\ Counts(h) /\ dayCount[k] >= PerDay
        BY <1>2, NotIdle DEF RefuseDay, At, Counts, Places
  <2>2. k \in Keys /\ call[h].now \in 0..MaxTime
        BY <1>2, <2>1, InCall DEF Times
  <2>3. StartInv(k) /\ CountInv(k)
        BY <1>2, <2>2 DEF DayInv, DayParts
  <2>4. \A g \in Handlers : ~(Key(g) = k /\ At(g, "zero"))
        BY <1>2, <2>1, <2>3 DEF StartInv, At
  <2>5. dayCount[k] = Cardinality(Counted(k)) /\ Cardinality(Counted(k)) \in Nat /\ PerDay \in Int
        BY <1>2, <2>2, <2>3, <2>4, DayTypes DEF CountInv
  <2>6. /\ dayStart[k] \in Int /\ Day \in Int /\ call[h].now - dayStart[k] < Day
    <3>1. ~DayOver(h)
          BY <1>2, <2>1, <2>3 DEF StartInv, At
    <3>2. dayStart[k] \in Int /\ Day \in Int
          BY <1>2, <2>2, DayTypes
    <3>3. QED BY <1>2, <2>2, <3>1, <3>2 DEF DayOver
  <2>7. Counted(k) \subseteq S
    <3> SUFFICES ASSUME NEW g \in granted, g.key = k, dayStart[k] <= g.now PROVE g \in S
        BY DEF Counted, Today
    <3>1. g.now \in 0..MaxTime
          BY <1>2 DEF TypeOK, Grants, Times
    <3>2. QED BY <2>2, <2>6, <3>1, Constants DEF Span
  <2>8. Cardinality(Counted(k)) <= Cardinality(S) /\ Cardinality(S) \in Nat
    <3>1. IsFiniteSet(S)
          BY <1>2, FS_Subset DEF TypeOK, Span
    <3>2. QED BY <2>7, <3>1, PartCount
  <2>9. QED BY <2>1, <2>5, <2>8 DEF Granted
<1>3. TypeOK /\ DequeInv /\ OrderInv /\ DayInv
        => \A h \in Handlers :
             /\ Refuse(h) =>
                  \/ late[Queue(h)]
                  \/ Granted(Queue(h), call[h].now - Minute + 1, MaxTime + Minute)
                       >= Limit(Queue(h))
             /\ RefuseDay(h) =>
                  \/ raced[Key(h)]
                  \/ Granted(Key(h), call[h].now - Day + 1, MaxTime + Day) >= PerDay
      BY <1>1, <1>2
<1>4. QED BY <1>3, TypeCorrect, DequeCorrect, OrderCorrect, DayCorrect, PTL
          DEF RefusalsJustified
=============================================================================
