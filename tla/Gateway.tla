------------------------------ MODULE Gateway ------------------------------
(***************************************************************************)
(* The HTTP surface in front of the engine (api.py, deploy/guards.py): the *)
(* start-up guard of the demo profile, the handlers' own profile check,    *)
(* and RateLimiter.check, which the handlers' threads run on shared deques *)
(* and counters without a lock.  Every step reads or writes these once.    *)
(* A minute and a day are numbers of ticks of the injected clock.  What a  *)
(* deque holds of a call is its time; the record here also tells calls     *)
(* apart, so that what the limits let through can be counted.              *)
(***************************************************************************)
EXTENDS Integers, SequencesExt

CONSTANTS Handlers, Keys, Instance, Idle, PerMin, InstancePerMin, PerDay, Minute, Day,
          Endpoints, Configs, MaxTime, MaxCalls

Places == {"prune", "pop", "full", "day", "reset", "zero", "cap", "record",
           "count", "add", "recordAll"}

ASSUME GatewayAssumption ==
    /\ Idle \notin Places
    /\ IsFiniteSet(Handlers) /\ IsFiniteSet(Keys) /\ Instance \notin Keys
    /\ {PerMin, InstancePerMin, PerDay, Minute} \subseteq Nat \ {0}
    /\ {Day, MaxTime, MaxCalls} \subseteq Nat /\ Minute <= Day
    /\ Endpoints \subseteq {"query", "trace", "oracle"}
    /\ Configs \subseteq [profile : {"synthetic", "production"},
                          store : {"memory", "surrealdb"},
                          dsn : {"local", "cloud", "remote"},
                          credentials : BOOLEAN, grader : {"fake", "openai"},
                          sql : {"fake", "groq", "nvidia"}]

VARIABLES
    config, serving,                \* the process: its EngineConfig, its lifespan
    window, dayStart, dayCount,     \* RateLimiter: deques and counters
    call,                           \* each handler's position and locals
    clock, calls,                   \* the environment
    granted, fresh, late, raced, internals  \* history

process == <<config, serving>>
day == <<dayStart, dayCount>>
environment == <<clock, calls>>
history == <<granted, fresh, late, raced, internals>>
vars == <<process, window, day, call, environment, history>>

Never == -1
Queues == Keys \cup {Instance}
Times == 0..MaxTime
Limit(q) == IF q = Instance THEN InstancePerMin ELSE PerMin
NoCall == [at |-> Idle]

At(h, l) == call[h].at = l
Key(h) == call[h].key
Queue(h) == call[h].queue
\* A call let through: the nth of its key and time.
Grants == [key : Keys, now : Times, nth : Nat]
Stamp(h) == [key |-> Key(h), now |-> call[h].now, nth |-> call[h].nth]
Goto(h, l) == call' = [call EXCEPT ![h].at = l]
Leave(h) == call' = [call EXCEPT ![h] = NoCall]

Init ==
    /\ config \in Configs /\ serving = FALSE
    /\ window = [q \in Queues |-> <<>>]
    /\ dayStart = [k \in Keys |-> Never]
    /\ dayCount = [k \in Keys |-> 0]
    /\ call = [h \in Handlers |-> NoCall]
    /\ clock = 0 /\ calls = 0
    /\ granted = {}
    /\ fresh = [q \in Queues |-> {}]
    /\ late = [q \in Queues |-> FALSE]
    /\ raced = [k \in Keys |-> FALSE]
    /\ internals = FALSE

\* What the start-up guard refuses under the synthetic profile.
Violations(c) ==
    \/ c.store = "surrealdb" /\ c.dsn = "cloud"
    \/ c.credentials
    \/ c.grader = "openai"
    \/ c.sql \in {"groq", "nvidia"}

Start ==
    /\ ~serving
    /\ config.profile = "synthetic" => ~Violations(config)
    /\ serving' = TRUE
    /\ UNCHANGED <<config, window, day, call, environment, history>>

Tick ==
    /\ clock < MaxTime
    /\ clock' = clock + 1
    /\ UNCHANGED <<process, window, day, call, calls, history>>

\* A mutant: the oracle endpoint is left unguarded.
RequireForTrace(e) == e = "trace" => config.profile = "synthetic"
RequireSynthetic(e) == e \in {"trace", "oracle"} => config.profile = "synthetic"

\* The handlers of trace and oracle check the profile of the request's process.
Arrive(h) ==
    /\ serving /\ At(h, Idle) /\ calls < MaxCalls
    /\ \E k \in Keys, e \in Endpoints :
         /\ RequireSynthetic(e)
         /\ call' = [call EXCEPT ![h] = [at |-> "prune", queue |-> Instance,
                                         key |-> k, now |-> clock, read |-> 0, nth |-> 0]]
         /\ internals' = (internals \/ e # "query")
    /\ calls' = calls + 1
    /\ UNCHANGED <<process, window, day, clock, granted, fresh, late, raced>>

\* A mutant: a record a full minute old is kept.
StaleLater(h, t) == call[h].now - t > Minute
Stale(h, t) == call[h].now - t >= Minute

\* Each deque is pruned in a loop: the head is tested, then popped.
Prune(h) ==
    LET w == window[Queue(h)] IN
    /\ At(h, "prune")
    /\ Goto(h, IF w # <<>> /\ Stale(h, Head(w).now) THEN "pop" ELSE "full")
    /\ UNCHANGED <<process, window, day, environment, history>>

\* A record of the minute before a call in flight.
Needed(t) == \E g \in Handlers : ~At(g, Idle) /\ ~Stale(g, t)

Pop(h) ==
    LET q == Queue(h)  g == Head(window[q]) IN
    /\ At(h, "pop") /\ window[q] # <<>>
    /\ window' = [window EXCEPT ![q] = Tail(@)]
    /\ fresh' = [fresh EXCEPT ![q] = IF Needed(g.now) THEN @ \cup {g} ELSE @]
    /\ Goto(h, "prune")
    /\ UNCHANGED <<process, day, environment, granted, late, raced, internals>>

\* IndexError: another handler popped the only entry (500, not let through).
PopFails(h) ==
    /\ At(h, "pop") /\ window[Queue(h)] = <<>>
    /\ Leave(h)
    /\ UNCHANGED <<process, window, day, environment, history>>

Full(h) == At(h, "full") /\ Len(window[Queue(h)]) >= Limit(Queue(h))
\* A mutant: off by one.
NotOver(h) == At(h, "full") /\ Len(window[Queue(h)]) <= Limit(Queue(h))
NotFull(h) == At(h, "full") /\ Len(window[Queue(h)]) < Limit(Queue(h))

Refuse(h) ==
    /\ Full(h)
    /\ Leave(h)
    /\ UNCHANGED <<process, window, day, environment, history>>

PassInstance(h) ==
    /\ NotFull(h) /\ Queue(h) = Instance
    /\ Goto(h, "day")
    /\ UNCHANGED <<process, window, day, environment, history>>

DayOver(h) == \/ dayStart[Key(h)] = Never
              \/ call[h].now - dayStart[Key(h)] >= Day

\* Past the cap, not yet let through.
PastCap(h) == call[h].at \in {"prune", "pop", "full"} /\ Queue(h) = Key(h)
\* Between reading the day's start and adding to its count.
Counts(h) == call[h].at \in {"reset", "zero", "cap", "record", "count", "add"} \/ PastCap(h)
Counting(h) == {g \in Handlers \ {h} : ~At(g, Idle) /\ Key(g) = Key(h) /\ Counts(g)}
Race(h, hit) == raced' = [raced EXCEPT ![Key(h)] = @ \/ hit]

ReadDay(h) ==
    /\ At(h, "day")
    /\ Race(h, \E g \in Counting(h) : At(g, "zero"))
    /\ Goto(h, IF DayOver(h) THEN "reset" ELSE "cap")
    /\ UNCHANGED <<process, window, day, environment, granted, fresh, late, internals>>

Reset(h) ==
    /\ At(h, "reset")
    /\ dayStart' = [dayStart EXCEPT ![Key(h)] = call[h].now]
    /\ Race(h, Counting(h) # {})
    /\ Goto(h, "zero")
    /\ UNCHANGED <<process, window, dayCount, environment, granted, fresh, late, internals>>

\* A mutant: the call that restarts the day is left out of its count in advance.
ZeroBelow(h) ==
    /\ At(h, "zero")
    /\ dayCount' = [dayCount EXCEPT ![Key(h)] = -1]
    /\ Goto(h, "cap")
    /\ UNCHANGED <<process, window, dayStart, environment, history>>

Zero(h) ==
    /\ At(h, "zero")
    /\ dayCount' = [dayCount EXCEPT ![Key(h)] = 0]
    /\ Goto(h, "cap")
    /\ UNCHANGED <<process, window, dayStart, environment, history>>

RefuseDay(h) ==
    /\ At(h, "cap") /\ dayCount[Key(h)] >= PerDay
    /\ Leave(h)
    /\ UNCHANGED <<process, window, day, environment, history>>

\* A mutant: off by one.
PassOver(h) ==
    /\ At(h, "cap") /\ dayCount[Key(h)] <= PerDay
    /\ call' = [call EXCEPT ![h].at = "prune", ![h].queue = Key(h)]
    /\ UNCHANGED <<process, window, day, environment, history>>

PassDay(h) ==
    /\ At(h, "cap") /\ dayCount[Key(h)] < PerDay
    /\ call' = [call EXCEPT ![h].at = "prune", ![h].queue = Key(h)]
    /\ UNCHANGED <<process, window, day, environment, history>>

\* Past all three limits the call is let through; it is recorded in four steps.
Grant(h) ==
    LET n == Cardinality({g \in granted : g.key = Key(h) /\ g.now = call[h].now}) + 1 IN
    /\ NotFull(h) /\ Queue(h) = Key(h)
    /\ granted' = granted \cup {[Stamp(h) EXCEPT !.nth = n]}
    /\ call' = [call EXCEPT ![h].at = "record", ![h].nth = n]
    /\ Race(h, call[h].now < dayStart[Key(h)])
    /\ UNCHANGED <<process, window, day, environment, fresh, late, internals>>

AppendTo(h, q) ==
    LET w == window[q]  t == call[h].now IN
    /\ window' = [window EXCEPT ![q] = Append(@, Stamp(h))]
    /\ late' = [late EXCEPT ![q] = @ \/ clock - t >= Minute
                                     \/ (w # <<>> /\ Last(w).now > t)]

Record(h) ==
    /\ At(h, "record")
    /\ AppendTo(h, Key(h))
    /\ Goto(h, "count")
    /\ UNCHANGED <<process, day, environment, granted, fresh, raced, internals>>

ReadCount(h) ==
    /\ At(h, "count")
    /\ call' = [call EXCEPT ![h].at = "add", ![h].read = dayCount[Key(h)]]
    /\ UNCHANGED <<process, window, day, environment, history>>

WriteCount(h) ==
    /\ At(h, "add")
    /\ dayCount' = [dayCount EXCEPT ![Key(h)] = call[h].read + 1]
    /\ Race(h, dayCount[Key(h)] # call[h].read)
    /\ Goto(h, "recordAll")
    /\ UNCHANGED <<process, window, dayStart, environment, granted, fresh, late, internals>>

\* The last record; the session is built, or refused (422), and the engine asked.
RecordAll(h) ==
    /\ At(h, "recordAll")
    /\ AppendTo(h, Instance)
    /\ Leave(h)
    /\ UNCHANGED <<process, day, environment, granted, fresh, raced, internals>>

Next ==
    \/ Start \/ Tick
    \/ \E h \in Handlers :
         \/ Arrive(h) \/ Prune(h) \/ Pop(h) \/ PopFails(h)
         \/ Refuse(h) \/ PassInstance(h)
         \/ ReadDay(h) \/ Reset(h) \/ Zero(h) \/ RefuseDay(h) \/ PassDay(h)
         \/ Grant(h) \/ Record(h) \/ ReadCount(h) \/ WriteCount(h) \/ RecordAll(h)

Spec == Init /\ [][Next]_vars

----------------------------------------------------------------------------
Calls == {NoCall} \cup [at : Places, queue : Queues, key : Keys, now : Times,
                        read : Nat, nth : Nat]

\* The limiter's state and its callers' locals are well typed.
TypeOK ==
    /\ config \in Configs /\ serving \in BOOLEAN
    /\ window \in [Queues -> Seq(Grants)]
    /\ dayStart \in [Keys -> Times \cup {Never}]
    /\ dayCount \in [Keys -> Nat]
    /\ call \in [Handlers -> Calls]
    /\ clock \in Times /\ calls \in 0..MaxCalls
    /\ granted \subseteq Grants /\ IsFiniteSet(granted)
    /\ fresh \in [Queues -> SUBSET Grants]
    /\ late \in [Queues -> BOOLEAN] /\ raced \in [Keys -> BOOLEAN]
    /\ internals \in BOOLEAN

\* The calls let through of those that arrived in the n ticks from s.
Span(q, s, n) == {g \in granted : q \in {Instance, g.key} /\ s <= g.now /\ g.now < s + n}
Granted(q, s, n) == Cardinality(Span(q, s, n))
Others == Cardinality(Handlers) - 1

\* RateLimiter.check tests and records without a lock.  In any minute it lets
\* through at most the limit, one call per other handler, and one for each
\* record that was pruned while a call it still counts for was in flight.
BoundedOvershoot ==
    \A q \in Queues, s \in Times :
        Granted(q, s, Minute) <= Limit(q) + Others + Cardinality(fresh[q])

\* The calls of a key let through since its count last restarted.
Today(k) == {g \in granted : g.key = k /\ dayStart[k] <= g.now}

\* The daily cap counts from a key's first call.  A count lets through the cap
\* and one call per other handler, so that a day across a restart sees twice
\* that and never more, while no call of the key is between its look at the
\* count and its own record when the count restarts, and none is let through
\* in a day that began after it arrived.
DayCap ==
    \A k \in Keys : ~raced[k] =>
        /\ Cardinality(Today(k)) <= PerDay + Others
        /\ \A s \in Times : Granted(k, s, Day) <= 2 * (PerDay + Others)

\* A caller is refused only for calls that were let through: a full deque holds
\* the last minute's, and the count reaches the cap within the last day, unless
\* a slow handler recorded late or the count was torn by a race.
RefusalsJustified ==
    [][\A h \in Handlers :
        /\ Refuse(h) =>
             \/ late[Queue(h)]
             \/ Granted(Queue(h), call[h].now - Minute + 1, MaxTime + Minute) >= Limit(Queue(h))
        /\ RefuseDay(h) =>
             \/ raced[Key(h)]
             \/ Granted(Key(h), call[h].now - Day + 1, MaxTime + Day) >= PerDay]_vars

\* A configuration that would reach a provider or an off-box store.
Live(c) ==
    \/ c.credentials
    \/ c.store = "surrealdb" /\ c.dsn = "cloud"
    \/ c.grader # "fake" \/ c.sql # "fake"

\* Between the start-up guard and the handlers' own check no process answers
\* with governance internals while its configuration reaches a live source.
InternalsOnlySynthetic == internals => ~Live(config)
=============================================================================
