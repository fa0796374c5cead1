------------------------------- MODULE Runner -------------------------------
(***************************************************************************)
(* The per-tenant scheduler and its cycle goroutines                       *)
(* (internal/runner/runner.go), the inbox they share, and the publisher at *)
(* the other end of it, which applies one result as one step here (module  *)
(* Publisher opens that step up).                                          *)
(*                                                                         *)
(* Run(t) fires cycle <<t, 1>>, <<t, 2>>, ... at moments of its choosing   *)
(* (module Schedule has the clock); each fire cancels the cycle before it  *)
(* and does not wait for it, so several cycles of one tenant may be alive. *)
(* A cycle runs its due queries one after the other and sends a result     *)
(* after each, and the pool's statistics at the end.  Queries are numbered *)
(* in the order of the merged, sorted query list.                          *)
(*                                                                         *)
(* A send is a Go select between the inbox and the cycle's context: when   *)
(* both are ready either may be taken; when neither is, the goroutine      *)
(* parks until one of them happens.                                        *)
(***************************************************************************)
EXTENDS Integers, Sequences, FiniteSets

CONSTANTS
    Tenants,      \* tenant ids
    NumQueries,   \* number of queries in the list
    Slow,         \* those with an interval_seconds of their own
    InboxCap,     \* capacity of the inbox (1024 in main.go)
    MaxConns,     \* connections in a tenant's pool
    MaxFires,     \* bound: fires of one scheduler
    MaxEmpty      \* bound: empty acquires of one pool

Query == 1 .. NumQueries

(* The cycle of tenant c[1] that its fire number c[2] starts.              *)
Cycles == Tenants \X (1 .. MaxFires)

ASSUME RunnerAssumption ==
    /\ NumQueries \in Nat
    /\ Slow \subseteq Query
    /\ InboxCap \in Nat \ {0}
    /\ MaxConns \in Nat \ {0}
    /\ MaxFires \in Nat
    /\ MaxEmpty \in Nat

VARIABLES
    ctxDone,      \* the root context is canceled
    sched,        \* sched[t]: where Run is: "stagger", "loop" or "returned"
    fires,        \* fires[t]: SchedulerFiresTotal{t}
    cpc,          \* cpc[c]: where runCycle is
    canceled,     \* canceled[c]: the cycle's own context is canceled
    todo,         \* todo[c]: due queries not yet sent
    out,          \* out[c]: the result in hand, the operand of the select
    inbox,        \* the buffered results
    inboxClosed,  \* close(inbox) has happened
    poolClosed,   \* poolClosed[t]: cat.Close has begun
    empty,        \* empty[t]: the pool's EmptyAcquireCount
    pub,          \* the publisher: "running" or "returned"
    applied,      \* applied[<<t, q>>]: the fire whose result the gauges show
    seen,         \* emptyAcquireSeen[t]
    baseline,     \* emptyAcquireBaselines[t]
    emptyTotal,   \* PoolEmptyAcquireTotal{t}
    firstSeen,    \* auxiliary: the count that seeded the first baseline
    late          \* auxiliary: late[c]: results c sent after its cancellation

schedVars == <<sched, fires>>
cycleVars == <<cpc, canceled, todo, out, late>>
poolVars == <<poolClosed, empty>>
pubVars == <<pub, applied, seen, baseline, emptyTotal, firstSeen>>
vars == <<ctxDone, schedVars, cycleVars, inbox, inboxClosed, poolVars, pubVars>>

NoResult == [kind |-> "none"]

(* Places of runCycle.  "unborn": not fired yet; "check": head of the      *)
(* loop over the due queries; "acquire" and "query": in Catalog.Query      *)
(* without and with a connection; "send": at the select; "parked": blocked *)
(* in it; "woken": its Done case has been taken.  The others are the ways  *)
(* it ends, as its deferred function counts them: CycleCompletedTotal,     *)
(* CycleKilledTotal, and QueryPanicsTotal{t, "_cycle"} for a panic in a    *)
(* send ("panicked") or in a query ("crashed").                            *)
Ended == {"completed", "killed", "panicked", "crashed"}
Alive(c) == cpc[c] \notin {"unborn"} \cup Ended

Init ==
    /\ ctxDone = FALSE
    /\ sched = [t \in Tenants |-> "stagger"]
    /\ fires = [t \in Tenants |-> 0]
    /\ cpc = [c \in Cycles |-> "unborn"]
    /\ canceled = [c \in Cycles |-> FALSE]
    /\ todo = [c \in Cycles |-> {}]
    /\ out = [c \in Cycles |-> NoResult]
    /\ late = [c \in Cycles |-> 0]
    /\ inbox = <<>>
    /\ inboxClosed = FALSE
    /\ poolClosed = [t \in Tenants |-> FALSE]
    /\ empty = [t \in Tenants |-> 0]
    /\ pub = "running"
    /\ applied = [o \in Tenants \X Query |-> 0]
    /\ seen = [t \in Tenants |-> FALSE]
    /\ baseline = [t \in Tenants |-> 0]
    /\ emptyTotal = [t \in Tenants |-> 0]
    /\ firstSeen = [t \in Tenants |-> 0]

----------------------------------------------------------------------------
(* Faulty: a cycle parked in its select is not woken.                      *)
CancelLeavesParked(S) ==
    /\ canceled' = [c \in Cycles |-> canceled[c] \/ c \in S]
    /\ UNCHANGED cpc

(* Canceling the contexts of a set of cycles wakes those parked in their   *)
(* select, which then cannot send any more.                                *)
Cancel(S) ==
    /\ canceled' = [c \in Cycles |-> canceled[c] \/ c \in S]
    /\ cpc' = [c \in Cycles |->
                 IF c \in S /\ cpc[c] = "parked" THEN "woken" ELSE cpc[c]]

(* Faulty: it holds on to no cycle.                                        *)
CancelsNothing(t) == {}

(* What cancelPrev cancels: the cycle of the last fire.                    *)
CancelPrev(t) == {<<t, fires[t]>>}

(* fire: cancel the previous cycle, start the next one.  A query without   *)
(* an interval is always due; on the first fire every query is (dueQueries *)
(* with an empty lastRun).  The new context is born canceled when its      *)
(* parent already is: the ticker's select may prefer a tick to a done      *)
(* context, and a tenant whose stagger is 0 does not look at it.           *)
Fire(t) ==
    /\ sched[t] \in {"stagger", "loop"}
    /\ fires[t] < MaxFires
    /\ LET new == <<t, fires[t] + 1>>
       IN  /\ canceled' = [c \in Cycles |->
                             IF c = new THEN ctxDone
                             ELSE canceled[c] \/ c \in CancelPrev(t)]
           /\ cpc' = [c \in Cycles |->
                        IF c = new THEN "check"
                        ELSE IF c \in CancelPrev(t) /\ cpc[c] = "parked"
                        THEN "woken" ELSE cpc[c]]
           /\ \E skipped \in SUBSET Slow :
                 /\ fires[t] = 0 => skipped = {}
                 /\ todo' = [todo EXCEPT ![new] = Query \ skipped]
    /\ fires' = [fires EXCEPT ![t] = @ + 1]
    /\ sched' = [sched EXCEPT ![t] = "loop"]
    /\ UNCHANGED <<ctxDone, out, late, inbox, inboxClosed, poolVars, pubVars>>

(* Run returns when the root context is done: while staggering, before its *)
(* deferred cancelPrev is set up; in the loop, canceling the last cycle.   *)
ReturnFromStagger(t) ==
    /\ sched[t] = "stagger"
    /\ ctxDone
    /\ sched' = [sched EXCEPT ![t] = "returned"]
    /\ UNCHANGED <<ctxDone, fires, cycleVars, inbox, inboxClosed, poolVars,
                   pubVars>>

ReturnFromLoop(t) ==
    /\ sched[t] = "loop"
    /\ ctxDone
    /\ sched' = [sched EXCEPT ![t] = "returned"]
    /\ Cancel(CancelPrev(t))
    /\ UNCHANGED <<ctxDone, fires, todo, out, late, inbox, inboxClosed,
                   poolVars, pubVars>>

(* The cancel function of the root context closes the root's channel first *)
(* and then cancels the children one by one.                               *)
CancelRoot ==
    /\ ~ctxDone
    /\ ctxDone' = TRUE
    /\ UNCHANGED <<schedVars, cycleVars, inbox, inboxClosed, poolVars, pubVars>>

Propagate(c) ==
    /\ ctxDone
    /\ Alive(c)
    /\ ~canceled[c]
    /\ Cancel({c})
    /\ UNCHANGED <<ctxDone, schedVars, todo, out, late, inbox, inboxClosed,
                   poolVars, pubVars>>

----------------------------------------------------------------------------
CycleStays == UNCHANGED <<ctxDone, schedVars, canceled, inboxClosed, pubVars>>

Goto(c, place) == cpc' = [cpc EXCEPT ![c] = place]

(* Faulty: the list is walked from its end.                                *)
CurrentFromLast(c) == CHOOSE q \in todo[c] : \A p \in todo[c] : q >= p

(* The query a cycle is at: the first of its list not yet sent.            *)
Current(c) == CHOOSE q \in todo[c] : \A p \in todo[c] : q <= p

(* Faulty: the context is not looked at between two queries.               *)
NeverKilled(c) == FALSE

KilledBefore(c) == canceled[c]

(* Head of the loop: ctx.Err() is looked at before each query, not after   *)
(* the last one.                                                           *)
CheckKilled(c) ==
    /\ cpc[c] = "check" /\ todo[c] # {} /\ KilledBefore(c)
    /\ Goto(c, "killed")
    /\ CycleStays /\ UNCHANGED <<todo, out, late, inbox, poolVars>>

BeginQuery(c) ==
    /\ cpc[c] = "check" /\ todo[c] # {} /\ ~KilledBefore(c)
    /\ Goto(c, "acquire")
    /\ CycleStays /\ UNCHANGED <<todo, out, late, inbox, poolVars>>

Holding(t) == { c \in Cycles : c[1] = t /\ cpc[c] = "query" }

(* A connection from the pool; an acquire that finds none idle is counted. *)
Acquire(c) ==
    /\ cpc[c] = "acquire" /\ ~canceled[c]
    /\ ~poolClosed[c[1]]
    /\ Cardinality(Holding(c[1])) < MaxConns
    /\ Goto(c, "query")
    /\ \/ UNCHANGED empty
       \/ empty[c[1]] < MaxEmpty /\ empty' = [empty EXCEPT ![c[1]] = @ + 1]
    /\ CycleStays /\ UNCHANGED <<todo, out, late, inbox, poolClosed>>

QueryResult(c, ok) ==
    [kind |-> "query", cycle |-> c, query |-> Current(c), ok |-> ok]

(* Without a connection the query fails: the pool is closed, the context   *)
(* is canceled, QueryTimeout runs out, or a new connection cannot be made  *)
(* in place of one that was lost.                                          *)
AcquireFails(c) ==
    /\ cpc[c] = "acquire"
    /\ Goto(c, "send")
    /\ out' = [out EXCEPT ![c] = QueryResult(c, FALSE)]
    /\ CycleStays /\ UNCHANGED <<todo, late, inbox, poolVars>>

(* The query comes back, with rows or with an error, and the connection    *)
(* goes back to the pool.  A canceled query may still have its rows.       *)
QueryReturns(c) ==
    /\ cpc[c] = "query"
    /\ Goto(c, "send")
    /\ \E ok \in BOOLEAN : out' = [out EXCEPT ![c] = QueryResult(c, ok)]
    /\ CycleStays /\ UNCHANGED <<todo, late, inbox, poolVars>>

(* A panic below Catalog.Query: rows are closed on the way up, and the     *)
(* deferred function of runCycle recovers.                                 *)
QueryCrashes(c) ==
    /\ cpc[c] = "query"
    /\ Goto(c, "crashed")
    /\ CycleStays /\ UNCHANGED <<todo, out, late, inbox, poolVars>>

(* After the last query: Stat() is evaluated on the way into the select.   *)
ReadStat(c) ==
    /\ cpc[c] = "check" /\ todo[c] = {}
    /\ Goto(c, "send")
    /\ out' = [out EXCEPT ![c] =
                 [kind |-> "stat", cycle |-> c, empty |-> empty[c[1]]]]
    /\ CycleStays /\ UNCHANGED <<todo, late, inbox, poolVars>>

(* Faulty: the query stays in the list of what is to be done.              *)
TodoAfterKeepsQuery(c) == IF out[c].kind = "stat" THEN {} ELSE todo[c]

TodoAfter(c) == IF out[c].kind = "stat" THEN {} ELSE todo[c] \ {out[c].query}

(* What a cycle does once its result is in the inbox.                      *)
AfterSend(c) ==
    /\ Goto(c, IF out[c].kind = "stat" THEN "completed" ELSE "check")
    /\ todo' = [todo EXCEPT ![c] = TodoAfter(c)]
    /\ out' = [out EXCEPT ![c] = NoResult]

(* The select, with room in the inbox.                                     *)
Send(c) ==
    /\ cpc[c] = "send"
    /\ ~inboxClosed
    /\ Len(inbox) < InboxCap
    /\ inbox' = Append(inbox, [result |-> out[c], late |-> canceled[c]])
    /\ late' = [late EXCEPT ![c] = IF canceled[c] THEN @ + 1 ELSE @]
    /\ AfterSend(c)
    /\ CycleStays /\ UNCHANGED poolVars

(* Faulty: a plain send, which the context does not end.                   *)
AbortMissing(c) == FALSE

(* The select, with the context done.                                      *)
Abort(c) ==
    /\ cpc[c] = "send" /\ canceled[c]
    /\ Goto(c, "killed")
    /\ out' = [out EXCEPT ![c] = NoResult]
    /\ CycleStays /\ UNCHANGED <<todo, late, inbox, poolVars>>

(* The select, with neither.                                               *)
Park(c) ==
    /\ cpc[c] = "send"
    /\ ~inboxClosed
    /\ Len(inbox) = InboxCap
    /\ ~canceled[c]
    /\ Goto(c, "parked")
    /\ CycleStays /\ UNCHANGED <<todo, out, late, inbox, poolVars>>

(* The select, with the inbox closed: that case is ready, and panics.  The *)
(* deferred function recovers.                                             *)
SendOnClosed(c) ==
    /\ cpc[c] = "send" /\ inboxClosed
    /\ Goto(c, "panicked")
    /\ out' = [out EXCEPT ![c] = NoResult]
    /\ CycleStays /\ UNCHANGED <<todo, late, inbox, poolVars>>

Unwind(c) ==
    /\ cpc[c] = "woken"
    /\ Goto(c, "killed")
    /\ out' = [out EXCEPT ![c] = NoResult]
    /\ CycleStays /\ UNCHANGED <<todo, late, inbox, poolVars>>

(* A step of runCycle.  SendOnClosed is left to the module Daemon, which   *)
(* closes the inbox.                                                       *)
CycleStep(c) ==
    \/ CheckKilled(c) \/ BeginQuery(c)
    \/ Acquire(c) \/ AcquireFails(c) \/ QueryReturns(c) \/ QueryCrashes(c)
    \/ ReadStat(c)
    \/ Send(c) \/ Abort(c) \/ Park(c) \/ Unwind(c)

----------------------------------------------------------------------------
(* Faulty: the first observation counts as growth from zero; the baseline  *)
(* is moved before the growth is computed, which makes it none.            *)
GrowthFromZero(t, n) == IF n > baseline[t] THEN n - baseline[t] ELSE 0

GrowthAfterMove(t, n) == 0

Growth(t, n) == IF seen[t] /\ n > baseline[t] THEN n - baseline[t] ELSE 0

(* bumpEmptyAcquireCounter: seed, add the growth, or re-seed.              *)
BumpEmptyAcquire(t, n) ==
    /\ seen' = [seen EXCEPT ![t] = TRUE]
    /\ baseline' = [baseline EXCEPT ![t] = n]
    /\ emptyTotal' = [emptyTotal EXCEPT ![t] = @ + Growth(t, n)]
    /\ firstSeen' = [firstSeen EXCEPT ![t] = IF seen[t] THEN @ ELSE n]

(* The publisher applies a result.  A failed one leaves the gauges.        *)
ApplyResult(r) ==
    \/ /\ r.kind = "query"
       /\ applied' = IF r.ok
                     THEN [applied EXCEPT ![<<r.cycle[1], r.query>>] =
                                           r.cycle[2]]
                     ELSE applied
       /\ UNCHANGED <<seen, baseline, emptyTotal, firstSeen>>
    \/ /\ r.kind = "stat"
       /\ BumpEmptyAcquire(r.cycle[1], r.empty)
       /\ UNCHANGED applied

Parked == { c \in Cycles : cpc[c] = "parked" }

(* A receive from a channel with blocked senders moves one of them into    *)
(* the buffer.  Go serves them first come, first served; any of them may   *)
(* be served here, which matters only between tenants.                     *)
Receive ==
    /\ pub = "running"
    /\ inbox # <<>>
    /\ ApplyResult(Head(inbox).result)
    /\ \/ /\ Parked = {}
          /\ inbox' = Tail(inbox)
          /\ UNCHANGED <<cpc, todo, out>>
       \/ \E c \in Parked :
             /\ inbox' = Append(Tail(inbox),
                                [result |-> out[c], late |-> FALSE])
             /\ AfterSend(c)
    /\ UNCHANGED <<ctxDone, schedVars, canceled, late, inboxClosed, poolVars,
                   pub>>

(* Publisher.Run returns on a done context, whatever the inbox holds, or   *)
(* when the inbox is closed and empty.                                     *)
PublisherReturns ==
    /\ pub = "running"
    /\ ctxDone \/ (inboxClosed /\ inbox = <<>>)
    /\ pub' = "returned"
    /\ UNCHANGED <<ctxDone, schedVars, cycleVars, inbox, inboxClosed, poolVars,
                   applied, seen, baseline, emptyTotal, firstSeen>>

SchedulerStep(t) == Fire(t) \/ ReturnFromStagger(t) \/ ReturnFromLoop(t)

PublisherStep == Receive \/ PublisherReturns

----------------------------------------------------------------------------
(* Everything has come to its end.  Any other state without a successor is *)
(* a deadlock.                                                             *)
Quiescent ==
    /\ \A t \in Tenants : sched[t] = "returned"
    /\ \A c \in Cycles : ~Alive(c)
    /\ pub = "returned"
    /\ UNCHANGED vars

(* The runners and the publisher by themselves: the root context may be    *)
(* canceled at any moment, and nobody closes the pools or the inbox        *)
(* (module Daemon says when main does).                                    *)
Next ==
    \/ \E t \in Tenants : SchedulerStep(t)
    \/ \E c \in Cycles : CycleStep(c) \/ Propagate(c)
    \/ CancelRoot
    \/ PublisherStep
    \/ Quiescent

Spec == Init /\ [][Next]_vars

(* Goroutines are scheduled, and a query in Catalog.Query comes back: its  *)
(* context has a timeout.  Nothing is assumed of the publisher, of the     *)
(* ticker or of whoever cancels the root.                                  *)
FairCycles == Spec /\ \A c \in Cycles : WF_vars(CycleStep(c))

----------------------------------------------------------------------------
Results ==
    {NoResult}
    \cup [kind : {"query"}, cycle : Cycles, query : Query, ok : BOOLEAN]
    \cup [kind : {"stat"}, cycle : Cycles, empty : 0 .. MaxEmpty]

Places == {"unborn", "check", "acquire", "query", "send", "parked", "woken"}
          \cup Ended

(* Ranges; a cycle has a result in hand exactly while it is at the select, *)
(* and parks there only when neither case of the select is ready.          *)
TypeOK ==
    /\ ctxDone \in BOOLEAN
    /\ sched \in [Tenants -> {"stagger", "loop", "returned"}]
    /\ fires \in [Tenants -> 0 .. MaxFires]
    /\ cpc \in [Cycles -> Places]
    /\ canceled \in [Cycles -> BOOLEAN]
    /\ todo \in [Cycles -> SUBSET Query]
    /\ out \in [Cycles -> Results]
    /\ late \in [Cycles -> Nat]
    /\ inbox \in Seq([result : Results \ {NoResult}, late : BOOLEAN])
    /\ Len(inbox) <= InboxCap
    /\ inboxClosed \in BOOLEAN
    /\ poolClosed \in [Tenants -> BOOLEAN]
    /\ empty \in [Tenants -> 0 .. MaxEmpty]
    /\ pub \in {"running", "returned"}
    /\ applied \in [Tenants \X Query -> 0 .. MaxFires]
    /\ seen \in [Tenants -> BOOLEAN]
    /\ baseline \in [Tenants -> 0 .. MaxEmpty]
    /\ emptyTotal \in [Tenants -> Nat]
    /\ firstSeen \in [Tenants -> 0 .. MaxEmpty]
    /\ \A c \in Cycles :
          /\ cpc[c] = "unborn" <=> c[2] > fires[c[1]]
          /\ out[c] # NoResult <=> cpc[c] \in {"send", "parked", "woken"}
          /\ cpc[c] = "parked" => ~canceled[c] /\ Len(inbox) = InboxCap
          /\ cpc[c] = "woken" => canceled[c]
          /\ cpc[c] \in {"acquire", "query"} => todo[c] # {}

(* A cycle nobody has canceled is the newest of its tenant, and its        *)
(* scheduler is still there to cancel it: each fire kills the one before   *)
(* it and Run does not return over a running cycle (fire, runner.go:142;   *)
(* the deferred cancelPrev, runner.go:128), so cycles cannot pile up       *)
(* holding connections and inbox slots.                                    *)
OnlyNewestRuns ==
    \A c \in Cycles :
        (Alive(c) /\ ~canceled[c]) =>
            c[2] = fires[c[1]] /\ sched[c[1]] = "loop"

(* A canceled cycle does not stop at once, but it gets no further than the *)
(* result it was working on and, if that was its last query, the pool's    *)
(* statistics, which runCycle sends without looking at the context again   *)
(* (runner.go:199, 217-235).                                               *)
FewLateSends ==
    \A c \in Cycles :
        /\ late[c] <= 2
        /\ late[c] = 2 => cpc[c] = "completed"
        /\ late[c] = 1 => cpc[c] \in {"check", "send"} \cup Ended
        /\ (late[c] = 1 /\ cpc[c] = "send") => out[c].kind = "stat"

(* The gauges of a query go back to an older cycle's rows only through a   *)
(* result sent after its cycle had been canceled: without overruns the     *)
(* inbox keeps the order of the cycles (fire, runCycle's selects).         *)
StaleOnlyFromKilled ==
    [][\A o \in Tenants \X Query :
          applied'[o] < applied[o] => Head(inbox).late]_vars

(* AGENT.md:114: one cycle's results are in the inbox in the order of the  *)
(* query list, each query once, and the pool's statistics come last.       *)
Rank(r) == IF r.kind = "stat" THEN NumQueries + 1 ELSE r.query

SerialWithinCycle ==
    \A i, j \in DOMAIN inbox :
        LET a == inbox[i].result
            b == inbox[j].result
        IN  (i < j /\ a.cycle = b.cycle) => Rank(a) < Rank(b)

(* As long as no result was sent late, PoolEmptyAcquireTotal is exactly    *)
(* what the pool counted since the first observation, the warm-up apart    *)
(* (publisher.go:268-288), and not more than the pool's own counter.       *)
EmptyCounterExact ==
    \A t \in Tenants :
        (\A c \in Cycles : c[1] = t => late[c] = 0) =>
            /\ emptyTotal[t] = baseline[t] - firstSeen[t]
            /\ baseline[t] <= empty[t]

(* Late results or not, the counter never misses growth it was shown.      *)
EmptyCounterMissesNothing ==
    \A t \in Tenants : emptyTotal[t] >= baseline[t] - firstSeen[t]

(* Every query of every cycle is attempted at most once, and applied at    *)
(* most once or lost for good, however cycles overlap, park, are killed,   *)
(* or send late: the schedulers, the inbox and the publisher together are  *)
(* a Pipeline, in which the attempts under way are those still to be sent  *)
(* and those in the inbox (fire, runCycle, Publisher.Run).                 *)
UnderWay(t, q, n) ==
    \/ Alive(<<t, n>>) /\ q \in todo[<<t, n>>]
    \/ \E i \in DOMAIN inbox :
          LET r == inbox[i].result
          IN  r.kind = "query" /\ r.cycle = <<t, n>> /\ r.query = q

Pending ==
    [o \in Tenants \X Query |->
        { n \in 1 .. fires[o[1]] : UnderWay(o[1], o[2], n) }]

Attempts ==
    INSTANCE Pipeline WITH
        started <- fires, shown <- applied, pending <- Pending

ImplementsPipeline == Attempts!PipeSpec

(* A canceled cycle ends: it cannot be held up by a full inbox or by a     *)
(* publisher that has gone (the ctx.Done case of both selects, and the     *)
(* context handed to Catalog.Query).                                       *)
KilledCyclesEnd == \A c \in Cycles : canceled[c] ~> ~Alive(c)

----------------------------------------------------------------------------
(* What the documents say and the code does not do.                        *)

(* AGENT.md:114, "keeps the publisher inbox order deterministic per        *)
(* tenant": a newer result is never overwritten by an older one.           *)
NoStaleOverwrite ==
    [][\A o \in Tenants \X Query : applied'[o] >= applied[o]]_vars

(* AGENT.md:98, "pgxpool acquire-on-empty events (delta-only, no startup   *)
(* spike)": the counter never exceeds what the pool counted.               *)
EmptyCounterNotAbovePool ==
    \A t \in Tenants : seen[t] => emptyTotal[t] <= empty[t] - firstSeen[t]

============================================================================
