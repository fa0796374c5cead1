--------------------------- MODULE DaemonProofs -------------------------------
(***************************************************************************)
(* Theorems about the whole process: the tenant goroutines, main, the HTTP *)
(* server, and what the runners, the inbox and the publisher keep to while *)
(* schedulers panic, pools are closed and the inbox is.                    *)
(***************************************************************************)
EXTENDS Daemon, PipelineProofs

(* Ranges of main's own state.                                             *)
DaemonRanges ==
    /\ main \in {"serving", "waiting", "draining", "stopping", "joining",
                 "exit0", "exit1"}
    /\ life \in [Tenants -> {"opening", "backoff", "opened", "marking",
                             "running", "down", "closing", "done"}]
    /\ up \in [Tenants -> {"absent", "0", "1"}]
    /\ ready \in [Tenants -> BOOLEAN]
    /\ failures \in [Tenants -> 0 .. MaxFailures]
    /\ panicked \in [Tenants -> BOOLEAN]
    /\ http \in {"serving", "returned"}
    /\ httpErr \in BOOLEAN
    /\ gaveUp \in BOOLEAN

(* How far a tenant goroutine is, and what its scheduler, its pool and its *)
(* gauge have come to by then.                                             *)
Connecting(t) == life[t] \in {"opening", "backoff", "opened", "marking"}

LifeOK(t) ==
    /\ Connecting(t) => sched[t] = "stagger"
    /\ sched[t] = "stagger" => fires[t] = 0
    /\ sched[t] = "returned" => ctxDone \/ panicked[t]
    /\ sched[t] # "stagger" => ready[t]
    /\ life[t] = "marking" => up[t] = "1"
    /\ life[t] = "running" => ready[t]
    /\ life[t] \in {"down", "closing"} => sched[t] = "returned"
    /\ life[t] = "closing" => poolClosed[t]
    /\ life[t] = "done" =>
          sched[t] = "stagger" \/ (sched[t] = "returned" /\ poolClosed[t])
    /\ poolClosed[t] => life[t] \in {"closing", "done"}
    /\ ready[t] => up[t] # "absent"
    /\ up[t] = "0" => ctxDone \/ panicked[t]

LifeInv == \A t \in Tenants : LifeOK(t)

RunnerInv == TypeOK /\ OnlyNewestRuns /\ QueueInv /\ OrderInv

(* Most steps of the process are steps of module Runner, or none of its.   *)
LEMMA DaemonSteps ==
    ASSUME [DaemonNext]_daemonVars
    PROVE  \/ [Next]_vars
           \/ \E c \in Cycles : SendOnClosed(c)
           \/ \E t \in Tenants : SchedulerPanics(t) \/ BeginClose(t)
           \/ HTTPFails
           \/ CloseInbox
<1> USE DEF vars, TenantOnly, MainOnly
<1>1. ASSUME NEW t \in Tenants, TenantStep(t), ~BeginClose(t) PROVE [Next]_vars
  BY <1>1 DEF TenantStep, OpenFails, Retry, GiveUpConnecting, OpenSucceeds,
     SetUp, MarkReady, RunScheduler, SetDown, EndClose, Next
<1>2. ASSUME NEW c \in Cycles, CycleGoes(c), ~SendOnClosed(c) PROVE [Next]_vars
  BY <1>2 DEF CycleGoes, Next
<1>3. PublisherGoes => [Next]_vars
  BY DEF PublisherGoes, Next
<1>4. MainStep /\ ~CloseInbox => [Next]_vars
  BY DEF MainStep, SeeDone, SeePublisherDone, DrainTimeout, Shutdown, Exit
<1>5. Signal => [Next]_vars
  BY DEF Signal, Next
<1>6. ProcessGone \/ UNCHANGED daemonVars => [Next]_vars
  BY DEF ProcessGone, daemonVars
<1> QED
  BY <1>1, <1>2, <1>3, <1>4, <1>5, <1>6 DEF DaemonNext

(* Main's own variables stay in their ranges.                              *)
LEMMA DaemonRangesNext ==
    ASSUME DaemonRanges, [DaemonNext]_daemonVars
    PROVE  DaemonRanges'
<1> USE DEF DaemonRanges, TenantOnly, MainOnly, mainVars, tenantVars, Enter
<1>1. ASSUME NEW t \in Tenants, TenantStep(t) \/ SchedulerPanics(t)
      PROVE  DaemonRanges'
  <2>1. CASE OpenFails(t)
    BY <2>1, DaemonAssumption DEF OpenFails, AfterFailure
  <2> QED
    BY <1>1, <2>1 DEF TenantStep, Retry, GiveUpConnecting, OpenSucceeds,
       SetUp, MarkReady, RunScheduler, SetDown, BeginClose, EndClose,
       SchedulerPanics
<1>2. CASE MainStep \/ Signal \/ HTTPFails
  BY <1>2 DEF MainStep, SeeDone, CloseInbox, SeePublisherDone, DrainTimeout,
     Shutdown, Exit, Signal, HTTPFails
<1>3. ASSUME NEW c \in Cycles, CycleGoes(c) PROVE DaemonRanges'
  BY <1>3 DEF CycleGoes
<1>4. CASE PublisherGoes \/ ProcessGone \/ UNCHANGED daemonVars
  BY <1>4 DEF PublisherGoes, ProcessGone, daemonVars
<1> QED
  BY <1>1, <1>2, <1>3, <1>4 DEF DaemonNext

----------------------------------------------------------------------------
(* A step that no tenant goroutine takes part in.                          *)
LEMMA LifeStays ==
    ASSUME LifeInv, UNCHANGED <<sched, fires, poolClosed, life, up, ready,
                                panicked>>,
           ctxDone => ctxDone'
    PROVE  LifeInv'
BY DEF LifeInv, LifeOK, Connecting

(* A step of another tenant goroutine, or one that only cancels the root.  *)
LEMMA OtherTenant ==
    ASSUME LifeInv, NEW u \in Tenants, ctxDone => ctxDone',
           sched'[u] = sched[u], fires'[u] = fires[u],
           poolClosed'[u] = poolClosed[u], life'[u] = life[u], up'[u] = up[u],
           ready'[u] = ready[u], panicked'[u] = panicked[u]
    PROVE  LifeOK(u)'
BY DEF LifeInv, LifeOK, Connecting

(* What a step of tenant t leaves alone.                                   *)
LEMMA TenantFrame ==
    ASSUME TypeOK, DaemonRanges, NEW t \in Tenants,
           TenantStep(t) \/ SchedulerPanics(t), NEW u \in Tenants, u # t
    PROVE  /\ ctxDone' = ctxDone
           /\ sched'[u] = sched[u] /\ fires'[u] = fires[u]
           /\ poolClosed'[u] = poolClosed[u]
           /\ life'[u] = life[u] /\ up'[u] = up[u] /\ ready'[u] = ready[u]
           /\ panicked'[u] = panicked[u]
<1> USE DEF TypeOK, DaemonRanges, TenantOnly, mainVars, tenantVars, Enter,
            vars, schedVars, poolVars
<1>1. CASE RunScheduler(t)
  BY <1>1 DEF RunScheduler, SchedulerStep, Fire, ReturnFromStagger,
     ReturnFromLoop
<1>2. CASE SchedulerPanics(t)
  BY <1>2 DEF SchedulerPanics
<1>3. CASE BeginClose(t)
  BY <1>3 DEF BeginClose
<1> QED
  BY <1>1, <1>2, <1>3 DEF TenantStep, OpenFails, Retry, GiveUpConnecting,
     OpenSucceeds, SetUp, MarkReady, SetDown, EndClose

(* Each place of runTenant and of connectWithBackoff.                      *)
LEMMA LifeTenant ==
    ASSUME TypeOK, DaemonRanges, LifeInv, NEW t \in Tenants,
           TenantStep(t) \/ SchedulerPanics(t)
    PROVE  LifeInv'
<1>1. ASSUME NEW u \in Tenants, u # t PROVE LifeOK(u)'
  BY <1>1, TenantFrame, OtherTenant
<1>2. LifeOK(t)'
  <2>0. LifeOK(t)
    BY DEF LifeInv
  <2> USE <2>0 DEF LifeOK, Connecting, TenantOnly, Enter, vars, schedVars, poolVars,
              DaemonRanges
  <2>1. CASE OpenFails(t)
    BY <2>1 DEF OpenFails, AfterFailure
  <2>2. CASE Retry(t)
    BY <2>2 DEF Retry
  <2>3. CASE GiveUpConnecting(t)
    BY <2>3 DEF GiveUpConnecting
  <2>4. CASE OpenSucceeds(t)
    BY <2>4 DEF OpenSucceeds
  <2>5. CASE SetUp(t)
    BY <2>5 DEF SetUp
  <2>6. CASE MarkReady(t)
    BY <2>6 DEF MarkReady
  <2>7. CASE SetDown(t)
    BY <2>7 DEF SetDown
  <2>8. CASE BeginClose(t)
    BY <2>8 DEF BeginClose, TypeOK
  <2>9. CASE EndClose(t)
    BY <2>9 DEF EndClose
  <2>10. CASE RunScheduler(t)
    <3>1. /\ life[t] = "running" /\ UNCHANGED <<life, up, ready, panicked>>
          /\ UNCHANGED <<ctxDone, poolClosed>>
          /\ \/ sched'[t] = "loop"
             \/ sched'[t] = "returned" /\ ctxDone
      BY <2>10 DEF RunScheduler, SchedulerStep, Fire, ReturnFromStagger,
         ReturnFromLoop, tenantVars, TypeOK
    <3> QED
      BY <3>1
  <2>11. CASE SchedulerPanics(t)
    BY <2>11 DEF SchedulerPanics, TypeOK
  <2> QED
    BY <2>1, <2>2, <2>3, <2>4, <2>5, <2>6, <2>7, <2>8, <2>9, <2>10, <2>11
       DEF TenantStep
<1> QED
  BY <1>1, <1>2 DEF LifeInv

(* The tenant goroutines, whatever the process does.                       *)
LEMMA LifeNext ==
    ASSUME TypeOK, DaemonRanges, LifeInv, [DaemonNext]_daemonVars
    PROVE  LifeInv'
<1> USE DEF MainOnly, mainVars, tenantVars, vars, schedVars, poolVars
<1>1. ASSUME NEW c \in Cycles, CycleGoes(c) PROVE LifeInv'
  <2>1. UNCHANGED <<ctxDone, sched, fires, poolClosed>>
    BY <1>1 DEF CycleGoes, CycleStep, SendOnClosed, CheckKilled,
       BeginQuery, Acquire, AcquireFails, QueryReturns, QueryCrashes, ReadStat,
       Send, Abort, Park, Unwind, CycleStays, Propagate
  <2>2. UNCHANGED <<life, up, ready, panicked>>
    BY <1>1 DEF CycleGoes
  <2> QED
    BY <2>1, <2>2, LifeStays
<1>2. CASE PublisherGoes
  BY <1>2, LifeStays DEF PublisherGoes, PublisherStep, Receive,
     PublisherReturns
<1>3. CASE MainStep \/ Signal \/ HTTPFails
  BY <1>3, LifeStays DEF MainStep, SeeDone, CloseInbox, SeePublisherDone,
     DrainTimeout, Shutdown, Exit, Signal, CancelRoot, HTTPFails
<1>4. CASE ProcessGone \/ UNCHANGED daemonVars
  BY <1>4, LifeStays DEF ProcessGone, daemonVars
<1> QED
  BY <1>1, <1>2, <1>3, <1>4, LifeTenant DEF DaemonNext

----------------------------------------------------------------------------
(* The invariants of the runners, in a process that also panics, closes    *)
(* pools and closes the inbox.                                             *)
LEMMA NobodySends ==
    ASSUME TypeOK, OnlyNewestRuns, LifeInv, NEW c \in Cycles,
           life[c[1]] = "done", Alive(c)
    PROVE  canceled[c] /\ cpc[c] # "parked"
<1>1. c[1] \in Tenants /\ CycleOK(c)
  BY CycleFacts, TypeParts
<1>2. sched[c[1]] # "loop"
  BY <1>1 DEF LifeInv, LifeOK
<1> QED
  BY <1>1, <1>2 DEF OnlyNewestRuns, CycleOK

(* A step that only wakes parked cycles.                                   *)
LEMMA QueueUndisturbed ==
    ASSUME TypeOK, QueueInv, UNCHANGED <<todo, out, inbox>>,
           \A c \in Cycles : \/ cpc'[c] = cpc[c]
                             \/ cpc[c] = "parked" /\ cpc'[c] = "woken"
    PROVE  QueueInv'
<1>1. \A c \in Cycles :
         /\ Handed(c)'
         /\ cpc[c] # "unborn" => cpc'[c] # "unborn" /\ todo'[c] \subseteq todo[c]
         /\ cpc[c] = "completed" => cpc'[c] = "completed"
  BY DEF QueueInv, Handed
<1> QED
  BY <1>1, InboxStays, QueueStays

(* A panic in Run cancels what a return from it cancels.                   *)
LEMMA RunnerPanic ==
    ASSUME RunnerInv, NEW t \in Tenants, SchedulerPanics(t)
    PROVE  RunnerInv'
<1>1. TypeOK'
  BY TypeRetire DEF RunnerInv, SchedulerPanics
<1>2. OnlyNewestRuns'
  BY NewestRetire DEF RunnerInv, SchedulerPanics
<1>3. QueueInv'
  <2>1. \A c \in Cycles : \/ cpc'[c] = cpc[c]
                          \/ cpc[c] = "parked" /\ cpc'[c] = "woken"
    BY DEF SchedulerPanics, Cancel
  <2> QED
    BY <2>1, QueueUndisturbed DEF RunnerInv, SchedulerPanics
<1>4. OrderInv'
  BY <1>1, NumberFacts, OrderStays DEF RunnerInv, SchedulerPanics, pubVars
<1> QED
  BY <1>1, <1>2, <1>3, <1>4 DEF RunnerInv

(* Nobody is parked when the inbox is closed, so closing it wakes nobody.  *)
LEMMA RunnerClosesInbox ==
    ASSUME RunnerInv, LifeInv, CloseInbox
    PROVE  RunnerInv'
<1> USE DEF RunnerInv
<1>1. cpc' = cpc
  <2>1. cpc \in [Cycles -> Places] /\ \A c \in Cycles : c[1] \in Tenants
    BY CycleFacts DEF TypeOK
  <2>2. \A c \in Cycles : cpc[c] # "parked"
    BY <2>1, NobodySends DEF CloseInbox, TenantsGone, Alive, Ended
  <2> QED
    BY <2>1, <2>2 DEF CloseInbox
<1>2. UNCHANGED <<ctxDone, sched, fires, canceled, todo, out, late, inbox,
                  poolVars, pubVars>> /\ inboxClosed' = TRUE
  BY DEF CloseInbox, schedVars
<1>3. TypeOK'
  BY <1>1, <1>2 DEF TypeOK, poolVars, pubVars
<1>4. OnlyNewestRuns'
  BY <1>1, <1>2, NewestStays DEF schedVars, Alive
<1>5. QueueInv'
  BY <1>1, <1>2, QueueUndisturbed
<1>6. OrderInv'
  BY <1>2, <1>3, NumberFacts, OrderStays DEF pubVars
<1> QED
  BY <1>3, <1>4, <1>5, <1>6

(* The other steps that are none of module Runner move nothing but flags.  *)
LEMMA RunnerFlags ==
    ASSUME RunnerInv,
           \/ \E t \in Tenants : BeginClose(t)
           \/ HTTPFails
    PROVE  RunnerInv'
<1> USE DEF RunnerInv
<1>1. /\ UNCHANGED <<schedVars, cycleVars, inbox, inboxClosed, empty, pubVars>>
      /\ ctxDone' \in BOOLEAN /\ poolClosed' \in [Tenants -> BOOLEAN]
  BY DEF BeginClose, HTTPFails, TypeOK, poolVars
<1>2. TypeOK'
  BY <1>1 DEF TypeOK, schedVars, cycleVars, pubVars
<1>3. OnlyNewestRuns'
  BY <1>1, NewestStays DEF cycleVars, Alive
<1>4. QueueInv'
  BY <1>1, QueueUndisturbed DEF cycleVars
<1>5. OrderInv'
  BY <1>1, <1>2, NumberFacts, OrderStays DEF schedVars, pubVars
<1> QED
  BY <1>2, <1>3, <1>4, <1>5

(* The runners keep their invariants, whatever the process does to them.   *)
LEMMA RunnerNext ==
    ASSUME RunnerInv, LifeInv, [DaemonNext]_daemonVars
    PROVE  RunnerInv'
<1> USE DEF RunnerInv
<1>1. CASE [Next]_vars
  BY <1>1, TypeNext, NewestNext, QueueNext, OrderNext
<1>2. ASSUME NEW c \in Cycles, SendOnClosed(c) PROVE RunnerInv'
  <2>1. TypeOK' /\ OnlyNewestRuns' /\ QueueInv'
    BY <1>2, TypeCycleStep, NewestCycleStep, QueueCycleStep
  <2>2. inbox' = inbox /\ applied' = applied /\ fires' = fires
    BY <1>2 DEF SendOnClosed, CycleStays, schedVars, pubVars
  <2> QED
    BY <2>1, <2>2, NumberFacts, OrderStays
<1> QED
  BY <1>1, <1>2, RunnerPanic, RunnerClosesInbox, RunnerFlags, DaemonSteps

----------------------------------------------------------------------------
(* main, the HTTP server and the publisher at the end of the process.      *)
Closing == {"draining", "stopping", "joining", "exit0", "exit1"}

MainInv ==
    /\ inboxClosed <=> main \in Closing
    /\ inboxClosed => TenantsGone
    /\ main \in Closing \ {"draining"} => pub = "returned" \/ gaveUp
    /\ (http = "returned" /\ ~httpErr) => main \in {"joining", "exit0", "exit1"}
    /\ Exited => http = "returned" /\ (main = "exit1" <=> httpErr)

(* A tenant goroutine that is gone does not come back.                     *)
LEMMA DoneStays ==
    ASSUME TypeOK, DaemonRanges, [DaemonNext]_daemonVars, NEW t \in Tenants,
           life[t] = "done"
    PROVE  life'[t] = "done"
<1>1. ASSUME NEW u \in Tenants, TenantStep(u) \/ SchedulerPanics(u)
      PROVE  life'[t] = "done"
  <2>1. CASE u = t
    BY <1>1, <2>1 DEF TenantStep, OpenFails, Retry, GiveUpConnecting,
       OpenSucceeds, SetUp, MarkReady, RunScheduler, SetDown, BeginClose,
       EndClose, SchedulerPanics, Enter, tenantVars
  <2> QED
    BY <1>1, <2>1, TenantFrame
<1>2. ASSUME NEW c \in Cycles, CycleGoes(c) PROVE life' = life
  BY <1>2 DEF CycleGoes, tenantVars
<1>3. CASE PublisherGoes \/ MainStep \/ Signal \/ HTTPFails \/ ProcessGone
           \/ UNCHANGED daemonVars
  BY <1>3 DEF PublisherGoes, MainStep, SeeDone, CloseInbox, SeePublisherDone,
     DrainTimeout, Shutdown, Exit, Signal, HTTPFails, ProcessGone, daemonVars,
     MainOnly, tenantVars
<1> QED
  BY <1>1, <1>2, <1>3 DEF DaemonNext

(* A step that main and the publisher are not part of.                     *)
LEMMA MainStays ==
    ASSUME MainInv, TenantsGone => TenantsGone',
           UNCHANGED <<mainVars, inboxClosed>>,
           pub = "returned" => pub' = "returned"
    PROVE  MainInv'
BY DEF MainInv, mainVars, Exited

(* Main, step by step.                                                     *)
LEMMA MainNext ==
    ASSUME TypeOK, DaemonRanges, MainInv, [DaemonNext]_daemonVars
    PROVE  MainInv'
<1>0. TenantsGone => TenantsGone'
  BY DoneStays DEF TenantsGone
<1>1. ASSUME NEW t \in Tenants, TenantStep(t) \/ SchedulerPanics(t)
      PROVE  MainInv'
  <2>1. UNCHANGED <<mainVars, inboxClosed, pub>>
    BY <1>1 DEF TenantStep, OpenFails, Retry, GiveUpConnecting, OpenSucceeds,
       SetUp, MarkReady, RunScheduler, SchedulerStep, Fire, ReturnFromStagger,
       ReturnFromLoop, SetDown, BeginClose, EndClose, SchedulerPanics,
       TenantOnly, vars, pubVars
  <2> QED
    BY <1>0, <2>1, MainStays
<1>2. ASSUME NEW c \in Cycles, CycleGoes(c) PROVE MainInv'
  <2>1. UNCHANGED <<mainVars, inboxClosed, pub>>
    BY <1>2 DEF CycleGoes, CycleStep, SendOnClosed, CheckKilled, BeginQuery,
       Acquire, AcquireFails, QueryReturns, QueryCrashes, ReadStat, Send,
       Abort, Park, Unwind, CycleStays, Propagate, pubVars
  <2> QED
    BY <1>0, <2>1, MainStays
<1>3. CASE PublisherGoes
  <2>1. UNCHANGED <<mainVars, inboxClosed>> /\ (pub = "returned" => pub' = pub)
    BY <1>3 DEF PublisherGoes, PublisherStep, Receive, PublisherReturns
  <2> QED
    BY <1>0, <2>1, MainStays
<1>4. CASE Signal \/ ProcessGone \/ UNCHANGED daemonVars
  <2>1. UNCHANGED <<mainVars, inboxClosed, pub>>
    BY <1>4 DEF Signal, CancelRoot, ProcessGone, daemonVars, vars, pubVars
  <2> QED
    BY <1>0, <2>1, MainStays
<1>5. CASE HTTPFails
  BY <1>0, <1>5 DEF HTTPFails, MainInv, Exited, pubVars, Closing, DaemonRanges
<1>6. CASE MainStep
  <2> USE <1>0 DEF MainInv, Exited, Closing, MainOnly, vars, pubVars, DaemonRanges
  <2>1. CASE SeeDone
    BY <2>1 DEF SeeDone
  <2>2. CASE CloseInbox
    BY <2>2 DEF CloseInbox
  <2>3. CASE SeePublisherDone
    BY <2>3 DEF SeePublisherDone
  <2>4. CASE DrainTimeout
    BY <2>4 DEF DrainTimeout
  <2>5. CASE Shutdown
    BY <2>5 DEF Shutdown
  <2>6. CASE Exit
    BY <2>6 DEF Exit
  <2> QED
    BY <1>6, <2>1, <2>2, <2>3, <2>4, <2>5, <2>6 DEF MainStep
<1> QED
  BY <1>1, <1>2, <1>3, <1>4, <1>5, <1>6 DEF DaemonNext

----------------------------------------------------------------------------
(* Connections, and cycles that a panic has ended.                         *)
ConnInv ==
    \A c \in Cycles :
        /\ life[c[1]] = "done" => cpc[c] # "query"
        /\ cpc[c] = "panicked" => canceled[c]

(* How a cycle comes to hold a connection, or to panic in its send.        *)
LEMMA ConnSteps ==
    ASSUME RunnerInv, LifeInv, [DaemonNext]_daemonVars, NEW c \in Cycles
    PROVE  /\ cpc'[c] = "query" => cpc[c] = "query" \/ Acquire(c)
           /\ cpc'[c] = "panicked" => cpc[c] = "panicked" \/ SendOnClosed(c)
           /\ (cpc[c] # "unborn" /\ canceled[c]) => canceled'[c]
<1> USE DEF RunnerInv
<1>1. ASSUME NEW b \in Cycles, CycleStep(b) \/ SendOnClosed(b)
      PROVE  /\ cpc'[c] = "query" => cpc[c] = "query" \/ Acquire(c)
             /\ cpc'[c] = "panicked" => cpc[c] = "panicked" \/ SendOnClosed(c)
             /\ canceled' = canceled
  <2> USE DEF CycleStays, Goto
  <2>1. cpc \in [Cycles -> Places]
    BY DEF TypeOK
  <2>2. CASE Acquire(b)
    <3>1. canceled' = canceled /\ cpc' = [cpc EXCEPT ![b] = "query"]
      BY <2>2 DEF Acquire
    <3>2. cpc'[c] = cpc[c] \/ (b = c /\ cpc'[c] = "query")
      BY <2>1, <3>1
    <3> QED
      BY <2>2, <3>1, <3>2
  <2>3. CASE SendOnClosed(b)
    <3>1. canceled' = canceled /\ cpc' = [cpc EXCEPT ![b] = "panicked"]
      BY <2>3 DEF SendOnClosed
    <3>2. cpc'[c] = cpc[c] \/ (b = c /\ cpc'[c] = "panicked")
      BY <2>1, <3>1
    <3> QED
      BY <2>3, <3>1, <3>2
  <2>4. CASE CycleStep(b) /\ ~Acquire(b)
    <3> DEFINE Leaves(p) == /\ canceled' = canceled
                            /\ cpc' = [cpc EXCEPT ![b] = p]
    <3>1. CASE CheckKilled(b)
      <4>1. Leaves("killed")
        BY <3>1 DEF CheckKilled
      <4> QED
        BY <2>1, <4>1
    <3>2. CASE BeginQuery(b)
      <4>1. Leaves("acquire")
        BY <3>2 DEF BeginQuery
      <4> QED
        BY <2>1, <4>1
    <3>3. CASE AcquireFails(b) \/ QueryReturns(b) \/ ReadStat(b)
      <4>1. Leaves("send")
        BY <3>3 DEF AcquireFails, QueryReturns, ReadStat
      <4> QED
        BY <2>1, <4>1
    <3>4. CASE QueryCrashes(b)
      <4>1. Leaves("crashed")
        BY <3>4 DEF QueryCrashes
      <4> QED
        BY <2>1, <4>1
    <3>5. CASE Send(b)
      <4>1. Leaves("completed") \/ Leaves("check")
        BY <3>5 DEF Send, AfterSend
      <4> QED
        BY <2>1, <4>1
    <3>6. CASE Abort(b) \/ Unwind(b)
      <4>1. Leaves("killed")
        BY <3>6 DEF Abort, Unwind
      <4> QED
        BY <2>1, <4>1
    <3>7. CASE Park(b)
      <4>1. Leaves("parked")
        BY <3>7 DEF Park
      <4> QED
        BY <2>1, <4>1
    <3> QED
      BY <2>4, <3>1, <3>2, <3>3, <3>4, <3>5, <3>6, <3>7 DEF CycleStep
  <2> QED
    BY <1>1, <2>2, <2>3, <2>4
<1>2. ASSUME NEW t \in Tenants,
             SchedulerStep(t) \/ SchedulerPanics(t) \/ BeginClose(t)
      PROVE  /\ cpc'[c] = "query" => cpc[c] = "query"
             /\ cpc'[c] = "panicked" => cpc[c] = "panicked"
             /\ (cpc[c] # "unborn" /\ canceled[c]) => canceled'[c]
  <2>1. CASE Fire(t)
    <3>1. c = <<t, fires[t] + 1>> => cpc[c] = "unborn"
      BY TypeParts, NumberFacts DEF CycleOK
    <3> QED
      BY <2>1, <3>1 DEF Fire
  <2>2. CASE ~Fire(t)
    BY <1>2, <2>2 DEF SchedulerStep, ReturnFromStagger, ReturnFromLoop, Cancel,
       SchedulerPanics, BeginClose, cycleVars
  <2> QED
    BY <2>1, <2>2
<1>3. ASSUME NEW b \in Cycles, Propagate(b)
      PROVE  /\ cpc'[c] = "query" => cpc[c] = "query"
             /\ cpc'[c] = "panicked" => cpc[c] = "panicked"
             /\ canceled[c] => canceled'[c]
  BY <1>3 DEF Propagate, Cancel
<1>4. CASE Receive
  <2>1. \/ cpc' = cpc
        \/ \E b \in Cycles : \E p : /\ cpc' = [cpc EXCEPT ![b] = p]
                                   /\ p \in {"completed", "check"}
    BY <1>4 DEF Receive, Parked, AfterSend, Goto
  <2> QED
    BY <1>4, <2>1 DEF Receive, TypeOK
<1>5. CASE CancelRoot \/ PublisherReturns \/ HTTPFails \/ UNCHANGED vars
  BY <1>5 DEF CancelRoot, PublisherReturns, HTTPFails, vars, cycleVars
<1>6. CASE CloseInbox
  <2>1. cpc[c] # "parked"
    BY <1>6, NobodySends, CycleFacts DEF CloseInbox, TenantsGone, Alive, Ended
  <2> QED
    BY <1>6, <2>1 DEF CloseInbox
<1> QED
  BY <1>1, <1>2, <1>3, <1>4, <1>5, <1>6, DaemonSteps
     DEF Next, SchedulerStep, PublisherStep, Quiescent

(* The three ways in which a tenant goroutine ends.                        *)
LEMMA DoneComes ==
    ASSUME TypeOK, DaemonRanges, [DaemonNext]_daemonVars, NEW t \in Tenants,
           life[t] # "done", life'[t] = "done"
    PROVE  EndClose(t) \/ OpenFails(t) \/ GiveUpConnecting(t)
<1>1. ASSUME NEW u \in Tenants, TenantStep(u) \/ SchedulerPanics(u)
      PROVE  EndClose(t) \/ OpenFails(t) \/ GiveUpConnecting(t)
  <2>1. u = t
    BY <1>1, TenantFrame
  <2> QED
    BY <1>1, <2>1 DEF TenantStep, Retry, OpenSucceeds,
       SetUp, MarkReady, RunScheduler, SetDown, BeginClose,
       SchedulerPanics, Enter, tenantVars, DaemonRanges
<1>2. ASSUME NEW c \in Cycles, CycleGoes(c) PROVE FALSE
  BY <1>2 DEF CycleGoes, tenantVars
<1>3. ~ (PublisherGoes \/ MainStep \/ Signal \/ HTTPFails \/ ProcessGone
           \/ UNCHANGED daemonVars)
  BY DEF PublisherGoes, MainStep, SeeDone, CloseInbox, SeePublisherDone,
     DrainTimeout, Shutdown, Exit, Signal, HTTPFails, ProcessGone, daemonVars,
     MainOnly, tenantVars
<1> QED
  BY <1>1, <1>2, <1>3 DEF DaemonNext

(* A connection is only acquired from an open pool, and the goroutine only *)
(* ends with its pool drained.                                             *)
LEMMA ConnNext ==
    ASSUME RunnerInv, DaemonRanges, LifeInv, MainInv, ConnInv,
           [DaemonNext]_daemonVars
    PROVE  ConnInv'
<1> SUFFICES ASSUME NEW c \in Cycles
             PROVE  /\ life'[c[1]] = "done" => cpc'[c] # "query"
                    /\ cpc'[c] = "panicked" => canceled'[c]
  BY DEF ConnInv
<1> USE DEF RunnerInv
<1>1. c[1] \in Tenants /\ CycleOK(c)
  BY CycleFacts, TypeParts
<1>2. ASSUME life'[c[1]] = "done", cpc'[c] = "query" PROVE FALSE
  <2>1. CASE life[c[1]] = "done"
    <3>1. Acquire(c)
      BY <1>2, <2>1, ConnSteps DEF ConnInv
    <3>2. ~poolClosed[c[1]] /\ cpc[c] = "acquire"
      BY <3>1 DEF Acquire
    <3>3. sched[c[1]] = "stagger" /\ fires[c[1]] = 0
      BY <1>1, <2>1, <3>2 DEF LifeInv, LifeOK
    <3> QED
      BY <1>1, <3>2, <3>3, CycleFacts DEF CycleOK
  <2>2. CASE life[c[1]] # "done"
    <3>1. \/ EndClose(c[1])
          \/ OpenFails(c[1]) \/ GiveUpConnecting(c[1])
      BY <1>1, <1>2, <2>2, DoneComes
    <3>2. cpc' = cpc
      BY <3>1 DEF EndClose, OpenFails, GiveUpConnecting, TenantOnly, vars,
         cycleVars
    <3>3. CASE EndClose(c[1])
      BY <1>2, <3>2, <3>3 DEF EndClose, Holding
    <3>4. CASE OpenFails(c[1]) \/ GiveUpConnecting(c[1])
      <4>1. fires[c[1]] = 0
        BY <1>1, <3>4 DEF OpenFails, GiveUpConnecting, Enter, LifeInv, LifeOK,
           Connecting
      <4> QED
        BY <1>1, <1>2, <3>2, <4>1, CycleFacts DEF CycleOK
    <3> QED
      BY <3>1, <3>3, <3>4
  <2> QED
    BY <2>1, <2>2
<1>3. ASSUME cpc'[c] = "panicked" PROVE canceled'[c]
  <2>1. CASE cpc[c] = "panicked"
    BY <2>1, ConnSteps DEF ConnInv
  <2>2. CASE SendOnClosed(c)
    <3>1. inboxClosed /\ Alive(c) /\ cpc[c] # "unborn"
      BY <2>2 DEF SendOnClosed, Alive, Ended
    <3>2. canceled[c]
      BY <1>1, <3>1, NobodySends DEF MainInv, TenantsGone
    <3> QED
      BY <3>1, <3>2, ConnSteps
  <2> QED
    BY <1>3, <2>1, <2>2, ConnSteps
<1> QED
  BY <1>2, <1>3

----------------------------------------------------------------------------
DaemonInv == RunnerInv /\ DaemonRanges /\ LifeInv /\ MainInv /\ ConnInv

(* The inductive invariant of the process, and its two halves.             *)
LEMMA DaemonInvInit == DaemonInit => DaemonInv
<1> SUFFICES ASSUME DaemonInit PROVE DaemonInv
  OBVIOUS
<1> USE DEF DaemonInit
<1>1. RunnerInv
  BY TypeInit, NewestInit, QueueInit, OrderInit DEF RunnerInv
<1>2. DaemonRanges
  <2>1. 0 \in 0 .. MaxFailures
    BY DaemonAssumption
  <2> QED
    BY <2>1 DEF DaemonRanges
<1>3. LifeInv
  BY DEF LifeInv, LifeOK, Connecting, Init
<1>4. MainInv
  BY DEF MainInv, Closing, Exited, Init
<1>5. ConnInv
  BY DEF ConnInv, Init
<1> QED
  BY <1>1, <1>2, <1>3, <1>4, <1>5 DEF DaemonInv

LEMMA DaemonInvNext == DaemonInv /\ [DaemonNext]_daemonVars => DaemonInv'
BY RunnerNext, DaemonRangesNext, LifeNext, MainNext, ConnNext
   DEF DaemonInv, RunnerInv

(* The inductive invariant holds at every moment.                          *)
THEOREM DaemonAlways == DaemonSpec => []DaemonInv
BY DaemonInvInit, DaemonInvNext, PTL DEF DaemonSpec

(* Every variable of the process stays in its range, and no scheduler runs *)
(* for a tenant that is not connected (runTenant).                         *)
THEOREM DaemonTypeCorrect == DaemonSpec => []DaemonTypeOK
<1>1. DaemonInv => DaemonTypeOK
  BY DEF DaemonInv, RunnerInv, DaemonRanges, LifeInv, LifeOK, DaemonTypeOK
<1> QED
  BY <1>1, DaemonAlways, PTL

(* main closes the inbox under no sender that is blocked in it or may      *)
(* still block in it (the drain order of main, the deferred cancelPrev).   *)
THEOREM InboxClosesUnderNobody == DaemonSpec => []ClosedUnderNobody
<1>1. DaemonInv => ClosedUnderNobody
  <2> SUFFICES ASSUME DaemonInv, inboxClosed, NEW c \in Cycles
               PROVE  /\ Alive(c) => canceled[c] /\ cpc[c] # "parked"
                      /\ cpc[c] = "panicked" => canceled[c]
    BY DEF ClosedUnderNobody
  <2>1. life[c[1]] = "done"
    BY CycleFacts DEF DaemonInv, MainInv, TenantsGone
  <2> QED
    BY <2>1, NobodySends DEF DaemonInv, RunnerInv, ConnInv
<1> QED
  BY <1>1, DaemonAlways, PTL

(* When a tenant goroutine is gone, no cycle of it holds or can get a      *)
(* connection of the pool it closed (runTenant, Catalog.Close).            *)
THEOREM ClosedPoolsAreIdle == DaemonSpec => []NoConnAfterClose
<1>1. DaemonInv => NoConnAfterClose
  <2> SUFFICES ASSUME DaemonInv, NEW c \in Cycles, life[c[1]] = "done"
               PROVE  /\ cpc[c] # "query"
                      /\ cpc[c] \in {"check", "acquire"} => canceled[c]
    BY DEF NoConnAfterClose
  <2>1. cpc[c] \in {"check", "acquire"} => Alive(c)
    BY DEF Alive, Ended
  <2> QED
    BY <2>1, NobodySends DEF DaemonInv, RunnerInv, ConnInv
<1> QED
  BY <1>1, DaemonAlways, PTL

(* A tenant whose data is on the page is ready and was set up, and only a  *)
(* shutdown or a panic of its scheduler takes Up down (runTenant).         *)
THEOREM ServedTenantsAreAlwaysUp == DaemonSpec => []ServedTenantsAreUp
<1>1. DaemonInv => ServedTenantsAreUp
  <2> SUFFICES ASSUME DaemonInv, NEW t \in Tenants
               PROVE  /\ (\E q \in Query : applied[<<t, q>>] # 0) => ready[t]
                      /\ ready[t] => up[t] # "absent"
                      /\ up[t] = "0" => ctxDone \/ panicked[t]
    BY DEF ServedTenantsAreUp
  <2>1. LifeOK(t)
    BY DEF DaemonInv, LifeInv
  <2>2. ASSUME NEW q \in Query, applied[<<t, q>>] # 0 PROVE ready[t]
    <3>1. <<t, q>> \in Tenants \X Query /\ <<t, q>>[1] = t
      OBVIOUS
    <3>2. applied[<<t, q>>] <= fires[t] /\ applied[<<t, q>>] \in Nat
          /\ fires[t] \in Nat
      BY <3>1, NumberFacts DEF DaemonInv, RunnerInv, OrderInv
    <3>3. fires[t] # 0
      BY <2>2, <3>2
    <3> QED
      BY <2>1, <3>3 DEF LifeOK
  <2> QED
    BY <2>1, <2>2 DEF LifeOK
<1> QED
  BY <1>1, DaemonAlways, PTL

(* /metrics is served until the publisher has returned or main has stopped *)
(* waiting for it, unless the server failed by itself (main).              *)
THEOREM AlwaysServesUntilDrained == DaemonSpec => []ServesUntilDrained
<1>1. DaemonInv => ServesUntilDrained
  BY DEF DaemonInv, MainInv, Closing, ServesUntilDrained
<1> QED
  BY <1>1, DaemonAlways, PTL

(* The process exits only with every tenant goroutine gone and the inbox   *)
(* closed, with code 1 exactly when the server failed (main).              *)
THEOREM ExitIsAlwaysOrderly == DaemonSpec => []ExitIsOrderly
<1>1. DaemonInv => ExitIsOrderly
  BY DEF DaemonInv, MainInv, Closing, Exited, TenantsGone, ExitIsOrderly
<1> QED
  BY <1>1, DaemonAlways, PTL

(* The order of the results in the inbox survives panics of schedulers,    *)
(* closed pools and the closing of the inbox.                              *)
THEOREM InboxOrderInProcess == DaemonSpec => []SerialWithinCycle
<1>1. DaemonInv => SerialWithinCycle
  BY DEF DaemonInv, RunnerInv, QueueInv
<1> QED
  BY <1>1, DaemonAlways, PTL

----------------------------------------------------------------------------
(* What the process does besides the steps of module Runner: it cancels,   *)
(* wakes or unwinds cycles, and shows, sends and counts nothing.           *)
Besides ==
    /\ UNCHANGED <<applied, counters, inbox, late, empty>>
    /\ \A c \in Cycles :
          /\ canceled[c] => canceled'[c]
          /\ \/ cpc'[c] = cpc[c] /\ out'[c] = out[c]
             \/ /\ cpc[c] = "parked" /\ out'[c] = out[c]
                /\ cpc'[c] \in {"woken", "panicked"}
             \/ /\ cpc[c] = "send" /\ out'[c] = NoResult
                /\ cpc'[c] = "panicked"

LEMMA RunnerOrBesides ==
    ASSUME TypeOK, [DaemonNext]_daemonVars
    PROVE  [Next]_vars \/ Besides
<1> USE DEF counters, schedVars, cycleVars, poolVars, pubVars, TypeOK
<1>1. ASSUME NEW c \in Cycles, SendOnClosed(c) PROVE Besides
  BY <1>1 DEF Besides, SendOnClosed, Goto, CycleStays
<1>2. ASSUME NEW t \in Tenants, SchedulerPanics(t) PROVE Besides
  BY <1>2 DEF Besides, SchedulerPanics, Cancel
<1>3. ASSUME NEW t \in Tenants, BeginClose(t) PROVE Besides
  BY <1>3 DEF Besides, BeginClose
<1>4. HTTPFails \/ CloseInbox => Besides
  BY DEF Besides, HTTPFails, CloseInbox
<1> QED
  BY <1>1, <1>2, <1>3, <1>4, DaemonSteps

(* A canceled cycle sends little also in a process that goes down.         *)
THEOREM FewSendLateInProcess == DaemonSpec => []FewLateSends
<1>1. DaemonInit => LateInv
  BY DEF DaemonInit, Init, LateInv, LateOK
<1>2. DaemonInv /\ LateInv /\ [DaemonNext]_daemonVars => LateInv'
  <2> SUFFICES ASSUME TypeOK, LateInv, Besides, NEW c \in Cycles
               PROVE  LateOK(c)'
    BY LateNext, RunnerOrBesides DEF DaemonInv, RunnerInv, LateInv
  <2>1. LateOK(c) /\ late'[c] = late[c]
    BY DEF LateInv, Besides
  <2> QED
    BY <2>1 DEF Besides, LateOK, Ended
<1>3. LateInv => FewLateSends
  BY DEF LateInv, LateOK, FewLateSends
<1> QED
  BY <1>1, <1>2, <1>3, DaemonAlways, PTL DEF DaemonSpec

(* While the process lives, of the cycles of a tenant only the newest is   *)
(* not canceled: a panic in Run cancels what fire would have.              *)
THEOREM OneCycleRunsInProcess == DaemonSpec => []OnlyNewestRuns
<1>1. DaemonInv => OnlyNewestRuns
  BY DEF DaemonInv, RunnerInv
<1> QED
  BY <1>1, DaemonAlways, PTL

(* Not even a process that goes down takes a gauge back to older rows but  *)
(* through a result that was sent late.                                    *)
THEOREM StaleOnlyFromKilledInProcess == DaemonSpec => StaleOnlyFromKilled
<1> DEFINE NotBack == \A o \in Tenants \X Query :
                         applied'[o] < applied[o] => Head(inbox).late
<1>1. DaemonInv /\ [DaemonNext]_daemonVars => [NotBack]_vars
  <2> SUFFICES ASSUME TypeOK, OrderInv, Besides PROVE NotBack
    BY OnlyLateIsStale, RunnerOrBesides DEF DaemonInv, RunnerInv
  <2> QED
    BY NumberFacts DEF Besides
<1> QED
  BY <1>1, DaemonAlways, PTL DEF DaemonSpec, StaleOnlyFromKilled

(* PoolEmptyAcquireTotal misses no growth it was shown, also with panics   *)
(* of schedulers and pools that are closed.                                *)
THEOREM CounterMissesNothingInProcess == DaemonSpec => []EmptyCounterMissesNothing
<1>1. DaemonInit => MissesInv
  BY DEF DaemonInit, Init, MissesInv, Seeded
<1>2. DaemonInv /\ MissesInv /\ [DaemonNext]_daemonVars => MissesInv'
  <2>1. MissesInv /\ Besides => MissesInv'
    BY DEF Besides, counters, MissesInv, Seeded
  <2> QED
    BY <2>1, MissesNext, RunnerOrBesides DEF DaemonInv, RunnerInv
<1>3. MissesInv => EmptyCounterMissesNothing
  BY DEF MissesInv, Seeded, EmptyCounterMissesNothing
<1> QED
  BY <1>1, <1>2, <1>3, DaemonAlways, PTL DEF DaemonSpec

(* And while no result of a tenant is sent late it is exact.               *)
THEOREM CounterIsExactInProcess == DaemonSpec => []EmptyCounterExact
<1>1. DaemonInit => CounterInv
  BY CounterInit DEF DaemonInit
<1>2. DaemonInv /\ DaemonInv' /\ CounterInv /\ [DaemonNext]_daemonVars => CounterInv'
  <2> SUFFICES ASSUME TypeOK, TypeOK', CounterInv, Besides,
                      NEW t \in Tenants, InTime(t)'
               PROVE  Counts(t)'
    BY CounterNext, RunnerOrBesides DEF DaemonInv, RunnerInv, CounterInv
  <2>1. Counts(t)
    BY DEF Besides, CounterInv, InTime
  <2>2. counters' = counters /\ inbox' = inbox /\ empty[t] <= empty'[t]
    BY StatTypes DEF Besides
  <2>3. ASSUME NEW c \in Cycles, IsStat(out'[c], t), ~canceled'[c]
        PROVE  out'[c] = out[c] /\ ~canceled[c]
    BY <2>3 DEF Besides, IsStat, NoResult
  <2> QED
    BY <2>1, <2>2, <2>3, CountsStay
<1>3. CounterInv => EmptyCounterExact
  BY DEF CounterInv, InTime, Counts, Exact, EmptyCounterExact
<1> QED
  BY <1>1, <1>2, <1>3, DaemonAlways, PTL DEF DaemonSpec

----------------------------------------------------------------------------
(* What the process does besides is nothing to the Pipeline.               *)
LEMMA DaemonStepImplements ==
    ASSUME DaemonInv, [DaemonNext]_daemonVars
    PROVE  [Attempts!PipeNext]_(Attempts!pipeVars)
<1> USE DEF DaemonInv, RunnerInv
<1>1. ASSUME NEW t \in Tenants, SchedulerPanics(t) \/ BeginClose(t)
      PROVE  UNCHANGED Attempts!pipeVars
  BY <1>1, QuietStep DEF SchedulerPanics, BeginClose, Cancel, schedVars,
     cycleVars, pubVars, Alive, Ended
<1>2. CASE HTTPFails
  BY <1>2, QuietStep DEF HTTPFails, schedVars, cycleVars, pubVars, Alive
<1>3. CASE CloseInbox
  <2>1. \A c \in Cycles : cpc[c] # "parked"
    BY <1>3, NobodySends, CycleFacts DEF CloseInbox, TenantsGone, Alive, Ended
  <2> QED
    BY <1>3, <2>1, QuietStep DEF CloseInbox, schedVars, pubVars, Alive
<1> QED
  BY <1>1, <1>2, <1>3, StepImplements, CycleIsStep, DaemonSteps

(* The whole process, connecting, panicking and shutting down, is a        *)
(* Pipeline to the owner of a gauge: no attempt at a query is shown twice, *)
(* or after it was lost.                                                   *)
THEOREM DaemonImplementsPipeline == DaemonSpec => ImplementsPipeline
BY InitImplements, DaemonStepImplements, DaemonAlways, PTL
   DEF DaemonSpec, DaemonInit, ImplementsPipeline, Attempts!PipeSpec

(* No attempt at a query is shown twice, or after it was lost, also while  *)
(* the process connects, panics and shuts down.                            *)
THEOREM NothingIsShownTwiceInProcess == DaemonSpec => ShownOnce
<1> DEFINE Once ==
      \A o \in Tenants \X Query :
          /\ applied'[o] # applied[o] => applied'[o] \in Pending[o] \ Pending'[o]
          /\ \A n \in 1 .. fires[o[1]] : n \notin Pending[o] => n \notin Pending'[o]
<1>1. DaemonInv /\ [DaemonNext]_daemonVars => [Once]_vars
  BY DaemonStepImplements, StepShowsOnce DEF DaemonInv, RunnerInv
<1> QED
  BY <1>1, DaemonAlways, PTL DEF DaemonSpec, ShownOnce

=============================================================================
