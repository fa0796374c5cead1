------------------------------- MODULE Daemon -------------------------------
(***************************************************************************)
(* The process (cmd/ducklake-metrics-daemon/main.go): main starts the HTTP *)
(* server, the publisher and one goroutine per tenant, waits for the root  *)
(* context and takes everything down again.  It composes the schedulers,   *)
(* cycles and publisher of module Runner with the life of each tenant      *)
(* goroutine, of the HTTP server and of main itself.                       *)
(***************************************************************************)
EXTENDS Runner

CONSTANT MaxFailures   \* bound: failed connection attempts of a tenant

ASSUME DaemonAssumption == MaxFailures \in Nat

VARIABLES
    main,      \* where main is
    life,      \* life[t]: where runTenant is
    up,        \* up[t]: the gauge Up{t}, or "absent" before it is first set
    ready,     \* ready[t]: readyByTenant[t]
    failures,  \* failures[t]: ConnectFailuresTotal{t}
    panicked,  \* panicked[t]: a panic ended Run; with life[t] = "done", also
               \* TenantRestartsTotal{t, "panic_outer"}
    http,      \* the goroutine of ListenAndServe: "serving" or "returned"
    httpErr,   \* what it returned was an error
    gaveUp     \* main stopped waiting for the publisher

tenantVars == <<life, up, ready, failures, panicked>>
mainVars == <<main, http, httpErr, gaveUp>>
daemonVars == <<vars, tenantVars, mainVars>>

(* Places of main after the goroutines are started.                        *)
(*   "serving"  <-ctx.Done()          "waiting"  wg.Wait()                 *)
(*   "draining" publisherDone or time.After(publisherDrainTimeout)         *)
(*   "stopping" srv.Shutdown          "joining"  <-httpDone                *)
(*   "exit0" and "exit1" are the exit codes                                *)
Exited == main \in {"exit0", "exit1"}

DaemonInit ==
    /\ Init
    /\ main = "serving"
    /\ life = [t \in Tenants |-> "opening"]
    /\ up = [t \in Tenants |-> "absent"]
    /\ ready = [t \in Tenants |-> FALSE]
    /\ failures = [t \in Tenants |-> 0]
    /\ panicked = [t \in Tenants |-> FALSE]
    /\ http = "serving"
    /\ httpErr = FALSE
    /\ gaveUp = FALSE

----------------------------------------------------------------------------
TenantOnly == UNCHANGED <<vars, panicked, mainVars>>

Enter(t, from, to) == life[t] = from /\ life' = [life EXCEPT ![t] = to]

(* Faulty: a done context does not keep the goroutine from trying again.   *)
AlwaysSleep == "backoff"

AfterFailure == IF ctxDone THEN "done" ELSE "backoff"

(* connectWithBackoff: an attempt fails.  With the context done, the       *)
(* select has nothing else ready, for the delay is at least a second, and  *)
(* runTenant returns; otherwise the goroutine sleeps ...                   *)
OpenFails(t) ==
    /\ Enter(t, "opening", AfterFailure)
    /\ ctxDone \/ failures[t] < MaxFailures
    /\ failures' = [failures EXCEPT ![t] =
                        IF @ < MaxFailures THEN @ + 1 ELSE @]
    /\ UNCHANGED <<up, ready>> /\ TenantOnly

(* ... until the delay is over, or the context is done; when both are,     *)
(* either may be taken.                                                    *)
Retry(t) ==
    /\ Enter(t, "backoff", "opening")
    /\ UNCHANGED <<up, ready, failures>> /\ TenantOnly

GiveUpConnecting(t) ==
    /\ ctxDone
    /\ Enter(t, "backoff", "done")
    /\ UNCHANGED <<up, ready, failures>> /\ TenantOnly

(* The pool is open: the gauge Up, then the readiness flag, then Run.      *)
OpenSucceeds(t) ==
    /\ Enter(t, "opening", "opened")
    /\ UNCHANGED <<up, ready, failures>> /\ TenantOnly

(* Faulty: Run is started before markReady.                                *)
SetUpRunsAtOnce(t) ==
    /\ Enter(t, "opened", "running")
    /\ up' = [up EXCEPT ![t] = "1"]
    /\ UNCHANGED <<ready, failures>> /\ TenantOnly

SetUp(t) ==
    /\ Enter(t, "opened", "marking")
    /\ up' = [up EXCEPT ![t] = "1"]
    /\ UNCHANGED <<ready, failures>> /\ TenantOnly

MarkReady(t) ==
    /\ Enter(t, "marking", "running")
    /\ ready' = [ready EXCEPT ![t] = TRUE]
    /\ UNCHANGED <<up, failures>> /\ TenantOnly

(* runner.Run is on this goroutine.                                        *)
RunScheduler(t) ==
    /\ life[t] = "running"
    /\ SchedulerStep(t)
    /\ UNCHANGED <<tenantVars, mainVars>>

(* A panic in Run, whatever its cause, unwinds this goroutine: Run's       *)
(* deferred cancelPrev, then the deferred calls below, and the outer       *)
(* recover in main.  Nothing starts the tenant again.                      *)
SchedulerPanics(t) ==
    /\ life[t] = "running"
    /\ sched[t] # "returned"
    /\ sched' = [sched EXCEPT ![t] = "returned"]
    /\ Cancel(CancelPrev(t))
    /\ panicked' = [panicked EXCEPT ![t] = TRUE]
    /\ UNCHANGED <<life, up, ready, failures, mainVars>>
    /\ UNCHANGED <<ctxDone, fires, todo, out, late, inbox, inboxClosed,
                   poolVars, pubVars>>

(* Faulty: Up is set to 0 while Run is still running.                      *)
SetDownEarly(t) ==
    /\ Enter(t, "running", "down")
    /\ up' = [up EXCEPT ![t] = "0"]
    /\ UNCHANGED <<ready, failures>> /\ TenantOnly

(* Run has returned: the deferred calls, last deferred first.              *)
SetDown(t) ==
    /\ sched[t] = "returned"
    /\ Enter(t, "running", "down")
    /\ up' = [up EXCEPT ![t] = "0"]
    /\ UNCHANGED <<ready, failures>> /\ TenantOnly

(* cat.Close: from here on the pool gives out no connection, and Close     *)
(* comes back when the last one has been returned to it.                   *)
BeginClose(t) ==
    /\ Enter(t, "down", "closing")
    /\ poolClosed' = [poolClosed EXCEPT ![t] = TRUE]
    /\ UNCHANGED <<up, ready, failures, panicked, mainVars>>
    /\ UNCHANGED <<ctxDone, schedVars, cycleVars, inbox, inboxClosed, empty,
                   pubVars>>

(* Faulty: Close does not wait for the connections in use.                 *)
EndCloseAtOnce(t) ==
    /\ Enter(t, "closing", "done")
    /\ UNCHANGED <<up, ready, failures>> /\ TenantOnly

EndClose(t) ==
    /\ Holding(t) = {}
    /\ Enter(t, "closing", "done")
    /\ UNCHANGED <<up, ready, failures>> /\ TenantOnly

TenantStep(t) ==
    \/ OpenFails(t) \/ Retry(t) \/ GiveUpConnecting(t) \/ OpenSucceeds(t)
    \/ SetUp(t) \/ MarkReady(t)
    \/ RunScheduler(t)
    \/ SetDown(t) \/ BeginClose(t) \/ EndClose(t)

----------------------------------------------------------------------------
MainOnly == UNCHANGED <<vars, tenantVars>>

(* SIGTERM or SIGINT.                                                      *)
Signal ==
    /\ ~Exited
    /\ CancelRoot
    /\ UNCHANGED <<tenantVars, mainVars>>

(* ListenAndServe comes back with an error, at once or later: the          *)
(* goroutine records it and cancels the root context.                      *)
HTTPFails ==
    /\ ~Exited
    /\ http = "serving"
    /\ httpErr' = TRUE
    /\ http' = "returned"
    /\ ctxDone' = TRUE
    /\ UNCHANGED <<schedVars, cycleVars, inbox, inboxClosed, poolVars, pubVars,
                   tenantVars, main, gaveUp>>

SeeDone ==
    /\ main = "serving" /\ ctxDone
    /\ main' = "waiting"
    /\ UNCHANGED <<http, httpErr, gaveUp>> /\ MainOnly

(* Faulty: the inbox is closed as soon as the context is done; or when one *)
(* of the tenant goroutines has returned.                                  *)
NobodyWaitedFor == TRUE

OneTenantGone == \E t \in Tenants : life[t] = "done"

(* wg.Wait() counts the tenant goroutines, not the cycles they started.    *)
TenantsGone == \A t \in Tenants : life[t] = "done"

CloseInbox ==
    /\ main = "waiting" /\ TenantsGone
    /\ main' = "draining"
    /\ inboxClosed' = TRUE
    /\ cpc' = [c \in Cycles |->
                 IF cpc[c] = "parked" THEN "panicked" ELSE cpc[c]]
    /\ UNCHANGED <<http, httpErr, gaveUp, tenantVars>>
    /\ UNCHANGED <<ctxDone, schedVars, canceled, todo, out, late, inbox,
                   poolVars, pubVars>>

(* Faulty: main does not wait for the publisher.                           *)
SeePublisherDoneAtOnce ==
    /\ main = "draining"
    /\ main' = "stopping"
    /\ UNCHANGED <<http, httpErr, gaveUp>> /\ MainOnly

(* The select after close(inbox): the publisher's goroutine has ended, or  *)
(* publisherDrainTimeout is over.                                          *)
SeePublisherDone ==
    /\ main = "draining" /\ pub = "returned"
    /\ main' = "stopping"
    /\ UNCHANGED <<http, httpErr, gaveUp>> /\ MainOnly

DrainTimeout ==
    /\ main = "draining"
    /\ main' = "stopping"
    /\ gaveUp' = TRUE
    /\ UNCHANGED <<http, httpErr>> /\ MainOnly

(* srv.Shutdown makes ListenAndServe return, whether or not the last       *)
(* requests end in time.                                                   *)
Shutdown ==
    /\ main = "stopping"
    /\ main' = "joining"
    /\ http' = "returned"
    /\ UNCHANGED <<httpErr, gaveUp>> /\ MainOnly

Exit ==
    /\ main = "joining" /\ http = "returned"
    /\ main' = IF httpErr THEN "exit1" ELSE "exit0"
    /\ UNCHANGED <<http, httpErr, gaveUp>> /\ MainOnly

MainStep ==
    SeeDone \/ CloseInbox \/ SeePublisherDone \/ DrainTimeout \/ Shutdown \/ Exit

----------------------------------------------------------------------------
(* When main returns, whatever still runs goes with it.                    *)
CycleGoes(c) ==
    /\ ~Exited
    /\ CycleStep(c) \/ SendOnClosed(c) \/ Propagate(c)
    /\ UNCHANGED <<tenantVars, mainVars>>

PublisherGoes ==
    /\ ~Exited
    /\ PublisherStep
    /\ UNCHANGED <<tenantVars, mainVars>>

ProcessGone == Exited /\ UNCHANGED daemonVars

DaemonNext ==
    \/ \E t \in Tenants : TenantStep(t) \/ SchedulerPanics(t)
    \/ \E c \in Cycles : CycleGoes(c)
    \/ PublisherGoes
    \/ MainStep
    \/ Signal \/ HTTPFails
    \/ ProcessGone

DaemonSpec == DaemonInit /\ [][DaemonNext]_daemonVars

(* Goroutines are scheduled; connection attempts, queries and the closing  *)
(* of a pool nobody uses come back; a bounded ticker leaves the            *)
(* scheduler's select to see the context.  Nothing is assumed of the       *)
(* publisher: main waits for it with a timeout.                            *)
DaemonFair ==
    /\ DaemonSpec
    /\ WF_daemonVars(MainStep)
    /\ \A t \in Tenants : WF_daemonVars(TenantStep(t))
    /\ \A c \in Cycles : WF_daemonVars(CycleGoes(c))

----------------------------------------------------------------------------
(* Ranges of main's own state; those of Runner hold here too, and no cycle *)
(* exists for a tenant that is not connected.                              *)
DaemonTypeOK ==
    /\ TypeOK
    /\ main \in {"serving", "waiting", "draining", "stopping", "joining",
                 "exit0", "exit1"}
    /\ life \in [Tenants -> {"opening", "backoff", "opened", "marking",
                             "running", "down", "closing", "done"}]
    /\ up \in [Tenants -> {"absent", "0", "1"}]
    /\ ready \in [Tenants -> BOOLEAN]
    /\ failures \in [Tenants -> 0 .. MaxFailures]
    /\ panicked \in [Tenants -> BOOLEAN]
    /\ http \in {"serving", "returned"}
    /\ httpErr \in BOOLEAN
    /\ gaveUp \in BOOLEAN
    /\ \A t \in Tenants :
          /\ sched[t] # "stagger" => ready[t]
          /\ life[t] \in {"down", "closing"} => sched[t] = "returned"
          /\ poolClosed[t] => life[t] \in {"closing", "done"}

(* main closes the inbox under no sender that is blocked in it or may      *)
(* still block in it: every cycle that outlives its tenant goroutine has   *)
(* been canceled by then, although wg.Wait() does not wait for cycles (the *)
(* drain order of main.go:238-248 and the deferred cancelPrev).            *)
ClosedUnderNobody ==
    inboxClosed =>
        \A c \in Cycles :
            /\ Alive(c) => canceled[c] /\ cpc[c] # "parked"
            /\ cpc[c] = "panicked" => canceled[c]

(* When a tenant goroutine is gone no cycle of its tenant holds, or can    *)
(* still get, a connection of the pool it closed.                          *)
NoConnAfterClose ==
    \A t \in Tenants, c \in Cycles :
        (life[t] = "done" /\ c[1] = t) =>
            /\ cpc[c] # "query"
            /\ cpc[c] \in {"check", "acquire"} => canceled[c]

(* A tenant whose data is on the page is up and ready, and what the code   *)
(* means by up is that its first connection was made and that Run is still *)
(* on: Up goes to 0 only when the daemon goes down or the scheduler panics *)
(* (main.go:295-305, 324-326).  metrics.go:65, AGENT.md:83 and :138 mean   *)
(* more, "0 during reconnect", which the code does not do: the pool        *)
(* reconnects by itself, and a query that gets no connection just fails.   *)
ServedTenantsAreUp ==
    \A t \in Tenants :
        /\ (\E q \in Query : applied[<<t, q>>] # 0) => ready[t]
        /\ ready[t] => up[t] # "absent"
        /\ up[t] = "0" => ctxDone \/ panicked[t]

(* /metrics is served until the publisher has returned or main has stopped *)
(* waiting for it, unless the server itself failed (publisher.go:104-107,  *)
(* main.go:249-261).                                                       *)
ServesUntilDrained ==
    (http = "returned" /\ ~httpErr) => pub = "returned" \/ gaveUp

(* The process exits only when every tenant goroutine is gone and the      *)
(* inbox closed, with code 1 exactly when the server failed.               *)
ExitIsOrderly ==
    Exited => /\ \A t \in Tenants : life[t] = "done"
              /\ inboxClosed
              /\ http = "returned"
              /\ main = "exit1" <=> httpErr

(* Once the root context is done the process exits, whatever the publisher *)
(* does, however full the inbox is, and wherever tenants and cycles are.   *)
ShutdownCompletes == ctxDone ~> Exited

----------------------------------------------------------------------------
(* What the documents say and the code does not do.                        *)

(* main.go:241 and AGENT.md:170, "clean shutdown": the results of cycles   *)
(* in flight are dropped on ctx.Done; no cycle panics.                     *)
NoPanicAtShutdown == \A c \in Cycles : cpc[c] # "panicked"

============================================================================
