------------------------------ MODULE Schedule ------------------------------
(***************************************************************************)
(* The clockwork of the schedulers: when Run fires (runner.go), which      *)
(* queries are due at a fire (dueQueries), and what /-/healthy says about  *)
(* it (Liveness, LivenessStatus and handleHealthy of server.go).           *)
(*                                                                         *)
(* Time is a number of nanoseconds, of which TLC takes few to the Second.  *)
(* A scheduler notices its timer or its ticker at most MaxLate units late  *)
(* (the goroutine is not scheduled at once, the runtime pauses); the       *)
(* ticker keeps its own rhythm and holds at most one tick that has not     *)
(* been taken.  A scheduler may die: of a panic, which the outer recover   *)
(* in main.go turns into the silent end of the tenant's goroutine, or of a *)
(* hang of the runtime.                                                    *)
(***************************************************************************)
EXTENDS Durations, FiniteSets

CONSTANTS
    Tenants,      \* tenant ids
    Queries,      \* query names
    Seconds,      \* Seconds[q]: interval_seconds of q; 0 is every cycle
    Interval,     \* the cycle interval
    MaxLate,      \* how late a scheduler may notice a tick
    MaxTime       \* bound: the last instant of a behaviour

ASSUME ScheduleAssumption ==
    /\ Seconds \in [Queries -> 0 .. WordMax]
    /\ Interval \in Nat \ {0}
    /\ MaxLate \in Nat /\ MaxLate < Interval
    /\ MaxTime \in Nat

Never == -1

VARIABLES
    now,        \* the clock
    phase,      \* phase[t]: "stagger", "loop" or "dead"
    startAt,    \* startAt[t]: when the stagger of t ends
    tickAt,     \* tickAt[t]: when the ticker of t ticks next
    tickSince,  \* tickSince[t]: since when a tick waits in its channel
    lastFire,   \* Liveness.lastFire; Never before the first
    lastRun,    \* lastRun[<<t, q>>]: Run's map of last dispatches
    probe,      \* when the running /-/healthy request read the clock
    failing,    \* tenants named by the last answer: a 503 if there are any
    firstFire,  \* auxiliary: the first fire of t
    fires,      \* auxiliary: number of fires of t
    runs,       \* auxiliary: runs[<<t, q>>]: the fire that last ran q
    diedAt      \* auxiliary: when t died

clockVars == <<phase, startAt, tickAt, tickSince>>
fireVars == <<lastFire, lastRun, firstFire, fires, runs>>
vars == <<now, clockVars, fireVars, probe, failing, diedAt>>

Jobs == Tenants \X Queries

(* stagger: any offset below the interval.                                 *)
Init ==
    /\ now = 0
    /\ phase = [t \in Tenants |-> "stagger"]
    /\ startAt \in [Tenants -> 0 .. Interval - 1]
    /\ tickAt = [t \in Tenants |-> Never]
    /\ tickSince = [t \in Tenants |-> Never]
    /\ lastFire = [t \in Tenants |-> Never]
    /\ lastRun = [j \in Jobs |-> Never]
    /\ firstFire = [t \in Tenants |-> Never]
    /\ fires = [t \in Tenants |-> 0]
    /\ runs = [j \in Jobs |-> 0]
    /\ probe = Never
    /\ failing = {}
    /\ diedAt = [t \in Tenants |-> Never]

----------------------------------------------------------------------------
(* interval_seconds as a duration.  Nothing but its sign is validated, so  *)
(* that it may wrap, to a negative one or to another one.                  *)
Pause(q) == InSeconds(Seconds[q])

(* Faulty: an interval that has just passed does not count as passed.      *)
DueOnlyAfter(t) ==
    { q \in Queries :
        \/ Seconds[q] = 0
        \/ lastRun[<<t, q>>] = Never
        \/ now - lastRun[<<t, q>>] > Pause(q) }

(* dueQueries: a query without an interval is always due, another one on   *)
(* its first fire and when its interval has passed since its last one.     *)
Due(t) ==
    { q \in Queries :
        \/ Seconds[q] = 0
        \/ lastRun[<<t, q>>] = Never
        \/ now - lastRun[<<t, q>>] >= Pause(q) }

(* Faulty: the dispatches of a query after its first are not recorded.     *)
RecordedOnce(t) == { q \in Queries : lastRun[<<t, q>>] = Never }

Recorded(t) == Due(t)

(* fire: MarkFire, then the due set, recorded as dispatched.               *)
Fire(t) ==
    /\ lastFire' = [lastFire EXCEPT ![t] = now]
    /\ lastRun' = [j \in Jobs |->
                     IF j[1] = t /\ j[2] \in Recorded(t) THEN now
                     ELSE lastRun[j]]
    /\ firstFire' = [firstFire EXCEPT ![t] = IF @ = Never THEN now ELSE @]
    /\ fires' = [fires EXCEPT ![t] = @ + 1]
    /\ runs' = [j \in Jobs |->
                  IF j[1] = t /\ j[2] \in Due(t) THEN fires[t] + 1 ELSE runs[j]]

(* Faulty: the first fire is left to the ticker.                           *)
FirstFireLater(t) ==
    /\ phase[t] = "stagger"
    /\ now >= startAt[t]
    /\ phase' = [phase EXCEPT ![t] = "loop"]
    /\ tickAt' = [tickAt EXCEPT ![t] = now + Interval]
    /\ UNCHANGED <<now, startAt, tickSince, fireVars, probe, failing, diedAt>>

(* The stagger is over: fire, then start the ticker.                       *)
FirstFire(t) ==
    /\ phase[t] = "stagger"
    /\ now >= startAt[t]
    /\ Fire(t)
    /\ phase' = [phase EXCEPT ![t] = "loop"]
    /\ tickAt' = [tickAt EXCEPT ![t] = now + Interval]
    /\ UNCHANGED <<now, startAt, tickSince, probe, failing, diedAt>>

(* Faulty: a timer set again after each fire in place of a ticker.         *)
TimerFromNow(t) == now + Interval

(* The ticker goes on by itself.                                           *)
NextTick(t) == tickAt[t]

(* The ticker's tick: fire.                                                *)
TakeTick(t) ==
    /\ phase[t] = "loop"
    /\ tickSince[t] # Never
    /\ Fire(t)
    /\ tickSince' = [tickSince EXCEPT ![t] = Never]
    /\ tickAt' = [tickAt EXCEPT ![t] = NextTick(t)]
    /\ UNCHANGED <<now, phase, startAt, probe, failing, diedAt>>

(* The scheduler never fires again.                                        *)
Die(t) ==
    /\ phase[t] # "dead"
    /\ phase' = [phase EXCEPT ![t] = "dead"]
    /\ diedAt' = [diedAt EXCEPT ![t] = now]
    /\ UNCHANGED <<now, startAt, tickAt, tickSince, fireVars, probe, failing>>

(* Time passes, but not while a living scheduler is MaxLate late.          *)
OnTime(t) ==
    /\ phase[t] = "stagger" => now < startAt[t] + MaxLate
    /\ (phase[t] = "loop" /\ tickSince[t] # Never) =>
           now < tickSince[t] + MaxLate

(* A ticker that finds its last tick still waiting drops the new one.      *)
Advance ==
    /\ now < MaxTime
    /\ \A t \in Tenants : OnTime(t)
    /\ now' = now + 1
    /\ tickSince' = [t \in Tenants |->
                       IF tickAt[t] = now' /\ tickSince[t] = Never
                       THEN now' ELSE tickSince[t]]
    /\ tickAt' = [t \in Tenants |->
                    IF tickAt[t] = now' THEN tickAt[t] + Interval ELSE tickAt[t]]
    /\ UNCHANGED <<phase, startAt, fireVars, probe, failing, diedAt>>

----------------------------------------------------------------------------
(* Faulty: no slack for a late tick; slack for two missed ones.            *)
StaleAfterOne == 1
StaleAfterThree == 3

(* staleScheduleMultiplier.                                                *)
StaleScheduleMultiplier == 2

(* LivenessStatus: alive until its first fire, then as long as the last    *)
(* fire is not older than two intervals.                                   *)
LivenessStatus(t, at) ==
    \/ lastFire[t] = Never
    \/ at - lastFire[t] <= StaleScheduleMultiplier * Interval

(* handleHealthy reads the clock, then takes the snapshots.                *)
BeginProbe ==
    /\ probe = Never
    /\ probe' = now
    /\ UNCHANGED <<now, clockVars, fireVars, failing, diedAt>>

Answer ==
    /\ probe # Never
    /\ failing' = { t \in Tenants : ~LivenessStatus(t, probe) }
    /\ probe' = Never
    /\ UNCHANGED <<now, clockVars, fireVars, diedAt>>

(* The end of a bounded behaviour.                                         *)
TimeIsUp ==
    /\ now = MaxTime
    /\ UNCHANGED vars

Next ==
    \/ \E t \in Tenants : FirstFire(t) \/ TakeTick(t) \/ Die(t)
    \/ Advance
    \/ BeginProbe \/ Answer
    \/ TimeIsUp

Spec == Init /\ [][Next]_vars

----------------------------------------------------------------------------
Times == {Never} \cup 0 .. MaxTime

(* Ranges; a scheduler in its loop has fired and has a ticker.             *)
TypeOK ==
    /\ now \in 0 .. MaxTime
    /\ phase \in [Tenants -> {"stagger", "loop", "dead"}]
    /\ startAt \in [Tenants -> 0 .. Interval - 1]
    /\ tickAt \in [Tenants -> {Never} \cup 0 .. MaxTime + Interval]
    /\ tickSince \in [Tenants -> Times]
    /\ lastFire \in [Tenants -> Times]
    /\ lastRun \in [Jobs -> Times]
    /\ firstFire \in [Tenants -> Times]
    /\ fires \in [Tenants -> Nat]
    /\ runs \in [Jobs -> Nat]
    /\ probe \in Times
    /\ failing \subseteq Tenants
    /\ diedAt \in [Tenants -> Times]
    /\ \A t \in Tenants : phase[t] = "loop" => lastFire[t] # Never

(* The rhythm does not drift: fire number n comes (n-1) intervals after    *)
(* the first, at most MaxLate late, however late the fires before it were  *)
(* (one ticker for the life of Run, runner.go:161-170).                    *)
NoDrift ==
    \A t \in Tenants :
        fires[t] > 0 =>
            lastFire[t] - (firstFire[t] + (fires[t] - 1) * Interval)
                \in 0 .. MaxLate

(* /-/healthy never names a tenant whose scheduler is alive, in whatever   *)
(* order the handler reads the clock and the snapshots: one late tick is   *)
(* within its slack (staleScheduleMultiplier, server.go:49-53).            *)
NoFalseAlarm == [][\A t \in failing' \ failing : phase[t] = "dead"]_vars

(* A probe that begins more than two intervals after a scheduler died      *)
(* names its tenant, if it had ever fired (main.go:303-305).               *)
DeathIsReported ==
    [][\A t \in Tenants :
          (/\ probe # Never /\ probe' = Never
           /\ phase[t] = "dead" /\ lastFire[t] # Never
           /\ probe > diedAt[t] + 2 * Interval)
          => t \in failing']_vars

(* A query with an interval of its own keeps its cadence although every    *)
(* dispatch is as late as the fire that makes it, and lateness can make a  *)
(* window look open too late or too early: the cycles from one dispatch to *)
(* the next are those of the interval, give or take one delay, rounded up. *)
(* A living scheduler never holds the query back for longer than that,     *)
(* whatever its duration wraps to; and it runs it no sooner, if the        *)
(* interval fits into a duration: one that does not may run in any cycle,  *)
(* which is not what queries.go:44 says (dueQueries on the moments at      *)
(* which Run calls it, runner.go:262-263).                                 *)
Slowed(j) == Seconds[j[2]] > 0 /\ lastRun[j] # Never

Length(q) == Seconds[q] * Second

Fits(q) == Length(q) <= WordMax

CyclesIn(time) == (time + Interval - 1) \div Interval

NeverEarly ==
    [][\A j \in Jobs :
          (Slowed(j) /\ Fits(j[2]) /\ runs'[j] # runs[j]) =>
              runs'[j] - runs[j] >= CyclesIn(Length(j[2]) - MaxLate)]_vars

NotStarved ==
    \A j \in Jobs :
        Slowed(j) =>
            fires[j[1]] - runs[j] < CyclesIn(Length(j[2]) + MaxLate)

=============================================================================
