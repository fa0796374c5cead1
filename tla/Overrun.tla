------------------------------ MODULE Overrun ------------------------------
(***************************************************************************)
(* Schedule with cycles that take time.  A cycle runs its due queries one  *)
(* after the other, in the order of the list, each for at most             *)
(* QueryTimeout; the next fire kills what is left of it (fire and runCycle *)
(* in runner.go).  A query that is due is recorded as run when its cycle   *)
(* is started, whether or not the cycle lives long enough to reach it.     *)
(*                                                                         *)
(* The time between two queries of a cycle is nothing: the publisher       *)
(* keeps up (module Runner has a full inbox).  A query that is answered    *)
(* may have failed; none panics, which would end its cycle (Runner's       *)
(* QueryCrashes).  The health probe is left to Schedule.                   *)
(***************************************************************************)
EXTENDS Schedule

CONSTANTS
    Place,          \* Place[q]: the place of q in the sorted list
    QueryTimeout    \* how long a query may take

(* The last is what Config.validate asks for.                              *)
ASSUME OverrunAssumption ==
    /\ IsFiniteSet(Queries)
    /\ Place \in [Queries -> 1 .. Cardinality(Queries)]
    /\ \A p, q \in Queries : Place[p] = Place[q] => p = q
    /\ QueryTimeout \in 1 .. Interval - 1

VARIABLES
    left,       \* left[t]: due queries of the newest cycle not answered yet
    since,      \* since[t]: when the one it is at began
    answered,   \* auxiliary: number of queries the newest cycle has answered
    answeredAt  \* auxiliary: answeredAt[<<t, q>>]: when q was last answered

cycleVars == <<left, since, answered, answeredAt>>
overrunVars == <<vars, cycleVars>>

OverrunInit ==
    /\ Init
    /\ left = [t \in Tenants |-> {}]
    /\ since = [t \in Tenants |-> Never]
    /\ answered = [t \in Tenants |-> 0]
    /\ answeredAt = [j \in Jobs |-> Never]

(* cancelPrev, then the cycle of the queries that are due.                 *)
StartCycle(t) ==
    /\ left' = [left EXCEPT ![t] = Due(t)]
    /\ since' = [since EXCEPT ![t] = now]
    /\ answered' = [answered EXCEPT ![t] = 0]
    /\ UNCHANGED answeredAt

FireFirst(t) == FirstFire(t) /\ StartCycle(t)

FireOnTick(t) == TakeTick(t) /\ StartCycle(t)

(* Faulty: the list is walked from its end.                                *)
RunningFromLast(t) ==
    CHOOSE q \in left[t] : \A p \in left[t] : Place[q] >= Place[p]

(* The query the cycle is at.                                              *)
Running(t) == CHOOSE q \in left[t] : \A p \in left[t] : Place[q] <= Place[p]

(* It comes back, and the next one begins.                                 *)
QueryReturns(t) ==
    /\ left[t] # {}
    /\ left' = [left EXCEPT ![t] = @ \ {Running(t)}]
    /\ since' = [since EXCEPT ![t] = now]
    /\ answered' = [answered EXCEPT ![t] = @ + 1]
    /\ answeredAt' = [answeredAt EXCEPT ![<<t, Running(t)>>] = now]
    /\ UNCHANGED vars

(* A panic takes the cycle along (the deferred cancelPrev), a hang of the  *)
(* scheduler does not.                                                     *)
SchedulerDies(t) ==
    /\ Die(t)
    /\ left' \in {left, [left EXCEPT ![t] = {}]}
    /\ UNCHANGED <<since, answered, answeredAt>>

(* Faulty: nothing bounds a query but its cycle.                           *)
Unbounded(t) == TRUE

(* The context of Catalog.Query ends a query in time.                      *)
InTime(t) == left[t] # {} => now < since[t] + QueryTimeout

TimePasses ==
    /\ \A t \in Tenants : InTime(t)
    /\ Advance
    /\ UNCHANGED cycleVars

OverrunNext ==
    \/ \E t \in Tenants :
          FireFirst(t) \/ FireOnTick(t) \/ QueryReturns(t) \/ SchedulerDies(t)
    \/ TimePasses
    \/ TimeIsUp /\ UNCHANGED cycleVars

OverrunSpec == OverrunInit /\ [][OverrunNext]_overrunVars

----------------------------------------------------------------------------
(* How many queries the shortest cycle gets through if all of them take    *)
(* their QueryTimeout.                                                     *)
Reach == (Interval - MaxLate - 1) \div QueryTimeout

Killed(t) == fires'[t] # fires[t] /\ left[t] # {}

(* However late the fires and however slow the queries: a cycle that is    *)
(* killed has answered as many queries as fit between two fires, so that   *)
(* only queries behind those are lost to an overrun (runner.go:137-158).   *)
KilledOnlyPastReach ==
    [][\A t \in Tenants : Killed(t) => answered[t] >= Reach]_overrunVars

(* A query among the first Reach of the list is answered as often as its   *)
(* interval promises, in every schedule of kills, late fires and windows   *)
(* that open one cycle late: its last answer is never older than its       *)
(* window in cycles, one delay and its place in the cycle.  With an        *)
(* interval it depends on every dispatch leading to an answer, for a       *)
(* window that is lost is not tried again (queries.go:55-63).              *)
Window(q) == IF Seconds[q] = 0 THEN 1 ELSE CyclesIn(Length(q) + MaxLate)

FreshWithinReach ==
    \A t \in Tenants, q \in Queries :
        (phase[t] = "loop" /\ Place[q] <= Reach) =>
            LET last == answeredAt[<<t, q>>]
                turn == Place[q] * QueryTimeout
            IN  IF last = Never THEN now <= firstFire[t] + turn
                ELSE now <= last + Window(q) * Interval + MaxLate + turn

----------------------------------------------------------------------------
(* What the documents say and the code does not do.                        *)

(* runner.go:153-155, "QueryTimeout still bounds each execution, so a      *)
(* slow-cadence query can't overrun the cycle": no cycle is killed while   *)
(* it is at a query with an interval.                                      *)
SlowQueryNeverOverruns ==
    [][\A t \in Tenants : Killed(t) => Seconds[Running(t)] = 0]_overrunVars

=============================================================================
