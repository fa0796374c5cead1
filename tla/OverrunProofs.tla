--------------------------- MODULE OverrunProofs ---------------------------
(***************************************************************************)
(* Theorems about cycles that take time, for every interval, lateness,     *)
(* query timeout and order of the query list.                              *)
(***************************************************************************)
EXTENDS Overrun, ScheduleProofs, FiniteSetTheorems

(* What a cycle does is nothing to the clockwork.                          *)
LEMMA OverrunStep == [OverrunNext]_overrunVars => [Next]_vars
BY DEF OverrunNext, overrunVars, FireFirst, FireOnTick, QueryReturns,
   SchedulerDies, TimePasses, Next, TimeIsUp

(* By construction then, the invariants of the fires and of the cadences   *)
(* hold with cycles that take time too (Run).                              *)
LEMMA OverrunIsSchedule == OverrunSpec => Spec
<1>1. OverrunInit => Init
  BY DEF OverrunInit
<1> QED
  BY <1>1, OverrunStep, PTL DEF OverrunSpec, Spec

LEMMA OverrunClockwork == OverrunSpec => []Inv
BY OverrunIsSchedule, ScheduleInv, PTL

----------------------------------------------------------------------------
LEMMA Numbers ==
    /\ Interval \in Nat \ {0}
    /\ MaxLate \in Nat /\ MaxLate < Interval
    /\ QueryTimeout \in Nat \ {0}
    /\ \A q \in Queries : Place[q] \in Nat \ {0}
<1>1. Cardinality(Queries) \in Nat
  BY OverrunAssumption, FS_CardinalityType
<1> QED
  BY <1>1, OverrunAssumption, ScheduleAssumption

LEMMA DivideDown ==
    ASSUME NEW m \in Nat \ {0}, NEW y \in Int
    PROVE  LET d == y \div m
           IN  d \in Int /\ d * m <= y /\ y < d * m + m
OBVIOUS

(* Time for n queries, n not beyond the reach, ends before the next fire.  *)
LEMMA WithinReach ==
    ASSUME NEW n \in Int, n <= Reach
    PROVE  /\ n * QueryTimeout \in Int
           /\ n * QueryTimeout <= Interval - MaxLate - 1
<1>1. /\ Reach \in Int
      /\ Reach * QueryTimeout <= Interval - MaxLate - 1
  BY Numbers, DivideDown DEF Reach
<1>2. n * QueryTimeout <= Reach * QueryTimeout
  BY <1>1, Numbers, TimesMonotone
<1>3. n * QueryTimeout \in Int /\ Reach * QueryTimeout \in Int
  BY <1>1, Numbers
<1> HIDE DEF Reach
<1> QED
  BY <1>1, <1>2, <1>3, Numbers

LEMMA OneMoreTimeout ==
    ASSUME NEW n \in Int
    PROVE  /\ n * QueryTimeout \in Int
           /\ (n + 1) * QueryTimeout = n * QueryTimeout + QueryTimeout
           /\ n = 0 => n * QueryTimeout = 0
BY Numbers

LEMMA MoreTimeouts ==
    ASSUME NEW n \in Int, NEW m \in Int, n <= m
    PROVE  n * QueryTimeout <= m * QueryTimeout
BY Numbers, TimesMonotone

(* The ticker of a scheduler in its loop, as seen from its last fire.      *)
LEMMA SinceLastFire ==
    ASSUME Inv, NEW t \in Tenants, phase[t] = "loop"
    PROVE  /\ fires[t] \in Nat \ {0}
           /\ now <= lastFire[t] + Interval + MaxLate
           /\ tickSince[t] # Never => now >= lastFire[t] + Interval - MaxLate
<1>1. /\ fires[t] \in Nat \ {0} /\ now \in Int /\ lastFire[t] \in Int
      /\ lastFire[t] - Slot(t, fires[t]) \in 0 .. MaxLate
  BY DEF Inv, TypeOK, Times, Never, History
<1>2. /\ Slot(t, fires[t]) \in Int
      /\ Slot(t, fires[t] + 1) = Slot(t, fires[t]) + Interval
  BY <1>1, SlotSteps DEF Inv
<1>3. \/ tickSince[t] = Never /\ now < Slot(t, fires[t] + 1)
      \/ /\ Slot(t, fires[t] + 1) <= now
         /\ now <= Slot(t, fires[t] + 1) + MaxLate
  BY DEF Inv, Ticking
<1> QED
  BY <1>1, <1>2, <1>3, Numbers

----------------------------------------------------------------------------
CycleTypes ==
    /\ left \in [Tenants -> SUBSET Queries]
    /\ since \in [Tenants -> Times]
    /\ answered \in [Tenants -> Nat]
    /\ answeredAt \in [Jobs -> Times]

(* A cycle that is not done is at a query within its timeout, and spent a  *)
(* timeout at most on each of those before it.                             *)
CycleInTime(t) ==
    left[t] # {} =>
        /\ phase[t] # "stagger"
        /\ fires[t] > 0
        /\ now <= since[t] + QueryTimeout
        /\ since[t] <= lastFire[t] + answered[t] * QueryTimeout

(* What is left of it was dispatched by the last fire, and is further down *)
(* the list than as many queries as have been answered.                    *)
Left(t) ==
    \A q \in left[t] :
        /\ answered[t] < Place[q]
        /\ lastRun[<<t, q>>] = lastFire[t]

(* Every query is due at the first fire, one without an interval at each.  *)
Dispatched(j) ==
    /\ fires[j[1]] > 0 => runs[j] > 0
    /\ (fires[j[1]] > 0 /\ Seconds[j[2]] = 0) => runs[j] = fires[j[1]]
    /\ fires[j[1]] = 0 => answeredAt[j] = Never

(* A query within reach whose last dispatch is not answered yet was        *)
(* answered in time before that, or had no dispatch before that.           *)
Served(t, q) ==
    LET last == answeredAt[<<t, q>>]
    IN  IF q \in left[t]
        THEN IF last = Never THEN lastFire[t] = firstFire[t]
             ELSE lastFire[t] <= last + Window(q) * Interval + MaxLate
        ELSE last # Never /\ lastRun[<<t, q>>] <= last

CyclesInv ==
    /\ CycleTypes
    /\ \A t \in Tenants : CycleInTime(t) /\ Left(t)
    /\ \A j \in Jobs : Dispatched(j)
    /\ \A t \in Tenants, q \in Queries :
          (phase[t] = "loop" /\ Place[q] <= Reach) => Served(t, q)

LEMMA CyclesInit == OverrunInit => CyclesInv
BY DEF OverrunInit, Init, CyclesInv, CycleTypes, CycleInTime, Left, Dispatched,
   Times, Never, Jobs

(* When a query is left, the time it is still given is bounded.            *)
LEMMA LeftInTime ==
    ASSUME Inv, CyclesInv, NEW t \in Tenants, left[t] # {}
    PROVE  /\ answered[t] \in Nat
           /\ (answered[t] + 1) * QueryTimeout \in Int
           /\ now <= lastFire[t] + (answered[t] + 1) * QueryTimeout
           /\ \A q \in left[t] :
                 /\ Place[q] * QueryTimeout \in Int
                 /\ now <= lastFire[t] + Place[q] * QueryTimeout
<1>1. /\ answered[t] \in Nat /\ since[t] \in Int /\ now \in Int
      /\ lastFire[t] \in Int
  BY DEF Inv, TypeOK, CyclesInv, CycleTypes, Times, Never
<1>2. /\ now <= since[t] + QueryTimeout
      /\ since[t] <= lastFire[t] + answered[t] * QueryTimeout
  BY DEF CyclesInv, CycleInTime
<1>3. /\ answered[t] * QueryTimeout \in Int
      /\ (answered[t] + 1) * QueryTimeout
            = answered[t] * QueryTimeout + QueryTimeout
  BY <1>1, OneMoreTimeout
<1>4. now <= lastFire[t] + (answered[t] + 1) * QueryTimeout
  BY <1>1, <1>2, <1>3, Numbers
<1>5. ASSUME NEW q \in left[t]
      PROVE  /\ Place[q] * QueryTimeout \in Int
             /\ now <= lastFire[t] + Place[q] * QueryTimeout
  <2>1. q \in Queries /\ answered[t] < Place[q]
    BY DEF CyclesInv, CycleTypes, Left
  <2>2. Place[q] \in Int /\ answered[t] + 1 <= Place[q]
    BY <1>1, <2>1, Numbers
  <2>3. /\ (answered[t] + 1) * QueryTimeout <= Place[q] * QueryTimeout
        /\ Place[q] * QueryTimeout \in Int
    BY <1>1, <2>2, MoreTimeouts, OneMoreTimeout
  <2> QED
    BY <1>1, <1>3, <1>4, <2>3, Numbers
<1> QED
  BY <1>1, <1>3, <1>4, <1>5, Numbers

(* Nothing within reach is left when the next tick comes.                  *)
LEMMA NothingWithinReachIsKilled ==
    ASSUME Inv, CyclesInv, NEW t \in Tenants,
           phase[t] = "loop", tickSince[t] # Never
    PROVE  /\ left[t] # {} => answered[t] >= Reach
           /\ \A q \in left[t] : Place[q] > Reach
<1>1. now >= lastFire[t] + Interval - MaxLate
  BY SinceLastFire
<1>2. now \in Int /\ lastFire[t] \in Int /\ Reach \in Int
  BY Numbers, DivideDown DEF Inv, TypeOK, Times, Never, Reach
<1>3. ASSUME left[t] # {}, ~(answered[t] >= Reach) PROVE FALSE
  <2>1. answered[t] + 1 \in Int /\ answered[t] + 1 <= Reach
    BY <1>2, <1>3, LeftInTime
  <2>2. (answered[t] + 1) * QueryTimeout <= Interval - MaxLate - 1
    BY <2>1, WithinReach
  <2> QED
    BY <1>1, <1>2, <1>3, <2>2, LeftInTime, Numbers
<1>4. ASSUME NEW q \in left[t], ~(Place[q] > Reach) PROVE FALSE
  <2>1. Place[q] \in Int /\ Place[q] <= Reach
    BY <1>2, <1>4, Numbers DEF CyclesInv, CycleTypes
  <2>2. Place[q] * QueryTimeout <= Interval - MaxLate - 1
    BY <2>1, WithinReach
  <2>3. /\ Place[q] * QueryTimeout \in Int
        /\ now <= lastFire[t] + Place[q] * QueryTimeout
    BY LeftInTime
  <2> QED
    BY <1>1, <1>2, <2>2, <2>3, Numbers
<1> QED
  BY <1>3, <1>4

(* Until its next dispatch a query waits for its window and one delay.     *)
LEMMA NextDispatch ==
    ASSUME Inv, CyclesInv, NEW t \in Tenants, NEW q \in Queries,
           phase[t] = "loop"
    PROVE  /\ lastRun[<<t, q>>] \in Nat
           /\ Window(q) * Interval \in Int
           /\ now <= lastRun[<<t, q>>] + Window(q) * Interval + MaxLate
<1> DEFINE j == <<t, q>>
<1>1. /\ j \in Jobs /\ j[1] = t /\ j[2] = q
      /\ Seconds[q] \in Nat /\ Length(q) \in Nat
  BY PauseAtMost DEF Jobs
<1>2. fires[t] \in Nat \ {0} /\ runs[j] \in Nat \ {0} /\ now \in Int
  BY <1>1, SinceLastFire DEF Inv, TypeOK, CyclesInv, Dispatched
<1>3. /\ lastRun[j] \in Nat
      /\ lastRun[j] - Slot(t, runs[j]) \in 0 .. MaxLate
  BY <1>1, <1>2 DEF Inv, TypeOK, Times, Never, Cadence
<1>4. Window(q) \in Int /\ fires[t] + 1 - runs[j] <= Window(q)
  <2>1. CASE Seconds[q] = 0
    BY <1>1, <1>2, <2>1 DEF CyclesInv, Dispatched, Window
  <2>2. CASE Seconds[q] # 0
    <3>1. Slowed(j)
      BY <1>1, <1>3, <2>2 DEF Slowed, Never
    <3>2. fires[t] - runs[j] < CyclesIn(Length(q) + MaxLate)
      BY <1>1, <3>1 DEF Inv, Cadence
    <3>3. Length(q) + MaxLate \in Int
      BY <1>1, Numbers
    <3>4. CyclesIn(Length(q) + MaxLate) \in Int
      BY <3>3, CyclesAtLeast
    <3> QED
      BY <1>2, <2>2, <3>2, <3>4 DEF Window
  <2> QED
    BY <2>1, <2>2
<1>5. /\ Slot(t, fires[t] + 1) \in Int /\ Slot(t, runs[j]) \in Int
      /\ (fires[t] + 1 - runs[j]) * Interval \in Int
      /\ Slot(t, fires[t] + 1) - Slot(t, runs[j])
            = (fires[t] + 1 - runs[j]) * Interval
  BY <1>2, SlotsApart DEF Inv
<1>6. (fires[t] + 1 - runs[j]) * Interval <= Window(q) * Interval
  BY <1>2, <1>4, Numbers, TimesMonotone
<1>7. Window(q) * Interval \in Int
  BY <1>4, Numbers
<1>8. now <= Slot(t, fires[t] + 1) + MaxLate
  <2>1. \/ now < Slot(t, fires[t] + 1)
        \/ now <= Slot(t, fires[t] + 1) + MaxLate
    BY DEF Inv, Ticking
  <2> QED
    BY <1>2, <1>5, <2>1, Numbers
<1> HIDE DEF j
<1>9. now <= lastRun[j] + Window(q) * Interval + MaxLate
  BY <1>2, <1>3, <1>5, <1>6, <1>7, <1>8, Numbers
<1> QED
  BY <1>3, <1>7, <1>9 DEF j

----------------------------------------------------------------------------
(* Every set of numbers that is not empty has a least one: the intervals   *)
(* from 1 to its members are finite sets, and those are well-founded.      *)
LEMMA LeastPlace ==
    ASSUME NEW S, S \subseteq Nat, S # {}
    PROVE  \E m \in S : \A n \in S : m <= n
<1> DEFINE T == { 1 .. n : n \in S }
<1>1. T \subseteq FiniteSubsetsOf(Nat) /\ T # {}
  <2> SUFFICES ASSUME NEW n \in S
               PROVE  1 .. n \in FiniteSubsetsOf(Nat)
    OBVIOUS
  <2>1. n \in Int /\ 1 .. n \in SUBSET Nat
    OBVIOUS
  <2> QED
    BY <2>1, FS_Interval DEF FiniteSubsetsOf
<1>2. PICK x \in T : \A y \in T : ~ (<<y, x>> \in StrictSubsetOrdering(Nat))
  <2> HIDE DEF T
  <2> QED
    BY <1>1, FS_StrictSubsetOrderingWellFounded, WFMin
<1>3. PICK m \in S : x = 1 .. m
  OBVIOUS
<1>4. ASSUME NEW n \in S, n < m PROVE FALSE
  <2>1. /\ 1 .. n \in SUBSET Nat /\ 1 .. m \in SUBSET Nat
        /\ 1 .. n \subseteq 1 .. m /\ m \in 1 .. m /\ m \notin 1 .. n
    BY <1>4
  <2>2. <<1 .. n, 1 .. m>> \in StrictSubsetOrdering(Nat)
    BY <2>1 DEF StrictSubsetOrdering
  <2> QED
    BY <1>2, <1>3, <2>2
<1> QED
  BY <1>4

(* The query a cycle is at comes before all the others that are left.      *)
LEMMA RunningIsFirst ==
    ASSUME CycleTypes, NEW t \in Tenants, left[t] # {}
    PROVE  /\ Running(t) \in left[t]
           /\ \A p \in left[t] \ {Running(t)} : Place[Running(t)] < Place[p]
<1>1. left[t] \subseteq Queries
  BY DEF CycleTypes
<1>2. \E q \in left[t] : \A p \in left[t] : Place[q] <= Place[p]
  <2> DEFINE S == { Place[q] : q \in left[t] }
  <2>1. S \subseteq Nat /\ S # {}
    BY <1>1, Numbers
  <2>2. PICK m \in S : \A n \in S : m <= n
    <3> HIDE DEF S
    <3> QED
      BY <2>1, LeastPlace
  <2> QED
    BY <2>2
<1>3. /\ Running(t) \in left[t]
      /\ \A p \in left[t] : Place[Running(t)] <= Place[p]
  BY <1>2 DEF Running
<1>4. ASSUME NEW p \in left[t] \ {Running(t)}
      PROVE  Place[Running(t)] < Place[p]
  <2>1. /\ p \in Queries /\ Running(t) \in Queries /\ p # Running(t)
        /\ Place[Running(t)] <= Place[p]
    BY <1>1, <1>3
  <2>2. Place[Running(t)] # Place[p]
    BY <2>1, OverrunAssumption
  <2> QED
    BY <2>1, <2>2, Numbers
<1> QED
  BY <1>3, <1>4

----------------------------------------------------------------------------
(* What a step of another tenant's, or one without a fire, leaves alone.   *)
SameFor(t) ==
    /\ left'[t] = left[t]
    /\ since'[t] = since[t]
    /\ answered'[t] = answered[t]
    /\ phase'[t] = phase[t]
    /\ fires'[t] = fires[t]
    /\ lastFire'[t] = lastFire[t]
    /\ firstFire'[t] = firstFire[t]
    /\ \A q \in Queries :
          /\ answeredAt'[<<t, q>>] = answeredAt[<<t, q>>]
          /\ lastRun'[<<t, q>>] = lastRun[<<t, q>>]
          /\ runs'[<<t, q>>] = runs[<<t, q>>]

TenantInv(t) ==
    /\ CycleInTime(t)
    /\ Left(t)
    /\ \A q \in Queries : Dispatched(<<t, q>>)
    /\ \A q \in Queries :
          (phase[t] = "loop" /\ Place[q] <= Reach) => Served(t, q)

LEMMA TenantByTenant ==
    /\ CyclesInv => CycleTypes /\ \A t \in Tenants : TenantInv(t)
    /\ (CycleTypes /\ \A t \in Tenants : TenantInv(t)) => CyclesInv
<1>1. \A j \in Jobs :
         j[1] \in Tenants /\ j[2] \in Queries /\ j = <<j[1], j[2]>>
  BY DEF Jobs
<1>2. \A t \in Tenants, q \in Queries : <<t, q>> \in Jobs
  BY DEF Jobs
<1> QED
  BY <1>1, <1>2 DEF CyclesInv, TenantInv

LEMMA TenantStays ==
    ASSUME CycleTypes, NEW t \in Tenants, TenantInv(t), SameFor(t),
           now' = now \/ (InTime(t) /\ now' = now + 1),
           now \in Int, now' \in Int
    PROVE  TenantInv(t)'
<1>1. left[t] \subseteq Queries /\ since[t] \in Int
  BY DEF CycleTypes, Times, Never
<1>2. left[t] # {} => now' <= since[t] + QueryTimeout
  BY <1>1, Numbers DEF TenantInv, CycleInTime, InTime
<1>3. CycleInTime(t)'
  BY <1>2 DEF TenantInv, CycleInTime, SameFor
<1>4. Left(t)'
  BY <1>1 DEF TenantInv, Left, SameFor
<1>5. ASSUME NEW q \in Queries PROVE Dispatched(<<t, q>>)'
  BY DEF TenantInv, Dispatched, SameFor
<1>6. ASSUME NEW q \in Queries, (phase[t] = "loop" /\ Place[q] <= Reach)'
      PROVE  Served(t, q)'
  <2>1. Served(t, q)
    BY <1>6 DEF TenantInv, SameFor, Reach
  <2> QED
    BY <2>1 DEF Served, SameFor, Window, CyclesIn
<1> QED
  BY <1>3, <1>4, <1>5, <1>6 DEF TenantInv

(* The query at work comes back.                                           *)
LEMMA ReturnKeeps ==
    ASSUME Inv, CyclesInv, NEW t \in Tenants, QueryReturns(t)
    PROVE  TenantInv(t)'
<1> DEFINE p == Running(t)
<1>0. CycleTypes /\ TenantInv(t)
  BY TenantByTenant
<1>1. /\ left[t] # {} /\ left[t] \subseteq Queries /\ p \in left[t]
      /\ \A q \in left[t] \ {p} : Place[p] < Place[q]
  BY <1>0, RunningIsFirst DEF QueryReturns, CycleTypes
<1>2. /\ left'[t] = left[t] \ {p}
      /\ since'[t] = now
      /\ answered'[t] = answered[t] + 1
      /\ answeredAt'[<<t, p>>] = now
      /\ \A q \in Queries \ {p} : answeredAt'[<<t, q>>] = answeredAt[<<t, q>>]
  BY <1>0, <1>1 DEF QueryReturns, CycleTypes, Jobs
<1>3. UNCHANGED vars
  BY DEF QueryReturns
<1>4. /\ now \in Nat /\ answered[t] \in Nat /\ lastFire[t] \in Int
      /\ \A q \in Queries : lastRun[<<t, q>>] \in Int
  BY <1>0 DEF Inv, TypeOK, CycleTypes, Times, Never, Jobs
<1> HIDE DEF p
<1>5. CycleInTime(t)'
  <2>1. /\ now <= lastFire[t] + (answered[t] + 1) * QueryTimeout
        /\ (answered[t] + 1) * QueryTimeout \in Int
    BY <1>1, LeftInTime
  <2>2. phase[t] # "stagger" /\ fires[t] > 0
    BY <1>0, <1>1 DEF TenantInv, CycleInTime
  <2>3. since'[t] <= lastFire'[t] + answered'[t] * QueryTimeout
    BY <1>2, <1>3, <2>1 DEF vars, fireVars
  <2>4. now' <= since'[t] + QueryTimeout
    BY <1>2, <1>3, <1>4, Numbers DEF vars
  <2> QED
    BY <1>3, <2>2, <2>3, <2>4 DEF CycleInTime, vars, clockVars, fireVars
<1>6. Left(t)'
  <2>1. ASSUME NEW q \in left[t] \ {p} PROVE answered[t] + 1 < Place[q]
    <3>1. answered[t] < Place[p] /\ Place[p] < Place[q]
      BY <1>0, <1>1 DEF TenantInv, Left
    <3>2. Place[p] \in Nat /\ Place[q] \in Nat
      BY <1>1, Numbers
    <3> QED
      BY <1>4, <3>1, <3>2
  <2> QED
    BY <1>0, <1>2, <1>3, <2>1 DEF TenantInv, Left, vars, fireVars
<1>7. ASSUME NEW q \in Queries PROVE Dispatched(<<t, q>>)'
  <2>1. fires[t] > 0 /\ fires[t] \in Nat
    BY <1>0, <1>1 DEF TenantInv, CycleInTime, Inv, TypeOK
  <2> QED
    BY <1>0, <1>3, <2>1 DEF TenantInv, Dispatched, vars, fireVars
<1>8. ASSUME NEW q \in Queries, (phase[t] = "loop" /\ Place[q] <= Reach)'
      PROVE  Served(t, q)'
  <2>1. Served(t, q)
    BY <1>0, <1>3, <1>8 DEF TenantInv, vars, clockVars
  <2>2. CASE q = p
    <3>1. lastRun[<<t, p>>] = lastFire[t] /\ lastFire[t] <= now
      <4>1. fires[t] > 0
        BY <1>0, <1>1 DEF TenantInv, CycleInTime
      <4> QED
        BY <1>0, <1>1, <4>1 DEF TenantInv, Left, Inv, History
    <3>2. p \notin left'[t] /\ now # Never
      BY <1>2, <1>4 DEF Never
    <3> QED
      BY <1>2, <1>3, <2>2, <3>1, <3>2 DEF Served, vars, fireVars
  <2>3. CASE q # p
    <3>1. /\ q \in left'[t] <=> q \in left[t]
          /\ answeredAt'[<<t, q>>] = answeredAt[<<t, q>>]
      BY <1>2, <2>3
    <3> QED
      BY <1>3, <2>1, <3>1 DEF Served, vars, fireVars
  <2> QED
    BY <2>2, <2>3
<1> QED
  BY <1>5, <1>6, <1>7, <1>8 DEF TenantInv

(* A fire: what was within reach has been answered, and what is due begins *)
(* to wait.                                                                *)
LEMMA StartKeeps ==
    ASSUME Inv, CyclesInv, NEW t \in Tenants, FireFirst(t) \/ FireOnTick(t)
    PROVE  TenantInv(t)'
<1>0. CycleTypes /\ TenantInv(t)
  BY TenantByTenant
<1>1. Fire(t) /\ StartCycle(t) /\ now' = now /\ now \in Nat
  BY DEF FireFirst, FirstFire, FireOnTick, TakeTick, Inv, TypeOK
<1>2. /\ fires[t] \in Nat /\ fires'[t] = fires[t] + 1
      /\ lastFire'[t] = now
      /\ firstFire'[t] = IF firstFire[t] = Never THEN now ELSE firstFire[t]
      /\ \A q \in Queries :
            /\ lastRun'[<<t, q>>] =
                  IF q \in Due(t) THEN now ELSE lastRun[<<t, q>>]
            /\ runs'[<<t, q>>] =
                  IF q \in Due(t) THEN fires[t] + 1 ELSE runs[<<t, q>>]
  BY <1>1 DEF Fire, Recorded, Inv, TypeOK, Jobs
<1>3. /\ Due(t) \subseteq Queries
      /\ left'[t] = Due(t)
      /\ since'[t] = now
      /\ answered'[t] = 0
      /\ answeredAt' = answeredAt
  BY <1>0, <1>1 DEF StartCycle, CycleTypes, Due
<1>4. phase'[t] = "loop"
  BY DEF FireFirst, FirstFire, FireOnTick, TakeTick, Inv, TypeOK
<1>5. CycleInTime(t)'
  <2>1. 0 * QueryTimeout = 0
    BY Numbers
  <2>2. now <= now + QueryTimeout /\ now <= now + 0 * QueryTimeout
    BY <1>1, <2>1, Numbers
  <2> QED
    BY <1>1, <1>2, <1>3, <1>4, <2>2 DEF CycleInTime
<1>6. Left(t)'
  BY <1>2, <1>3, Numbers DEF Left
<1>7. ASSUME NEW q \in Queries PROVE Dispatched(<<t, q>>)'
  <2>1. q \notin Due(t) => runs[<<t, q>>] > 0 /\ Seconds[q] # 0
    BY DEF Due, Inv, TypeOK, Cadence, Jobs
  <2> QED
    BY <1>2, <2>1 DEF Dispatched
<1>8. ASSUME NEW q \in Queries, Place[q] <= Reach PROVE Served(t, q)'
  <2>1. CASE FireFirst(t)
    <3>1. fires[t] = 0 /\ firstFire[t] = Never
      BY <2>1 DEF FireFirst, FirstFire, Inv, History
    <3>2. <<t, q>> \in Jobs /\ runs[<<t, q>>] = 0
      BY <3>1 DEF Inv, TypeOK, Cadence, Jobs
    <3>3. q \in Due(t)
      BY <3>2 DEF Due, Inv, Cadence
    <3>4. answeredAt[<<t, q>>] = Never
      BY <1>0, <3>1 DEF TenantInv, Dispatched
    <3> QED
      BY <1>2, <1>3, <3>1, <3>3, <3>4 DEF Served
  <2>2. CASE FireOnTick(t)
    <3>1. phase[t] = "loop" /\ tickSince[t] # Never
      BY <2>2 DEF FireOnTick, TakeTick
    <3>2. q \notin left[t]
      <4>1. Reach \in Int /\ Place[q] \in Int
        BY Numbers, DivideDown DEF Reach
      <4> QED
        BY <1>8, <3>1, <4>1, NothingWithinReachIsKilled
    <3>3. /\ answeredAt[<<t, q>>] # Never
          /\ lastRun[<<t, q>>] <= answeredAt[<<t, q>>]
      BY <1>0, <1>8, <3>1, <3>2 DEF TenantInv, Served
    <3>4. answeredAt[<<t, q>>] \in Int
      BY <1>0 DEF CycleTypes, Times, Never, Jobs
    <3>5. now <= answeredAt[<<t, q>>] + Window(q) * Interval + MaxLate
      BY <1>1, <3>1, <3>3, <3>4, NextDispatch, Numbers
    <3>6. Window(q)' = Window(q)
      BY DEF Window, CyclesIn
    <3>7. CASE q \in Due(t)
      BY <1>2, <1>3, <3>3, <3>5, <3>6, <3>7 DEF Served
    <3>8. CASE q \notin Due(t)
      BY <1>2, <1>3, <3>3, <3>8 DEF Served
    <3> QED
      BY <3>7, <3>8
  <2> QED
    BY <2>1, <2>2
<1>9. ASSUME NEW q \in Queries, (phase[t] = "loop" /\ Place[q] <= Reach)'
      PROVE  Served(t, q)'
  BY <1>8, <1>9 DEF Reach
<1> QED
  BY <1>5, <1>6, <1>7, <1>9 DEF TenantInv

(* A death may take the cycle along or leave it.                           *)
LEMMA DeathKeeps ==
    ASSUME Inv, CyclesInv, NEW t \in Tenants, SchedulerDies(t)
    PROVE  TenantInv(t)'
<1>0. CycleTypes /\ TenantInv(t)
  BY TenantByTenant
<1>1. /\ phase'[t] = "dead"
      /\ left'[t] = left[t] \/ left'[t] = {}
      /\ UNCHANGED <<now, fireVars, since, answered, answeredAt>>
  BY <1>0 DEF SchedulerDies, Die, Inv, TypeOK, CycleTypes
<1>2. CycleInTime(t)' /\ Left(t)'
  BY <1>0, <1>1 DEF TenantInv, CycleInTime, Left, fireVars
<1>3. \A q \in Queries : Dispatched(<<t, q>>)'
  BY <1>0, <1>1 DEF TenantInv, Dispatched, fireVars
<1> QED
  BY <1>1, <1>2, <1>3 DEF TenantInv

LEMMA CycleTypesNext ==
    ASSUME Inv, CyclesInv, [OverrunNext]_overrunVars
    PROVE  CycleTypes'
<1> USE DEF CycleTypes
<1>0. CycleTypes /\ now \in Times
  BY DEF CyclesInv, Inv, TypeOK, Times
<1>1. ASSUME NEW t \in Tenants, StartCycle(t) PROVE CycleTypes'
  <2>1. Due(t) \subseteq Queries
    BY DEF Due
  <2> QED
    BY <1>0, <1>1, <2>1 DEF StartCycle
<1>2. ASSUME NEW t \in Tenants, QueryReturns(t) PROVE CycleTypes'
  <2>1. /\ left' = [left EXCEPT ![t] = @ \ {Running(t)}]
        /\ since' = [since EXCEPT ![t] = now]
        /\ answered' = [answered EXCEPT ![t] = @ + 1]
        /\ answeredAt' = [answeredAt EXCEPT ![<<t, Running(t)>>] = now]
    BY <1>2 DEF QueryReturns
  <2>2. left' \in [Tenants -> SUBSET Queries]
    BY <1>0, <2>1
  <2>3. since' \in [Tenants -> Times] /\ answeredAt' \in [Jobs -> Times]
    BY <1>0, <2>1
  <2>4. answered' \in [Tenants -> Nat]
    BY <1>0, <2>1
  <2> QED
    BY <2>2, <2>3, <2>4
<1>3. ASSUME NEW t \in Tenants, SchedulerDies(t) PROVE CycleTypes'
  BY <1>0, <1>3 DEF SchedulerDies
<1>4. CASE UNCHANGED cycleVars
  BY <1>0, <1>4 DEF cycleVars
<1> QED
  BY <1>1, <1>2, <1>3, <1>4 DEF OverrunNext, overrunVars, FireFirst,
     FireOnTick, TimePasses

LEMMA CyclesNext == Inv /\ CyclesInv /\ [OverrunNext]_overrunVars => CyclesInv'
<1> SUFFICES ASSUME Inv, CyclesInv, [OverrunNext]_overrunVars PROVE CyclesInv'
  OBVIOUS
<1>0. CycleTypes /\ \A u \in Tenants : TenantInv(u)
  BY TenantByTenant
<1>1. CycleTypes'
  BY CycleTypesNext
<1>2. Inv'
  BY OverrunStep, InvNext
<1>3. now \in Int /\ now' \in Int
  BY <1>2 DEF Inv, TypeOK
<1>4. ASSUME \A u \in Tenants : TenantInv(u)' PROVE CyclesInv'
  <2>1. ASSUME NEW j \in Jobs PROVE Dispatched(j)'
    <3>1. j[1] \in Tenants /\ j[2] \in Queries /\ j = <<j[1], j[2]>>
      BY DEF Jobs
    <3>2. Dispatched(<<j[1], j[2]>>)'
      BY <1>4, <3>1 DEF TenantInv
    <3> QED
      BY <3>1, <3>2
  <2> QED
    BY <1>1, <1>4, <2>1 DEF CyclesInv, TenantInv
<1>5. ASSUME NEW t \in Tenants, FireFirst(t) \/ FireOnTick(t) PROVE CyclesInv'
  <2>1. ASSUME NEW u \in Tenants \ {t} PROVE TenantInv(u)'
    <3>1. SameFor(u) /\ now' = now
      BY <1>0, <1>5 DEF FireFirst, FirstFire, FireOnTick, TakeTick, Fire,
         StartCycle, SameFor, Inv, TypeOK, CycleTypes, Jobs
    <3> QED
      BY <1>0, <1>3, <3>1, TenantStays
  <2>2. TenantInv(t)'
    BY <1>5, StartKeeps
  <2> QED
    BY <1>4, <2>1, <2>2
<1>6. ASSUME NEW t \in Tenants, QueryReturns(t) PROVE CyclesInv'
  <2>1. ASSUME NEW u \in Tenants \ {t} PROVE TenantInv(u)'
    <3>1. SameFor(u) /\ now' = now
      BY <1>0, <1>6 DEF QueryReturns, SameFor, CycleTypes, Jobs, vars,
         clockVars, fireVars
    <3> QED
      BY <1>0, <1>3, <3>1, TenantStays
  <2>2. TenantInv(t)'
    BY <1>6, ReturnKeeps
  <2> QED
    BY <1>4, <2>1, <2>2
<1>7. ASSUME NEW t \in Tenants, SchedulerDies(t) PROVE CyclesInv'
  <2>1. ASSUME NEW u \in Tenants \ {t} PROVE TenantInv(u)'
    <3>1. SameFor(u) /\ now' = now
      BY <1>0, <1>7 DEF SchedulerDies, Die, SameFor, Inv, TypeOK, CycleTypes,
         fireVars
    <3> QED
      BY <1>0, <1>3, <3>1, TenantStays
  <2>2. TenantInv(t)'
    BY <1>7, DeathKeeps
  <2> QED
    BY <1>4, <2>1, <2>2
<1>8. CASE TimePasses
  <2>1. ASSUME NEW u \in Tenants PROVE TenantInv(u)'
    <3>1. SameFor(u) /\ InTime(u) /\ now' = now + 1
      BY <1>8 DEF TimePasses, Advance, SameFor, cycleVars, fireVars
    <3> QED
      BY <1>0, <1>3, <3>1, TenantStays
  <2> QED
    BY <1>4, <2>1
<1>9. CASE UNCHANGED overrunVars
  <2>1. ASSUME NEW u \in Tenants PROVE TenantInv(u)'
    <3>1. SameFor(u) /\ now' = now
      BY <1>9 DEF overrunVars, vars, cycleVars, clockVars, fireVars, SameFor
    <3> QED
      BY <1>0, <1>3, <3>1, TenantStays
  <2> QED
    BY <1>4, <2>1
<1> QED
  BY <1>5, <1>6, <1>7, <1>8, <1>9 DEF OverrunNext, TimeIsUp, overrunVars

----------------------------------------------------------------------------
(* The inductive invariant of cycles that take time holds at every moment  *)
(* (fire, runCycle, dueQueries).                                           *)
THEOREM OverrunAlways == OverrunSpec => [](Inv /\ CyclesInv)
<1>1. OverrunSpec => []CyclesInv
  BY OverrunClockwork, CyclesInit, CyclesNext, PTL DEF OverrunSpec
<1> QED
  BY <1>1, OverrunClockwork, PTL

(* A cycle that the next fire kills has answered as many queries as fit    *)
(* between two fires, however slow they are (fire, runCycle).              *)
THEOREM KillsOnlyPastReach == OverrunSpec => KilledOnlyPastReach
<1> DEFINE FarEnough ==
       \A t \in Tenants : Killed(t) => answered[t] >= Reach
<1>1. Inv /\ CyclesInv /\ [OverrunNext]_overrunVars => [FarEnough]_overrunVars
  <2> SUFFICES ASSUME Inv, CyclesInv, OverrunNext, NEW t \in Tenants, Killed(t)
      PROVE  answered[t] >= Reach
    OBVIOUS
  <2>1. fires'[t] # fires[t] /\ left[t] # {}
    BY DEF Killed
  <2>2. FireFirst(t) \/ FireOnTick(t)
    <3>1. ASSUME NEW u \in Tenants, FireFirst(u) \/ FireOnTick(u), u # t
          PROVE  FALSE
      BY <2>1, <3>1 DEF FireFirst, FirstFire, FireOnTick, TakeTick, Fire, Inv,
         TypeOK
    <3>2. ~(UNCHANGED fires)
      BY <2>1
    <3> QED
      BY <3>1, <3>2 DEF OverrunNext, QueryReturns, SchedulerDies, Die,
         TimePasses, Advance, TimeIsUp, vars, fireVars
  <2>3. ~FireFirst(t)
    BY <2>1 DEF FireFirst, FirstFire, CyclesInv, CycleInTime
  <2>4. phase[t] = "loop" /\ tickSince[t] # Never
    BY <2>2, <2>3 DEF FireOnTick, TakeTick
  <2> QED
    BY <2>1, <2>4, NothingWithinReachIsKilled
<1> QED
  BY <1>1, OverrunAlways, PTL DEF OverrunSpec, KilledOnlyPastReach

(* What is within reach is answered within its window, one delay and its   *)
(* place in the cycle, whatever is killed behind it (dueQueries, runCycle).*)
THEOREM FreshnessWithinReach == OverrunSpec => []FreshWithinReach
<1>1. Inv /\ CyclesInv => FreshWithinReach
  <2> SUFFICES ASSUME Inv, CyclesInv, NEW t \in Tenants, NEW q \in Queries,
                      phase[t] = "loop", Place[q] <= Reach
      PROVE  LET last == answeredAt[<<t, q>>]
                 turn == Place[q] * QueryTimeout
             IN  IF last = Never THEN now <= firstFire[t] + turn
                 ELSE now <= last + Window(q) * Interval + MaxLate + turn
    BY DEF FreshWithinReach
  <2> DEFINE last == answeredAt[<<t, q>>]
             turn == Place[q] * QueryTimeout
             window == Window(q) * Interval
  <2>1. /\ now \in Int /\ last \in Int /\ lastFire[t] \in Int
        /\ lastRun[<<t, q>>] \in Int /\ firstFire[t] \in Int
    BY DEF Inv, TypeOK, CyclesInv, CycleTypes, Times, Never, Jobs
  <2>2. turn \in Int /\ turn >= 0
    <3>1. Place[q] \in Int /\ 0 <= Place[q]
      BY Numbers
    <3> QED
      BY <3>1, MoreTimeouts, OneMoreTimeout
  <2>3. /\ window \in Int
        /\ now <= lastRun[<<t, q>>] + window + MaxLate
    BY NextDispatch
  <2>4. Served(t, q)
    BY DEF CyclesInv
  <2>5. q \in left[t] => now <= lastFire[t] + turn
    BY LeftInTime
  <2> HIDE DEF turn, window, last
  <2>6. CASE q \in left[t]
    <3>1. IF last = Never THEN lastFire[t] = firstFire[t]
          ELSE lastFire[t] <= last + window + MaxLate
      BY <2>4, <2>6 DEF Served, last, window
    <3>2. IF last = Never THEN now <= firstFire[t] + turn
          ELSE now <= last + window + MaxLate + turn
      BY <2>1, <2>2, <2>3, <2>5, <2>6, <3>1, Numbers
    <3> QED
      BY <3>2 DEF last, turn, window
  <2>7. CASE q \notin left[t]
    <3>1. last # Never /\ lastRun[<<t, q>>] <= last
      BY <2>4, <2>7 DEF Served, last
    <3>2. now <= last + window + MaxLate + turn
      BY <2>1, <2>2, <2>3, <3>1, Numbers
    <3> QED
      BY <3>1, <3>2 DEF last, turn, window
  <2> QED
    BY <2>6, <2>7
<1> QED
  BY <1>1, OverrunAlways, PTL

============================================================================
