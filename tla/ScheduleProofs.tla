--------------------------- MODULE ScheduleProofs ---------------------------
(***************************************************************************)
(* Proofs about module Schedule, for every set of tenants and queries,     *)
(* every interval and every lateness below it.                             *)
(***************************************************************************)
EXTENDS Schedule, TLAPS

(* When fire number n of t is meant to come.                               *)
Slot(t, n) == firstFire[t] + (n - 1) * Interval

(* Before its first fire a tenant has none of the traces of one; after it, *)
(* its last fire was in its slot.                                          *)
History(t) ==
    /\ fires[t] = 0 => phase[t] # "loop"
    /\ fires[t] = 0 <=> firstFire[t] = Never
    /\ fires[t] = 0 <=> lastFire[t] = Never
    /\ phase[t] = "stagger" =>
          fires[t] = 0 /\ tickAt[t] = Never /\ tickSince[t] = Never
    /\ fires[t] > 0 =>
          /\ lastFire[t] - Slot(t, fires[t]) \in 0 .. MaxLate
          /\ lastFire[t] <= now

(* The next tick of a living scheduler is the next slot: to come, or       *)
(* waiting since, and not for longer than MaxLate.                         *)
Ticking(t) ==
    LET next == Slot(t, fires[t] + 1)
    IN  phase[t] = "loop" =>
            \/ tickSince[t] = Never /\ tickAt[t] = next /\ now < next
            \/ /\ tickSince[t] = next /\ tickAt[t] = next + Interval
               /\ next <= now /\ now <= next + MaxLate

(* The last run of a query is that of a fire of its tenant, in its slot;   *)
(* the fires since then are fewer than the interval of the query allows.   *)
Cadence(j) ==
    LET t == j[1]
    IN  /\ runs[j] = 0 <=> lastRun[j] = Never
        /\ runs[j] <= fires[t]
        /\ runs[j] > 0 => lastRun[j] - Slot(t, runs[j]) \in 0 .. MaxLate
        /\ Slowed(j) => fires[t] - runs[j] < CyclesIn(Length(j[2]) + MaxLate)

(* A dead scheduler died after its last fire; a probe has read the clock.  *)
Deaths ==
    /\ probe <= now
    /\ \A t \in Tenants :
          phase[t] = "dead" =>
              diedAt[t] # Never /\ lastFire[t] <= diedAt[t]

Inv ==
    /\ TypeOK
    /\ \A t \in Tenants : History(t) /\ Ticking(t)
    /\ \A j \in Jobs : Cadence(j)
    /\ Deaths

----------------------------------------------------------------------------
(* Division by the interval, rounded up, and the order of its multiples.   *)
LEMMA DivideUp ==
    ASSUME NEW I \in Nat \ {0}, NEW y \in Int
    PROVE  LET d == (y + I - 1) \div I
           IN  /\ d \in Int
               /\ d * I <= y + I - 1
               /\ y + I - 1 < d * I + I
OBVIOUS

LEMMA TimesMonotone ==
    ASSUME NEW I \in Nat \ {0}, NEW a \in Int, NEW b \in Int, a <= b
    PROVE  a * I <= b * I
OBVIOUS

LEMMA OneMore ==
    ASSUME NEW a \in Int
    PROVE  /\ a * Interval \in Int
           /\ (a + 1) * Interval = a * Interval + Interval
           /\ (a + 1) - 1 = a
           /\ (a + 1 + 1) - 1 = a + 1
BY ScheduleAssumption

(* A duration is never longer than its seconds, and as long as they are if *)
(* they fit.                                                               *)
LEMMA ModIsBelow ==
    ASSUME NEW k \in Nat, NEW m \in Nat \ {0}
    PROVE  /\ k % m \in Int
           /\ k % m < m
           /\ k < m => k % m = k
OBVIOUS

LEMMA Lengths ==
    ASSUME NEW n \in Nat, NEW s \in Nat \ {0}
    PROVE  /\ n * s \in Nat
           /\ n # 0 => n * s > 0
OBVIOUS

LEMMA WrapAtMost ==
    ASSUME NEW n \in Nat
    PROVE  /\ Wrap(n) \in Int
           /\ Wrap(n) <= n
           /\ n <= WordMax => Wrap(n) = n
<1> DEFINE m == 2 * WordMax + 2
           k == n + WordMax + 1
<1>1. WordMax \in Nat /\ m \in Nat \ {0} /\ k \in Nat
  BY DurationAssumption
<1>2. /\ k % m \in Int
      /\ k % m < m
      /\ k < m => k % m = k
  BY <1>1, ModIsBelow
<1>3. Wrap(n) = (k % m) - (WordMax + 1)
  BY DEF Wrap
<1> HIDE DEF m
<1>4. m = 2 * WordMax + 2
  BY DEF m
<1> QED
  BY <1>1, <1>2, <1>3, <1>4

LEMMA PauseAtMost ==
    ASSUME NEW q \in Queries
    PROVE  /\ Seconds[q] \in Nat
           /\ Length(q) \in Nat
           /\ Seconds[q] # 0 => Length(q) > 0
           /\ Pause(q) \in Int
           /\ Pause(q) <= Length(q)
           /\ Fits(q) => Pause(q) = Length(q)
<1>1. Seconds[q] \in Nat /\ Second \in Nat \ {0}
  BY ScheduleAssumption, DurationAssumption
<1>2. Length(q) \in Nat /\ (Seconds[q] # 0 => Length(q) > 0)
  BY <1>1, Lengths DEF Length
<1>3. Pause(q) = Wrap(Length(q))
  BY DEF Pause, InSeconds, Length
<1> QED
  BY <1>1, <1>2, <1>3, WrapAtMost DEF Fits

(* CyclesIn(y) is the least number of intervals that take y.               *)
LEMMA CyclesAtLeast ==
    ASSUME NEW x \in Int, NEW y \in Int
    PROVE  /\ CyclesIn(y) \in Int
           /\ x * Interval < y => x < CyclesIn(y)
           /\ x * Interval >= y => x >= CyclesIn(y)
<1> DEFINE d == CyclesIn(y)
<1>1. /\ d \in Int
      /\ d * Interval <= y + Interval - 1
      /\ y + Interval - 1 < d * Interval + Interval
  BY ScheduleAssumption, DivideUp DEF CyclesIn
<1> HIDE DEF d
<1>2. d <= x => d * Interval <= x * Interval
  BY <1>1, TimesMonotone, ScheduleAssumption
<1>3. x + 1 <= d => (x + 1) * Interval <= d * Interval
  BY <1>1, TimesMonotone, ScheduleAssumption
<1>4. /\ (x + 1) * Interval = x * Interval + Interval
      /\ x * Interval \in Int /\ d * Interval \in Int
  BY <1>1, ScheduleAssumption
<1>5. d \in Int /\ (x * Interval < y => x < d) /\ (x * Interval >= y => x >= d)
  BY <1>1, <1>2, <1>3, <1>4, ScheduleAssumption
<1> QED
  BY <1>5 DEF d

(* Slots are one interval apart.                                           *)
LEMMA SlotSteps ==
    ASSUME TypeOK, NEW t \in Tenants, NEW n \in Int
    PROVE  /\ Slot(t, n) \in Int
           /\ Slot(t, n + 1) = Slot(t, n) + Interval
BY ScheduleAssumption DEF TypeOK, Times, Never, Slot

LEMMA SlotsApart ==
    ASSUME TypeOK, NEW t \in Tenants, NEW f \in Int, NEW k \in Int
    PROVE  /\ Slot(t, f + 1) \in Int
           /\ Slot(t, k) \in Int
           /\ (f + 1 - k) * Interval \in Int
           /\ Slot(t, f + 1) - Slot(t, k) = (f + 1 - k) * Interval
BY ScheduleAssumption DEF TypeOK, Times, Never, Slot

(* Where the slot of a fire is that comes now.                             *)
Target(t) == IF fires[t] = 0 THEN now ELSE Slot(t, fires[t] + 1)

(* After a fire, the last slot is the one that was next.                   *)
LEMMA Multiples ==
    ASSUME NEW n \in Int, NEW f \in Int
    PROVE  /\ f + ((n + 1) - 1) * Interval = f + n * Interval
           /\ f + ((n + 1 + 1) - 1) * Interval = f + n * Interval + Interval
           /\ n = 0 => f + n * Interval = f
<1>1. /\ (n + 1) - 1 = n
      /\ (n + 1 + 1) - 1 = n + 1
      /\ (n + 1) * Interval = n * Interval + Interval
      /\ n * Interval \in Int
      /\ n = 0 => n * Interval = 0
      /\ Interval \in Int
  BY OneMore, ScheduleAssumption
<1> QED
  BY <1>1

LEMMA NextSlots ==
    ASSUME Inv, NEW t \in Tenants, Fire(t)
    PROVE  /\ fires'[t] = fires[t] + 1
           /\ fires[t] > 0 => firstFire'[t] = firstFire[t]
           /\ Target(t) \in Int
           /\ Slot(t, fires[t])' = Target(t)
           /\ Slot(t, fires[t] + 1)' = Target(t) + Interval
<1> DEFINE n == fires[t]
           f == IF fires[t] = 0 THEN now ELSE firstFire[t]
<1>1. n \in Int /\ f \in Int
  BY DEF Inv, TypeOK, Times, Never
<1>2. firstFire'[t] = f /\ fires'[t] = n + 1
  BY DEF Inv, TypeOK, History, Fire
<1>3. n # 0 => f = firstFire[t]
  OBVIOUS
<1>4. n = 0 => f = now
  OBVIOUS
<1>5. /\ Slot(t, fires[t])' = f + ((n + 1) - 1) * Interval
      /\ Slot(t, fires[t] + 1)' = f + ((n + 1 + 1) - 1) * Interval
  BY <1>2 DEF Slot
<1>6. n # 0 => Slot(t, fires[t] + 1) = f + ((n + 1) - 1) * Interval
  BY <1>3 DEF Slot
<1> HIDE DEF n, f
<1>7. /\ Slot(t, fires[t])' = f + n * Interval
      /\ Slot(t, fires[t] + 1)' = f + n * Interval + Interval
      /\ f + n * Interval \in Int
  BY <1>1, <1>5, Multiples, OneMore
<1>8. Target(t) = f + n * Interval
  BY <1>1, <1>4, <1>6, Multiples DEF Target, n
<1> QED
  BY <1>2, <1>3, <1>7, <1>8 DEF n

----------------------------------------------------------------------------
LEMMA InvInit == Init => Inv
<1> SUFFICES ASSUME Init PROVE Inv
  OBVIOUS
<1> USE ScheduleAssumption DEF Init, Never
<1>1. TypeOK
  BY DEF TypeOK, Times
<1>2. \A t \in Tenants : History(t) /\ Ticking(t)
  BY DEF History, Ticking
<1>3. \A j \in Jobs : Cadence(j)
  BY DEF Cadence, Jobs, Slowed
<1>4. Deaths
  BY DEF Deaths
<1> QED
  BY <1>1, <1>2, <1>3, <1>4 DEF Inv

LEMMA TypeNext == TypeOK /\ [Next]_vars => TypeOK'
<1> SUFFICES ASSUME TypeOK, [Next]_vars PROVE TypeOK'
  OBVIOUS
<1> USE ScheduleAssumption DEF TypeOK, Times, Never
<1>1. ASSUME NEW t \in Tenants, FirstFire(t) PROVE TypeOK'
  BY <1>1 DEF FirstFire, Fire
<1>2. ASSUME NEW t \in Tenants, TakeTick(t) PROVE TypeOK'
  BY <1>2 DEF TakeTick, NextTick, Fire
<1>3. ASSUME NEW t \in Tenants, Die(t) PROVE TypeOK'
  BY <1>3 DEF Die, fireVars
<1>4. CASE Advance
  BY <1>4 DEF Advance, fireVars
<1>5. CASE BeginProbe
  BY <1>5 DEF BeginProbe, fireVars, clockVars
<1>6. CASE Answer
  BY <1>6 DEF Answer, fireVars, clockVars
<1>7. CASE UNCHANGED vars
  BY <1>7 DEF vars, fireVars, clockVars
<1> QED
  BY <1>1, <1>2, <1>3, <1>4, <1>5, <1>6, <1>7 DEF Next, TimeIsUp

(* A fire of t in its slot, the first or the next, keeps the history and   *)
(* the cadence of every tenant.                                            *)
LEMMA FireKeeps ==
    ASSUME Inv, NEW t \in Tenants, Fire(t), now' = now,
           now - Target(t) \in 0 .. MaxLate
    PROVE  \A j \in Jobs : Cadence(j)'
<1> USE ScheduleAssumption DEF Inv
<1>1. /\ fires'[t] = fires[t] + 1
      /\ fires[t] > 0 => firstFire'[t] = firstFire[t]
      /\ \A u \in Tenants \ {t} : /\ firstFire'[u] = firstFire[u]
                                 /\ fires'[u] = fires[u]
  BY NextSlots DEF Fire, TypeOK
<1>2. now \in Nat /\ now' = now /\ fires[t] \in Nat
  BY DEF TypeOK
<1>3. Target(t) \in Int /\ Slot(t, fires[t])' = Target(t)
  BY NextSlots
<1>4. ASSUME NEW j \in Jobs, j[1] # t PROVE Cadence(j)'
  <2>1. j[1] \in Tenants \ {t}
    BY <1>4 DEF Jobs
  <2>2. runs'[j] = runs[j] /\ lastRun'[j] = lastRun[j]
    BY <1>4 DEF Fire, Jobs
  <2> QED
    BY <1>1, <2>1, <2>2 DEF Cadence, Slot, Slowed
<1>5. ASSUME NEW j \in Jobs, j[1] = t, j[2] \in Due(t) PROVE Cadence(j)'
  <2>1. /\ j[2] \in Queries /\ Seconds[j[2]] \in Nat /\ Length(j[2]) \in Nat
        /\ Seconds[j[2]] > 0 => Length(j[2]) > 0
        /\ runs'[j] = fires[t] + 1 /\ lastRun'[j] = now
    BY <1>5, PauseAtMost DEF Fire, Recorded, Jobs
  <2>2. 0 < CyclesIn(Length(j[2]) + MaxLate) \/ ~ Slowed(j)'
    <3>1. 0 * Interval = 0 /\ Length(j[2]) + MaxLate \in Int
      BY <2>1
    <3> QED
      BY <2>1, <3>1, CyclesAtLeast DEF Slowed
  <2>3. Slot(t, runs[j])' = Slot(t, fires[t])'
    BY <1>1, <2>1 DEF Slot
  <2>4. lastRun'[j] - Slot(t, runs[j])' \in 0 .. MaxLate
    BY <1>2, <1>3, <2>1, <2>3
  <2> QED
    BY <1>1, <1>2, <1>5, <2>1, <2>2, <2>4 DEF Cadence, Never
<1>6. ASSUME NEW j \in Jobs, j[1] = t, j[2] \notin Due(t) PROVE Cadence(j)'
  <2> DEFINE k == runs[j]
             s == Length(j[2])
  <2>1. /\ j[2] \in Queries /\ j = <<t, j[2]>> /\ j[1] = t
    BY <1>6 DEF Jobs
  <2>2. /\ s \in Nat /\ lastRun[j] # Never /\ now - lastRun[j] < s
    <3>1. /\ lastRun[j] # Never
          /\ ~ (now - lastRun[j] >= Pause(j[2]))
      BY <1>6, <2>1 DEF Due
    <3>2. lastRun[j] \in Int /\ now \in Int
      BY DEF TypeOK, Times, Never
    <3> QED
      BY <2>1, <3>1, <3>2, PauseAtMost
  <2>3. /\ runs'[j] = k /\ lastRun'[j] = lastRun[j]
        /\ lastRun[j] \in Nat /\ k \in Nat
    BY <1>6, <2>2 DEF Fire, Recorded, TypeOK, Times, Never
  <2>4. /\ k > 0 /\ k <= fires[t]
        /\ lastRun[j] - Slot(t, k) \in 0 .. MaxLate
    BY <1>2, <2>1, <2>2, <2>3 DEF Cadence
  <2>5. /\ Target(t) = Slot(t, fires[t] + 1)
        /\ Slot(t, k) \in Int
        /\ Slot(t, fires[t] + 1) - Slot(t, k) = (fires[t] + 1 - k) * Interval
        /\ (fires[t] + 1 - k) * Interval \in Int
    <3>1. fires[t] \in Int /\ fires[t] # 0 /\ k \in Int
      BY <1>2, <2>3, <2>4
    <3>2. Target(t) = Slot(t, fires[t] + 1)
      BY <3>1 DEF Target
    <3> HIDE DEF k
    <3> QED
      BY <3>1, <3>2, SlotsApart
  <2>6. Slot(t, runs[j])' = Slot(t, k)
    BY <1>1, <1>2, <2>3, <2>4 DEF Slot
  <2>7. (fires[t] + 1 - k) * Interval < s + MaxLate
    BY <1>2, <1>3, <2>2, <2>3, <2>4, <2>5
  <2>8. fires[t] + 1 - k < CyclesIn(s + MaxLate)
    BY <1>2, <2>2, <2>3, <2>7, CyclesAtLeast
  <2> QED
    BY <1>1, <1>2, <2>1, <2>2, <2>3, <2>4, <2>6, <2>8 DEF Cadence, Slowed
<1> QED
  BY <1>4, <1>5, <1>6

LEMMA InvNext == Inv /\ [Next]_vars => Inv'
<1> SUFFICES ASSUME Inv, [Next]_vars PROVE Inv'
  OBVIOUS
<1> USE ScheduleAssumption DEF Inv
<1>0. TypeOK'
  BY TypeNext
<1>1. ASSUME NEW t \in Tenants, FirstFire(t) \/ TakeTick(t) PROVE Inv'
  <2>1. Fire(t) /\ now' = now /\ now \in Nat
    BY <1>1 DEF FirstFire, TakeTick, TypeOK
  <2>2. now - Target(t) \in 0 .. MaxLate /\ Target(t) \in Int
    <3>1. CASE FirstFire(t)
      BY <2>1, <3>1 DEF FirstFire, TypeOK, History, Target
    <3>2. CASE TakeTick(t)
      <4>1. fires[t] \in Nat \ {0}
        BY <3>2 DEF TakeTick, TypeOK, History
      <4>2. Target(t) = Slot(t, fires[t] + 1) /\ Target(t) \in Int
        BY <4>1, SlotSteps DEF Target
      <4> QED
        BY <2>1, <3>2, <4>2 DEF TakeTick, Ticking
    <3> QED
      BY <1>1, <3>1, <3>2
  <2>3. \A j \in Jobs : Cadence(j)'
    BY <2>1, <2>2, FireKeeps
  <2>4. ASSUME NEW u \in Tenants \ {t} PROVE History(u)' /\ Ticking(u)'
    BY <1>1 DEF FirstFire, TakeTick, Fire, TypeOK, History, Ticking, Slot
  <2>5. /\ fires'[t] = fires[t] + 1
        /\ Slot(t, fires[t])' = Target(t)
        /\ Slot(t, fires[t] + 1)' = Target(t) + Interval
    BY <2>1, NextSlots
  <2>6. /\ lastFire'[t] = now /\ fires[t] \in Nat /\ phase'[t] = "loop"
        /\ firstFire'[t] # Never
    BY <1>1, <2>1 DEF FirstFire, TakeTick, Fire, TypeOK, Times, Never, History
  <2>7. History(t)'
    BY <2>1, <2>2, <2>5, <2>6 DEF History, Never
  <2>8. tickSince'[t] = Never /\ tickAt'[t] = Target(t) + Interval
    <3>1. CASE FirstFire(t)
      BY <3>1 DEF FirstFire, TypeOK, History, Target
    <3>2. CASE TakeTick(t)
      BY <3>2 DEF TakeTick, NextTick, TypeOK, History, Ticking, Target
    <3> QED
      BY <1>1, <3>1, <3>2
  <2>9. Ticking(t)'
    BY <2>1, <2>2, <2>5, <2>8 DEF Ticking
  <2>10. Deaths'
    BY <1>1 DEF FirstFire, TakeTick, Fire, TypeOK, Times, Never, Deaths
  <2> QED
    BY <1>0, <2>3, <2>4, <2>7, <2>9, <2>10
<1>2. ASSUME NEW t \in Tenants, Die(t) PROVE Inv'
  <2> USE <1>2 DEF Die, fireVars
  <2>1. ASSUME NEW u \in Tenants PROVE History(u)' /\ Ticking(u)'
    BY DEF TypeOK, History, Ticking, Slot
  <2>2. \A j \in Jobs : Cadence(j)'
    BY DEF Cadence, Slot, Slowed
  <2>3. Deaths'
    BY DEF TypeOK, Times, Never, Deaths, History
  <2> QED
    BY <1>0, <2>1, <2>2, <2>3
<1>4. CASE Advance
  <2> USE <1>4 DEF Advance, fireVars
  <2>1. ASSUME NEW u \in Tenants PROVE History(u)'
    BY DEF TypeOK, Times, Never, History, Slot
  <2>2. ASSUME NEW u \in Tenants PROVE Ticking(u)'
    <3> DEFINE next == Slot(u, fires[u] + 1)
    <3>1. next' = next /\ next \in Int
      <4>1. fires[u] + 1 \in Int /\ next' = next
        BY DEF TypeOK, Slot
      <4> QED
        BY <4>1, SlotSteps
    <3>2. SUFFICES ASSUME phase[u] = "loop"
          PROVE  \/ tickSince'[u] = Never /\ tickAt'[u] = next /\ now' < next
                 \/ /\ tickSince'[u] = next /\ tickAt'[u] = next + Interval
                    /\ next <= now' /\ now' <= next + MaxLate
      BY <3>1 DEF Ticking
    <3>3. /\ \/ tickSince[u] = Never /\ tickAt[u] = next /\ now < next
             \/ /\ tickSince[u] = next /\ tickAt[u] = next + Interval
                /\ next <= now /\ now <= next + MaxLate
          /\ tickSince[u] # Never => now < tickSince[u] + MaxLate
          /\ tickSince'[u] = IF tickAt[u] = now' /\ tickSince[u] = Never
                             THEN now' ELSE tickSince[u]
          /\ tickAt'[u] = IF tickAt[u] = now' THEN tickAt[u] + Interval
                          ELSE tickAt[u]
          /\ now' = now + 1 /\ now \in Nat
      BY <3>2 DEF Ticking, OnTime, TypeOK
    <3>4. next > 0
      <4>1. fires[u] \in Nat \ {0} /\ lastFire[u] \in Nat
        BY <3>2 DEF TypeOK, Times, Never, History
      <4>2. Slot(u, fires[u]) \in Int /\ next = Slot(u, fires[u]) + Interval
        BY <4>1, SlotSteps
      <4>3. lastFire[u] <= Slot(u, fires[u]) + MaxLate
        BY <4>1, <4>2 DEF History
      <4> QED
        BY <4>1, <4>2, <4>3
    <3> HIDE DEF next, Advance
    <3>5. CASE tickSince[u] = Never
      BY <3>1, <3>3, <3>4, <3>5 DEF Never
    <3>6. CASE tickSince[u] # Never
      BY <3>1, <3>3, <3>6 DEF Never
    <3> QED
      BY <3>5, <3>6
  <2>3. \A j \in Jobs : Cadence(j)'
    BY DEF Cadence, Slot, Slowed
  <2>4. Deaths'
    BY DEF TypeOK, Times, Never, Deaths
  <2> QED
    BY <1>0, <2>1, <2>2, <2>3, <2>4
<1>5. CASE BeginProbe \/ Answer
  <2> USE <1>5 DEF BeginProbe, Answer, clockVars, fireVars
  <2>1. \A u \in Tenants : History(u)' /\ Ticking(u)'
    BY DEF History, Ticking, Slot
  <2>2. \A j \in Jobs : Cadence(j)'
    BY DEF Cadence, Slot, Slowed
  <2>3. Deaths'
    BY DEF TypeOK, Times, Never, Deaths
  <2> QED
    BY <1>0, <2>1, <2>2, <2>3
<1>6. CASE UNCHANGED vars
  BY <1>6, <1>0 DEF vars, clockVars, fireVars, History, Ticking, Slot,
     Cadence, Slowed, Deaths
<1> QED
  BY <1>1, <1>2, <1>4, <1>5, <1>6 DEF Next, TimeIsUp

(* The inductive invariant of the clockwork holds at every moment (Run,    *)
(* dueQueries, LivenessStatus).                                            *)
THEOREM ScheduleInv == Spec => []Inv
BY InvInit, InvNext, PTL DEF Spec

(* Every variable keeps its range, and a scheduler in its loop has fired.  *)
THEOREM TypeCorrect == Spec => []TypeOK
<1>1. Inv => TypeOK
  BY DEF Inv
<1> QED
  BY <1>1, ScheduleInv, PTL

(* However late its fires are, a scheduler keeps the rhythm of its first   *)
(* (the one ticker of Run).                                                *)
THEOREM NoDriftEver == Spec => []NoDrift
<1>1. Inv => NoDrift
  BY DEF Inv, History, Slot, NoDrift
<1> QED
  BY <1>1, ScheduleInv, PTL

(* A query with an interval is never held back for longer than the         *)
(* interval and one delay take, in cycles, whatever its duration wraps to  *)
(* (dueQueries).                                                           *)
THEOREM NotStarvedEver == Spec => []NotStarved
<1>1. Inv => NotStarved
  BY DEF Inv, Cadence, NotStarved
<1> QED
  BY <1>1, ScheduleInv, PTL

(* Nor is it run again sooner than the interval less one delay takes, if   *)
(* the interval fits into a duration (dueQueries on the moments at which   *)
(* Run calls it).                                                          *)
THEOREM NeverEarlyEver == Spec => NeverEarly
<1> DEFINE Apart ==
       \A j \in Jobs :
          (Slowed(j) /\ Fits(j[2]) /\ runs'[j] # runs[j]) =>
              runs'[j] - runs[j] >= CyclesIn(Length(j[2]) - MaxLate)
<1>1. Inv /\ [Next]_vars => [Apart]_vars
  <2> SUFFICES ASSUME Inv, Next, NEW j \in Jobs, Slowed(j), Fits(j[2]),
                      runs'[j] # runs[j]
      PROVE  runs'[j] - runs[j] >= CyclesIn(Length(j[2]) - MaxLate)
    OBVIOUS
  <2> USE ScheduleAssumption DEF Inv
  <2> DEFINE t == j[1]
             k == runs[j]
             s == Length(j[2])
  <2>1. t \in Tenants /\ j[2] \in Queries /\ j = <<t, j[2]>>
    BY DEF Jobs
  <2>2. TakeTick(t)
    <3>1. PICK u \in Tenants : FirstFire(u) \/ TakeTick(u)
      BY DEF Next, Die, Advance, BeginProbe, Answer, TimeIsUp, clockVars,
         fireVars, vars
    <3>2. u = t
      BY <3>1 DEF FirstFire, TakeTick, Fire
    <3>3. lastRun[j] # Never /\ fires[t] # 0
      BY <2>1 DEF Slowed, Cadence, TypeOK
    <3> QED
      BY <3>1, <3>2, <3>3 DEF FirstFire, History
  <2>3. /\ j[2] \in Due(t) /\ runs'[j] = fires[t] + 1
        /\ now - lastRun[j] >= s
    BY <2>1, <2>2, PauseAtMost DEF TakeTick, Fire, Due, Slowed
  <2>4. /\ fires[t] \in Nat /\ k \in Nat \ {0} /\ s \in Nat
        /\ now \in Nat /\ lastRun[j] \in Int
        /\ lastRun[j] - Slot(t, k) \in 0 .. MaxLate
    BY <2>1, PauseAtMost DEF Cadence, Slowed, TypeOK, Times, Never
  <2>5. /\ now <= Slot(t, fires[t] + 1) + MaxLate
        /\ Slot(t, fires[t] + 1) \in Int /\ Slot(t, k) \in Int
    BY <2>1, <2>2, <2>4, SlotSteps DEF TakeTick, Ticking
  <2>6. /\ Slot(t, fires[t] + 1) - Slot(t, k) = (fires[t] + 1 - k) * Interval
        /\ (fires[t] + 1 - k) * Interval \in Int
    <3> HIDE DEF t, k
    <3> QED
      BY <2>1, <2>4, SlotsApart
  <2>7. (fires[t] + 1 - k) * Interval >= s - MaxLate
    BY <2>3, <2>4, <2>5, <2>6
  <2>8. fires[t] + 1 - k >= CyclesIn(s - MaxLate)
    BY <2>4, <2>7, CyclesAtLeast
  <2> QED
    BY <2>3, <2>4, <2>8
<1> QED
  BY <1>1, ScheduleInv, PTL DEF Spec, NeverEarly

(* A tenant named by /-/healthy has a dead scheduler (LivenessStatus).     *)
THEOREM NoFalseAlarmEver == Spec => NoFalseAlarm
<1> DEFINE Dead == \A t \in failing' \ failing : phase[t] = "dead"
<1>1. Inv /\ [Next]_vars => [Dead]_vars
  <2> SUFFICES ASSUME Inv, Next, NEW t \in failing' \ failing, phase[t] # "dead"
      PROVE  FALSE
    OBVIOUS
  <2> USE ScheduleAssumption DEF Inv
  <2>1. Answer
    BY DEF Next, FirstFire, TakeTick, Die, Advance, BeginProbe, TimeIsUp, vars
  <2>2. /\ t \in Tenants /\ lastFire[t] # Never
        /\ probe - lastFire[t] > 2 * Interval
        /\ probe \in Nat /\ now \in Nat /\ probe <= now /\ lastFire[t] \in Nat
    BY <2>1 DEF Answer, LivenessStatus, StaleScheduleMultiplier, TypeOK,
       Times, Never, Deaths
  <2>3. phase[t] = "loop" /\ fires[t] \in Nat \ {0}
    BY <2>2 DEF TypeOK, History
  <2> DEFINE last == Slot(t, fires[t])
  <2>4. Slot(t, fires[t] + 1) = last + Interval /\ last \in Int
    BY <2>2, <2>3, SlotSteps
  <2>5. lastFire[t] - last \in 0 .. MaxLate
    BY <2>2, <2>3 DEF History
  <2>6. now <= last + Interval + MaxLate
    BY <2>2, <2>3, <2>4 DEF Ticking
  <2> HIDE DEF last
  <2> QED
    BY <2>2, <2>4, <2>5, <2>6
<1> QED
  BY <1>1, ScheduleInv, PTL DEF Spec, NoFalseAlarm

(* A probe that begins more than two intervals after the death of a        *)
(* scheduler that had fired names its tenant (handleHealthy).              *)
THEOREM DeathIsAlwaysReported == Spec => DeathIsReported
<1> DEFINE Reported ==
       \A t \in Tenants :
          (/\ probe # Never /\ probe' = Never
           /\ phase[t] = "dead" /\ lastFire[t] # Never
           /\ probe > diedAt[t] + 2 * Interval)
          => t \in failing'
<1>1. Inv /\ [Next]_vars => [Reported]_vars
  <2> SUFFICES ASSUME Inv, Next, NEW t \in Tenants,
                      probe # Never, probe' = Never,
                      phase[t] = "dead", lastFire[t] # Never,
                      probe > diedAt[t] + 2 * Interval
      PROVE  t \in failing'
    OBVIOUS
  <2> USE ScheduleAssumption DEF Inv
  <2>1. Answer
    BY DEF Next, FirstFire, TakeTick, Die, Advance, BeginProbe, TimeIsUp, vars
  <2>2. /\ diedAt[t] \in Nat /\ lastFire[t] \in Nat /\ probe \in Nat
        /\ lastFire[t] <= diedAt[t]
    BY DEF TypeOK, Times, Never, Deaths
  <2>3. ~ (probe - lastFire[t] <= 2 * Interval)
    BY <2>2
  <2> QED
    BY <2>1, <2>3 DEF Answer, LivenessStatus, StaleScheduleMultiplier
<1> QED
  BY <1>1, ScheduleInv, PTL DEF Spec, DeathIsReported

=============================================================================
