-------------------------- MODULE PipelineProofs ------------------------------
(***************************************************************************)
(* In which order cycles reach the gauges, and that the runners, the inbox *)
(* and the publisher together implement the module Pipeline.               *)
(***************************************************************************)
EXTENDS RunnerProofs

----------------------------------------------------------------------------
(* The order in which cycles reach the gauges.                             *)
Number(e) == e.result.cycle[2]
TenantOf(e) == e.result.cycle[1]

(* The gauges of a tenant are not ahead of a result in the inbox that was  *)
(* sent in time, and no result before it is.                               *)
Fresh(e) ==
    ~e.late => \A q \in Query : applied[<<TenantOf(e), q>>] <= Number(e)

InOrder ==
    \A i, j \in DOMAIN inbox :
        (i < j /\ ~inbox[j].late /\ TenantOf(inbox[i]) = TenantOf(inbox[j]))
        => Number(inbox[i]) <= Number(inbox[j])

OrderInv ==
    /\ \A i \in DOMAIN inbox :
          /\ Fresh(inbox[i])
          /\ Number(inbox[i]) <= fires[TenantOf(inbox[i])]
    /\ InOrder
    /\ \A o \in Tenants \X Query : applied[o] <= fires[o[1]]

(* The numbers that are compared are numbers.                              *)
LEMMA NumberFacts ==
    ASSUME TypeOK
    PROVE  /\ \A t \in Tenants : fires[t] \in Nat
           /\ \A o \in Tenants \X Query : applied[o] \in Nat
           /\ \A i \in DOMAIN inbox : /\ TenantOf(inbox[i]) \in Tenants
                                      /\ Number(inbox[i]) \in Nat
<1>1. 0 .. MaxFires \subseteq Nat
  BY RunnerAssumption
<1> QED
  BY <1>1, InboxFacts, CycleFacts DEF TypeOK, Number, TenantOf

(* A result from a cycle that was fired, the last one unless it is late.   *)
Newcomer(e) ==
    /\ TenantOf(e) \in Tenants
    /\ Number(e) <= fires[TenantOf(e)]
    /\ e.late \/ Number(e) = fires[TenantOf(e)]

(* Results move up by k places and at most one comes, a newcomer, while    *)
(* the gauges stay behind the results that are left.                       *)
LEMMA OrderMoves ==
    ASSUME TypeOK, TypeOK', OrderInv, NEW k \in {0, 1},
           \A t \in Tenants : fires[t] <= fires'[t],
           \A o \in Tenants \X Query : applied'[o] <= fires'[o[1]],
           \A i \in DOMAIN inbox :
              i > k /\ ~inbox[i].late =>
                 \A q \in Query :
                    applied'[<<TenantOf(inbox[i]), q>>] <= Number(inbox[i]),
           \A i \in DOMAIN inbox' :
              \/ i + k \in DOMAIN inbox /\ inbox'[i] = inbox[i + k]
              \/ /\ i + k = Len(inbox) + 1
                 /\ fires' = fires
                 /\ Newcomer(inbox'[i])
    PROVE  OrderInv'
<1>1. \A i \in DOMAIN inbox' : i \in Nat /\ i > 0
  BY InboxFacts
<1>2. /\ \A t \in Tenants : fires[t] \in Nat /\ fires'[t] \in Nat
      /\ \A i \in DOMAIN inbox :
            TenantOf(inbox[i]) \in Tenants /\ Number(inbox[i]) \in Nat
      /\ DOMAIN inbox = 1 .. Len(inbox) /\ Len(inbox) \in Nat
  <2>1. \A t \in Tenants : fires'[t] \in Nat
    <3>1. fires' \in [Tenants -> 0 .. MaxFires]
      BY DEF TypeOK
    <3> QED
      BY <3>1, RunnerAssumption
  <2> QED
    BY <2>1, NumberFacts, InboxFacts
<1>3. ASSUME NEW i \in DOMAIN inbox'
      PROVE  /\ Fresh(inbox[i])'
             /\ Number(inbox'[i]) <= fires'[TenantOf(inbox'[i])]
  <2>1. CASE i + k \in DOMAIN inbox /\ inbox'[i] = inbox[i + k]
    <3>1. i + k > k
      BY <1>1
    <3>2. Number(inbox[i + k]) <= fires[TenantOf(inbox[i + k])]
      BY <2>1 DEF OrderInv
    <3>3. Number(inbox[i + k]) <= fires'[TenantOf(inbox[i + k])]
      BY <1>2, <2>1, <3>2
    <3>4. Fresh(inbox[i])'
      BY <2>1, <3>1 DEF Fresh, TenantOf, Number
    <3> QED
      BY <2>1, <3>3, <3>4
  <2>2. CASE fires' = fires /\ Newcomer(inbox'[i])
    BY <2>2 DEF Newcomer, Fresh, TenantOf, Number
  <2> QED
    BY <2>1, <2>2
<1>4. ASSUME NEW i \in DOMAIN inbox', NEW j \in DOMAIN inbox', i < j,
             ~inbox'[j].late, TenantOf(inbox'[i]) = TenantOf(inbox'[j])
      PROVE  Number(inbox'[i]) <= Number(inbox'[j])
  <2>1. i + k \in DOMAIN inbox /\ inbox'[i] = inbox[i + k]
    <3>1. j + k <= Len(inbox) + 1
      BY <1>2
    <3>2. ~ (i + k = Len(inbox) + 1)
      BY <1>1, <1>2, <1>4, <3>1
    <3> QED
      BY <3>2
  <2>2. CASE j + k \in DOMAIN inbox /\ inbox'[j] = inbox[j + k]
    <3>1. i + k < j + k
      BY <1>1, <1>4
    <3> QED
      BY <1>4, <2>1, <2>2, <3>1 DEF OrderInv, InOrder
  <2>3. CASE Newcomer(inbox'[j])
    <3>1. Number(inbox[i + k]) <= fires[TenantOf(inbox[i + k])]
      BY <2>1 DEF OrderInv
    <3> QED
      BY <1>4, <2>1, <2>3, <3>1 DEF Newcomer
  <2> QED
    BY <2>2, <2>3
<1> QED
  BY <1>3, <1>4 DEF OrderInv, InOrder, Number, TenantOf

(* Nothing is applied and nothing is sent.                                 *)
LEMMA OrderStays ==
    ASSUME TypeOK, TypeOK', OrderInv, inbox' = inbox, applied' = applied,
           \A t \in Tenants : fires[t] <= fires'[t]
    PROVE  OrderInv'
<1>1. ASSUME NEW o \in Tenants \X Query PROVE applied'[o] <= fires'[o[1]]
  <2>1. /\ applied[o] <= fires[o[1]] /\ fires[o[1]] <= fires'[o[1]]
        /\ applied[o] \in Nat /\ fires[o[1]] \in Nat
    BY NumberFacts DEF OrderInv
  <2>2. fires' \in [Tenants -> 0 .. MaxFires]
    BY DEF TypeOK
  <2>3. fires'[o[1]] \in Nat
    BY <2>2, RunnerAssumption
  <2> QED
    BY <1>1, <2>1, <2>3
<1>2. \A i \in DOMAIN inbox : i + 0 = i
  BY InboxFacts
<1> QED
  BY <1>1, <1>2, OrderMoves DEF OrderInv, Fresh

(* What a cycle has in hand is a newcomer to the inbox.                    *)
LEMMA HandIsNewcomer ==
    ASSUME TypeOK, OnlyNewestRuns, QueueInv, NEW c \in Cycles,
           cpc[c] \in {"send", "parked"}, NEW e, e.result = out[c],
           e.late = canceled[c] \/ (~canceled[c] /\ ~e.late)
    PROVE  Newcomer(e)
<1>1. out[c].cycle = c
  BY HandFacts DEF QueueInv, Handed
<1>2. c[2] <= fires[c[1]] /\ c[1] \in Tenants
  BY TypeParts, CycleFacts, NumberFacts DEF CycleOK
<1>3. e.late \/ c[2] = fires[c[1]]
  BY DEF OnlyNewestRuns, Alive, Ended, TypeOK
<1> QED
  BY <1>1, <1>2, <1>3 DEF Newcomer, Number, TenantOf

LEMMA OrderSend ==
    ASSUME TypeOK, TypeOK', OnlyNewestRuns, QueueInv, OrderInv,
           NEW c \in Cycles, Send(c)
    PROVE  OrderInv'
<1>1. PICK e : e.result = out[c] /\ e.late = canceled[c] /\ InboxMoves(0, e)
  BY SendMoves
<1>2. Newcomer(e)
  BY <1>1, HandIsNewcomer DEF Send
<1>3. fires' = fires /\ applied' = applied
  BY DEF Send, CycleStays, schedVars, pubVars
<1>4. \A i \in DOMAIN inbox' :
         \/ i + 0 \in DOMAIN inbox /\ inbox'[i] = inbox[i + 0]
         \/ /\ i + 0 = Len(inbox) + 1
            /\ fires' = fires
            /\ Newcomer(inbox'[i])
  BY <1>1, <1>2, <1>3 DEF InboxMoves
<1> QED
  BY <1>3, <1>4, NumberFacts, OrderMoves DEF OrderInv, Fresh

(* A receive writes the number of the cycle at the head, or nothing.       *)
LEMMA AppliedBy ==
    ASSUME TypeOK, Receive
    PROVE  LET r == Head(inbox).result
           IN  \/ applied' = applied
               \/ /\ r.kind = "query" /\ r.ok
                  /\ <<r.cycle[1], r.query>> \in Tenants \X Query
                  /\ applied' = [applied EXCEPT ![<<r.cycle[1], r.query>>]
                                     = r.cycle[2]]
BY HeadFacts DEF Receive, ApplyResult

LEMMA AppliedAt ==
    ASSUME TypeOK, Receive, NEW o \in Tenants \X Query
    PROVE  \/ applied'[o] = applied[o]
           \/ /\ applied'[o] = Number(Head(inbox))
              /\ o[1] = TenantOf(Head(inbox))
<1> DEFINE r == Head(inbox).result
           p == <<r.cycle[1], r.query>>
<1>1. applied \in [Tenants \X Query -> 0 .. MaxFires]
  BY DEF TypeOK
<1>2. \/ applied' = applied
      \/ applied' = [applied EXCEPT ![p] = r.cycle[2]]
  BY AppliedBy
<1>3. p[1] = r.cycle[1]
  OBVIOUS
<1> QED
  BY <1>1, <1>2, <1>3 DEF Number, TenantOf

LEMMA OrderReceive ==
    ASSUME TypeOK, TypeOK', OnlyNewestRuns, QueueInv, OrderInv, Receive
    PROVE  OrderInv'
<1> DEFINE h == inbox[1]
<1>1. 1 \in DOMAIN inbox /\ Head(inbox) = h
  BY HeadFacts DEF Receive
<1>2. fires' = fires
  BY DEF Receive, schedVars
<1>3. ASSUME NEW o \in Tenants \X Query
      PROVE  \/ applied'[o] = applied[o]
             \/ applied'[o] = Number(h) /\ o[1] = TenantOf(h)
  BY <1>1, AppliedAt
<1>4. \A o \in Tenants \X Query : applied'[o] <= fires'[o[1]]
  BY <1>1, <1>2, <1>3 DEF OrderInv
<1>5. ASSUME NEW i \in DOMAIN inbox, i > 1, ~inbox[i].late, NEW q \in Query
      PROVE  applied'[<<TenantOf(inbox[i]), q>>] <= Number(inbox[i])
  <2> DEFINE o == <<TenantOf(inbox[i]), q>>
  <2>1. o \in Tenants \X Query /\ o[1] = TenantOf(inbox[i])
    BY NumberFacts
  <2>2. applied[o] <= Number(inbox[i])
    BY <1>5 DEF OrderInv, Fresh
  <2>3. TenantOf(h) = TenantOf(inbox[i]) => Number(h) <= Number(inbox[i])
    BY <1>1, <1>5 DEF OrderInv, InOrder
  <2> HIDE DEF o
  <2> QED
    BY <1>3, <2>1, <2>2, <2>3 DEF o
<1>6. \A i \in DOMAIN inbox' :
         \/ i + 1 \in DOMAIN inbox /\ inbox'[i] = inbox[i + 1]
         \/ /\ i + 1 = Len(inbox) + 1
            /\ fires' = fires
            /\ Newcomer(inbox'[i])
  <2>1. CASE InboxShifts(1)
    BY <2>1 DEF InboxShifts
  <2>2. ASSUME NEW c \in Cycles, NEW e, cpc[c] = "parked", ~canceled[c],
               e.result = out[c], ~e.late, InboxMoves(1, e)
        PROVE  \A i \in DOMAIN inbox' :
                  \/ i + 1 \in DOMAIN inbox /\ inbox'[i] = inbox[i + 1]
                  \/ i + 1 = Len(inbox) + 1 /\ Newcomer(inbox'[i])
    BY <2>2, HandIsNewcomer DEF InboxMoves
  <2> QED
    BY <1>2, <2>1, <2>2, ReceiveMoves
<1> QED
  BY <1>2, <1>4, <1>5, <1>6, NumberFacts, OrderMoves

(* The number of fires does not go down; only a receive writes gauges, and *)
(* only sends and receives touch the inbox.                                *)
LEMMA FiresGrow ==
    ASSUME TypeOK, [Next]_vars, NEW t \in Tenants
    PROVE  fires[t] <= fires'[t]
<1>1. \/ fires' = fires
      \/ \E u \in Tenants : fires' = [fires EXCEPT ![u] = @ + 1]
  BY DEF Next, SchedulerStep, Fire, ReturnFromStagger, ReturnFromLoop,
     CycleStep, CheckKilled, BeginQuery, Acquire, AcquireFails, QueryReturns,
     QueryCrashes, ReadStat, Send, Abort, Park, Unwind, CycleStays, Propagate,
     CancelRoot, PublisherStep, Receive, PublisherReturns, Quiescent, vars,
     schedVars
<1>2. fires \in [Tenants -> 0 .. MaxFires] /\ fires[t] \in Nat
  BY NumberFacts DEF TypeOK
<1> QED
  BY <1>1, <1>2

LEMMA OnlyReceiveShows ==
    ASSUME [Next]_vars
    PROVE  Receive \/ applied' = applied
BY DEF Next, SchedulerStep, Fire, ReturnFromStagger, ReturnFromLoop,
   CycleStep, CheckKilled, BeginQuery, Acquire, AcquireFails, QueryReturns,
   QueryCrashes, ReadStat, Send, Abort, Park, Unwind, CycleStays, Propagate,
   CancelRoot, PublisherStep, PublisherReturns, Quiescent, vars, pubVars

LEMMA OnlySendFills ==
    ASSUME [Next]_vars
    PROVE  Receive \/ (\E c \in Cycles : Send(c)) \/ inbox' = inbox
BY DEF Next, SchedulerStep, Fire, ReturnFromStagger, ReturnFromLoop,
   CycleStep, CheckKilled, BeginQuery, Acquire, AcquireFails, QueryReturns,
   QueryCrashes, ReadStat, Abort, Park, Unwind, CycleStays, Propagate,
   CancelRoot, PublisherStep, PublisherReturns, Quiescent, vars

LEMMA OrderNext ==
    ASSUME TypeOK, TypeOK', OnlyNewestRuns, QueueInv, OrderInv, [Next]_vars
    PROVE  OrderInv'
BY FiresGrow, OnlyReceiveShows, OnlySendFills, OrderSend, OrderReceive,
   OrderStays

LEMMA OrderInit == Init => OrderInv
BY DEF Init, OrderInv, InOrder

(* At every moment the gauges of a tenant are behind each result in the    *)
(* inbox that was sent in time, and so is what is before it.               *)
THEOREM OrderAlways == Spec => []OrderInv
BY OrderInit, OrderNext, TypeCorrect, OneCycleRuns, QueueAlways, PTL DEF Spec

(* A step that takes a gauge back is the receive of a late result.         *)
LEMMA OnlyLateIsStale ==
    ASSUME TypeOK, OrderInv, [Next]_vars, NEW o \in Tenants \X Query,
           applied'[o] < applied[o]
    PROVE  Head(inbox).late
<1>1. Receive
  BY OnlyReceiveShows, NumberFacts
<1>2. /\ 1 \in DOMAIN inbox /\ Head(inbox) = inbox[1]
      /\ inbox[1].late \in BOOLEAN
  BY <1>1, HeadFacts, InboxFacts DEF Receive, Entry
<1>3. /\ applied'[o] = Number(inbox[1])
      /\ o = <<TenantOf(inbox[1]), o[2]>> /\ o[2] \in Query
  <2>1. applied[o] \in Nat /\ ~ (applied'[o] = applied[o])
    BY NumberFacts
  <2> QED
    BY <1>1, <1>2, <2>1, AppliedAt
<1>4. ~inbox[1].late => applied[o] <= Number(inbox[1])
  BY <1>2, <1>3 DEF OrderInv, Fresh
<1> QED
  BY <1>2, <1>3, <1>4, NumberFacts

(* The gauges of a query go back to the rows of an older cycle only        *)
(* through a result that its cycle sent after it was canceled (fire, the   *)
(* selects of runCycle, Publisher.Run).                                    *)
THEOREM OnlyKilledResultsAreStale == Spec => StaleOnlyFromKilled
<1>1. TypeOK /\ OrderInv /\ [Next]_vars
      => [\A o \in Tenants \X Query : applied'[o] < applied[o] => Head(inbox).late]_vars
  BY OnlyLateIsStale
<1> QED
  BY <1>1, OrderAlways, TypeCorrect, PTL DEF Spec, StaleOnlyFromKilled

----------------------------------------------------------------------------
(* The Pipeline.  Owed(c): the queries c has still to send, and those whose *)
(* result is in the inbox.                                                 *)
IsQuery(r, c, q) == r.kind = "query" /\ r.cycle = c /\ r.query = q

Left(c) == { q \in Query : Alive(c) /\ q \in todo[c] }

Queued(c) ==
    { q \in Query : \E i \in DOMAIN inbox : IsQuery(inbox[i].result, c, q) }

Owed(c) == Left(c) \cup Queued(c)

(* The mapping in the words of Owed.                                       *)
LEMMA PendingIsOwed ==
    /\ Pending = [o \in Tenants \X Query |->
                    { n \in 1 .. fires[o[1]] : o[2] \in Owed(<<o[1], n>>) }]
    /\ Pending' = [o \in Tenants \X Query |->
                    { n \in 1 .. fires'[o[1]] : o[2] \in Owed(<<o[1], n>>)' }]
BY DEF Pending, Owed, Left, Queued, UnderWay, IsQuery

(* The steps of the Pipeline, over the state of module Runner.             *)
LEMMA StutterStep ==
    ASSUME UNCHANGED <<fires, Pending, applied>>
    PROVE  UNCHANGED Attempts!pipeVars
BY DEF Attempts!pipeVars

LEMMA StartStep ==
    ASSUME NEW t \in Tenants, NEW due \in SUBSET Query,
           fires' = [fires EXCEPT ![t] = @ + 1],
           Pending' = [o \in Tenants \X Query |->
                         IF o[1] = t /\ o[2] \in due
                         THEN Pending[o] \cup {fires'[t]} ELSE Pending[o]],
           applied' = applied
    PROVE  Attempts!PipeNext
BY DEF Attempts!PipeNext, Attempts!Start, Attempts!Owners

LEMMA ShowStep ==
    ASSUME NEW o \in Tenants \X Query, NEW n \in Pending[o],
           applied' = [applied EXCEPT ![o] = n],
           Pending' = [Pending EXCEPT ![o] = @ \ {n}],
           fires' = fires
    PROVE  Attempts!PipeNext
BY DEF Attempts!PipeNext, Attempts!Show, Attempts!Owners

LEMMA LoseStep ==
    ASSUME NEW t \in Tenants, NEW queries \in SUBSET Query,
           NEW n \in 1 .. fires[t],
           \A q \in queries : n \in Pending[<<t, q>>],
           Pending' = [o \in Tenants \X Query |->
                         IF o[1] = t /\ o[2] \in queries
                         THEN Pending[o] \ {n} ELSE Pending[o]],
           UNCHANGED <<fires, applied>>
    PROVE  Attempts!PipeNext
BY DEF Attempts!PipeNext, Attempts!Lose, Attempts!Owners

LEMMA PendingCycles ==
    ASSUME TypeOK, NEW o \in Tenants \X Query, NEW n \in 1 .. fires[o[1]]
    PROVE  <<o[1], n>> \in Cycles
<1>1. fires[o[1]] \in 0 .. MaxFires /\ o[1] \in Tenants
  BY DEF TypeOK
<1> QED
  BY <1>1, RunnerAssumption DEF Cycles

(* What becomes of Owed, and which step of the Pipeline it is.             *)
LEMMA OwedStays ==
    ASSUME TypeOK, fires' = fires, applied' = applied,
           \A c \in Cycles : Owed(c)' = Owed(c)
    PROVE  UNCHANGED Attempts!pipeVars
<1>1. ASSUME NEW o \in Tenants \X Query
      PROVE  { n \in 1 .. fires'[o[1]] : o[2] \in Owed(<<o[1], n>>)' }
             = { n \in 1 .. fires[o[1]] : o[2] \in Owed(<<o[1], n>>) }
  BY PendingCycles
<1>2. Pending' = Pending
  BY <1>1, PendingIsOwed
<1> QED
  BY <1>2, StutterStep

LEMMA OwedShrinks ==
    ASSUME TypeOK, fires' = fires, NEW c \in Cycles, c[2] <= fires[c[1]],
           NEW queries \in SUBSET Owed(c), Owed(c)' = Owed(c) \ queries,
           \A b \in Cycles \ {c} : Owed(b)' = Owed(b)
    PROVE  /\ queries \subseteq Query
           /\ c[2] \in 1 .. fires[c[1]]
           /\ \A q \in queries : c[2] \in Pending[<<c[1], q>>]
           /\ Pending' = [o \in Tenants \X Query |->
                            IF o[1] = c[1] /\ o[2] \in queries
                            THEN Pending[o] \ {c[2]} ELSE Pending[o]]
<1>1. queries \subseteq Query
  BY DEF Owed, Left, Queued
<1>2. c[1] \in Tenants /\ c[2] \in 1 .. fires[c[1]] /\ c = <<c[1], c[2]>>
  BY CycleFacts, NumberFacts
<1>3. ASSUME NEW q \in queries PROVE c[2] \in Pending[<<c[1], q>>]
  <2>1. <<c[1], q>> \in Tenants \X Query
    BY <1>1, <1>2
  <2> QED
    BY <1>2, <2>1, PendingIsOwed
<1>4. ASSUME NEW o \in Tenants \X Query
      PROVE  { n \in 1 .. fires'[o[1]] : o[2] \in Owed(<<o[1], n>>)' }
             = IF o[1] = c[1] /\ o[2] \in queries
               THEN Pending[o] \ {c[2]} ELSE Pending[o]
  <2>1. Pending[o] = { n \in 1 .. fires[o[1]] : o[2] \in Owed(<<o[1], n>>) }
    BY PendingIsOwed
  <2>2. ASSUME NEW n \in 1 .. fires[o[1]]
        PROVE  o[2] \in Owed(<<o[1], n>>)' <=>
                  /\ o[2] \in Owed(<<o[1], n>>)
                  /\ ~ (o[1] = c[1] /\ n = c[2] /\ o[2] \in queries)
    <3>1. <<o[1], n>> \in Cycles
      BY PendingCycles
    <3>2. CASE o[1] = c[1] /\ n = c[2]
      <4>1. <<o[1], n>> = c
        BY <1>2, <3>2
      <4> QED
        BY <3>2, <4>1
    <3>3. CASE ~ (o[1] = c[1] /\ n = c[2])
      <4>1. <<o[1], n>> # c
        BY <1>2, <3>3
      <4> QED
        BY <3>1, <3>3, <4>1
    <3> QED
      BY <3>2, <3>3
  <2> QED
    BY <2>1, <2>2
<1> QED
  BY <1>1, <1>2, <1>3, <1>4, PendingIsOwed

LEMMA OwedLost ==
    ASSUME TypeOK, fires' = fires, applied' = applied, NEW c \in Cycles,
           c[2] <= fires[c[1]],
           NEW queries \in SUBSET Owed(c), Owed(c)' = Owed(c) \ queries,
           \A b \in Cycles \ {c} : Owed(b)' = Owed(b)
    PROVE  Attempts!PipeNext
BY OwedShrinks, LoseStep, CycleFacts

LEMMA OwedShown ==
    ASSUME TypeOK, fires' = fires, NEW c \in Cycles, c[2] <= fires[c[1]],
           NEW q, NEW S \in SUBSET Owed(c), S = {q}, Owed(c)' = Owed(c) \ S,
           \A b \in Cycles \ {c} : Owed(b)' = Owed(b),
           applied' = [applied EXCEPT ![<<c[1], q>>] = c[2]]
    PROVE  Attempts!PipeNext
<1> DEFINE p == <<c[1], q>>
<1>1. /\ S \subseteq Query
      /\ \A x \in S : c[2] \in Pending[<<c[1], x>>]
      /\ Pending' = [o \in Tenants \X Query |->
                       IF o[1] = c[1] /\ o[2] \in S
                       THEN Pending[o] \ {c[2]} ELSE Pending[o]]
  BY OwedShrinks
<1>2. p \in Tenants \X Query /\ c[2] \in Pending[p]
  BY <1>1, CycleFacts
<1>3. \A o \in Tenants \X Query : o[1] = c[1] /\ o[2] \in S <=> o = p
  OBVIOUS
<1>4. Pending' = [Pending EXCEPT ![p] = @ \ {c[2]}]
  <2>1. Pending = [o \in Tenants \X Query |-> Pending[o]]
    BY PendingIsOwed
  <2> HIDE DEF p
  <2> QED
    BY <1>1, <1>3, <2>1
<1> HIDE DEF p
<1> QED
  BY <1>1, <1>2, <1>4, ShowStep DEF p

(* The results that leave the inbox and those that come.                   *)
Taken(k, c) ==
    { q \in Query : k = 1 /\ 1 \in DOMAIN inbox
                    /\ IsQuery(inbox[1].result, c, q) }

Brought(r, c) == { q \in Query : IsQuery(r, c, q) }

(* No attempt is in the inbox twice.                                       *)
LEMMA QueuedTwice ==
    ASSUME TypeOK, QueueInv, NEW c \in Cycles, NEW q \in Query,
           NEW i \in DOMAIN inbox, NEW j \in DOMAIN inbox,
           IsQuery(inbox[i].result, c, q), IsQuery(inbox[j].result, c, q)
    PROVE  i = j
<1>1. i \in Nat /\ j \in Nat /\ q \in Nat
  BY InboxFacts, RunnerAssumption DEF Query
<1>2. Rank(inbox[i].result) = q /\ Rank(inbox[j].result) = q
  BY DEF Rank, IsQuery
<1>3. ~ (i < j) /\ ~ (j < i)
  BY <1>1, <1>2 DEF QueueInv, SerialWithinCycle, IsQuery
<1> QED
  BY <1>1, <1>3

(* What becomes of the attempts in the inbox when results move up ...      *)
LEMMA ShiftQueued ==
    ASSUME TypeOK, QueueInv, NEW k \in {0, 1}, InboxShifts(k), NEW c \in Cycles
    PROVE  Queued(c)' = Queued(c) \ Taken(k, c)
<1>1. DOMAIN inbox = 1 .. Len(inbox) /\ Len(inbox) \in Nat
  BY InboxFacts
<1>2. ASSUME NEW q \in Query
      PROVE  q \in Queued(c)' <=> q \in Queued(c) /\ q \notin Taken(k, c)
  <2>1. ASSUME NEW i \in DOMAIN inbox', IsQuery(inbox'[i].result, c, q)
        PROVE  q \in Queued(c) /\ q \notin Taken(k, c)
    <3>1. i + k \in DOMAIN inbox /\ IsQuery(inbox[i + k].result, c, q)
      BY <2>1 DEF InboxShifts
    <3>2. k = 1 => i + k # 1
      BY <1>1, <2>1 DEF InboxShifts
    <3> QED
      BY <3>1, <3>2, QueuedTwice DEF Queued, Taken
  <2>2. ASSUME NEW i \in DOMAIN inbox, IsQuery(inbox[i].result, c, q),
               q \notin Taken(k, c)
        PROVE  q \in Queued(c)'
    <3>1. i > k
      BY <1>1, <2>2 DEF Taken
    <3>2. i - k \in DOMAIN inbox' /\ (i - k) + k = i
      BY <1>1, <3>1 DEF InboxShifts
    <3>3. inbox'[i - k] = inbox[i]
      BY <3>2 DEF InboxShifts
    <3> QED
      BY <2>2, <3>2, <3>3 DEF Queued
  <2> QED
    BY <2>1, <2>2 DEF Queued, IsQuery
<1> QED
  BY <1>2 DEF Queued

(* ... and when, besides, one comes.                                       *)
LEMMA MoveQueued ==
    ASSUME TypeOK, QueueInv, NEW k \in {0, 1}, k <= Len(inbox), NEW e,
           InboxMoves(k, e), NEW c \in Cycles
    PROVE  Queued(c)' = (Queued(c) \ Taken(k, c)) \cup Brought(e.result, c)
<1>1. DOMAIN inbox = 1 .. Len(inbox) /\ Len(inbox) \in Nat
  BY InboxFacts
<1>2. ASSUME NEW q \in Query
      PROVE  q \in Queued(c)' <=> \/ q \in Queued(c) /\ q \notin Taken(k, c)
                                  \/ q \in Brought(e.result, c)
  <2>1. ASSUME NEW i \in DOMAIN inbox', IsQuery(inbox'[i].result, c, q),
               ~ (inbox'[i] = e)
        PROVE  q \in Queued(c) /\ q \notin Taken(k, c)
    <3>1. i + k \in DOMAIN inbox /\ IsQuery(inbox[i + k].result, c, q)
      BY <2>1 DEF InboxMoves
    <3>2. k = 1 => i + k # 1
      BY <1>1, <2>1 DEF InboxMoves
    <3> QED
      BY <3>1, <3>2, QueuedTwice DEF Queued, Taken
  <2>2. ASSUME NEW i \in DOMAIN inbox, IsQuery(inbox[i].result, c, q),
               q \notin Taken(k, c)
        PROVE  q \in Queued(c)'
    <3>1. i > k
      BY <1>1, <2>2 DEF Taken
    <3>2. i - k \in DOMAIN inbox' /\ (i - k) + k = i /\ i # Len(inbox) + 1
      BY <1>1, <3>1 DEF InboxMoves
    <3>3. inbox'[i - k] = inbox[i]
      BY <3>2 DEF InboxMoves
    <3> QED
      BY <2>2, <3>2, <3>3 DEF Queued
  <2>3. ASSUME IsQuery(e.result, c, q) PROVE q \in Queued(c)'
    <3> DEFINE last == Len(inbox) + 1 - k
    <3>1. last \in DOMAIN inbox' /\ last + k = Len(inbox) + 1
      BY <1>1 DEF InboxMoves
    <3>2. ~ (last + k \in DOMAIN inbox)
      BY <1>1, <3>1
    <3>3. inbox'[last] = e
      BY <3>1, <3>2 DEF InboxMoves
    <3> QED
      BY <2>3, <3>1, <3>3 DEF Queued
  <2> QED
    BY <2>1, <2>2, <2>3 DEF Queued, Brought
<1> QED
  BY <1>2 DEF Queued, Brought

(* A query in the inbox is not to be sent any more.                        *)
LEMMA QueuedOrLeft ==
    ASSUME TypeOK, QueueInv, NEW c \in Cycles
    PROVE  Queued(c) \cap todo[c] = {}
<1> SUFFICES ASSUME NEW q \in Query, NEW i \in DOMAIN inbox, q \in todo[c],
                    IsQuery(inbox[i].result, c, q)
             PROVE  FALSE
  BY DEF Queued
<1>1. q < q /\ q \in Nat
  BY RunnerAssumption DEF QueueInv, Behind, IsQuery, Query
<1> QED
  BY <1>1

(* The rest of the cycles' state.                                          *)
LEMMA OwedUntouched ==
    ASSUME TypeOK, NEW c \in Cycles, inbox' = inbox, todo'[c] = todo[c],
           Alive(c)' = Alive(c)
    PROVE  Owed(c)' = Owed(c)
BY DEF Owed, Left, Queued

(* A step that no cycle begins or ends with, and that the inbox does not   *)
(* see.                                                                    *)
LEMMA QuietStep ==
    ASSUME TypeOK, UNCHANGED <<fires, applied, inbox, todo>>,
           \A c \in Cycles : Alive(c)' = Alive(c)
    PROVE  UNCHANGED Attempts!pipeVars
BY OwedUntouched, OwedStays

(* A cycle that ends loses what it has not sent.                           *)
LEMMA EndStep ==
    ASSUME TypeOK, QueueInv, UNCHANGED <<fires, applied, inbox, todo>>,
           NEW c \in Cycles, Alive(c), NEW p \in Ended,
           cpc' = [cpc EXCEPT ![c] = p]
    PROVE  Attempts!PipeNext
<1>1. todo[c] \subseteq Query /\ cpc \in [Cycles -> Places]
  BY DEF TypeOK
<1>2. \A b \in Cycles \ {c} : Owed(b)' = Owed(b)
  BY <1>1, OwedUntouched DEF Alive
<1>3. ~Alive(c)'
  BY <1>1 DEF Alive
<1>4. Owed(c)' = Owed(c) \ todo[c] /\ todo[c] \subseteq Owed(c)
  BY <1>1, <1>3, QueuedOrLeft DEF Owed, Left, Queued
<1>5. c[2] <= fires[c[1]]
  BY TypeParts, CycleFacts, NumberFacts DEF CycleOK, Alive
<1> QED
  BY <1>2, <1>4, <1>5, OwedLost

(* Sending changes nothing of what the cycle owes.                         *)
LEMMA SentOwed ==
    ASSUME TypeOK, QueueInv, NEW c \in Cycles, cpc[c] \in {"send", "parked"},
           AfterSend(c), NEW k \in {0, 1}, k <= Len(inbox),
           NEW e, e.result = out[c], InboxMoves(k, e), NEW b \in Cycles
    PROVE  Owed(b)' = Owed(b) \ Taken(k, b)
<1>1. Queued(b)' = (Queued(b) \ Taken(k, b)) \cup Brought(out[c], b)
  BY MoveQueued
<1>2. /\ Handed(c) /\ todo[c] \subseteq Query
      /\ \/ out[c].kind = "query" /\ out[c].query \in Query
         \/ out[c].kind = "stat"
      /\ out[c].cycle = c
  BY HandFacts DEF QueueInv, TypeOK, Handed
<1>3. Taken(k, b) \subseteq Queued(b)
  BY DEF Taken, Queued
<1>4. Queued(b) \cap todo[b] = {}
  BY QueuedOrLeft
<1>5. CASE b # c
  <2>1. Left(b)' = Left(b)
    BY <1>5 DEF Left, AfterSend, Goto, Alive, TypeOK
  <2>2. Brought(out[c], b) = {}
    BY <1>2, <1>5 DEF Brought, IsQuery
  <2> QED
    BY <1>1, <1>3, <1>4, <2>1, <2>2 DEF Owed, Left
<1>6. CASE b = c
  <2>1. todo'[c] = TodoAfter(c)
    BY DEF AfterSend, TypeOK
  <2>2. cpc'[c] = IF out[c].kind = "stat" THEN "completed" ELSE "check"
    BY DEF AfterSend, Goto, TypeOK
  <2>3. Left(c) = todo[c]
    BY <1>2 DEF Left, Alive, Ended
  <2>4. CASE out[c].kind = "query"
    <3>1. Left(c)' = todo[c] \ {out[c].query} /\ out[c].query \in todo[c]
      BY <1>2, <2>1, <2>2, <2>4 DEF Left, Alive, Ended, TodoAfter, Handed
    <3>2. Brought(out[c], c) = {out[c].query}
      BY <1>2, <2>4 DEF Brought, IsQuery
    <3> QED
      BY <1>1, <1>3, <1>4, <1>6, <2>3, <3>1, <3>2 DEF Owed
  <2>5. CASE out[c].kind = "stat"
    <3>1. Left(c)' = {} /\ todo[c] = {}
      BY <1>2, <2>1, <2>5 DEF Left, TodoAfter, Handed
    <3>2. Brought(out[c], c) = {}
      BY <2>5 DEF Brought, IsQuery
    <3> QED
      BY <1>1, <1>6, <2>3, <3>1, <3>2 DEF Owed
  <2> QED
    BY <1>2, <2>4, <2>5
<1> QED
  BY <1>5, <1>6

(* The attempt goes from the cycle to the inbox: nothing to the Pipeline.  *)
LEMMA SendStutters ==
    ASSUME TypeOK, QueueInv, NEW c \in Cycles, Send(c)
    PROVE  UNCHANGED Attempts!pipeVars
<1>1. \A b \in Cycles : Owed(b)' = Owed(b) \ Taken(0, b)
  <2>1. cpc[c] = "send" /\ AfterSend(c) /\ Len(inbox) \in Nat
    BY InboxFacts DEF Send
  <2> QED
    BY <2>1, SendMoves, SentOwed
<1>2. \A b \in Cycles : Taken(0, b) = {}
  BY DEF Taken
<1>3. UNCHANGED <<fires, applied>>
  BY DEF Send, CycleStays, schedVars, pubVars
<1> QED
  BY <1>1, <1>2, <1>3, OwedStays

(* A receive takes the attempt at the head, whoever sends on the way.      *)
LEMMA ReceiveTakes ==
    ASSUME TypeOK, QueueInv, Receive, NEW b \in Cycles
    PROVE  Owed(b)' = Owed(b) \ Taken(1, b)
<1>1. 1 <= Len(inbox)
  BY HeadFacts, InboxFacts DEF Receive
<1>2. CASE InboxShifts(1) /\ UNCHANGED <<cpc, todo, out>>
  <2>1. Left(b)' = Left(b)
    BY <1>2 DEF Left, Alive
  <2>2. Taken(1, b) \subseteq Queued(b) /\ Queued(b) \cap todo[b] = {}
    BY QueuedOrLeft DEF Taken, Queued
  <2>3. Queued(b)' = Queued(b) \ Taken(1, b)
    BY <1>2, ShiftQueued
  <2> QED
    BY <2>1, <2>2, <2>3 DEF Owed, Left
<1> QED
  BY <1>1, <1>2, ReceiveMoves, SentOwed

(* An applied result is shown, a failed one lost, a pool statistic         *)
(* nothing.                                                                *)
LEMMA ReceiveIsStep ==
    ASSUME TypeOK, QueueInv, OrderInv, Receive
    PROVE  [Attempts!PipeNext]_(Attempts!pipeVars)
<1>1. /\ 1 \in DOMAIN inbox /\ Head(inbox) = inbox[1]
      /\ inbox[1].result.cycle \in Cycles
      /\ \/ inbox[1].result.kind = "query" /\ inbox[1].result.query \in Query
         \/ inbox[1].result.kind = "stat"
  BY HeadFacts DEF Receive
<1> PICK r : r = inbox[1].result
  OBVIOUS
<1> PICK c \in Cycles : c = r.cycle
  BY <1>1
<1>2. c[2] <= fires[c[1]] /\ fires' = fires
  BY <1>1 DEF OrderInv, Number, TenantOf, Receive, schedVars
<1>3. \A b \in Cycles : Owed(b)' = Owed(b) \ Taken(1, b)
  BY ReceiveTakes
<1>4. \/ applied' = applied
      \/ /\ r.kind = "query"
         /\ applied' = [applied EXCEPT ![<<c[1], r.query>>] = c[2]]
  BY <1>1, AppliedBy
<1>5. CASE r.kind = "stat"
  <2>1. \A b \in Cycles : Taken(1, b) = {}
    BY <1>5 DEF Taken, IsQuery
  <2>2. applied' = applied
    BY <1>4, <1>5
  <2> QED
    BY <1>2, <1>3, <2>1, <2>2, OwedStays
<1>6. CASE r.kind = "query" /\ r.query \in Query
  <2> PICK q \in Query : q = r.query
    BY <1>6
  <2> PICK S : S = {q}
    OBVIOUS
  <2>1. Taken(1, c) = S /\ \A b \in Cycles \ {c} : Taken(1, b) = {}
    BY <1>1, <1>6 DEF Taken, IsQuery
  <2>2. S \in SUBSET Owed(c)
    <3>1. IsQuery(inbox[1].result, c, q)
      BY <1>6 DEF IsQuery
    <3>2. q \in Queued(c)
      BY <1>1, <3>1 DEF Queued
    <3> QED
      BY <3>2 DEF Owed
  <2>3. /\ Owed(c)' = Owed(c) \ S
        /\ \A b \in Cycles \ {c} : Owed(b)' = Owed(b)
    <3>1. Owed(c)' = Owed(c) \ S
      BY ReceiveTakes, <2>1
    <3>2. ASSUME NEW b \in Cycles, b # c PROVE Owed(b)' = Owed(b)
      BY <3>2, ReceiveTakes, <2>1
    <3> QED
      BY <3>1, <3>2
  <2>4. CASE applied' = applied
    BY <1>2, <2>2, <2>3, <2>4, OwedLost
  <2>5. CASE applied' = [applied EXCEPT ![<<c[1], q>>] = c[2]]
    BY <1>2, <2>2, <2>3, <2>5, OwedShown
  <2> QED
    BY <1>4, <2>4, <2>5
<1> QED
  BY <1>1, <1>5, <1>6

(* A fire starts an attempt at each due query.                             *)
LEMMA FireIsStart ==
    ASSUME TypeOK, QueueInv, NEW t \in Tenants, Fire(t)
    PROVE  Attempts!PipeNext
<1>1. /\ fires \in [Tenants -> 0 .. MaxFires] /\ fires[t] \in Nat
      /\ fires[t] < MaxFires
  <2>1. fires \in [Tenants -> 0 .. MaxFires]
    BY DEF TypeOK
  <2> QED
    BY <2>1, RunnerAssumption DEF Fire
<1> PICK n \in Nat : n = fires[t] + 1
  BY <1>1
<1> PICK new \in Cycles : new = <<t, n>>
  <2>1. n \in 1 .. MaxFires
    BY <1>1, RunnerAssumption
  <2> QED
    BY <2>1 DEF Cycles
<1>2. new[1] = t /\ new[2] = n
  OBVIOUS
<1>3. /\ fires' = [fires EXCEPT ![t] = @ + 1] /\ fires'[t] = n
      /\ applied' = applied /\ inbox' = inbox
  BY <1>1 DEF Fire, pubVars
<1>4. PICK due \in SUBSET Query : todo' = [todo EXCEPT ![new] = due]
  BY <1>1 DEF Fire
<1>5. cpc[new] = "unborn"
  BY <1>1, <1>2, TypeParts DEF CycleOK
<1>6. Owed(new)' = due
  <2>1. cpc'[new] = "check" /\ todo'[new] = due
    BY <1>2, <1>4 DEF Fire, TypeOK
  <2>2. Queued(new) = {}
    BY <1>5 DEF Queued, QueueInv, Behind, IsQuery
  <2> QED
    BY <1>3, <2>1, <2>2 DEF Owed, Left, Queued, Alive, Ended
<1>7. ASSUME NEW b \in Cycles, b # new PROVE Owed(b)' = Owed(b)
  <2>1. todo'[b] = todo[b]
    BY <1>4, <1>7 DEF TypeOK
  <2>2. Alive(b)' = Alive(b)
    BY <1>7 DEF Fire, Alive, Ended, TypeOK
  <2> QED
    BY <1>3, <2>1, <2>2, OwedUntouched
<1>8. ASSUME NEW o \in Tenants \X Query
      PROVE  { m \in 1 .. fires'[o[1]] : o[2] \in Owed(<<o[1], m>>)' }
             = IF o[1] = t /\ o[2] \in due
               THEN Pending[o] \cup {fires'[t]} ELSE Pending[o]
  <2>1. Pending[o] = { m \in 1 .. fires[o[1]] : o[2] \in Owed(<<o[1], m>>) }
    BY PendingIsOwed
  <2>2. ASSUME NEW m \in 1 .. fires[o[1]]
        PROVE  Owed(<<o[1], m>>)' = Owed(<<o[1], m>>)
    <3>1. <<o[1], m>> \in Cycles
      BY PendingCycles
    <3>2. <<o[1], m>> # new
      BY <1>1
    <3> QED
      BY <1>7, <3>1, <3>2
  <2>3. CASE o[1] = t
    <3>1. 1 .. fires'[o[1]] = (1 .. fires[o[1]]) \cup {n}
      BY <1>1, <1>3, <2>3
    <3>2. Owed(<<o[1], n>>)' = due
      BY <1>6, <2>3
    <3>3. n \notin 1 .. fires[o[1]]
      BY <1>1, <2>3
    <3> QED
      BY <1>3, <2>1, <2>2, <2>3, <3>1, <3>2, <3>3
  <2>4. CASE o[1] # t
    <3>1. fires'[o[1]] = fires[o[1]]
      BY <1>1, <1>3, <2>4
    <3> QED
      BY <2>1, <2>2, <2>4, <3>1
  <2> QED
    BY <2>3, <2>4
<1>9. Pending' = [o \in Tenants \X Query |->
                    IF o[1] = t /\ o[2] \in due
                    THEN Pending[o] \cup {fires'[t]} ELSE Pending[o]]
  BY <1>8, PendingIsOwed
<1> QED
  BY <1>3, <1>9, StartStep

LEMMA CycleIsStep ==
    ASSUME TypeOK, QueueInv, NEW c \in Cycles, CycleStep(c) \/ SendOnClosed(c)
    PROVE  [Attempts!PipeNext]_(Attempts!pipeVars)
<1> USE DEF CycleStays, Goto
<1>1. CASE Send(c)
  BY <1>1, SendStutters
<1>2. CASE CheckKilled(c) \/ QueryCrashes(c) \/ Abort(c) \/ Unwind(c)
           \/ SendOnClosed(c)
  <2>1. /\ Alive(c)
        /\ \E p \in Ended : cpc' = [cpc EXCEPT ![c] = p]
        /\ UNCHANGED <<fires, applied, inbox, todo>>
    BY <1>2 DEF CheckKilled, QueryCrashes, Abort, Unwind, SendOnClosed, Alive,
       Ended, schedVars, pubVars
  <2> QED
    BY <2>1, EndStep
<1>3. CASE BeginQuery(c) \/ Acquire(c) \/ AcquireFails(c) \/ QueryReturns(c)
           \/ ReadStat(c) \/ Park(c)
  <2>1. /\ UNCHANGED <<fires, applied, inbox, todo>>
        /\ \E p \in Places \ (Ended \cup {"unborn"}) :
              cpc' = [cpc EXCEPT ![c] = p]
        /\ Alive(c)
    BY <1>3 DEF BeginQuery, Acquire, AcquireFails, QueryReturns, ReadStat,
       Park, Alive, Ended, Places, schedVars, pubVars
  <2>2. \A b \in Cycles : Alive(b)' = Alive(b)
    BY <2>1 DEF Alive, TypeOK
  <2> QED
    BY <2>1, <2>2, QuietStep
<1> QED
  BY <1>1, <1>2, <1>3 DEF CycleStep

(* Every step of the runners is one of the Pipeline, or none.              *)
LEMMA StepImplements ==
    ASSUME TypeOK, QueueInv, OrderInv, [Next]_vars
    PROVE  [Attempts!PipeNext]_(Attempts!pipeVars)
<1>1. ASSUME NEW t \in Tenants, ReturnFromStagger(t) \/ ReturnFromLoop(t)
      PROVE  UNCHANGED Attempts!pipeVars
  BY <1>1, QuietStep DEF ReturnFromStagger, ReturnFromLoop, Cancel, cycleVars,
     pubVars, Alive, Ended
<1>2. ASSUME NEW c \in Cycles, Propagate(c) PROVE UNCHANGED Attempts!pipeVars
  BY <1>2, QuietStep DEF Propagate, Cancel, schedVars, pubVars, Alive, Ended
<1>3. CASE CancelRoot \/ PublisherReturns \/ UNCHANGED vars
  BY <1>3, QuietStep DEF CancelRoot, PublisherReturns, vars, schedVars,
     cycleVars, pubVars, Alive
<1> QED
  BY <1>1, <1>2, <1>3, CycleIsStep, ReceiveIsStep, FireIsStart
     DEF Next, SchedulerStep, PublisherStep, Quiescent

LEMMA InitImplements == Init => Attempts!PipeInit
<1> SUFFICES ASSUME Init PROVE Attempts!PipeInit
  OBVIOUS
<1>1. Pending = [o \in Tenants \X Query |-> {}]
  BY DEF Init, Pending
<1> QED
  BY <1>1 DEF Init, Attempts!PipeInit, Attempts!Owners

(* Whatever the cycles, the inbox and the publisher do is a behaviour of   *)
(* the Pipeline: no query of a cycle is attempted twice, shown twice, or   *)
(* shown after it was lost (Run, runCycle, Publisher.Run).                 *)
THEOREM RunnerImplementsPipeline == Spec => ImplementsPipeline
BY InitImplements, StepImplements, TypeCorrect, QueueAlways, OrderAlways, PTL
   DEF Spec, ImplementsPipeline, Attempts!PipeSpec

----------------------------------------------------------------------------
(* What that means for the owner of a gauge: the gauges change to the rows *)
(* of an attempt that was under way and no longer is, and an attempt that  *)
(* is no longer under way, shown or lost, never is again.                  *)
ShownOnce ==
    [][\A o \in Tenants \X Query :
          /\ applied'[o] # applied[o] => applied'[o] \in Pending[o] \ Pending'[o]
          /\ \A n \in 1 .. fires[o[1]] : n \notin Pending[o] => n \notin Pending'[o]]_vars

LEMMA StepShowsOnce ==
    ASSUME TypeOK, [Attempts!PipeNext]_(Attempts!pipeVars),
           NEW o \in Tenants \X Query
    PROVE  /\ applied'[o] # applied[o] => applied'[o] \in Pending[o] \ Pending'[o]
           /\ \A n \in 1 .. fires[o[1]] : n \notin Pending[o] => n \notin Pending'[o]
<1>1. /\ fires \in [Tenants -> Nat] /\ o[1] \in Tenants
      /\ applied \in [Tenants \X Query -> Nat]
  BY RunnerAssumption DEF TypeOK
<1>2. Pending = [p \in Tenants \X Query |-> Pending[p]]
  BY DEF Pending
<1> HIDE DEF Pending
<1>3. ASSUME NEW t \in Tenants, NEW due \in SUBSET Query,
             Attempts!Start(t, due)
      PROVE  /\ applied' = applied
             /\ \A n \in 1 .. fires[o[1]] : n \notin Pending[o] => n \notin Pending'[o]
  <2>1. /\ fires'[t] = fires[t] + 1 /\ applied' = applied
        /\ \/ Pending'[o] = Pending[o]
           \/ o[1] = t /\ Pending'[o] = Pending[o] \cup {fires'[t]}
    BY <1>1, <1>3 DEF Attempts!Start, Attempts!Owners
  <2> QED
    BY <1>1, <2>1
<1>4. ASSUME NEW p \in Tenants \X Query, NEW n \in Pending[p],
             Attempts!Show(p, n)
      PROVE  /\ applied'[o] # applied[o] => applied'[o] \in Pending[o] \ Pending'[o]
             /\ Pending'[o] \subseteq Pending[o]
  BY <1>1, <1>2, <1>4 DEF Attempts!Show
<1>5. ASSUME NEW t \in Tenants, NEW queries \in SUBSET Query,
             NEW n \in 1 .. fires[t], Attempts!Lose(t, n, queries)
      PROVE  applied' = applied /\ Pending'[o] \subseteq Pending[o]
  BY <1>5 DEF Attempts!Lose, Attempts!Owners
<1>6. UNCHANGED Attempts!pipeVars => applied' = applied /\ Pending' = Pending
  BY DEF Attempts!pipeVars
<1> QED
  BY <1>3, <1>4, <1>5, <1>6 DEF Attempts!PipeNext, Attempts!Owners

(* No attempt of a cycle at a query is shown twice, and none after it was  *)
(* lost (fire, runCycle, Publisher.Run).                                   *)
THEOREM NothingIsShownTwice == Spec => ShownOnce
<1> DEFINE Once ==
      \A o \in Tenants \X Query :
          /\ applied'[o] # applied[o] => applied'[o] \in Pending[o] \ Pending'[o]
          /\ \A n \in 1 .. fires[o[1]] : n \notin Pending[o] => n \notin Pending'[o]
<1>1. TypeOK /\ QueueInv /\ OrderInv /\ [Next]_vars => [Once]_vars
  BY StepImplements, StepShowsOnce
<1> QED
  BY <1>1, TypeCorrect, QueueAlways, OrderAlways, PTL DEF Spec, ShownOnce

=============================================================================
