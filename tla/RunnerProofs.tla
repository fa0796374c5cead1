--------------------------- MODULE RunnerProofs -------------------------------
(***************************************************************************)
(* Theorems about the schedulers, cycles, inbox and publisher for every    *)
(* number of tenants, queries, cycles and connections, and every capacity  *)
(* of the inbox.                                                           *)
(***************************************************************************)
EXTENDS Runner, FiniteSetTheorems, TLAPS

Entry == [result : Results \ {NoResult}, late : BOOLEAN]

PublisherRanges ==
    /\ pub \in {"running", "returned"}
    /\ applied \in [Tenants \X Query -> 0 .. MaxFires]
    /\ seen \in [Tenants -> BOOLEAN]
    /\ baseline \in [Tenants -> 0 .. MaxEmpty]
    /\ emptyTotal \in [Tenants -> Nat]
    /\ firstSeen \in [Tenants -> 0 .. MaxEmpty]

Ranges ==
    /\ ctxDone \in BOOLEAN
    /\ sched \in [Tenants -> {"stagger", "loop", "returned"}]
    /\ fires \in [Tenants -> 0 .. MaxFires]
    /\ cpc \in [Cycles -> Places]
    /\ canceled \in [Cycles -> BOOLEAN]
    /\ todo \in [Cycles -> SUBSET Query]
    /\ out \in [Cycles -> Results]
    /\ late \in [Cycles -> Nat]
    /\ inbox \in Seq(Entry)
    /\ Len(inbox) <= InboxCap
    /\ inboxClosed \in BOOLEAN
    /\ poolClosed \in [Tenants -> BOOLEAN]
    /\ empty \in [Tenants -> 0 .. MaxEmpty]
    /\ PublisherRanges

CycleOK(c) ==
    /\ cpc[c] = "unborn" <=> c[2] > fires[c[1]]
    /\ out[c] # NoResult <=> cpc[c] \in {"send", "parked", "woken"}
    /\ cpc[c] = "parked" => ~canceled[c] /\ Len(inbox) = InboxCap
    /\ cpc[c] = "woken" => canceled[c]
    /\ cpc[c] \in {"acquire", "query"} => todo[c] # {}

(* A cycle is its tenant and its number.                                   *)
LEMMA CycleFacts ==
    ASSUME NEW c \in Cycles
    PROVE  /\ c[1] \in Tenants
           /\ c[2] \in 1 .. MaxFires
           /\ c[2] \in Nat
           /\ c = <<c[1], c[2]>>
BY RunnerAssumption DEF Cycles

(* TypeOK in two parts: the ranges, and what ties the state of a cycle     *)
(* together. TypeJoin is the direction that is needed of the next state.   *)
LEMMA TypeParts == TypeOK <=> Ranges /\ \A c \in Cycles : CycleOK(c)
BY DEF TypeOK, Ranges, PublisherRanges, CycleOK, Entry

LEMMA TypeJoin ==
    ASSUME Ranges', \A c \in Cycles : CycleOK(c)'
    PROVE  TypeOK'
BY DEF TypeOK, Ranges, PublisherRanges, CycleOK, Entry

(* Every set of numbers that is not empty has a least one: the intervals   *)
(* from 1 to its members are finite sets, and those are well-founded.      *)
LEMMA LeastElement ==
    ASSUME NEW S, S \subseteq Nat, S # {}
    PROVE  \E m \in S : \A n \in S : m <= n
<1> DEFINE T == { 1 .. n : n \in S }
<1>1. T \subseteq FiniteSubsetsOf(Nat)
  <2> SUFFICES ASSUME NEW n \in S
               PROVE  1 .. n \in FiniteSubsetsOf(Nat)
    OBVIOUS
  <2>1. n \in Int /\ 1 .. n \in SUBSET Nat
    OBVIOUS
  <2> QED
    BY <2>1, FS_Interval DEF FiniteSubsetsOf
<1>2. T # {}
  OBVIOUS
<1>3. PICK x \in T : \A y \in T : ~ (<<y, x>> \in StrictSubsetOrdering(Nat))
  <2> HIDE DEF T
  <2> QED BY <1>1, <1>2, FS_StrictSubsetOrderingWellFounded, WFMin
<1>4. PICK m \in S : x = 1 .. m
  OBVIOUS
<1>5. ASSUME NEW n \in S, n < m PROVE FALSE
  <2>1. /\ 1 .. n \in SUBSET Nat /\ 1 .. m \in SUBSET Nat
        /\ 1 .. n \subseteq 1 .. m /\ m \in 1 .. m /\ m \notin 1 .. n
    BY <1>5
  <2>2. <<1 .. n, 1 .. m>> \in StrictSubsetOrdering(Nat)
    BY <2>1 DEF StrictSubsetOrdering
  <2> QED
    BY <1>3, <1>4, <2>2
<1> QED
  BY <1>5

(* The query a cycle is at is one it has still to send.                    *)
LEMMA CurrentIsFirst ==
    ASSUME NEW c \in Cycles, todo[c] \subseteq Query, todo[c] # {}
    PROVE  /\ Current(c) \in todo[c]
           /\ \A p \in todo[c] : Current(c) <= p
<1>1. todo[c] \subseteq Nat
  BY RunnerAssumption DEF Query
<1>2. \E q \in todo[c] : \A p \in todo[c] : q <= p
  BY <1>1, LeastElement
<1> QED
  BY <1>2 DEF Current

(* What Results has in it, and what a result is.                           *)
LEMMA ResultFacts ==
    /\ NoResult \in Results
    /\ \A c \in Cycles, q \in Query, ok \in BOOLEAN :
          LET r == [kind |-> "query", cycle |-> c, query |-> q, ok |-> ok]
          IN  r \in Results \ {NoResult}
    /\ \A c \in Cycles, n \in 0 .. MaxEmpty :
          LET r == [kind |-> "stat", cycle |-> c, empty |-> n]
          IN  r \in Results \ {NoResult}
<1>1. \A c \in Cycles, q \in Query, ok \in BOOLEAN :
          [kind |-> "query", cycle |-> c, query |-> q, ok |-> ok] # NoResult
  BY DEF NoResult
<1>2. \A c \in Cycles, n \in 0 .. MaxEmpty :
          [kind |-> "stat", cycle |-> c, empty |-> n] # NoResult
  BY DEF NoResult
<1> QED
  BY <1>1, <1>2 DEF Results

LEMMA EntryType ==
    ASSUME NEW r \in Results \ {NoResult}, NEW l \in BOOLEAN
    PROVE  [result |-> r, late |-> l] \in Entry
BY DEF Entry

LEMMA ResultKinds ==
    ASSUME NEW r \in Results \ {NoResult}
    PROVE  /\ r.cycle \in Cycles
           /\ \/ r.kind = "query" /\ r.query \in Query /\ r.ok \in BOOLEAN
              \/ r.kind = "stat" /\ r.empty \in 0 .. MaxEmpty
BY DEF Results, NoResult

(* Type correctness, action by action.                                     *)
LEMMA TypeInit == Init => TypeOK
<1> SUFFICES ASSUME Init PROVE TypeOK
  OBVIOUS
<1> USE RunnerAssumption DEF Init
<1>1. Ranges
  <2>1. inbox \in Seq(Entry) /\ Len(inbox) <= InboxCap
    OBVIOUS
  <2>2. out \in [Cycles -> Results]
    BY ResultFacts
  <2>3. cpc \in [Cycles -> Places]
    BY DEF Places
  <2>4. /\ 0 \in 0 .. MaxFires /\ 0 \in 0 .. MaxEmpty
        /\ {} \in SUBSET Query
    OBVIOUS
  <2>5. /\ todo \in [Cycles -> SUBSET Query]
        /\ applied \in [Tenants \X Query -> 0 .. MaxFires]
        /\ fires \in [Tenants -> 0 .. MaxFires]
    BY <2>4
  <2>6. /\ empty \in [Tenants -> 0 .. MaxEmpty]
        /\ baseline \in [Tenants -> 0 .. MaxEmpty]
        /\ firstSeen \in [Tenants -> 0 .. MaxEmpty]
    BY <2>4
  <2> QED
    BY <2>1, <2>2, <2>3, <2>5, <2>6 DEF Ranges, PublisherRanges
<1>2. ASSUME NEW c \in Cycles PROVE CycleOK(c)
  BY CycleFacts DEF CycleOK, Ended
<1> QED
  BY <1>1, <1>2, TypeParts

(* A fire brings to life a cycle that was unborn, and wakes one.           *)
LEMMA TypeFire ==
    ASSUME TypeOK, NEW t \in Tenants, Fire(t)
    PROVE  TypeOK'
<1> USE RunnerAssumption
<1> DEFINE new == <<t, fires[t] + 1>>
<1>0. Ranges /\ \A c \in Cycles : CycleOK(c)
  BY TypeParts
<1>1. fires[t] \in 0 .. MaxFires /\ fires[t] < MaxFires
  BY <1>0 DEF Ranges, Fire
<1>2. new \in Cycles /\ new[1] = t /\ new[2] = fires[t] + 1
  BY <1>1 DEF Cycles
<1>3. Ranges'
  <2>1. canceled' \in [Cycles -> BOOLEAN]
    BY <1>0 DEF Ranges, Fire
  <2>2. cpc' \in [Cycles -> Places]
    BY <1>0 DEF Ranges, Fire, Places
  <2>3. todo' \in [Cycles -> SUBSET Query]
    BY <1>0 DEF Ranges, Fire
  <2>4. fires' \in [Tenants -> 0 .. MaxFires]
    BY <1>0, <1>1 DEF Ranges, Fire
  <2> QED
    BY <1>0, <2>1, <2>2, <2>3, <2>4 DEF Ranges, PublisherRanges, Fire, poolVars, pubVars
<1>4. ASSUME NEW c \in Cycles PROVE CycleOK(c)'
  <2>1. CycleOK(c) /\ c[1] \in Tenants /\ c[2] \in Nat /\ c = <<c[1], c[2]>>
    BY <1>0, CycleFacts
  <2>2. CASE c = new
    <3>1. cpc'[c] = "check" /\ out'[c] = out[c] /\ fires'[c[1]] = c[2]
      BY <1>0, <1>1, <1>2, <2>2 DEF Ranges, Fire
    <3>2. cpc[c] = "unborn"
      BY <1>0, <1>1, <1>2, <2>1, <2>2 DEF Ranges, CycleOK
    <3> QED
      BY <2>1, <3>1, <3>2 DEF CycleOK
  <2>3. CASE c # new
    <3>1. c[2] > fires'[c[1]] <=> c[2] > fires[c[1]]
      <4>1. fires' = [fires EXCEPT ![t] = fires[t] + 1]
        BY DEF Fire
      <4>2. CASE c[1] = t
        BY <1>0, <1>1, <2>1, <2>3, <4>1, <4>2 DEF Ranges
      <4>3. CASE c[1] # t
        BY <1>0, <2>1, <4>1, <4>3 DEF Ranges
      <4> QED
        BY <4>2, <4>3
    <3> QED
      BY <1>0, <1>1, <2>1, <2>3, <3>1 DEF Ranges, CycleOK, Fire, CancelPrev
  <2> QED
    BY <2>2, <2>3
<1> QED
  BY <1>3, <1>4, TypeJoin

(* One cycle goes on, and the others do not notice.                        *)
LEMMA TypeCycle ==
    ASSUME TypeOK, NEW c \in Cycles, cpc[c] # "unborn",
           NEW p \in Places \ {"unborn"}, NEW d \in SUBSET Query,
           NEW r \in Results,
           cpc' = [cpc EXCEPT ![c] = p],
           todo' = [todo EXCEPT ![c] = d],
           out' = [out EXCEPT ![c] = r],
           UNCHANGED <<ctxDone, schedVars, canceled, inboxClosed, poolClosed>>,
           late' \in [Cycles -> Nat],
           empty' \in [Tenants -> 0 .. MaxEmpty],
           PublisherRanges',
           inbox' \in Seq(Entry),
           Len(inbox') <= InboxCap,
           Len(inbox) = InboxCap => Len(inbox') = InboxCap \/ Parked \subseteq {c},
           r # NoResult <=> p \in {"send", "parked", "woken"},
           p = "parked" => ~canceled[c] /\ Len(inbox') = InboxCap,
           p = "woken" => canceled[c],
           p \in {"acquire", "query"} => d # {}
    PROVE  TypeOK'
<1>0. Ranges /\ \A b \in Cycles : CycleOK(b)
  BY TypeParts
<1>1. Ranges'
  BY <1>0 DEF Ranges, schedVars
<1>2. ASSUME NEW b \in Cycles PROVE CycleOK(b)'
  <2>1. CASE b = c
    BY <1>0, <2>1 DEF Ranges, CycleOK, schedVars
  <2>2. CASE b # c
    BY <1>0, <2>2 DEF Ranges, CycleOK, schedVars, Parked
  <2> QED
    BY <2>1, <2>2
<1> QED
  BY <1>1, <1>2, TypeJoin

(* Every place of runCycle, and the panic of a send on a closed inbox.     *)
LEMMA TypeCycleStep ==
    ASSUME TypeOK, NEW c \in Cycles, CycleStep(c) \/ SendOnClosed(c)
    PROVE  TypeOK'
<1> USE DEF CycleStays, Goto
<1>0. Ranges /\ CycleOK(c) /\ c[1] \in Tenants
  BY TypeParts, CycleFacts
<1>1. /\ todo = [todo EXCEPT ![c] = todo[c]] /\ todo[c] \in SUBSET Query
      /\ out = [out EXCEPT ![c] = out[c]] /\ out[c] \in Results
  BY <1>0 DEF Ranges
<1>2. /\ PublisherRanges
      /\ late \in [Cycles -> Nat]
      /\ empty \in [Tenants -> 0 .. MaxEmpty]
      /\ inbox \in Seq(Entry)
      /\ Len(inbox) <= InboxCap
  BY <1>0 DEF Ranges
<1>3. CycleStays => PublisherRanges'
  BY <1>2 DEF PublisherRanges, pubVars
<1>4. \A p \in {"check", "acquire", "query", "send", "parked", "woken",
                 "completed", "killed", "panicked", "crashed"} :
         p \in Places \ {"unborn"}
  BY DEF Places, Ended
<1>5. todo[c] # {} =>
         \A ok \in BOOLEAN : QueryResult(c, ok) \in Results \ {NoResult}
  BY <1>1, CurrentIsFirst, ResultFacts DEF QueryResult
<1>6. NoResult \in Results
  BY ResultFacts
<1>7. CASE CheckKilled(c)
  BY <1>0, <1>1, <1>2, <1>3, <1>4, <1>7, TypeCycle
     DEF CheckKilled, CycleOK, poolVars
<1>8. CASE BeginQuery(c)
  BY <1>0, <1>1, <1>2, <1>3, <1>4, <1>8, TypeCycle
     DEF BeginQuery, CycleOK, poolVars
<1>9. CASE Acquire(c)
  <2>1. empty' \in [Tenants -> 0 .. MaxEmpty]
    BY <1>0, <1>2, <1>9, RunnerAssumption DEF Acquire
  <2> QED
    BY <1>0, <1>1, <1>2, <1>3, <1>4, <1>9, <2>1, TypeCycle
       DEF Acquire, CycleOK
<1>10. CASE AcquireFails(c)
  BY <1>0, <1>1, <1>2, <1>3, <1>4, <1>5, <1>10, TypeCycle
     DEF AcquireFails, CycleOK, poolVars
<1>11. CASE QueryReturns(c)
  BY <1>0, <1>1, <1>2, <1>3, <1>4, <1>5, <1>11, TypeCycle
     DEF QueryReturns, CycleOK, poolVars
<1>12. CASE QueryCrashes(c)
  BY <1>0, <1>1, <1>2, <1>3, <1>4, <1>12, TypeCycle
     DEF QueryCrashes, CycleOK, poolVars
<1>13. CASE ReadStat(c)
  <2> DEFINE r == [kind |-> "stat", cycle |-> c, empty |-> empty[c[1]]]
  <2>1. r \in Results \ {NoResult}
    BY <1>0, <1>2, ResultFacts
  <2>2. /\ cpc[c] = "check" /\ Goto(c, "send")
        /\ out' = [out EXCEPT ![c] = r]
        /\ CycleStays /\ UNCHANGED <<todo, late, inbox, poolVars>>
    BY <1>13 DEF ReadStat
  <2> HIDE DEF r
  <2> QED
    BY <1>0, <1>1, <1>2, <1>3, <1>4, <2>1, <2>2, TypeCycle
       DEF CycleOK, poolVars
<1>14. CASE Send(c)
  <2> USE <1>14 DEF Send
  <2>1. late' \in [Cycles -> Nat]
    BY <1>2
  <2>2. inbox' \in Seq(Entry) /\ Len(inbox') = Len(inbox) + 1
    <3>1. [result |-> out[c], late |-> canceled[c]] \in Entry
      BY <1>0, <1>1, EntryType DEF Ranges, CycleOK
    <3> QED
      BY <1>2, <3>1
  <2>3. TodoAfter(c) \in SUBSET Query
    BY <1>1 DEF TodoAfter
  <2>4. Len(inbox') <= InboxCap /\ ~ (Len(inbox) = InboxCap)
    BY <1>2, <2>2, RunnerAssumption
  <2> QED
    BY <1>0, <1>2, <1>3, <1>4, <1>6, <2>1, <2>2, <2>3, <2>4, TypeCycle
       DEF AfterSend, CycleOK, poolVars
<1>15. CASE Abort(c)
  BY <1>0, <1>1, <1>2, <1>3, <1>4, <1>6, <1>15, TypeCycle
     DEF Abort, CycleOK, poolVars
<1>16. CASE Park(c)
  BY <1>0, <1>1, <1>2, <1>3, <1>4, <1>16, TypeCycle
     DEF Park, CycleOK, poolVars
<1>17. CASE Unwind(c)
  BY <1>0, <1>1, <1>2, <1>3, <1>4, <1>6, <1>17, TypeCycle
     DEF Unwind, CycleOK, poolVars
<1>18. CASE SendOnClosed(c)
  BY <1>0, <1>1, <1>2, <1>3, <1>4, <1>6, <1>18, TypeCycle
     DEF SendOnClosed, CycleOK, poolVars
<1> QED
  BY <1>7, <1>8, <1>9, <1>10, <1>11, <1>12, <1>13, <1>14, <1>15, <1>16,
     <1>17, <1>18 DEF CycleStep

(* The schedulers' returns and the cancellations wake parked cycles.       *)
LEMMA TypeCancel ==
    ASSUME TypeOK, NEW S \in SUBSET Cycles, Cancel(S),
           sched' \in [Tenants -> {"stagger", "loop", "returned"}],
           UNCHANGED <<ctxDone, fires, todo, out, late, inbox, inboxClosed,
                       poolVars, pubVars>>
    PROVE  TypeOK'
<1>0. Ranges /\ \A c \in Cycles : CycleOK(c)
  BY TypeParts
<1>1. Ranges'
  BY <1>0 DEF Ranges, PublisherRanges, Cancel, Places, poolVars, pubVars
<1>2. ASSUME NEW c \in Cycles PROVE CycleOK(c)'
  BY <1>0 DEF Ranges, CycleOK, Cancel
<1> QED
  BY <1>1, <1>2, TypeJoin

(* A scheduler returns, because its context is done or of a panic.         *)
LEMMA TypeRetire ==
    ASSUME TypeOK, NEW t \in Tenants,
           sched' = [sched EXCEPT ![t] = "returned"],
           Cancel(CancelPrev(t)),
           UNCHANGED <<ctxDone, fires, todo, out, late, inbox, inboxClosed,
                       poolVars, pubVars>>
    PROVE  TypeOK'
<1>1. Cancel(CancelPrev(t) \cap Cycles)
  BY DEF Cancel
<1>2. sched' \in [Tenants -> {"stagger", "loop", "returned"}]
  BY TypeParts DEF Ranges
<1> QED
  BY <1>1, <1>2, TypeCancel

(* A result of the inbox keeps the publisher in its ranges.                *)
LEMMA TypeApply ==
    ASSUME TypeOK, inbox # <<>>, ApplyResult(Head(inbox).result), pub' = pub
    PROVE  PublisherRanges'
<1> USE RunnerAssumption
<1>0. Ranges /\ PublisherRanges
  BY TypeParts DEF Ranges
<1> DEFINE r == Head(inbox).result
<1>1. r \in Results \ {NoResult}
  <2>1. Head(inbox) \in Entry
    BY <1>0 DEF Ranges
  <2> QED
    BY <2>1 DEF Entry
<1> HIDE DEF r
<1>2. /\ r.cycle \in Cycles /\ r.cycle[1] \in Tenants
      /\ r.cycle[2] \in 0 .. MaxFires
      /\ r.kind = "query" => <<r.cycle[1], r.query>> \in Tenants \X Query
      /\ r.kind = "stat" => r.empty \in 0 .. MaxEmpty
  BY <1>1, ResultKinds, CycleFacts
<1>3. CASE r.kind = "query"
  BY <1>0, <1>2, <1>3 DEF ApplyResult, PublisherRanges, r
<1>4. CASE r.kind = "stat"
  <2>1. BumpEmptyAcquire(r.cycle[1], r.empty) /\ applied' = applied
    BY <1>4 DEF ApplyResult, r
  <2>2. Growth(r.cycle[1], r.empty) \in Nat
    BY <1>0, <1>2, <1>4 DEF Growth, PublisherRanges
  <2> QED
    BY <1>0, <1>2, <1>4, <2>1, <2>2 DEF PublisherRanges, BumpEmptyAcquire
<1> QED
  BY <1>1, <1>3, <1>4, ResultKinds

(* A receive also moves a parked cycle on.                                 *)
LEMMA TypePublisher ==
    ASSUME TypeOK, PublisherStep
    PROVE  TypeOK'
<1>0. Ranges /\ \A c \in Cycles : CycleOK(c)
  BY TypeParts
<1>1. CASE Receive
  <2> USE <1>1 DEF Receive
  <2>1. PublisherRanges'
    BY TypeApply
  <2>2. /\ Tail(inbox) \in Seq(Entry) /\ Len(Tail(inbox)) = Len(inbox) - 1
        /\ Len(inbox) \in Nat
    BY <1>0 DEF Ranges
  <2>3. CASE Parked = {} /\ inbox' = Tail(inbox) /\ UNCHANGED <<cpc, todo, out>>
    <3>1. Ranges'
      BY <1>0, <2>1, <2>2, <2>3, RunnerAssumption DEF Ranges, schedVars, poolVars
    <3>2. ASSUME NEW c \in Cycles PROVE CycleOK(c)'
      BY <1>0, <2>3 DEF CycleOK, Parked, schedVars
    <3> QED
      BY <3>1, <3>2, TypeJoin
  <2>4. ASSUME NEW c \in Parked, AfterSend(c),
               inbox' = Append(Tail(inbox), [result |-> out[c], late |-> FALSE])
        PROVE  TypeOK'
    <3>1. c \in Cycles /\ cpc[c] = "parked" /\ CycleOK(c) /\ out[c] \in Results
      BY <1>0 DEF Parked, Ranges
    <3>2. [result |-> out[c], late |-> FALSE] \in Entry
      BY <3>1, EntryType DEF CycleOK
    <3>3. inbox' \in Seq(Entry) /\ Len(inbox') = Len(inbox)
      <4> DEFINE e == [result |-> out[c], late |-> FALSE]
      <4>1. inbox' = Append(Tail(inbox), e) /\ e \in Entry
        BY <2>4, <3>2
      <4> HIDE <1>1 DEF e, Receive
      <4> QED
        BY <2>2, <4>1
    <3>4. TodoAfter(c) \in SUBSET Query /\ NoResult \in Results
      BY <1>0, <3>1, ResultFacts DEF TodoAfter, Ranges
    <3>5. late' \in [Cycles -> Nat] /\ empty' \in [Tenants -> 0 .. MaxEmpty]
      BY <1>0 DEF Ranges, poolVars
    <3>6. {"completed", "check"} \subseteq Places \ {"unborn"}
      BY DEF Places, Ended
    <3> QED
      BY <1>0, <2>1, <2>4, <3>1, <3>3, <3>4, <3>5, <3>6, TypeCycle
         DEF AfterSend, Goto, poolVars, Ranges
  <2> QED
    BY <2>3, <2>4
<1>2. CASE PublisherReturns
  <2>1. Ranges'
    BY <1>0, <1>2 DEF PublisherReturns, Ranges, PublisherRanges, schedVars,
       cycleVars, poolVars
  <2>2. ASSUME NEW c \in Cycles PROVE CycleOK(c)'
    BY <1>0, <1>2 DEF PublisherReturns, CycleOK, schedVars, cycleVars
  <2> QED
    BY <2>1, <2>2, TypeJoin
<1> QED
  BY <1>1, <1>2 DEF PublisherStep

LEMMA TypeNext == TypeOK /\ [Next]_vars => TypeOK'
<1> SUFFICES ASSUME TypeOK, [Next]_vars PROVE TypeOK'
  OBVIOUS
<1>1. ASSUME NEW t \in Tenants, ReturnFromStagger(t) PROVE TypeOK'
  BY <1>1 DEF TypeOK, ReturnFromStagger, cycleVars, poolVars, pubVars
<1>2. ASSUME NEW t \in Tenants, ReturnFromLoop(t) PROVE TypeOK'
  BY <1>2, TypeRetire DEF ReturnFromLoop
<1>3. ASSUME NEW c \in Cycles, Propagate(c) PROVE TypeOK'
  BY <1>3, TypeCancel, TypeParts DEF Propagate, Ranges, schedVars
<1>4. CASE CancelRoot
  BY <1>4 DEF TypeOK, CancelRoot, schedVars, cycleVars, poolVars, pubVars
<1>5. CASE UNCHANGED vars
  BY <1>5 DEF TypeOK, vars, schedVars, cycleVars, poolVars, pubVars
<1> QED
  BY <1>1, <1>2, <1>3, <1>4, <1>5, TypeFire, TypeCycleStep, TypePublisher
     DEF Next, SchedulerStep, Quiescent

----------------------------------------------------------------------------
(* Which cycles run: none but the newest.                                  *)
LEMMA NewestStays ==
    ASSUME OnlyNewestRuns, UNCHANGED schedVars,
           \A c \in Cycles :
              Alive(c)' /\ ~canceled'[c] => Alive(c) /\ ~canceled[c]
    PROVE  OnlyNewestRuns'
BY DEF OnlyNewestRuns, schedVars

(* A scheduler that goes takes its last cycle with it.                     *)
LEMMA NewestRetire ==
    ASSUME TypeOK, OnlyNewestRuns, NEW t \in Tenants,
           sched' = [sched EXCEPT ![t] = "returned"],
           Cancel(CancelPrev(t)), fires' = fires
    PROVE  OnlyNewestRuns'
<1> SUFFICES ASSUME NEW c \in Cycles, Alive(c)', ~canceled'[c]
    PROVE  c[2] = fires'[c[1]] /\ sched'[c[1]] = "loop"
  BY DEF OnlyNewestRuns
<1>1. c = <<c[1], c[2]>> /\ c[1] \in Tenants
  BY CycleFacts
<1>2. Alive(c) /\ ~canceled[c] /\ c \notin CancelPrev(t)
  BY DEF Cancel, Alive, Ended, TypeOK
<1>3. c[2] = fires[c[1]] /\ sched[c[1]] = "loop"
  BY <1>2 DEF OnlyNewestRuns
<1> QED
  BY <1>1, <1>2, <1>3 DEF CancelPrev, TypeOK

(* The only cycle that could still run is the one a fire cancels.          *)
LEMMA NewestFire ==
    ASSUME TypeOK, OnlyNewestRuns, NEW t \in Tenants, Fire(t)
    PROVE  OnlyNewestRuns'
<1> SUFFICES ASSUME NEW c \in Cycles, Alive(c)', ~canceled'[c]
    PROVE  c[2] = fires'[c[1]] /\ sched'[c[1]] = "loop"
  BY DEF OnlyNewestRuns
<1>1. c = <<c[1], c[2]>> /\ c[1] \in Tenants
  BY CycleFacts
<1>2. fires[t] \in Nat /\ fires'[t] = fires[t] + 1 /\ sched'[t] = "loop"
  BY RunnerAssumption DEF Fire, TypeOK
<1>3. CASE c = <<t, fires[t] + 1>>
  BY <1>2, <1>3
<1>4. CASE c # <<t, fires[t] + 1>>
  <2>1. Alive(c) /\ ~canceled[c] /\ c \notin CancelPrev(t)
    BY <1>4 DEF Fire, Alive, Ended, TypeOK
  <2>2. c[2] = fires[c[1]] /\ sched[c[1]] = "loop"
    BY <2>1 DEF OnlyNewestRuns
  <2>3. c[1] # t
    BY <1>1, <2>1, <2>2 DEF CancelPrev
  <2> QED
    BY <1>1, <2>2, <2>3 DEF Fire, TypeOK
<1> QED
  BY <1>3, <1>4

LEMMA NewestCancel ==
    ASSUME TypeOK, OnlyNewestRuns, NEW c \in Cycles, Propagate(c)
    PROVE  OnlyNewestRuns'
BY NewestStays DEF Propagate, Cancel, Alive, Ended, TypeOK

LEMMA NewestCycleStep ==
    ASSUME TypeOK, OnlyNewestRuns, NEW c \in Cycles,
           CycleStep(c) \/ SendOnClosed(c)
    PROVE  OnlyNewestRuns'
<1>1. Alive(c) /\ UNCHANGED <<schedVars, canceled>>
      /\ \E p : cpc' = [cpc EXCEPT ![c] = p]
  BY DEF CycleStep, SendOnClosed, CheckKilled, BeginQuery, Acquire,
     AcquireFails, QueryReturns, QueryCrashes, ReadStat, Send, AfterSend,
     Abort, Park, Unwind, CycleStays, Goto, Alive, Ended
<1> QED
  BY <1>1, NewestStays DEF Alive, TypeOK

LEMMA NewestPublisher ==
    ASSUME TypeOK, OnlyNewestRuns, PublisherStep
    PROVE  OnlyNewestRuns'
<1>1. CASE Receive
  <2>1. \/ cpc' = cpc
        \/ \E c \in Parked : \E p : cpc' = [cpc EXCEPT ![c] = p]
    BY <1>1 DEF Receive, AfterSend, Goto
  <2> QED
    BY <1>1, <2>1, NewestStays DEF Receive, Parked, Alive, Ended, TypeOK
<1>2. CASE PublisherReturns
  BY <1>2, NewestStays DEF PublisherReturns, Alive, cycleVars
<1> QED
  BY <1>1, <1>2 DEF PublisherStep

LEMMA NewestNext == TypeOK /\ OnlyNewestRuns /\ [Next]_vars => OnlyNewestRuns'
<1> SUFFICES ASSUME TypeOK, OnlyNewestRuns, [Next]_vars PROVE OnlyNewestRuns'
  OBVIOUS
<1>1. ASSUME NEW t \in Tenants, ReturnFromStagger(t) PROVE OnlyNewestRuns'
  BY <1>1 DEF ReturnFromStagger, OnlyNewestRuns, cycleVars, Alive, TypeOK
<1>2. ASSUME NEW t \in Tenants, ReturnFromLoop(t) PROVE OnlyNewestRuns'
  BY <1>2, NewestRetire DEF ReturnFromLoop
<1>3. CASE CancelRoot
  BY <1>3, NewestStays DEF CancelRoot, cycleVars, Alive
<1>4. CASE UNCHANGED vars
  BY <1>4, NewestStays DEF vars, cycleVars, Alive
<1> QED
  BY <1>1, <1>2, <1>3, <1>4, NewestFire, NewestCancel, NewestCycleStep,
     NewestPublisher DEF Next, SchedulerStep, Quiescent

LEMMA NewestInit == Init => OnlyNewestRuns
BY DEF Init, OnlyNewestRuns, Alive

(* Every variable stays in its range, and a cycle is at the select exactly *)
(* when it has a result in hand (runCycle, Publisher.Run).                 *)
THEOREM TypeCorrect == Spec => []TypeOK
BY TypeInit, TypeNext, PTL DEF Spec

(* A cycle that nobody has canceled is the newest of its tenant, and its   *)
(* scheduler is in its loop, ready to cancel it (fire and the deferred     *)
(* cancelPrev of Run).                                                     *)
THEOREM OneCycleRuns == Spec => []OnlyNewestRuns
BY NewestInit, NewestNext, TypeCorrect, PTL DEF Spec

----------------------------------------------------------------------------
(* What a canceled cycle still sends.                                      *)
LateOK(c) ==
    /\ late[c] > 0 => canceled[c]
    /\ late[c] <= 2
    /\ late[c] = 2 => cpc[c] = "completed"
    /\ late[c] = 1 => cpc[c] \in {"check", "send"} \cup Ended
    /\ (late[c] = 1 /\ cpc[c] = "send") => out[c].kind = "stat"

LateInv == \A c \in Cycles : LateOK(c)

(* A cycle that does nothing but, perhaps, be canceled.                    *)
LEMMA LateStays ==
    ASSUME LateInv, NEW c \in Cycles, canceled[c] => canceled'[c],
           cpc'[c] = cpc[c], out'[c] = out[c], late'[c] = late[c]
    PROVE  LateOK(c)'
BY DEF LateInv, LateOK

(* A canceled cycle that sends is at its last query or past it.            *)
LEMMA LateCycleStep ==
    ASSUME TypeOK, LateInv, NEW c \in Cycles, CycleStep(c)
    PROVE  LateInv'
<1> USE DEF CycleStays, Goto
<1>0. LateOK(c) /\ CycleOK(c) /\ late[c] \in Nat
  BY TypeParts DEF LateInv, Ranges
<1>1. ASSUME NEW b \in Cycles, b # c PROVE LateOK(b)'
  <2>1. /\ \E p : cpc' = [cpc EXCEPT ![c] = p]
        /\ out' = out \/ \E r : out' = [out EXCEPT ![c] = r]
        /\ late' = late \/ \E n : late' = [late EXCEPT ![c] = n]
        /\ canceled' = canceled
    BY DEF CycleStep, CheckKilled, BeginQuery, Acquire, AcquireFails,
       QueryReturns, QueryCrashes, ReadStat, Send, AfterSend, Abort, Park,
       Unwind
  <2>2. cpc'[b] = cpc[b] /\ out'[b] = out[b] /\ late'[b] = late[b]
    BY <1>1, <2>1 DEF TypeOK
  <2> QED
    BY <2>1, <2>2, LateStays
<1>2. LateOK(c)'
  <2> USE <1>0 DEF TypeOK
  <2>1. CASE CheckKilled(c)
    BY <2>1 DEF CheckKilled, LateOK, Ended
  <2>2. CASE BeginQuery(c)
    BY <2>2 DEF BeginQuery, LateOK, KilledBefore
  <2>3. CASE Acquire(c)
    BY <2>3 DEF Acquire, LateOK
  <2>4. CASE AcquireFails(c)
    BY <2>4 DEF AcquireFails, LateOK, Ended
  <2>5. CASE QueryReturns(c)
    BY <2>5 DEF QueryReturns, LateOK, Ended
  <2>6. CASE QueryCrashes(c)
    BY <2>6 DEF QueryCrashes, LateOK, Ended
  <2>7. CASE ReadStat(c)
    BY <2>7 DEF ReadStat, LateOK, Ended
  <2>8. CASE Send(c)
    BY <2>8 DEF Send, AfterSend, LateOK, Ended
  <2>9. CASE Abort(c)
    BY <2>9 DEF Abort, LateOK, Ended
  <2>10. CASE Park(c)
    BY <2>10 DEF Park, LateOK, Ended
  <2>11. CASE Unwind(c)
    BY <2>11 DEF Unwind, LateOK, Ended
  <2> QED
    BY <2>1, <2>2, <2>3, <2>4, <2>5, <2>6, <2>7, <2>8, <2>9, <2>10, <2>11
       DEF CycleStep
<1> QED
  BY <1>1, <1>2 DEF LateInv

LEMMA LateCancel ==
    ASSUME TypeOK, LateInv, NEW S, Cancel(S), UNCHANGED <<late, out>>
    PROVE  LateInv'
BY TypeParts DEF LateInv, LateOK, Cancel, CycleOK, Ended, TypeOK

LEMMA LateNext == TypeOK /\ LateInv /\ [Next]_vars => LateInv'
<1> SUFFICES ASSUME TypeOK, LateInv, [Next]_vars PROVE LateInv'
  OBVIOUS
<1>1. ASSUME NEW t \in Tenants, Fire(t) PROVE LateInv'
  <2> SUFFICES ASSUME NEW c \in Cycles PROVE LateOK(c)'
    BY DEF LateInv
  <2>0. LateOK(c) /\ CycleOK(c) /\ late[c] \in Nat /\ late' = late /\ out' = out
    BY <1>1, TypeParts DEF LateInv, Ranges, Fire
  <2>1. CASE c = <<t, fires[t] + 1>>
    <3>1. cpc[c] = "unborn"
      BY <2>0, <2>1 DEF CycleOK, TypeOK
    <3> QED
      BY <2>0, <3>1 DEF LateOK, Ended
  <2>2. CASE c # <<t, fires[t] + 1>>
    BY <1>1, <2>0, <2>2 DEF Fire, LateOK, Ended, TypeOK
  <2> QED
    BY <2>1, <2>2
<1>2. ASSUME NEW t \in Tenants, ReturnFromStagger(t) PROVE LateInv'
  BY <1>2 DEF ReturnFromStagger, cycleVars, LateInv, LateOK
<1>3. ASSUME NEW t \in Tenants, ReturnFromLoop(t) PROVE LateInv'
  BY <1>3, LateCancel DEF ReturnFromLoop
<1>4. ASSUME NEW c \in Cycles, Propagate(c) PROVE LateInv'
  BY <1>4, LateCancel DEF Propagate
<1>5. CASE CancelRoot \/ PublisherReturns \/ UNCHANGED vars
  BY <1>5 DEF CancelRoot, PublisherReturns, vars, cycleVars, LateInv, LateOK
<1>6. CASE Receive
  <2>1. CASE UNCHANGED <<cpc, todo, out>>
    BY <1>6, <2>1 DEF Receive, LateInv, LateOK
  <2>2. ASSUME NEW c \in Parked, AfterSend(c) PROVE LateInv'
    <3>1. c \in Cycles /\ cpc[c] = "parked" /\ LateOK(c) /\ late[c] \in Nat
      BY DEF Parked, LateInv, TypeOK
    <3>2. late[c] = 0 /\ late' = late /\ canceled' = canceled
      BY <1>6, <3>1 DEF LateOK, Ended, Receive
    <3>3. LateOK(c)'
      BY <3>2 DEF LateOK
    <3>4. ASSUME NEW b \in Cycles, b # c PROVE LateOK(b)'
      <4>1. cpc'[b] = cpc[b] /\ out'[b] = out[b]
        BY <2>2, <3>1, <3>4 DEF AfterSend, Goto, TypeOK
      <4> QED
        BY <3>2, <4>1, LateStays
    <3> QED
      BY <3>3, <3>4 DEF LateInv
  <2> QED
    BY <1>6, <2>1, <2>2 DEF Receive
<1> QED
  BY <1>1, <1>2, <1>3, <1>4, <1>5, <1>6, LateCycleStep
     DEF Next, SchedulerStep, PublisherStep, Quiescent

(* A canceled cycle sends at most its current result and, if that was its  *)
(* last query, the statistics (the selects of runCycle).                   *)
THEOREM FewSendLate == Spec => []FewLateSends
<1>1. Init => LateInv
  BY DEF Init, LateInv, LateOK
<1>2. LateInv => FewLateSends
  BY DEF LateInv, LateOK, FewLateSends
<1> QED
  BY <1>1, <1>2, LateNext, TypeCorrect, PTL DEF Spec

----------------------------------------------------------------------------
(* The order of the inbox.  What a cycle has in hand is its next query, or *)
(* the statistics when none is left; what it has sent is behind it.        *)
Handed(c) ==
    /\ out[c].kind = "query" =>
          /\ out[c].cycle = c
          /\ out[c].query \in todo[c]
          /\ \A p \in todo[c] : out[c].query <= p
    /\ out[c].kind = "stat" => out[c].cycle = c /\ todo[c] = {}

Behind(r) ==
    /\ cpc[r.cycle] # "unborn"
    /\ r.kind = "query" => \A p \in todo[r.cycle] : r.query < p
    /\ r.kind = "stat" => cpc[r.cycle] = "completed"

QueueInv ==
    /\ \A c \in Cycles : Handed(c)
    /\ \A i \in DOMAIN inbox : Behind(inbox[i].result)
    /\ SerialWithinCycle

(* What is in the inbox, and in the hands of a cycle at the select.        *)
LEMMA InboxFacts ==
    ASSUME TypeOK
    PROVE  /\ DOMAIN inbox = 1 .. Len(inbox) /\ Len(inbox) \in Nat
           /\ \A i \in DOMAIN inbox :
                 /\ inbox[i] \in Entry
                 /\ inbox[i].result \in Results \ {NoResult}
                 /\ inbox[i].result.cycle \in Cycles
<1>1. inbox \in Seq(Entry)
  BY TypeParts DEF Ranges
<1>2. \A e \in Entry : e.result \in Results \ {NoResult}
  BY DEF Entry
<1> HIDE DEF Entry
<1>3. \A i \in 1 .. Len(inbox) : inbox[i] \in Entry
  BY <1>1
<1> QED
  BY <1>1, <1>2, <1>3, ResultKinds

LEMMA HandFacts ==
    ASSUME TypeOK, NEW c \in Cycles, cpc[c] \in {"send", "parked"}
    PROVE  /\ out[c] \in Results \ {NoResult}
           /\ \/ out[c].kind = "query" /\ out[c].query \in Query
              \/ out[c].kind = "stat"
<1>1. out[c] \in Results /\ CycleOK(c)
  BY TypeParts DEF Ranges
<1>2. out[c] \in Results \ {NoResult}
  BY <1>1 DEF CycleOK
<1> QED
  BY <1>2, ResultKinds

(* Results move up by k places, and e may come at the end.                 *)
InboxShifts(k) ==
    /\ DOMAIN inbox' = 1 .. (Len(inbox) - k)
    /\ \A i \in DOMAIN inbox' :
          i + k \in DOMAIN inbox /\ inbox'[i] = inbox[i + k]

InboxMoves(k, e) ==
    /\ DOMAIN inbox' = 1 .. (Len(inbox) + 1 - k)
    /\ \A i \in DOMAIN inbox' :
          \/ i + k \in DOMAIN inbox /\ inbox'[i] = inbox[i + k]
          \/ i + k = Len(inbox) + 1 /\ inbox'[i] = e

LEMMA InboxStays ==
    ASSUME TypeOK, inbox' = inbox
    PROVE  InboxShifts(0)
BY InboxFacts DEF InboxShifts

LEMMA SendMoves ==
    ASSUME TypeOK, NEW c \in Cycles, Send(c)
    PROVE  \E e : /\ e.result = out[c] /\ e.late = canceled[c]
                  /\ InboxMoves(0, e)
<1> DEFINE e == [result |-> out[c], late |-> canceled[c]]
<1>1. inbox' = Append(inbox, e) /\ inbox \in Seq(Entry)
  BY TypeParts DEF Send, Ranges
<1>2. e.result = out[c] /\ e.late = canceled[c]
  OBVIOUS
<1> HIDE DEF e
<1>3. InboxMoves(0, e)
  BY <1>1 DEF InboxMoves
<1> QED
  BY <1>2, <1>3

LEMMA ReceiveMoves ==
    ASSUME TypeOK, Receive
    PROVE  \/ InboxShifts(1) /\ UNCHANGED <<cpc, todo, out>>
           \/ \E c \in Cycles : \E e :
                 /\ cpc[c] = "parked" /\ ~canceled[c] /\ AfterSend(c)
                 /\ e.result = out[c] /\ ~e.late
                 /\ InboxMoves(1, e)
<1>1. /\ Tail(inbox) \in Seq(Entry) /\ Len(Tail(inbox)) = Len(inbox) - 1
      /\ \A i \in 1 .. Len(Tail(inbox)) : Tail(inbox)[i] = inbox[i + 1]
      /\ Len(inbox) \in Nat /\ DOMAIN inbox = 1 .. Len(inbox)
  BY TypeParts DEF Receive, Ranges
<1>2. CASE inbox' = Tail(inbox) /\ UNCHANGED <<cpc, todo, out>>
  BY <1>1, <1>2 DEF InboxShifts
<1>3. ASSUME NEW c \in Parked, AfterSend(c),
             inbox' = Append(Tail(inbox), [result |-> out[c], late |-> FALSE])
      PROVE  \E e : /\ e.result = out[c] /\ ~e.late
                    /\ InboxMoves(1, e)
  <2> DEFINE e == [result |-> out[c], late |-> FALSE]
  <2>1. e.result = out[c] /\ ~e.late /\ inbox' = Append(Tail(inbox), e)
    BY <1>3
  <2> HIDE DEF e
  <2>2. InboxMoves(1, e)
    BY <1>1, <2>1 DEF InboxMoves
  <2> QED
    BY <2>1, <2>2
<1>4. \A c \in Parked : c \in Cycles /\ cpc[c] = "parked" /\ ~canceled[c]
  BY TypeParts DEF Parked, CycleOK
<1> QED
  BY <1>2, <1>3, <1>4 DEF Receive

(* No result arrives.                                                      *)
LEMMA QueueStays ==
    ASSUME TypeOK, QueueInv, NEW k \in {0, 1}, InboxShifts(k),
           \A c \in Cycles :
              /\ Handed(c)'
              /\ cpc[c] # "unborn" =>
                    cpc'[c] # "unborn" /\ todo'[c] \subseteq todo[c]
              /\ cpc[c] = "completed" => cpc'[c] = "completed"
    PROVE  QueueInv'
<1>1. ASSUME NEW i \in DOMAIN inbox' PROVE Behind(inbox[i].result)'
  <2>1. /\ inbox'[i] = inbox[i + k] /\ Behind(inbox[i + k].result)
        /\ inbox[i + k].result.cycle \in Cycles
    BY InboxFacts DEF QueueInv, InboxShifts
  <2> QED
    BY <2>1 DEF Behind
<1>2. ASSUME NEW i \in DOMAIN inbox', NEW j \in DOMAIN inbox', i < j,
             inbox'[i].result.cycle = inbox'[j].result.cycle
      PROVE  Rank(inbox'[i].result) < Rank(inbox'[j].result)
  <2>1. i + k < j + k
    BY <1>2, InboxFacts DEF InboxShifts
  <2> QED
    BY <1>2, <2>1 DEF QueueInv, SerialWithinCycle, InboxShifts
<1> QED
  BY <1>1, <1>2 DEF QueueInv, SerialWithinCycle, Rank

(* A cycle sends what it has in hand.                                      *)
LEMMA QueueSend ==
    ASSUME TypeOK, QueueInv, NEW c \in Cycles, cpc[c] \in {"send", "parked"},
           AfterSend(c), NEW k \in {0, 1}, NEW e, e.result = out[c],
           InboxMoves(k, e)
    PROVE  QueueInv'
<1> USE DEF AfterSend, Goto
<1>1. /\ Handed(c) /\ todo[c] \subseteq Query /\ Query \subseteq Nat
      /\ out[c] \in Results \ {NoResult}
      /\ \/ out[c].kind = "query" /\ out[c].query \in Query
         \/ out[c].kind = "stat"
      /\ out[c].cycle = c
  BY HandFacts, RunnerAssumption DEF QueueInv, TypeOK, Query, Handed
<1>2. /\ \A b \in Cycles \ {c} : cpc'[b] = cpc[b] /\ todo'[b] = todo[b]
                                /\ out'[b] = out[b]
      /\ todo'[c] = TodoAfter(c) /\ out'[c] = NoResult
      /\ cpc'[c] = IF out[c].kind = "stat" THEN "completed" ELSE "check"
  BY DEF TypeOK
<1>3. ASSUME NEW b \in Cycles PROVE Handed(b)'
  <2>1. CASE b = c
    BY <1>2, <2>1 DEF Handed, NoResult
  <2>2. CASE b # c
    BY <1>2, <2>2 DEF Handed, QueueInv
  <2> QED
    BY <2>1, <2>2
<1>4. ASSUME NEW r, Behind(r), r.cycle \in Cycles PROVE Behind(r)'
  <2>1. CASE r.cycle = c
    BY <1>1, <1>2, <1>4, <2>1 DEF Behind, TodoAfter
  <2>2. CASE r.cycle # c
    BY <1>2, <1>4, <2>2 DEF Behind
  <2> QED
    BY <2>1, <2>2
<1>5. ASSUME NEW r, r = out[c] PROVE Behind(r)'
  <2>1. CASE r.kind = "query"
    <3>1. cpc'[c] = "check" /\ todo'[c] = todo[c] \ {r.query} /\ r.cycle = c
      BY <1>1, <1>2, <1>5, <2>1 DEF TodoAfter
    <3>2. ASSUME NEW p \in todo'[c] PROVE r.query < p
      <4>1. p \in Nat /\ r.query \in Nat /\ p # r.query /\ r.query <= p
        BY <1>1, <1>5, <2>1, <3>1 DEF Handed
      <4> QED
        BY <4>1
    <3> QED
      BY <2>1, <3>1, <3>2 DEF Behind
  <2>2. CASE r.kind = "stat"
    BY <1>1, <1>2, <1>5, <2>2 DEF Behind
  <2> QED
    BY <1>1, <1>5, <2>1, <2>2
<1>6. ASSUME NEW i \in DOMAIN inbox' PROVE Behind(inbox[i].result)'
  <2>1. CASE i + k \in DOMAIN inbox /\ inbox'[i] = inbox[i + k]
    <3>1. Behind(inbox[i + k].result) /\ inbox[i + k].result.cycle \in Cycles
      BY <2>1, InboxFacts DEF QueueInv
    <3>2. \A r : r = inbox[i + k].result => Behind(r)'
      BY <3>1, <1>4
    <3> QED
      BY <2>1, <3>2
  <2>2. CASE inbox'[i] = e
    BY <1>5, <2>2
  <2> QED
    BY <2>1, <2>2 DEF InboxMoves
<1>7. ASSUME NEW i \in DOMAIN inbox', NEW j \in DOMAIN inbox', i < j,
             inbox'[i].result.cycle = inbox'[j].result.cycle
      PROVE  Rank(inbox'[i].result) < Rank(inbox'[j].result)
  <2>1. i + k \in DOMAIN inbox /\ inbox'[i] = inbox[i + k] /\ i \in Nat /\ j \in Nat
    BY <1>7, InboxFacts DEF InboxMoves
  <2>2. CASE j + k \in DOMAIN inbox /\ inbox'[j] = inbox[j + k]
    <3>1. i + k < j + k
      BY <1>7, <2>1
    <3> QED
      BY <1>7, <2>1, <2>2, <3>1 DEF QueueInv, SerialWithinCycle
  <2>3. CASE inbox'[j] = e
    <3> DEFINE a == inbox[i + k].result
    <3>1. /\ Behind(a) /\ a.cycle = c
          /\ \/ a.kind = "query" /\ a.query \in Query
             \/ a.kind = "stat"
      BY <1>1, <1>7, <2>1, <2>3, InboxFacts, ResultKinds DEF QueueInv
    <3>2. a.kind = "query" /\ a.query \in Query /\ Rank(a) = a.query
      BY <3>1 DEF Behind, Rank
    <3>3. a.query < Rank(out[c])
      BY <1>1, <3>1, <3>2, RunnerAssumption DEF Behind, Rank, Handed, Query
    <3> QED
      BY <2>1, <2>3, <3>2, <3>3
  <2> QED
    BY <2>2, <2>3 DEF InboxMoves
<1> QED
  BY <1>3, <1>6, <1>7 DEF QueueInv, SerialWithinCycle, Rank

(* Steps of a cycle.                                                       *)
LEMMA QueueCycleStep ==
    ASSUME TypeOK, QueueInv, NEW c \in Cycles, CycleStep(c) \/ SendOnClosed(c)
    PROVE  QueueInv'
<1> USE DEF CycleStays, Goto
<1>1. CASE Send(c)
  BY <1>1, SendMoves, QueueSend DEF Send
<1>2. CASE ~ Send(c)
  <2>1. /\ inbox' = inbox
        /\ todo' = todo
        /\ cpc[c] \notin {"unborn", "completed"}
        /\ \E p \in {"check", "acquire", "query", "send", "parked", "killed",
                     "crashed", "panicked"} : cpc' = [cpc EXCEPT ![c] = p]
        /\ out' = out \/ \E r : out' = [out EXCEPT ![c] = r]
    BY <1>2 DEF CycleStep, SendOnClosed, CheckKilled, BeginQuery, Acquire,
       AcquireFails, QueryReturns, QueryCrashes, ReadStat, Abort, Park, Unwind
  <2>2. /\ \A b \in Cycles \ {c} : cpc'[b] = cpc[b] /\ out'[b] = out[b]
        /\ cpc'[c] # "unborn"
    BY <2>1 DEF TypeOK
  <2>3. Handed(c)'
    <3>1. CASE AcquireFails(c) \/ QueryReturns(c)
      <4>1. todo[c] # {} /\ todo[c] \subseteq Query
        BY <3>1 DEF AcquireFails, QueryReturns, TypeOK
      <4>2. out \in [Cycles -> Results]
        BY DEF TypeOK
      <4>3. \E ok : out'[c] = QueryResult(c, ok)
        BY <3>1, <4>2 DEF AcquireFails, QueryReturns
      <4> QED
        BY <2>1, <4>1, <4>3, CurrentIsFirst DEF Handed, QueryResult
    <3>2. CASE ReadStat(c)
      BY <3>2 DEF ReadStat, Handed, TypeOK
    <3>3. CASE out'[c] \in {out[c], NoResult}
      BY <2>1, <3>3 DEF QueueInv, Handed, NoResult
    <3>4. out \in [Cycles -> Results]
      BY DEF TypeOK
    <3> QED
      BY <1>2, <3>1, <3>2, <3>3, <3>4
         DEF CycleStep, SendOnClosed, CheckKilled, BeginQuery, Acquire,
         QueryCrashes, Abort, Park, Unwind
  <2>4. \A b \in Cycles :
           /\ Handed(b)'
           /\ cpc[b] # "unborn" => cpc'[b] # "unborn" /\ todo'[b] \subseteq todo[b]
           /\ cpc[b] = "completed" => cpc'[b] = "completed"
    BY <2>1, <2>2, <2>3 DEF QueueInv, Handed
  <2>5. InboxShifts(0)
    BY <2>1, InboxStays
  <2> QED
    BY <2>4, <2>5, QueueStays
<1> QED
  BY <1>1, <1>2

(* A receive: the head goes, and a parked cycle sends.                     *)
LEMMA QueueReceive ==
    ASSUME TypeOK, QueueInv, Receive
    PROVE  QueueInv'
<1>1. CASE InboxShifts(1) /\ UNCHANGED <<cpc, todo, out>>
  <2>1. \A c \in Cycles :
           /\ Handed(c)'
           /\ cpc[c] # "unborn" => cpc'[c] # "unborn" /\ todo'[c] \subseteq todo[c]
           /\ cpc[c] = "completed" => cpc'[c] = "completed"
    BY <1>1 DEF QueueInv, Handed
  <2> QED
    BY <1>1, <2>1, QueueStays
<1>2. ASSUME NEW c \in Cycles, NEW e, cpc[c] = "parked", AfterSend(c),
             e.result = out[c], InboxMoves(1, e)
      PROVE  QueueInv'
  BY <1>2, QueueSend
<1> QED
  BY <1>1, <1>2, ReceiveMoves

LEMMA QueueNext == TypeOK /\ QueueInv /\ [Next]_vars => QueueInv'
<1> SUFFICES ASSUME TypeOK, QueueInv, [Next]_vars PROVE QueueInv'
  OBVIOUS
<1>1. ASSUME UNCHANGED <<todo, out, inbox>>,
             \A c \in Cycles :
                /\ cpc[c] # "unborn" => cpc'[c] # "unborn"
                /\ cpc[c] = "completed" => cpc'[c] = "completed"
      PROVE  QueueInv'
  <2>1. InboxShifts(0)
    BY <1>1, InboxStays
  <2>2. \A c \in Cycles :
           /\ Handed(c)'
           /\ cpc[c] # "unborn" => cpc'[c] # "unborn" /\ todo'[c] \subseteq todo[c]
           /\ cpc[c] = "completed" => cpc'[c] = "completed"
    BY <1>1 DEF QueueInv, Handed
  <2> QED
    BY <2>1, <2>2, QueueStays
<1>2. ASSUME NEW t \in Tenants, Fire(t) PROVE QueueInv'
  <2> DEFINE new == <<t, fires[t] + 1>>
  <2>1. /\ \A c \in Cycles \ {new} : todo'[c] = todo[c]
        /\ out' = out /\ inbox' = inbox
        /\ \A c \in Cycles :
              /\ cpc[c] # "unborn" => cpc'[c] # "unborn"
              /\ cpc[c] = "completed" /\ c # new => cpc'[c] = "completed"
    BY <1>2 DEF Fire, TypeOK
  <2>2. ASSUME NEW c \in Cycles, c = new
        PROVE  cpc[c] = "unborn" /\ out[c] = NoResult
    <3>1. /\ c[1] = t /\ c[2] = fires[t] + 1 /\ fires[t] \in Int
          /\ CycleOK(c)
      BY <2>2, RunnerAssumption, TypeParts DEF Ranges
    <3>2. c[2] > fires[c[1]]
      BY <3>1
    <3> QED
      BY <3>1, <3>2 DEF CycleOK
  <2>3. \A c \in Cycles :
           /\ Handed(c)'
           /\ cpc[c] # "unborn" => cpc'[c] # "unborn" /\ todo'[c] \subseteq todo[c]
           /\ cpc[c] = "completed" => cpc'[c] = "completed"
    BY <2>1, <2>2 DEF QueueInv, Handed, NoResult
  <2>4. InboxShifts(0)
    BY <2>1, InboxStays
  <2> QED
    BY <2>3, <2>4, QueueStays
<1>3. ASSUME NEW t \in Tenants, ReturnFromStagger(t) \/ ReturnFromLoop(t)
      PROVE  QueueInv'
  BY <1>1, <1>3 DEF ReturnFromStagger, ReturnFromLoop, Cancel, cycleVars
<1>4. ASSUME NEW c \in Cycles, Propagate(c) PROVE QueueInv'
  BY <1>1, <1>4 DEF Propagate, Cancel
<1>5. CASE CancelRoot \/ PublisherReturns \/ UNCHANGED vars
  BY <1>1, <1>5 DEF CancelRoot, PublisherReturns, vars, cycleVars
<1> QED
  BY <1>2, <1>3, <1>4, <1>5, QueueCycleStep, QueueReceive
     DEF Next, SchedulerStep, PublisherStep, Quiescent

LEMMA QueueInit == Init => QueueInv
BY DEF Init, QueueInv, Handed, NoResult, SerialWithinCycle

(* At every moment what a cycle holds is its next result, and what it has  *)
(* sent is behind it.                                                      *)
THEOREM QueueAlways == Spec => []QueueInv
BY QueueInit, QueueNext, TypeCorrect, PTL DEF Spec

(* One cycle's results are in the inbox in the order of the query list,    *)
(* each once, the statistics last (runCycle).                              *)
THEOREM InboxKeepsOrder == Spec => []SerialWithinCycle
<1>1. QueueInv => SerialWithinCycle
  BY DEF QueueInv
<1> QED
  BY <1>1, QueueAlways, PTL

----------------------------------------------------------------------------
(* The counter of empty acquires.                                          *)
Seeded(t) ==
    /\ ~seen[t] => emptyTotal[t] = 0
    /\ emptyTotal[t] >= baseline[t] - firstSeen[t]
    /\ ~seen[t] => baseline[t] = 0 /\ firstSeen[t] = 0

MissesInv == \A t \in Tenants : Seeded(t)

counters == <<seen, baseline, emptyTotal, firstSeen>>

(* Only a receive touches the counter; the head of the inbox is a result.  *)
LEMMA OnlyReceiveCounts ==
    ASSUME [Next]_vars
    PROVE  Receive \/ counters' = counters
BY DEF Next, SchedulerStep, Fire, ReturnFromStagger, ReturnFromLoop,
   CycleStep, CheckKilled, BeginQuery, Acquire, AcquireFails, QueryReturns,
   QueryCrashes, ReadStat, Send, Abort, Park, Unwind, CycleStays, Propagate,
   CancelRoot, PublisherStep, PublisherReturns, Quiescent, vars, pubVars,
   counters

LEMMA HeadFacts ==
    ASSUME TypeOK, inbox # <<>>
    PROVE  /\ Head(inbox) = inbox[1] /\ 1 \in DOMAIN inbox
           /\ Head(inbox).result.cycle \in Cycles
           /\ Head(inbox).result.cycle[1] \in Tenants
           /\ \/ /\ Head(inbox).result.kind = "query"
                 /\ Head(inbox).result.query \in Query
              \/ /\ Head(inbox).result.kind = "stat"
                 /\ Head(inbox).result.empty \in 0 .. MaxEmpty
<1>1. inbox \in Seq(Entry)
  BY TypeParts DEF Ranges
<1>2. Head(inbox) = inbox[1] /\ 1 \in DOMAIN inbox
  BY <1>1
<1> QED
  BY <1>2, InboxFacts, ResultKinds, CycleFacts

LEMMA MissesNext == TypeOK /\ MissesInv /\ [Next]_vars => MissesInv'
<1> SUFFICES ASSUME TypeOK, MissesInv, [Next]_vars, NEW t \in Tenants
    PROVE  Seeded(t)'
  BY DEF MissesInv
<1>0. Seeded(t)
  BY DEF MissesInv
<1>1. CASE counters' = counters
  BY <1>0, <1>1 DEF Seeded, counters
<1>2. CASE Receive
  <2> DEFINE r == Head(inbox).result
  <2>1. /\ r.cycle[1] \in Tenants
        /\ r.kind = "stat" => r.empty \in 0 .. MaxEmpty
    BY <1>2, HeadFacts DEF Receive
  <2>2. \/ counters' = counters
        \/ r.kind = "stat" /\ BumpEmptyAcquire(r.cycle[1], r.empty)
    BY <1>2 DEF Receive, ApplyResult, counters
  <2> HIDE DEF r
  <2>3. ASSUME r.kind = "stat", BumpEmptyAcquire(r.cycle[1], r.empty)
        PROVE  Seeded(t)'
    <3>1. CASE t # r.cycle[1]
      BY <1>0, <2>1, <2>3, <3>1 DEF Seeded, BumpEmptyAcquire, TypeOK
    <3>2. CASE t = r.cycle[1]
      <4>1. /\ seen'[t] = TRUE /\ baseline'[t] = r.empty
            /\ emptyTotal'[t] = emptyTotal[t] + Growth(t, r.empty)
            /\ firstSeen'[t] = IF seen[t] THEN firstSeen[t] ELSE r.empty
        BY <2>3, <3>2 DEF BumpEmptyAcquire, TypeOK
      <4>2. /\ r.empty \in Nat /\ baseline[t] \in Nat /\ emptyTotal[t] \in Nat
            /\ firstSeen[t] \in Nat
        BY <2>1, <2>3, RunnerAssumption DEF TypeOK
      <4>3. CASE seen[t] /\ r.empty > baseline[t]
        <5>1. Growth(t, r.empty) = r.empty - baseline[t]
          BY <4>3 DEF Growth
        <5> QED
          BY <1>0, <4>1, <4>2, <4>3, <5>1 DEF Seeded
      <4>4. CASE ~ (seen[t] /\ r.empty > baseline[t])
        <5>1. Growth(t, r.empty) = 0
          BY <4>4 DEF Growth
        <5> QED
          BY <1>0, <4>1, <4>2, <4>4, <5>1 DEF Seeded
      <4> QED
        BY <4>3, <4>4
    <3> QED
      BY <3>1, <3>2
  <2> QED
    BY <1>1, <2>2, <2>3
<1> QED
  BY <1>1, <1>2, OnlyReceiveCounts

(* PoolEmptyAcquireTotal never misses growth it was shown                  *)
(* (bumpEmptyAcquireCounter).                                              *)
THEOREM CounterMissesNothing == Spec => []EmptyCounterMissesNothing
<1>1. Init => MissesInv
  BY DEF Init, MissesInv, Seeded
<1>2. MissesInv => EmptyCounterMissesNothing
  BY DEF MissesInv, Seeded, EmptyCounterMissesNothing
<1> QED
  BY <1>1, <1>2, MissesNext, TypeCorrect, PTL DEF Spec

----------------------------------------------------------------------------
(* While no cycle of t has sent late, the counts in the inbox, and the one *)
(* in the hands of the cycle that may still send, do not go down, nor      *)
(* below the baseline, nor above the pool's own count.                     *)
IsStat(r, t) == r.kind = "stat" /\ r.cycle[1] = t

Between(lo, n, hi) == lo <= n /\ n <= hi

Exact(t) ==
    /\ emptyTotal[t] = baseline[t] - firstSeen[t]
    /\ ~seen[t] => emptyTotal[t] = 0
    /\ baseline[t] <= empty[t]

InboxCounts(t) ==
    \A i \in DOMAIN inbox :
        IsStat(inbox[i].result, t) =>
            /\ Between(baseline[t], inbox[i].result.empty, empty[t])
            /\ \A j \in DOMAIN inbox :
                  j > i /\ IsStat(inbox[j].result, t) =>
                      inbox[i].result.empty <= inbox[j].result.empty

HandCounts(t) ==
    \A c \in Cycles :
        IsStat(out[c], t) /\ ~canceled[c] =>
            /\ Between(baseline[t], out[c].empty, empty[t])
            /\ \A i \in DOMAIN inbox :
                  IsStat(inbox[i].result, t) =>
                      inbox[i].result.empty <= out[c].empty

Counts(t) == Exact(t) /\ InboxCounts(t) /\ HandCounts(t)

InTime(t) == \A c \in Cycles : c[1] = t => late[c] = 0

CounterInv == \A t \in Tenants : InTime(t) => Counts(t)

(* The counts are numbers.                                                 *)
LEMMA StatTypes ==
    ASSUME TypeOK
    PROVE  /\ \A t \in Tenants : /\ empty[t] \in Nat /\ baseline[t] \in Nat
                                 /\ firstSeen[t] \in Nat /\ emptyTotal[t] \in Nat
           /\ \A i \in DOMAIN inbox :
                 inbox[i].result.kind = "stat" => inbox[i].result.empty \in Nat
           /\ \A c \in Cycles : out[c].kind = "stat" => out[c].empty \in Nat
<1>1. \A r \in Results : r.kind = "stat" => r.empty \in 0 .. MaxEmpty
  <2>1. NoResult.kind # "stat"
    BY DEF NoResult
  <2> QED
    BY <2>1, ResultKinds
<1>2. 0 .. MaxEmpty \subseteq Nat
  BY RunnerAssumption
<1>3. /\ \A t \in Tenants : /\ empty[t] \in 0 .. MaxEmpty
                            /\ baseline[t] \in 0 .. MaxEmpty
                            /\ firstSeen[t] \in 0 .. MaxEmpty
                            /\ emptyTotal[t] \in Nat
      /\ \A c \in Cycles : out[c] \in Results
  BY DEF TypeOK
<1> QED
  BY <1>1, <1>2, <1>3, InboxFacts

(* Nothing moves in the inbox.                                             *)
LEMMA CountsStay ==
    ASSUME TypeOK, TypeOK', NEW t \in Tenants, Counts(t),
           counters' = counters, inbox' = inbox, empty[t] <= empty'[t],
           \A c \in Cycles :
              IsStat(out'[c], t) /\ ~canceled'[c] =>
                 \/ out'[c] = out[c] /\ ~canceled[c]
                 \/ out'[c].empty = empty'[t]
    PROVE  Counts(t)'
<1>0. empty'[t] \in 0 .. MaxEmpty
  BY DEF TypeOK
<1>1. /\ empty'[t] \in Nat /\ empty[t] \in Nat /\ baseline[t] \in Nat
      /\ baseline'[t] = baseline[t] /\ seen'[t] = seen[t]
      /\ emptyTotal'[t] = emptyTotal[t] /\ firstSeen'[t] = firstSeen[t]
      /\ \A i \in DOMAIN inbox :
            inbox[i].result.kind = "stat" => inbox[i].result.empty \in Nat
      /\ \A c \in Cycles : out[c].kind = "stat" => out[c].empty \in Nat
  BY <1>0, StatTypes, RunnerAssumption DEF counters
<1>2. Exact(t)'
  BY <1>1 DEF Counts, Exact
<1>3. InboxCounts(t)'
  BY <1>1 DEF Counts, InboxCounts, IsStat, Between
<1>4. HandCounts(t)'
  BY <1>1 DEF Counts, Exact, HandCounts, InboxCounts, IsStat, Between
<1> QED
  BY <1>2, <1>3, <1>4 DEF Counts

(* Results of the inbox move up by k, and one may come at its end.         *)
LEMMA CountsMove ==
    ASSUME TypeOK, NEW t \in Tenants, Counts(t), Exact(t)', NEW k \in {0, 1},
           empty' = empty,
           \A i \in DOMAIN inbox :
              i > k /\ IsStat(inbox[i].result, t) =>
                 baseline'[t] <= inbox[i].result.empty,
           \A c \in Cycles :
              IsStat(out[c], t) /\ ~canceled[c] => baseline'[t] <= out[c].empty,
           \A c \in Cycles :
              IsStat(out'[c], t) /\ ~canceled'[c] =>
                 out'[c] = out[c] /\ ~canceled[c],
           NEW e,
           \/ InboxShifts(k)
           \/ /\ InboxMoves(k, e)
              /\ \/ ~ IsStat(e.result, t)
                 \/ /\ \E c \in Cycles :
                          /\ IsStat(out[c], t) /\ ~canceled[c]
                          /\ e.result = out[c]
                    /\ \A b \in Cycles :
                          ~ (IsStat(out'[b], t) /\ ~canceled'[b])
    PROVE  Counts(t)'
<1>1. /\ empty[t] \in Nat
      /\ DOMAIN inbox = 1 .. Len(inbox) /\ Len(inbox) \in Nat
      /\ \A i \in DOMAIN inbox :
            inbox[i].result.kind = "stat" => inbox[i].result.empty \in Nat
      /\ \A c \in Cycles : out[c].kind = "stat" => out[c].empty \in Nat
  BY StatTypes, InboxFacts
<1>2. ASSUME NEW i \in DOMAIN inbox', IsStat(inbox'[i].result, t)
      PROVE  /\ i \in Nat /\ i > 0
             /\ \/ i + k \in DOMAIN inbox /\ inbox'[i] = inbox[i + k]
                \/ /\ i + k = Len(inbox) + 1
                   /\ \E c \in Cycles :
                         /\ IsStat(out[c], t) /\ ~canceled[c]
                         /\ inbox'[i].result = out[c]
                   /\ \A b \in Cycles :
                         ~ (IsStat(out'[b], t) /\ ~canceled'[b])
  BY <1>2, <1>1 DEF InboxShifts, InboxMoves
<1>3. ASSUME NEW i \in DOMAIN inbox', IsStat(inbox'[i].result, t)
      PROVE  Between(baseline'[t], inbox'[i].result.empty, empty[t])
  <2>1. CASE i + k \in DOMAIN inbox /\ inbox'[i] = inbox[i + k]
    <3>1. i + k > k
      BY <1>2, <1>3
    <3> QED
      BY <1>3, <2>1, <3>1 DEF Counts, InboxCounts, Between
  <2>2. ASSUME NEW c \in Cycles, IsStat(out[c], t), ~canceled[c],
               inbox'[i].result = out[c]
        PROVE  Between(baseline'[t], inbox'[i].result.empty, empty[t])
    BY <2>2 DEF Counts, HandCounts, Between
  <2> QED
    BY <1>2, <1>3, <2>1, <2>2
<1>4. ASSUME NEW i \in DOMAIN inbox', NEW j \in DOMAIN inbox', j > i,
             IsStat(inbox'[i].result, t), IsStat(inbox'[j].result, t)
      PROVE  inbox'[i].result.empty <= inbox'[j].result.empty
  <2>1. i \in Nat /\ j \in Nat /\ j + k > i + k
    BY <1>2, <1>4
  <2>2. i + k \in DOMAIN inbox /\ inbox'[i] = inbox[i + k]
    <3>1. j + k <= Len(inbox) + 1
      BY <1>1, <1>2, <1>4
    <3> QED
      BY <1>1, <1>2, <1>4, <2>1, <3>1
  <2>3. CASE j + k \in DOMAIN inbox /\ inbox'[j] = inbox[j + k]
    BY <1>4, <2>1, <2>2, <2>3 DEF Counts, InboxCounts
  <2>4. ASSUME NEW c \in Cycles, IsStat(out[c], t), ~canceled[c],
               inbox'[j].result = out[c]
        PROVE  inbox'[i].result.empty <= inbox'[j].result.empty
    BY <1>4, <2>2, <2>4 DEF Counts, HandCounts
  <2> QED
    BY <1>2, <1>4, <2>3, <2>4
<1>5. ASSUME NEW c \in Cycles, IsStat(out'[c], t), ~canceled'[c]
      PROVE  /\ Between(baseline'[t], out'[c].empty, empty[t])
             /\ \A i \in DOMAIN inbox' :
                   IsStat(inbox'[i].result, t) =>
                       inbox'[i].result.empty <= out'[c].empty
  <2>1. out'[c] = out[c] /\ IsStat(out[c], t) /\ ~canceled[c]
    BY <1>5
  <2>2. ASSUME NEW i \in DOMAIN inbox', IsStat(inbox'[i].result, t)
        PROVE  inbox'[i].result.empty <= out'[c].empty
    <3>1. i + k \in DOMAIN inbox /\ inbox'[i] = inbox[i + k]
      BY <1>2, <1>5, <2>2
    <3> QED
      BY <2>1, <2>2, <3>1 DEF Counts, HandCounts
  <2> QED
    BY <2>1, <2>2 DEF Counts, HandCounts, Between
<1>6. InboxCounts(t)'
  BY <1>3, <1>4 DEF InboxCounts, IsStat, Between
<1>7. HandCounts(t)'
  BY <1>5 DEF HandCounts, IsStat, Between
<1> QED
  BY <1>6, <1>7 DEF Counts

(* A cycle of t that sends while it is not canceled is the only one of t   *)
(* that has something to send.                                             *)
LEMMA OnlyOneInHand ==
    ASSUME TypeOK, OnlyNewestRuns, NEW b \in Cycles, NEW c \in Cycles,
           b[1] = c[1], ~canceled[b], ~canceled[c], Alive(b), Alive(c)
    PROVE  b = c
BY CycleFacts DEF OnlyNewestRuns

(* A result that leaves the hands of c for the end of the inbox.           *)
LEMMA SentCounts ==
    ASSUME TypeOK, OnlyNewestRuns, QueueInv, NEW t \in Tenants, NEW c \in Cycles,
           cpc[c] \in {"send", "parked"}, AfterSend(c), canceled' = canceled,
           c[1] = t => ~canceled[c]
    PROVE  /\ \A b \in Cycles :
                 IsStat(out'[b], t) /\ ~canceled'[b] =>
                     out'[b] = out[b] /\ ~canceled[b]
           /\ \/ ~ IsStat(out[c], t)
              \/ /\ IsStat(out[c], t) /\ ~canceled[c]
                 /\ \A b \in Cycles : ~ (IsStat(out'[b], t) /\ ~canceled'[b])
<1>1. /\ out'[c] = NoResult
      /\ \A b \in Cycles \ {c} : out'[b] = out[b]
  BY DEF AfterSend, TypeOK
<1>2. ~ IsStat(out'[c], t)
  BY <1>1 DEF IsStat, NoResult
<1>3. out[c].kind = "stat" => out[c].cycle = c
  BY DEF QueueInv, Handed
<1>4. ASSUME IsStat(out[c], t), NEW b \in Cycles, IsStat(out'[b], t), ~canceled'[b]
      PROVE  FALSE
  <2>1. b # c /\ IsStat(out[b], t) /\ ~canceled[b]
    BY <1>1, <1>2, <1>4
  <2>2. b[1] = t /\ c[1] = t
    BY <1>3, <1>4, <2>1 DEF IsStat, QueueInv, Handed
  <2>3. Alive(b) /\ Alive(c)
    <3>1. out[b] # NoResult
      BY <2>1 DEF IsStat, NoResult
    <3>2. cpc[b] \in {"send", "parked", "woken"}
      BY <3>1, TypeParts DEF CycleOK
    <3> QED
      BY <3>2 DEF Alive, Ended
  <2> QED
    BY <2>1, <2>2, <2>3, OnlyOneInHand
<1> QED
  BY <1>1, <1>2, <1>3, <1>4 DEF IsStat

(* A tenant that has a late send keeps it.                                 *)
LEMMA LateGrows ==
    ASSUME TypeOK, [Next]_vars, NEW c \in Cycles
    PROVE  late'[c] >= late[c] /\ late[c] \in Nat
<1>1. late \in [Cycles -> Nat]
  BY DEF TypeOK
<1>2. \/ late' = late
      \/ \E b \in Cycles :
            late' = [late EXCEPT ![b] = IF canceled[b] THEN @ + 1 ELSE @]
  BY DEF Next, SchedulerStep, Fire, ReturnFromStagger, ReturnFromLoop,
     CycleStep, CheckKilled, BeginQuery, Acquire, AcquireFails, QueryReturns,
     QueryCrashes, ReadStat, Send, Abort, Park, Unwind, CycleStays, Propagate,
     CancelRoot, PublisherStep, Receive, PublisherReturns, Quiescent, vars,
     cycleVars
<1> QED
  BY <1>1, <1>2

(* A cycle reads the count of its pool, and sends it.                      *)
LEMMA CounterCycleStep ==
    ASSUME TypeOK, TypeOK', OnlyNewestRuns, QueueInv, NEW t \in Tenants,
           Counts(t), NEW c \in Cycles, CycleStep(c),
           c[1] = t => late'[c] = 0
    PROVE  Counts(t)'
<1> USE DEF CycleStays
<1>1. CASE Send(c)
  <2>1. /\ cpc[c] = "send" /\ AfterSend(c)
        /\ UNCHANGED <<canceled, empty, pubVars>>
    BY <1>1 DEF Send, poolVars
  <2>2. c[1] = t => ~canceled[c]
    BY <1>1 DEF Send, TypeOK
  <2>3. Exact(t)' /\ baseline'[t] = baseline[t]
    BY <2>1 DEF Counts, Exact, pubVars
  <2>4. PICK e : e.result = out[c] /\ InboxMoves(0, e)
    BY <1>1, SendMoves
  <2>5. /\ \A b \in Cycles :
              IsStat(out'[b], t) /\ ~canceled'[b] =>
                  out'[b] = out[b] /\ ~canceled[b]
        /\ \/ ~ IsStat(out[c], t)
           \/ /\ IsStat(out[c], t) /\ ~canceled[c]
              /\ \A b \in Cycles : ~ (IsStat(out'[b], t) /\ ~canceled'[b])
    BY <2>1, <2>2, SentCounts
  <2>6. /\ \A i \in DOMAIN inbox :
              i > 0 /\ IsStat(inbox[i].result, t) =>
                 baseline'[t] <= inbox[i].result.empty
        /\ \A b \in Cycles :
              IsStat(out[b], t) /\ ~canceled[b] => baseline'[t] <= out[b].empty
    BY <2>3 DEF Counts, InboxCounts, HandCounts, Between
  <2> QED
    BY <2>1, <2>3, <2>4, <2>5, <2>6, CountsMove
<1>2. CASE ~ Send(c)
  <2>1. counters' = counters /\ inbox' = inbox /\ canceled' = canceled
    BY <1>2 DEF CycleStep, CheckKilled, BeginQuery, Acquire, AcquireFails,
       QueryReturns, QueryCrashes, ReadStat, Abort, Park, Unwind, pubVars,
       counters
  <2>2. empty[t] <= empty'[t]
    <3>1. empty[t] \in Nat
      BY StatTypes
    <3>2. empty' = empty \/ empty' = [empty EXCEPT ![c[1]] = @ + 1]
      BY <1>2 DEF CycleStep, CheckKilled, BeginQuery, Acquire, AcquireFails,
         QueryReturns, QueryCrashes, ReadStat, Abort, Park, Unwind, poolVars
    <3>3. empty \in [Tenants -> 0 .. MaxEmpty]
      BY DEF TypeOK
    <3>4. empty'[t] = empty[t] \/ empty'[t] = empty[t] + 1
      BY <3>2, <3>3
    <3> QED
      BY <3>1, <3>4
  <2>3. ASSUME NEW b \in Cycles, IsStat(out'[b], t)
        PROVE  out'[b] = out[b] \/ out'[b].empty = empty'[t]
    <3>1. out \in [Cycles -> Results]
      BY DEF TypeOK
    <3>2. CASE b # c
      <4>1. out' = out \/ \E r : out' = [out EXCEPT ![c] = r]
        BY <1>2 DEF CycleStep, CheckKilled, BeginQuery, Acquire, AcquireFails,
           QueryReturns, QueryCrashes, ReadStat, Abort, Park, Unwind
      <4> QED
        BY <3>1, <3>2, <4>1
    <3>3. CASE b = c /\ ReadStat(c)
      BY <2>3, <3>1, <3>3 DEF ReadStat, IsStat, poolVars
    <3>4. CASE b = c /\ (AcquireFails(c) \/ QueryReturns(c))
      <4>1. \E ok : out'[c] = QueryResult(c, ok)
        BY <3>1, <3>4 DEF AcquireFails, QueryReturns
      <4> QED
        BY <2>3, <3>4, <4>1 DEF IsStat, QueryResult
    <3>5. CASE b = c /\ out'[c] \in {out[c], NoResult}
      BY <2>3, <3>5 DEF IsStat, NoResult
    <3> QED
      BY <1>2, <3>1, <3>2, <3>3, <3>4, <3>5
         DEF CycleStep, CheckKilled, BeginQuery, Acquire, QueryCrashes,
         Abort, Park, Unwind
  <2> QED
    BY <2>1, <2>2, <2>3, CountsStay
<1> QED
  BY <1>1, <1>2

(* The publisher takes a count off the inbox.                              *)
LEMMA CounterReceive ==
    ASSUME TypeOK, TypeOK', OnlyNewestRuns, QueueInv, NEW t \in Tenants,
           Counts(t), Receive
    PROVE  Counts(t)'
<1> DEFINE r == Head(inbox).result
<1>1. /\ r = inbox[1].result /\ 1 \in DOMAIN inbox
      /\ r.cycle[1] \in Tenants
      /\ r.kind = "stat" => r.empty \in 0 .. MaxEmpty
  BY HeadFacts DEF Receive
<1>2. \/ r.kind = "query" /\ counters' = counters
      \/ r.kind = "stat" /\ BumpEmptyAcquire(r.cycle[1], r.empty)
  BY DEF Receive, ApplyResult, counters
<1>3. empty' = empty /\ canceled' = canceled
  BY DEF Receive, poolVars
<1> HIDE DEF r
<1>4. \/ UNCHANGED <<seen[t], baseline[t], emptyTotal[t], firstSeen[t]>>
      \/ /\ IsStat(r, t)
         /\ seen'[t] = TRUE /\ baseline'[t] = r.empty
         /\ emptyTotal'[t] = emptyTotal[t] + Growth(t, r.empty)
         /\ firstSeen'[t] = IF seen[t] THEN firstSeen[t] ELSE r.empty
  <2>1. CASE counters' = counters
    BY <2>1 DEF counters
  <2>2. CASE r.kind = "stat" /\ BumpEmptyAcquire(r.cycle[1], r.empty)
    <3> USE <2>2 DEF BumpEmptyAcquire
    <3>1. CASE t = r.cycle[1]
      BY <3>1 DEF IsStat, TypeOK
    <3>2. CASE t # r.cycle[1]
      BY <1>1, <3>2 DEF TypeOK
    <3> QED
      BY <3>1, <3>2
  <2> QED
    BY <1>2, <2>1, <2>2
<1>5. IsStat(r, t) => Between(baseline[t], r.empty, empty[t])
  BY <1>1 DEF Counts, InboxCounts
<1>6. Exact(t)'
  <2>1. CASE UNCHANGED <<seen[t], baseline[t], emptyTotal[t], firstSeen[t]>>
    BY <1>3, <2>1 DEF Counts, Exact
  <2>2. CASE /\ IsStat(r, t)
             /\ seen'[t] = TRUE /\ baseline'[t] = r.empty
             /\ emptyTotal'[t] = emptyTotal[t] + Growth(t, r.empty)
             /\ firstSeen'[t] = IF seen[t] THEN firstSeen[t] ELSE r.empty
    <3>1. /\ baseline[t] <= r.empty /\ r.empty <= empty[t]
          /\ r.empty \in Nat /\ baseline[t] \in Nat /\ emptyTotal[t] \in Nat
          /\ firstSeen[t] \in Nat
      BY <1>1, <1>5, <2>2, StatTypes, RunnerAssumption DEF Between, IsStat
    <3>2. CASE seen[t]
      <4>1. Growth(t, r.empty) = r.empty - baseline[t]
        BY <3>1, <3>2 DEF Growth
      <4> QED
        BY <1>3, <2>2, <3>1, <3>2, <4>1 DEF Counts, Exact
    <3>3. CASE ~ seen[t]
      <4>1. Growth(t, r.empty) = 0
        BY <3>3 DEF Growth
      <4> QED
        BY <1>3, <2>2, <3>1, <3>3, <4>1 DEF Counts, Exact
    <3> QED
      BY <3>2, <3>3
  <2> QED
    BY <1>4, <2>1, <2>2
<1>7. /\ \A i \in DOMAIN inbox :
            i > 1 /\ IsStat(inbox[i].result, t) =>
               baseline'[t] <= inbox[i].result.empty
      /\ \A c \in Cycles :
            IsStat(out[c], t) /\ ~canceled[c] => baseline'[t] <= out[c].empty
  BY <1>1, <1>4 DEF Counts, InboxCounts, HandCounts, Between
<1>8. CASE InboxShifts(1) /\ UNCHANGED <<cpc, todo, out>>
  BY <1>3, <1>6, <1>7, <1>8, CountsMove
<1>9. ASSUME NEW c \in Cycles, NEW e, cpc[c] = "parked", ~canceled[c],
             AfterSend(c), e.result = out[c], InboxMoves(1, e)
      PROVE  Counts(t)'
  <2>1. /\ \A b \in Cycles :
              IsStat(out'[b], t) /\ ~canceled'[b] =>
                  out'[b] = out[b] /\ ~canceled[b]
        /\ \/ ~ IsStat(out[c], t)
           \/ /\ IsStat(out[c], t) /\ ~canceled[c]
              /\ \A b \in Cycles : ~ (IsStat(out'[b], t) /\ ~canceled'[b])
    BY <1>3, <1>9, SentCounts
  <2> QED
    BY <1>3, <1>6, <1>7, <1>9, <2>1, CountsMove
<1> QED
  BY <1>8, <1>9, ReceiveMoves

LEMMA CounterNext ==
    /\ TypeOK /\ TypeOK' /\ OnlyNewestRuns /\ QueueInv
    /\ CounterInv /\ [Next]_vars
    => CounterInv'
<1> SUFFICES ASSUME TypeOK, TypeOK', OnlyNewestRuns, QueueInv, CounterInv,
                    [Next]_vars, NEW t \in Tenants, InTime(t)'
    PROVE  Counts(t)'
  BY DEF CounterInv
<1>1. ASSUME NEW c \in Cycles, c[1] = t PROVE late[c] = 0 /\ late'[c] = 0
  BY <1>1, LateGrows DEF InTime
<1>2. Counts(t)
  BY <1>1 DEF CounterInv, InTime
<1>3. ASSUME counters' = counters, inbox' = inbox, out' = out, empty' = empty,
             \A c \in Cycles : canceled[c] => canceled'[c] \/ out[c] = NoResult
      PROVE  Counts(t)'
  <2>1. empty[t] <= empty'[t]
    BY <1>3, StatTypes
  <2>2. ~ IsStat(NoResult, t)
    BY DEF IsStat, NoResult
  <2> QED
    BY <1>2, <1>3, <2>1, <2>2, CountsStay
<1>4. ASSUME NEW u \in Tenants, Fire(u) PROVE Counts(t)'
  <2>1. ASSUME NEW c \in Cycles, canceled[c], ~canceled'[c]
        PROVE  out[c] = NoResult
    <3>1. c = <<u, fires[u] + 1>>
      BY <1>4, <2>1 DEF Fire, TypeOK
    <3>2. /\ c[1] = u /\ c[2] = fires[u] + 1 /\ fires[u] \in Int /\ CycleOK(c)
      BY <3>1, RunnerAssumption, TypeParts DEF Ranges
    <3>3. c[2] > fires[c[1]]
      BY <3>2
    <3> QED
      BY <3>2, <3>3 DEF CycleOK
  <2> QED
    BY <1>3, <1>4, <2>1 DEF Fire, counters, pubVars, poolVars
<1>5. ASSUME NEW u \in Tenants, ReturnFromStagger(u) \/ ReturnFromLoop(u)
      PROVE  Counts(t)'
  BY <1>3, <1>5 DEF ReturnFromStagger, ReturnFromLoop, Cancel, counters,
     cycleVars, pubVars, poolVars
<1>6. ASSUME NEW c \in Cycles, Propagate(c) PROVE Counts(t)'
  BY <1>3, <1>6 DEF Propagate, Cancel, counters, pubVars, poolVars
<1>7. CASE CancelRoot \/ PublisherReturns \/ UNCHANGED vars
  BY <1>3, <1>7 DEF CancelRoot, PublisherReturns, vars, counters, cycleVars,
     pubVars, poolVars
<1> QED
  BY <1>1, <1>2, <1>4, <1>5, <1>6, <1>7, CounterCycleStep, CounterReceive
     DEF Next, SchedulerStep, PublisherStep, Quiescent

LEMMA CounterInit == Init => CounterInv
BY DEF Init, CounterInv, Counts, Exact, InboxCounts, HandCounts, IsStat, NoResult

(* While no result of a tenant was sent late, PoolEmptyAcquireTotal is     *)
(* what the pool has counted since it was first seen, and no more          *)
(* (bumpEmptyAcquireCounter, ReadStat of runCycle).                        *)
THEOREM CounterIsExact == Spec => []EmptyCounterExact
<1>1. CounterInv => EmptyCounterExact
  BY DEF CounterInv, InTime, Counts, Exact, EmptyCounterExact
<1> QED
  BY <1>1, CounterInit, CounterNext, TypeCorrect, OneCycleRuns, QueueAlways, PTL
     DEF Spec

=============================================================================
