------------------------- MODULE CatalogQueryProofs -------------------------
(***************************************************************************)
(* Proofs about module CatalogQuery, for every number of cycles, every     *)
(* finite set of rows, every cap, pool size and bound.                     *)
(***************************************************************************)
EXTENDS CatalogQuery, FiniteSetTheorems, TLAPS

Streaming == { c \in Callers : pc[c] = "stream" }

Reasons == {"none", "context", "cap", "decode", "server"}

TypeOK ==
    /\ maxRows \in Nat
    /\ table \subseteq Rows
    /\ opening \in {"idle", "pinging", "opened"}
    /\ pools \in Nat
    /\ pc \in [Callers -> {"idle", "acquire", "stream", "returned"}]
    /\ held \in Nat
    /\ unread \in [Callers -> SUBSET Rows]
    /\ out \in [Callers -> SUBSET Rows]
    /\ err \in [Callers -> Reasons]
    /\ snapshot \in [Callers -> SUBSET Rows]

(* Pools are counted by where Open is, connections by who streams.         *)
Counted ==
    /\ pools = IF opening = "idle" THEN 0 ELSE 1
    /\ IsFiniteSet(Streaming)
    /\ held = Cardinality(Streaming)

(* A statement in progress has split its snapshot into rows collected and  *)
(* rows to come, and has not collected more than the cap.                  *)
SplitsSnapshot(c) ==
    /\ out[c] \cup unread[c] = snapshot[c]
    /\ out[c] \cap unread[c] = {}
    /\ maxRows > 0 => Cardinality(out[c]) <= maxRows

Over(c) == maxRows > 0 /\ Cardinality(snapshot[c]) > maxRows

(* What a call has to say when it is over.                                 *)
TellsTheTruth(c) ==
    /\ err[c] = "none" => out[c] = snapshot[c] /\ ~Over(c)
    /\ err[c] = "cap" => Over(c)

Statements ==
    \A c \in Callers :
        /\ pc[c] = "acquire" => out[c] = {}
        /\ pc[c] = "stream" => SplitsSnapshot(c)
        /\ pc[c] = "returned" => TellsTheTruth(c)

Inv == TypeOK /\ Counted /\ Statements

----------------------------------------------------------------------------
(* Sets of rows are finite, and one row more counts for one more.          *)
LEMMA RowsAreFinite ==
    ASSUME NEW S, S \subseteq Rows
    PROVE  IsFiniteSet(S) /\ Cardinality(S) \in Nat
BY CatalogAssumption, FS_Subset, FS_CardinalityType

LEMMA OneMoreRow ==
    ASSUME NEW S, S \subseteq Rows, NEW r, r \notin S
    PROVE  Cardinality(S \cup {r}) = Cardinality(S) + 1
BY RowsAreFinite, FS_AddElement

(* The number of streams under way moves by one with each that begins or   *)
(* ends.                                                                   *)
LEMMA StreamBegins ==
    ASSUME Inv, NEW c \in Callers, pc[c] # "stream",
           pc' = [pc EXCEPT ![c] = "stream"]
    PROVE  /\ IsFiniteSet(Streaming)'
           /\ Cardinality(Streaming)' = Cardinality(Streaming) + 1
<1>1. Streaming' = Streaming \cup {c} /\ c \notin Streaming
  BY DEF Inv, TypeOK, Streaming
<1>2. IsFiniteSet(Streaming)
  BY DEF Inv, Counted
<1> HIDE DEF Streaming
<1> QED
  BY <1>1, <1>2, FS_AddElement

LEMMA StreamStops ==
    ASSUME Inv, NEW c \in Callers, pc[c] = "stream",
           NEW p, p # "stream", pc' = [pc EXCEPT ![c] = p]
    PROVE  /\ IsFiniteSet(Streaming)'
           /\ Cardinality(Streaming)' = Cardinality(Streaming) - 1
           /\ Cardinality(Streaming)' \in Nat
<1>1. Streaming' = Streaming \ {c} /\ c \in Streaming
  BY DEF Inv, TypeOK, Streaming
<1>2. IsFiniteSet(Streaming)
  BY DEF Inv, Counted
<1> HIDE DEF Streaming
<1> QED
  BY <1>1, <1>2, FS_RemoveElement, FS_CardinalityType

LEMMA StreamsStay ==
    ASSUME Inv, NEW c \in Callers, pc[c] # "stream",
           NEW p, p # "stream", pc' = [pc EXCEPT ![c] = p]
    PROVE  Streaming' = Streaming
BY DEF Inv, TypeOK, Streaming

----------------------------------------------------------------------------
LEMMA InvInit == Init => Inv
<1> SUFFICES ASSUME Init PROVE Inv
  OBVIOUS
<1>1. TypeOK
  BY CatalogAssumption DEF Init, TypeOK, Reasons
<1>2. Streaming = {}
  BY DEF Init, Streaming
<1>3. Counted
  BY <1>2, FS_EmptySet DEF Init, Counted
<1>4. Statements
  BY DEF Init, Statements
<1> QED
  BY <1>1, <1>3, <1>4 DEF Inv

(* A call that comes back with its connection closed and something true to *)
(* say.                                                                    *)
LEMMA InvReturn ==
    ASSUME Inv, NEW c \in Callers, pc[c] = "stream", CloseRows,
           NEW rows \in SUBSET Rows, NEW why \in Reasons,
           Return(c, rows, why),
           why = "none" => rows = snapshot[c] /\ ~Over(c),
           why = "cap" => Over(c)
    PROVE  Inv'
<1> USE DEF Return, CloseRows, InQuery, openVars
<1>1. /\ IsFiniteSet(Streaming)'
      /\ Cardinality(Streaming)' = Cardinality(Streaming) - 1
      /\ Cardinality(Streaming)' \in Nat
  BY StreamStops
<1>2. Counted' /\ held' \in Nat
  BY <1>1 DEF Inv, Counted
<1>3. TypeOK'
  BY <1>2 DEF Inv, TypeOK
<1>4. Statements'
  BY DEF Inv, TypeOK, Statements, SplitsSnapshot, TellsTheTruth, Over
<1> QED
  BY <1>2, <1>3, <1>4 DEF Inv

LEMMA InvNext == Inv /\ [Next]_vars => Inv'
<1> SUFFICES ASSUME Inv, [Next]_vars PROVE Inv'
  OBVIOUS
<1> USE DEF Inv
<1>1. ASSUME CreatePool \/ PingSucceeds \/ PingFails PROVE Inv'
  BY <1>1 DEF CreatePool, PingSucceeds, PingFails, Opening, callVars, TypeOK,
     Counted, Streaming, Statements, SplitsSnapshot, TellsTheTruth, Over
<1>2. ASSUME NEW c \in Callers, Call(c) PROVE Inv'
  <2> USE <1>2 DEF Call, openVars
  <2>1. Streaming' = Streaming
    BY DEF TypeOK, Streaming
  <2> QED
    BY <2>1 DEF TypeOK, Counted, Statements, SplitsSnapshot, TellsTheTruth, Over
<1>3. ASSUME NEW c \in Callers, Expire(c) PROVE Inv'
  BY <1>3 DEF Expire, InQuery, openVars, TypeOK, Counted, Streaming,
     Statements, SplitsSnapshot, TellsTheTruth, Over
<1>4. ASSUME NEW c \in Callers, Begin(c) PROVE Inv'
  <2> USE <1>4 DEF Begin, InQuery, openVars
  <2>1. /\ IsFiniteSet(Streaming)'
        /\ Cardinality(Streaming)' = Cardinality(Streaming) + 1
    BY StreamBegins
  <2>2. Counted' /\ held' \in Nat
    BY <2>1 DEF TypeOK, Counted
  <2>3. TypeOK'
    BY <2>2 DEF TypeOK
  <2>4. Cardinality({}) = 0
    BY FS_EmptySet
  <2>5. SplitsSnapshot(c)'
    <3>1. out'[c] = {} /\ unread'[c] = table /\ snapshot'[c] = table
      BY DEF TypeOK, Statements
    <3> QED
      BY <2>4, <3>1 DEF TypeOK, SplitsSnapshot
  <2>6. Statements'
    BY <2>5 DEF TypeOK, Statements, SplitsSnapshot, TellsTheTruth, Over
  <2> QED
    BY <2>2, <2>3, <2>6
<1>5. ASSUME NEW c \in Callers, NoConnection(c) PROVE Inv'
  <2> USE <1>5 DEF NoConnection, Return, InQuery, openVars
  <2>1. Streaming' = Streaming
    BY StreamsStay
  <2> QED
    BY <2>1 DEF TypeOK, Reasons, Counted, Statements, SplitsSnapshot,
       TellsTheTruth, Over
<1>6. ASSUME NEW c \in Callers, NextRow(c) PROVE Inv'
  <2> USE <1>6 DEF NextRow, InQuery, openVars
  <2>1. PICK r \in unread[c] :
           /\ unread' = [unread EXCEPT ![c] = @ \ {r}]
           /\ out' = [out EXCEPT ![c] = @ \cup {r}]
    OBVIOUS
  <2>2. r \in Rows /\ r \notin out[c] /\ SplitsSnapshot(c)
    BY DEF TypeOK, Statements, SplitsSnapshot
  <2>3. TypeOK' /\ Counted'
    BY <2>1, <2>2 DEF TypeOK, Counted, Streaming
  <2>4. SplitsSnapshot(c)'
    <3>1. Cardinality(out'[c]) = Cardinality(out[c]) + 1
      BY <2>1, <2>2, OneMoreRow DEF TypeOK
    <3>2. Cardinality(out[c]) \in Nat
      BY RowsAreFinite DEF TypeOK
    <3> QED
      BY <2>1, <2>2, <3>1, <3>2 DEF TypeOK, SplitsSnapshot, CapReached
  <2> QED
    BY <2>1, <2>3, <2>4
       DEF TypeOK, Statements, SplitsSnapshot, TellsTheTruth, Over
<1>7. ASSUME NEW c \in Callers, ExceedCap(c) PROVE Inv'
  <2> USE <1>7 DEF ExceedCap
  <2>1. PICK r \in unread[c] : TRUE
    OBVIOUS
  <2>2. /\ r \notin out[c] /\ r \in Rows
        /\ out[c] \subseteq Rows /\ snapshot[c] \subseteq Rows
        /\ out[c] \cup {r} \subseteq snapshot[c]
    BY <2>1 DEF TypeOK, Statements, SplitsSnapshot
  <2>3. /\ Cardinality(out[c] \cup {r}) = Cardinality(out[c]) + 1
        /\ Cardinality(out[c] \cup {r}) <= Cardinality(snapshot[c])
    BY <2>2, OneMoreRow, RowsAreFinite, FS_Subset
  <2>4. Over(c)
    BY <2>2, <2>3, RowsAreFinite DEF TypeOK, Over, CapReached
  <2> QED
    BY <2>4, InvReturn DEF Reasons
<1>8. ASSUME NEW c \in Callers,
             DecodeFails(c) \/ StreamBreaks(c) \/ ServerFails(c)
      PROVE  Inv'
  BY <1>8, InvReturn DEF DecodeFails, StreamBreaks, ServerFails, Reasons
<1>9. ASSUME NEW c \in Callers, StreamEnds(c) PROVE Inv'
  <2> USE <1>9 DEF StreamEnds
  <2>1. out[c] \in SUBSET Rows /\ SplitsSnapshot(c)
    BY DEF TypeOK, Statements
  <2>2. out[c] = snapshot[c]
    BY <2>1 DEF SplitsSnapshot
  <2>3. ~Over(c)
    BY <2>1, <2>2, RowsAreFinite DEF TypeOK, SplitsSnapshot, Over
  <2> QED
    BY <2>1, <2>2, <2>3, InvReturn DEF Reasons
<1>10. ASSUME NEW c \in Callers, Publish(c) PROVE Inv'
  <2> USE <1>10 DEF Publish, openVars
  <2>1. Streaming' = Streaming
    BY StreamsStay
  <2> QED
    BY <2>1 DEF TypeOK, Counted, Statements, SplitsSnapshot, TellsTheTruth, Over
<1>11. CASE Change
  BY <1>11 DEF Change, openVars, callVars, TypeOK, Counted, Streaming,
     Statements, SplitsSnapshot, TellsTheTruth, Over
<1>12. CASE UNCHANGED vars
  BY <1>12 DEF vars, openVars, callVars, TypeOK, Counted, Streaming,
     Statements, SplitsSnapshot, TellsTheTruth, Over
<1> QED
  BY <1>1, <1>2, <1>3, <1>4, <1>5, <1>6, <1>7, <1>8, <1>9, <1>10, <1>11,
     <1>12 DEF Next, ClientStep, Exhausted

(* The inductive invariant of the calls holds at every moment (Open, Query).*)
THEOREM CatalogInv == Spec => []Inv
BY InvInit, InvNext, PTL DEF Spec

(* The cap refuses a result that is over it, and no other.                 *)
THEOREM CapIsExactAlways == Spec => []CapIsExact
<1>1. Inv => CapIsExact
  BY DEF Inv, Statements, TellsTheTruth, Over, CapIsExact
<1> QED
  BY <1>1, CatalogInv, PTL

(* Connections in use are those of statements in progress, and a failed    *)
(* Open leaves no pool.                                                    *)
THEOREM NothingLeaksAlways == Spec => []NothingLeaks
<1>1. Inv => NothingLeaks
  BY DEF Inv, Counted, Streaming, NothingLeaks
<1> QED
  BY <1>1, CatalogInv, PTL

(* The page shows what one statement saw, and the whole of it.             *)
THEOREM ShowsWholeSnapshotsAlways == Spec => ShowsWholeSnapshots
<1> DEFINE Whole ==
       shown' # shown =>
           \E c \in Callers : pc[c] = "returned" /\ shown' = snapshot[c]
<1>1. Inv /\ [Next]_vars => [Whole]_vars
  <2> SUFFICES ASSUME Inv, Next, shown' # shown PROVE Whole
    BY DEF vars
  <2>1. PICK c \in Callers : Publish(c)
    BY DEF Next, CreatePool, PingSucceeds, PingFails, Opening, Call, Expire,
       Begin, ClientStep, NoConnection, StreamBreaks, NextRow, ExceedCap,
       DecodeFails, StreamEnds, ServerFails, Return, InQuery, Change,
       Exhausted, vars
  <2>2. pc[c] = "returned" /\ shown' = snapshot[c]
    BY <2>1 DEF Publish, Inv, Statements, TellsTheTruth
  <2> QED
    BY <2>2
<1> QED
  BY <1>1, CatalogInv, PTL DEF Spec, ShowsWholeSnapshots

=============================================================================
