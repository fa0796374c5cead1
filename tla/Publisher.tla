----------------------------- MODULE Publisher -----------------------------
(***************************************************************************)
(* The publisher actor (internal/publisher/publisher.go): the only writer  *)
(* of the per-query gauges.  Run takes one result at a time from its inbox *)
(* and applies it; a scrape may read the gauges between any two calls      *)
(* apply makes into the client library, so each such call is a step:       *)
(* Lookup (WithLabelValues, which creates a missing series holding Zero),  *)
(* Store (Gauge.Set) and DeleteSeries (DeleteLabelValues).                 *)
(*                                                                         *)
(* Results arrive in any order with any content of Snapshots: what the     *)
(* runners really send, and in which order, is the matter of the modules   *)
(* that compose them.  Pool statistics touch none of this state and are    *)
(* modelled there too.  The early returns for a result whose query has no  *)
(* spec or no gauges (publisher.go:160-169) cannot be taken: main builds   *)
(* the publisher and every runner from one list of queries.                *)
(***************************************************************************)
EXTENDS QueryResults

CONSTANT MaxResults   \* bound: results delivered in one behaviour

ASSUME MaxResultsAssumption == MaxResults \in Nat

VARIABLES
    gauge,       \* gauge[s]: the registry's value for series s, or Absent
    lastLabels,  \* lastLabels[<<t, q>>]: tuples of the last result applied
    errors,      \* QueryErrorsTotal{t, q}
    panics,      \* QueryPanicsTotal{t, "_publisher"}
    pc,          \* "idle", "set", "store", "delete" or "returned"
    owner,       \* tenant and query of the result being applied
    rows,        \* its rows
    row,         \* the row the Set loop is at
    todo,        \* value columns of that row still to visit
    col,         \* the column between WithLabelValues and Set
    drop,        \* <<column, tuple>> pairs still to delete
    delivered,   \* number of results received
    gaugeBefore, \* auxiliary: the gauges as the result was received, and
    errorsBefore \* the errors; between results, the present ones

resultVars == <<owner, rows, row, todo, col, drop, gaugeBefore, errorsBefore>>
vars == <<gauge, lastLabels, errors, panics, pc, delivered, resultVars>>

SeriesOf(o, c, l) == <<o[1], o[2], c, l>>

NoOwner == <<>>

(* The publisher between two results.                                      *)
Forget ==
    /\ owner' = NoOwner
    /\ rows' = <<>>
    /\ row' = 1
    /\ todo' = Columns
    /\ col' = Null
    /\ drop' = {}
    /\ gaugeBefore' = gauge'
    /\ errorsBefore' = errors'

Init ==
    /\ gauge = [s \in Series |-> Absent]
    /\ lastLabels = [o \in Owners |-> {}]
    /\ errors = [o \in Owners |-> 0]
    /\ panics = [t \in Tenants |-> 0]
    /\ pc = "idle"
    /\ owner = NoOwner
    /\ rows = <<>>
    /\ row = 1
    /\ todo = Columns
    /\ col = Null
    /\ drop = {}
    /\ delivered = 0
    /\ gaugeBefore = gauge
    /\ errorsBefore = errors

----------------------------------------------------------------------------
(* Run: the two ways out of the loop, the context or the closed inbox.     *)
Return ==
    /\ pc = "idle"
    /\ pc' = "returned"
    /\ UNCHANGED <<gauge, lastLabels, errors, panics, delivered, resultVars>>

(* A failed query, or one whose columns miss a declared label or value:    *)
(* one error, and every gauge keeps its last known value.                  *)
RejectResult(o) ==
    /\ pc = "idle"
    /\ delivered < MaxResults
    /\ delivered' = delivered + 1
    /\ errors' = [errors EXCEPT ![o] = @ + 1]
    /\ UNCHANGED <<gauge, lastLabels, panics, pc>>
    /\ Forget

(* A result whose columns match: its rows are going to be written.         *)
ReceiveRows(o, rs) ==
    /\ pc = "idle"
    /\ delivered < MaxResults
    /\ delivered' = delivered + 1
    /\ pc' = "set"
    /\ owner' = o
    /\ rows' = rs
    /\ UNCHANGED <<gauge, lastLabels, errors, panics, row, todo, col, drop,
                   gaugeBefore, errorsBefore>>

(* The Set loop visits the columns of a row in the order of a Go map.      *)
AtCell(c) == pc = "set" /\ row \in DOMAIN rows /\ c \in todo

(* Faulty: a NULL cell ends its row (break for continue).                  *)
SkipNullBreaks(c) ==
    /\ AtCell(c)
    /\ rows[row].cell[c] = Null
    /\ errors' = [errors EXCEPT ![owner] = @ + 1]
    /\ todo' = {}
    /\ UNCHANGED <<gauge, lastLabels, panics, pc, owner, rows, row, col, drop,
                   delivered, gaugeBefore, errorsBefore>>

(* A cell with no number: one error, and the gauge keeps its value.        *)
SkipNull(c) ==
    /\ AtCell(c)
    /\ rows[row].cell[c] = Null
    /\ errors' = [errors EXCEPT ![owner] = @ + 1]
    /\ todo' = todo \ {c}
    /\ UNCHANGED <<gauge, lastLabels, panics, pc, owner, rows, row, col, drop,
                   delivered, gaugeBefore, errorsBefore>>

(* WithLabelValues finds the series, or creates it holding Zero.           *)
Lookup(c) ==
    /\ AtCell(c)
    /\ rows[row].cell[c] # Null
    /\ rows[row].label \notin BadLabels
    /\ LET s == SeriesOf(owner, c, rows[row].label)
       IN  gauge' = [gauge EXCEPT ![s] = IF @ = Absent THEN Zero ELSE @]
    /\ col' = c
    /\ pc' = "store"
    /\ UNCHANGED <<lastLabels, errors, panics, owner, rows, row, todo, drop,
                   delivered, gaugeBefore, errorsBefore>>

(* Faulty: recovered, but the result is not let go of.                     *)
PanicKeepsResult(c) ==
    /\ AtCell(c)
    /\ rows[row].cell[c] # Null
    /\ rows[row].label \in BadLabels
    /\ panics' = [panics EXCEPT ![owner[1]] = @ + 1]
    /\ pc' = "idle"
    /\ UNCHANGED <<gauge, lastLabels, errors, delivered, resultVars>>

(* WithLabelValues refuses the tuple and panics; safeApply recovers and    *)
(* abandons the rest of the result, lastLabels included.                   *)
Panic(c) ==
    /\ AtCell(c)
    /\ rows[row].cell[c] # Null
    /\ rows[row].label \in BadLabels
    /\ panics' = [panics EXCEPT ![owner[1]] = @ + 1]
    /\ pc' = "idle"
    /\ UNCHANGED <<gauge, lastLabels, errors, delivered>>
    /\ Forget

(* Gauge.Set on the series Lookup returned.                                *)
Store ==
    /\ pc = "store"
    /\ gauge' = [gauge EXCEPT ![SeriesOf(owner, col, rows[row].label)] =
                              rows[row].cell[col]]
    /\ todo' = todo \ {col}
    /\ col' = Null
    /\ pc' = "set"
    /\ UNCHANGED <<lastLabels, errors, panics, owner, rows, row, drop,
                   delivered, gaugeBefore, errorsBefore>>

(* Faulty: the columns visited in one row count as visited in the next.    *)
NextRowKeepsColumns ==
    /\ pc = "set"
    /\ row \in DOMAIN rows
    /\ todo = {}
    /\ row' = row + 1
    /\ UNCHANGED <<gauge, lastLabels, errors, panics, pc, owner, rows, todo,
                   col, drop, delivered, gaugeBefore, errorsBefore>>

(* The row is done: the next one, with all its columns.                    *)
NextRow ==
    /\ pc = "set"
    /\ row \in DOMAIN rows
    /\ todo = {}
    /\ row' = row + 1
    /\ todo' = Columns
    /\ UNCHANGED <<gauge, lastLabels, errors, panics, pc, owner, rows, col,
                   drop, delivered, gaugeBefore, errorsBefore>>

(* Faulty: an empty result set is taken for a failure and removes nothing; *)
(* every tuple of the previous result is removed, to be written again.     *)
GoneUnlessEmpty(o, rs) ==
    IF rs = <<>> THEN {} ELSE lastLabels[o] \ LabelsOf(rs)

GoneAll(o, rs) == lastLabels[o]

(* The tuples of the previous result that this one does not have.          *)
Gone(o, rs) == lastLabels[o] \ LabelsOf(rs)

(* After the last row: every gauge of the query drops the gone tuples.     *)
BeginDelete ==
    /\ pc = "set"
    /\ row \notin DOMAIN rows
    /\ pc' = "delete"
    /\ drop' = Columns \X Gone(owner, rows)
    /\ UNCHANGED <<gauge, lastLabels, errors, panics, owner, rows, row, todo,
                   col, delivered, gaugeBefore, errorsBefore>>

(* One DeleteLabelValues.  The gauges are the inner loop: a tuple is       *)
(* finished before the next one is begun.                                  *)
DeleteSeries(c, l) ==
    /\ pc = "delete"
    /\ <<c, l>> \in drop
    /\ \A p \in drop : p[2] # l => Columns \X {p[2]} \subseteq drop
    /\ gauge' = [gauge EXCEPT ![SeriesOf(owner, c, l)] = Absent]
    /\ drop' = drop \ {<<c, l>>}
    /\ UNCHANGED <<lastLabels, errors, panics, pc, owner, rows, row, todo, col,
                   delivered, gaugeBefore, errorsBefore>>

(* Faulty: the old tuples stay among the last ones.                        *)
FinishKeepsOld ==
    /\ pc = "delete"
    /\ drop = {}
    /\ lastLabels' = [lastLabels EXCEPT ![owner] = @ \cup LabelsOf(rows)]
    /\ pc' = "idle"
    /\ UNCHANGED <<gauge, errors, panics, delivered>>
    /\ Forget

(* The new tuples become the last ones.                                    *)
Finish ==
    /\ pc = "delete"
    /\ drop = {}
    /\ lastLabels' = [lastLabels EXCEPT ![owner] = LabelsOf(rows)]
    /\ pc' = "idle"
    /\ UNCHANGED <<gauge, errors, panics, delivered>>
    /\ Forget

Deliver ==
    \E o \in Owners : RejectResult(o) \/ \E rs \in Snapshots : ReceiveRows(o, rs)

ApplyStep ==
    \/ \E c \in Columns : SkipNull(c) \/ Lookup(c) \/ Panic(c)
    \/ Store
    \/ NextRow
    \/ BeginDelete
    \/ \E c \in Columns, l \in Labels : DeleteSeries(c, l)
    \/ Finish

(* Run has returned: nothing follows.  Any other state without a successor *)
(* is a publisher stuck in the middle of a result.                         *)
Returned == pc = "returned" /\ UNCHANGED vars

Next == Deliver \/ ApplyStep \/ Return \/ Returned

Spec == Init /\ [][Next]_vars

----------------------------------------------------------------------------
Applying == pc \in {"set", "store", "delete"}

(* Every variable stays in its range, and the registers of an apply belong *)
(* to an apply in progress (the locals of applyQuery).                     *)
TypeOK ==
    /\ gauge \in [Series -> Values \cup {Absent}]
    /\ lastLabels \in [Owners -> SUBSET Labels]
    /\ errors \in [Owners -> Nat]
    /\ panics \in [Tenants -> Nat]
    /\ pc \in {"idle", "set", "store", "delete", "returned"}
    /\ delivered \in 0 .. MaxResults
    /\ IF Applying
       THEN owner \in Owners /\ rows \in Snapshots
       ELSE owner = NoOwner /\ rows = <<>>
    /\ row \in 1 .. Len(rows) + 1
    /\ todo \subseteq Columns
    /\ IF pc = "store"
       THEN /\ row \in DOMAIN rows
            /\ col \in todo
            /\ rows[row].cell[col] # Null
            /\ rows[row].label \notin BadLabels
       ELSE col = Null
    /\ drop \subseteq Columns \X Labels
    /\ gaugeBefore \in [Series -> Values \cup {Absent}]
    /\ errorsBefore \in [Owners -> Nat]

(* As long as no result of a tenant has panicked (the counter an operator  *)
(* watches is 0), every series of the tenant on the page carries a tuple   *)
(* the publisher still tracks, or one of the result it is applying: the    *)
(* diff of lastLabels against newTuples misses none, so a tuple that drops *)
(* out of the catalog cannot stay on the page for ever (applyQuery's Set   *)
(* loop, Delete loop and update of lastLabels).                            *)
NoOrphanSeries ==
    \A s \in Series :
        (gauge[s] # Absent /\ panics[s[1]] = 0) =>
            s[4] \in lastLabels[Owner(s)] \cup
                     (IF owner = Owner(s) THEN LabelsOf(rows) ELSE {})

(* Set before Delete (the comment at publisher.go:197): a series leaves    *)
(* the page only when its tuple is not in the result being applied, and    *)
(* only once every series of that result already shows its final value,    *)
(* so that no scrape finds the query blank between two full snapshots.     *)
SnapshotShown ==
    \A c \in Columns, l \in LabelsOf(rows) :
        LET s == SeriesOf(owner, c, l)
        IN  gauge[s] = Written(rows, c, Writers(rows, c, l), gaugeBefore[s])

RemovalsAreLast ==
    \A s \in Series :
        (gauge[s] # Absent /\ gauge'[s] = Absent) =>
            /\ Owner(s) = owner
            /\ s[4] \notin LabelsOf(rows)
            /\ SnapshotShown

NoBlankWindow == [][RemovalsAreLast]_vars

(* A result that is applied to its end adds one error for each cell it     *)
(* could not read, a tuple listed twice counting twice, and nothing to any *)
(* other query's counter (publisher.go:219-236).                           *)
NullCells(rs) ==
    { p \in (DOMAIN rs) \X Columns : rs[p[1]].cell[p[2]] = Null }

ErrorsCountNullCells ==
    pc = "delete" =>
        errors = [errorsBefore EXCEPT ![owner] =
                      @ + Cardinality(NullCells(rows))]

(* Seen between results, the publisher is the Board: each result takes     *)
(* effect as a whole or, if it panics, spoils only its own query's series. *)
B == INSTANCE Board WITH board <- gaugeBefore, tracked <- lastLabels

BoardSpec == B!BoardSpec

----------------------------------------------------------------------------
(* How far an apply is.  The numbers written to a series are those of the  *)
(* rows the Set loop has passed and, in the row it is at, of the columns   *)
(* it has visited.                                                         *)
WritersDone(c, l) ==
    { i \in Writers(rows, c, l) : i < row \/ (i = row /\ c \notin todo) }

SetProgress(s) ==
    LET W == WritersDone(s[3], s[4])
    IN  /\ W # {} => Latest(W) \in W
        /\ \A i \in W : rows[i].label \notin BadLabels
        /\ IF pc = "store" /\ s = SeriesOf(owner, col, rows[row].label)
           THEN gauge[s] # Absent
           ELSE gauge[s] = Written(rows, s[3], W, gaugeBefore[s])

DeleteProgress(s) ==
    gauge[s] =
        IF s[4] \in LabelsOf(rows)
        THEN Written(rows, s[3], Writers(rows, s[3], s[4]), gaugeBefore[s])
        ELSE IF s[4] \in Gone(owner, rows) /\ <<s[3], s[4]>> \notin drop
        THEN Absent
        ELSE gaugeBefore[s]

(* Half-way through a result the gauges are exactly the old board with the *)
(* cells visited so far written over it, and in the Delete loop the new    *)
(* snapshot with the gone tuples visited so far removed; between results   *)
(* they are the board.  Nothing an abandoned result wrote or left undone   *)
(* leaks into the next one (the locals of applyQuery).                     *)
ApplyProgress ==
    /\ ~Applying => gauge = gaugeBefore /\ row = 1 /\ todo = Columns
    /\ Applying =>
          \A s \in Series :
             IF Owner(s) # owner THEN gauge[s] = gaugeBefore[s]
             ELSE IF pc = "delete" THEN DeleteProgress(s)
             ELSE SetProgress(s)
    /\ pc = "delete" =>
          /\ row \notin DOMAIN rows
          /\ drop \subseteq Columns \X Gone(owner, rows)

============================================================================
