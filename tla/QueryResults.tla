--------------------------- MODULE QueryResults ---------------------------
(***************************************************************************)
(* What one query result carries into the publisher, and what applying it  *)
(* means.  A result set is a sequence of rows.  A row names one label      *)
(* tuple (the tenant label and the query's label columns together, i.e.    *)
(* the signature applyQuery joins with NUL bytes) and holds one cell for   *)
(* each value column.  A cell is a number, or Null: SQL NULL and a value   *)
(* toFloat refuses take the same path (count an error, leave the gauge).   *)
(***************************************************************************)
EXTENDS Integers, Sequences, FiniteSets

CONSTANTS
    Tenants,     \* tenant ids
    Queries,     \* names of the queries with a spec and registered gauges
    Columns,     \* value columns of a query: one GaugeVec each
    Labels,      \* label tuples
    BadLabels,   \* tuples the client library refuses (not valid UTF-8)
    Values,      \* numbers a gauge can hold
    Zero,        \* what a gauge holds between its creation and its first Set
    Absent,      \* the gauge has no such series
    Null,        \* a cell with no number in it
    Snapshots    \* the result sets the catalog may return

Cell == Values \cup {Null}

(* One row: its label tuple and its value columns. *)
Row == [label : Labels, cell : [Columns -> Cell]]

ASSUME DataAssumption ==
    /\ IsFiniteSet(Columns)
    /\ BadLabels \subseteq Labels
    /\ Zero \in Values
    /\ Absent \notin Values
    /\ Null \notin Values
    /\ Snapshots \subseteq Seq(Row)

Owners == Tenants \X Queries

(* A series of the registry: tenant, query, value column and label tuple. *)
Series == Tenants \X Queries \X Columns \X Labels

Owner(s) == <<s[1], s[2]>>

(* newTuples: the label tuples of a result set. *)
LabelsOf(rows) == { rows[i].label : i \in DOMAIN rows }

(* The rows that put a number into column c of tuple l. *)
Writers(rows, c, l) ==
    { i \in DOMAIN rows : rows[i].label = l /\ rows[i].cell[c] # Null }

Latest(S) == CHOOSE i \in S : \A j \in S : j <= i

(* Writing the rows of W to one series, in row order: the last one stays,  *)
(* and with none the series keeps what it held.                            *)
Written(rows, c, W, old) ==
    IF W = {} THEN old ELSE rows[Latest(W)].cell[c]

(* A result set whose rows cannot all be written: WithLabelValues panics.  *)
Poisonous(rows) ==
    \E i \in DOMAIN rows :
        /\ rows[i].label \in BadLabels
        /\ \E c \in Columns : rows[i].cell[c] # Null

===========================================================================
