------------------------------ MODULE Pipeline ------------------------------
(***************************************************************************)
(* What schedulers, cycles, inbox and publisher promise together to the    *)
(* owner of a gauge, a tenant and a query of the list: the numbered cycles *)
(* of the tenant each make at most one attempt at the query, the attempt   *)
(* is shown at most once or is lost, and it is shown as what it is, the    *)
(* rows of that cycle.  Cycles overlap, so attempts may be shown in        *)
(* another order than that of their cycles.                                *)
(***************************************************************************)
EXTENDS Naturals

CONSTANTS Tenants, Query

VARIABLES
    started,   \* started[t]: number of cycles begun
    pending,   \* pending[<<t, q>>]: the cycles whose attempt is under way
    shown      \* shown[<<t, q>>]: the cycle whose rows the gauges show

pipeVars == <<started, pending, shown>>

Owners == Tenants \X Query

PipeInit ==
    /\ started = [t \in Tenants |-> 0]
    /\ pending = [o \in Owners |-> {}]
    /\ shown = [o \in Owners |-> 0]

(* A cycle begins, with an attempt at each of the queries in due.          *)
Start(t, due) ==
    /\ started' = [started EXCEPT ![t] = @ + 1]
    /\ pending' = [o \in Owners |->
                     IF o[1] = t /\ o[2] \in due
                     THEN pending[o] \cup {started'[t]} ELSE pending[o]]
    /\ UNCHANGED shown

Show(o, n) ==
    /\ n \in pending[o]
    /\ shown' = [shown EXCEPT ![o] = n]
    /\ pending' = [pending EXCEPT ![o] = @ \ {n}]
    /\ UNCHANGED started

(* A query fails, or a cycle ends before its time.                         *)
Lose(t, n, queries) ==
    /\ \A q \in queries : n \in pending[<<t, q>>]
    /\ pending' = [o \in Owners |->
                     IF o[1] = t /\ o[2] \in queries
                     THEN pending[o] \ {n} ELSE pending[o]]
    /\ UNCHANGED <<started, shown>>

PipeNext ==
    \/ \E t \in Tenants, due \in SUBSET Query : Start(t, due)
    \/ \E o \in Owners : \E n \in pending[o] : Show(o, n)
    \/ \E t \in Tenants, queries \in SUBSET Query :
          \E n \in 1 .. started[t] : Lose(t, n, queries)

PipeSpec == PipeInit /\ [][PipeNext]_pipeVars

=============================================================================
