---------------------------- MODULE CatalogQuery ----------------------------
(***************************************************************************)
(* internal/catalog: Open with its ping, and Query, which streams the rows *)
(* of one statement through a connection of the pool under a timeout and   *)
(* a row cap, while the table goes on changing.  Several cycles of the     *)
(* tenant may be in Query at once (module Runner says when); a result goes *)
(* to the publisher, which shows exactly the rows of the last good one.    *)
(*                                                                         *)
(* The server may stop sending at any row, and for good; a cycle may be    *)
(* canceled at any moment, which the context of Query inherits.            *)
(***************************************************************************)
EXTENDS Integers, FiniteSets

CONSTANTS
    Callers,     \* cycle goroutines of the tenant
    Rows,        \* rows the table may hold
    Caps,        \* values of MaxQueryRows; 0 disables the cap
    MaxConns,    \* connections in the pool
    MaxFailures, \* bound: failed attempts of Open
    MaxCalls,    \* bound: calls of Query by one caller
    MaxChanges   \* bound: changes of the table

ASSUME CatalogAssumption ==
    /\ IsFiniteSet(Rows)
    /\ Caps \subseteq Nat
    /\ MaxConns \in Nat \ {0}
    /\ MaxFailures \in Nat /\ MaxCalls \in Nat /\ MaxChanges \in Nat

VARIABLES
    maxRows,   \* the cap
    table,     \* what the statement would return now
    changes,   \* number of changes of the table
    opening,   \* Open: "idle", "pinging" or "opened"
    pools,     \* pools created and not closed
    failures,  \* failed attempts of Open
    pc,        \* pc[c]: "idle", "acquire", "stream" or "returned"
    done,      \* done[c]: the context of the call is canceled or timed out
    held,      \* connections taken from the pool
    unread,    \* unread[c]: rows of the statement not delivered yet
    out,       \* out[c]: rows collected
    err,       \* err[c]: "none" or why the call failed
    shown,     \* rows on the page
    calls,     \* number of calls of c
    snapshot   \* auxiliary: the table when the statement of c began

openVars == <<opening, pools, failures>>
callVars == <<pc, done, held, unread, out, err, snapshot>>
vars == <<maxRows, table, changes, openVars, callVars, shown, calls>>

Init ==
    /\ maxRows \in Caps
    /\ table \in SUBSET Rows
    /\ changes = 0
    /\ opening = "idle" /\ pools = 0 /\ failures = 0
    /\ pc = [c \in Callers |-> "idle"]
    /\ done = [c \in Callers |-> FALSE]
    /\ held = 0
    /\ unread = [c \in Callers |-> {}]
    /\ out = [c \in Callers |-> {}]
    /\ err = [c \in Callers |-> "none"]
    /\ snapshot = [c \in Callers |-> {}]
    /\ shown = {}
    /\ calls = [c \in Callers |-> 0]

----------------------------------------------------------------------------
Opening == UNCHANGED <<maxRows, table, changes, callVars, shown, calls>>

(* Open: the pool first, then a ping with a timeout of its own; a pool     *)
(* that does not answer is closed again.                                   *)
CreatePool ==
    /\ opening = "idle"
    /\ opening' = "pinging"
    /\ pools' = pools + 1
    /\ Opening /\ UNCHANGED failures

PingSucceeds ==
    /\ opening = "pinging"
    /\ opening' = "opened"
    /\ Opening /\ UNCHANGED <<pools, failures>>

PingFails ==
    /\ opening = "pinging" /\ failures < MaxFailures
    /\ opening' = "idle"
    /\ pools' = pools - 1
    /\ failures' = failures + 1
    /\ Opening

----------------------------------------------------------------------------
InQuery == UNCHANGED <<maxRows, table, changes, openVars, shown, calls>>

(* Query, with a context that ends at its timeout.                         *)
Call(c) ==
    /\ opening = "opened" /\ pc[c] = "idle" /\ calls[c] < MaxCalls
    /\ pc' = [pc EXCEPT ![c] = "acquire"]
    /\ done' = [done EXCEPT ![c] = FALSE]
    /\ out' = [out EXCEPT ![c] = {}]
    /\ calls' = [calls EXCEPT ![c] = @ + 1]
    /\ UNCHANGED <<maxRows, table, changes, openVars, shown>>
    /\ UNCHANGED <<held, unread, err, snapshot>>

(* Faulty: waiting for a connection is not under the timeout.              *)
ExpireInStream(c) ==
    /\ pc[c] = "stream" /\ ~done[c]
    /\ done' = [done EXCEPT ![c] = TRUE]
    /\ InQuery /\ UNCHANGED <<pc, held, unread, out, err, snapshot>>

(* The timeout, or the cancellation of the cycle.                          *)
Expire(c) ==
    /\ pc[c] \in {"acquire", "stream"} /\ ~done[c]
    /\ done' = [done EXCEPT ![c] = TRUE]
    /\ InQuery /\ UNCHANGED <<pc, held, unread, out, err, snapshot>>

(* A connection, and the statement with its own view of the table.         *)
Begin(c) ==
    /\ pc[c] = "acquire" /\ ~done[c] /\ held < MaxConns
    /\ pc' = [pc EXCEPT ![c] = "stream"]
    /\ held' = held + 1
    /\ unread' = [unread EXCEPT ![c] = table]
    /\ snapshot' = [snapshot EXCEPT ![c] = table]
    /\ InQuery /\ UNCHANGED <<done, out, err>>

Return(c, rows, why) ==
    /\ pc' = [pc EXCEPT ![c] = "returned"]
    /\ out' = [out EXCEPT ![c] = rows]
    /\ err' = [err EXCEPT ![c] = why]
    /\ InQuery /\ UNCHANGED <<done, unread, snapshot>>

(* pool.Query comes back with an error, having put its connection back.    *)
NoConnection(c) ==
    /\ pc[c] = "acquire" /\ done[c]
    /\ Return(c, {}, "context") /\ UNCHANGED held

(* The deferred rows.Close gives the connection up on every way out of the *)
(* loop.                                                                   *)
CloseRows == held' = held - 1

(* Faulty: one row too many.                                               *)
CapReachedLate(c) == maxRows > 0 /\ Cardinality(out[c]) > maxRows

CapReached(c) == maxRows > 0 /\ Cardinality(out[c]) >= maxRows

(* rows.Next delivers a row that fits.                                     *)
NextRow(c) ==
    /\ pc[c] = "stream" /\ ~CapReached(c)
    /\ \E r \in unread[c] :
          /\ unread' = [unread EXCEPT ![c] = @ \ {r}]
          /\ out' = [out EXCEPT ![c] = @ \cup {r}]
    /\ InQuery /\ UNCHANGED <<pc, done, held, err, snapshot>>

(* Faulty: the early return leaves the rows open.                          *)
ExceedCapKeepsConn(c) ==
    /\ pc[c] = "stream" /\ unread[c] # {} /\ CapReached(c)
    /\ Return(c, {}, "cap") /\ UNCHANGED held

(* It delivers one more than the cap: ErrRowCapExceeded.                   *)
ExceedCap(c) ==
    /\ pc[c] = "stream" /\ unread[c] # {} /\ CapReached(c)
    /\ Return(c, {}, "cap") /\ CloseRows

(* A row that rows.Values cannot decode.                                   *)
DecodeFails(c) ==
    /\ pc[c] = "stream" /\ unread[c] # {} /\ ~CapReached(c)
    /\ Return(c, {}, "decode") /\ CloseRows

(* Faulty: rows.Err is not looked at when Next says there are no more.     *)
StreamEndsQuietly(c) ==
    /\ pc[c] = "stream" /\ done[c]
    /\ Return(c, out[c], "none") /\ CloseRows

(* rows.Next gives up in mid-stream, which only rows.Err tells.            *)
StreamBreaks(c) ==
    /\ pc[c] = "stream" /\ done[c]
    /\ Return(c, {}, "context") /\ CloseRows

(* rows.Next is through.  A context that ends just now changes nothing.    *)
StreamEnds(c) ==
    /\ pc[c] = "stream" /\ unread[c] = {}
    /\ Return(c, out[c], "none") /\ CloseRows

(* The server closes the connection.                                       *)
ServerFails(c) ==
    /\ pc[c] = "stream"
    /\ Return(c, {}, "server") /\ CloseRows

(* The result in the publisher's hands: an error leaves the page alone.    *)
Publish(c) ==
    /\ pc[c] = "returned"
    /\ pc' = [pc EXCEPT ![c] = "idle"]
    /\ shown' = IF err[c] = "none" THEN out[c] ELSE shown
    /\ UNCHANGED <<maxRows, table, changes, openVars, calls>>
    /\ UNCHANGED <<done, held, unread, out, err, snapshot>>

Change ==
    /\ changes < MaxChanges
    /\ changes' = changes + 1
    /\ table' \in SUBSET Rows \ {table}
    /\ UNCHANGED <<maxRows, openVars, callVars, shown, calls>>

Exhausted ==
    /\ \A c \in Callers : pc[c] = "idle" /\ calls[c] = MaxCalls
    /\ changes = MaxChanges
    /\ UNCHANGED vars

(* What the client does of itself once its context is over.                *)
ClientStep(c) == NoConnection(c) \/ StreamBreaks(c)

Next ==
    \/ CreatePool \/ PingSucceeds \/ PingFails
    \/ \E c \in Callers :
          \/ Call(c) \/ Expire(c) \/ Begin(c) \/ ClientStep(c)
          \/ NextRow(c) \/ ExceedCap(c) \/ DecodeFails(c) \/ StreamEnds(c)
          \/ ServerFails(c) \/ Publish(c)
    \/ Change
    \/ Exhausted

Spec == Init /\ [][Next]_vars

(* The timer of the context is fair, and so is pgx in seeing it; the       *)
(* server, and with it everything that waits for a row, is not.            *)
FairTimeouts ==
    Spec /\ \A c \in Callers : WF_vars(Expire(c)) /\ WF_vars(ClientStep(c))

----------------------------------------------------------------------------
(* The page shows nothing or the whole of what one statement saw: no cap,  *)
(* timeout, lost connection or bad row in mid-stream makes a part of a     *)
(* result look like all of it, which would make the publisher delete the   *)
(* series of the rows that are missing (catalog.go:147-151, 201-203).      *)
ShowsWholeSnapshots ==
    [][shown' # shown => \E c \in Callers :
          pc[c] = "returned" /\ shown' = snapshot[c]]_vars

(* The cap refuses what is over it and nothing else: a result of exactly   *)
(* maxRows rows is good, one more is an error, and 0 is no cap             *)
(* (catalog.go:187-190, config.go:50-57).                                  *)
CapIsExact ==
    \A c \in Callers :
        LET over == maxRows > 0 /\ Cardinality(snapshot[c]) > maxRows
        IN  pc[c] = "returned" =>
                /\ err[c] = "none" => ~over
                /\ err[c] = "cap" => over

(* Connections in use are those of the statements in progress: none is     *)
(* left behind by a call that ends early, or four of them would leave the  *)
(* tenant without any; and a tenant that fails to connect for ever leaves  *)
(* no pool behind (catalog.go:99-109, 180).                                *)
NothingLeaks ==
    /\ held = Cardinality({ c \in Callers : pc[c] = "stream" })
    /\ pools = IF opening = "idle" THEN 0 ELSE 1

(* Every call comes back, with the pool exhausted and with a server that   *)
(* never sends another row (catalog.go:174).                               *)
CallsReturn ==
    \A c \in Callers : pc[c] \in {"acquire", "stream"} ~> pc[c] = "returned"

============================================================================
