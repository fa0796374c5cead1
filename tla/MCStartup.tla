----------------------------- MODULE MCStartup -----------------------------
(***************************************************************************)
(* Startup for TLC.  The environments vary one part at a time: settings    *)
(* around every comparison and around the word's end, tenants files,       *)
(* single tenants, and query files whose entries collide with the built-in *)
(* ones by name, or by the name of a gauge.                                *)
(***************************************************************************)
EXTENDS Startup

CONSTANTS unset, garbage, nofile, broken, noid

Q(name, values) ==
    [name |-> name, values |-> values, sound |-> TRUE, interval |-> 0,
     labels |-> TRUE]

MCBuiltins == << Q(<<"files">>, << <<"count">>, <<"bytes">> >>),
                 Q(<<"top">>, << <<"files">> >>) >>
MCSelfNames == { <<"metrics", "up">> }
MCGoodIds == {"alpha", "beta"}

T(id) == [id |-> id, complete |-> TRUE, password |-> TRUE]

Base == [cycle |-> unset, timeout |-> unset, rows |-> unset, port |-> unset,
         file |-> << T("alpha"), T("beta") >>, single |-> T("Solo"),
         user |-> nofile, disabled |-> {}]

(* 4 * 15 is the last second that fits; 16, 31, 32 and 33 seconds wrap to  *)
(* the least duration, a negative one, zero and one second.                *)
Seconds == {unset, garbage, -1, 0, 1, 2, 15, 16, 31, 32, 33}

BySettings ==
    { [Base EXCEPT !.cycle = c, !.timeout = t] : c \in Seconds, t \in Seconds }
    \cup { [Base EXCEPT !.rows = n] : n \in {-1, 0, 1} }
    \cup { [Base EXCEPT !.port = n] : n \in {garbage, 0, 1, 9, 10} }

Entry == { T("alpha"), T("beta"), T("Bad id"),
           [T("alpha") EXCEPT !.complete = FALSE],
           [T("beta") EXCEPT !.password = FALSE] }

ByTenants ==
    { [Base EXCEPT !.file = f] :
        f \in {broken, << >>} \cup { <<a>> : a \in Entry }
              \cup { <<a, b>> : a \in Entry, b \in Entry } }
    \cup { [Base EXCEPT !.file = nofile, !.single = t] :
             t \in {T(noid), T("Solo"), [T("Solo") EXCEPT !.complete = FALSE],
                    [T("Solo") EXCEPT !.password = FALSE]} }

(* "top" + "files_max" is "top_files" + "max"; "metrics" + "up" is taken.  *)
UserEntry == {
    Q(<<"top">>, << <<"files">>, <<"files", "max">> >>),
    Q(<<"top", "files">>, << <<"max">> >>),
    Q(<<"metrics">>, << <<"up">> >>),
    Q(<<"twice">>, << <<"n">>, <<"n">> >>),
    Q(<<"empty">>, << >>),
    [Q(<<"files">>, << <<"bytes">> >>) EXCEPT !.interval = 3],
    [Q(<<"files">>, << <<"count">> >>) EXCEPT !.interval = -1],
    [Q(<<"top">>, << <<"size">> >>) EXCEPT !.labels = FALSE],
    [Q(<<"odd">>, << <<"n">> >>) EXCEPT !.sound = FALSE] }

ByLibrary ==
    { [Base EXCEPT !.user = u, !.disabled = d] :
        u \in {broken, << >>} \cup { <<a>> : a \in UserEntry }
              \cup { <<a, b>> : a \in UserEntry, b \in UserEntry },
        d \in { {}, { <<"files">> }, { <<"top">>, <<"unknown">> } } }

MCEnvironments == BySettings \cup ByTenants \cup ByLibrary

============================================================================
