---------------------------- MODULE MCPublisher ----------------------------
(***************************************************************************)
(* Publisher for TLC: two tenants that export one query with two value     *)
(* columns, two good label tuples and one the client library refuses.      *)
(* The result sets cover the cases of applyQuery: no row, one, two; a      *)
(* duplicated tuple; a cell with no number; a bad tuple after a good one,  *)
(* and a bad tuple that is never written because its cells are all Null.   *)
(***************************************************************************)
EXTENDS Publisher, TLC

CONSTANTS t1, t2, q1, c1, c2, l1, l2, bad, null

MCTenants == {t1, t2}
MCQueries == {q1}
MCColumns == {c1, c2}
MCLabels == {l1, l2, bad}
MCBadLabels == {bad}
MCValues == 0 .. 2

R(l, v1, v2) == [label |-> l, cell |-> (c1 :> v1 @@ c2 :> v2)]

MCSnapshots == {
    << >>,
    << R(l1, 1, 2) >>,
    << R(l2, 2, null), R(l1, 2, 1) >>,
    << R(l1, 1, 1), R(l1, null, 2) >>,
    << R(l2, 1, 1), R(bad, 2, null) >>,
    << R(bad, null, null), R(l2, 1, 2) >> }

============================================================================
