----------------------------- MODULE MCOverrun -----------------------------
(***************************************************************************)
(* Overrun for TLC: one tenant, for tenants share nothing here, and three  *)
(* queries of which two are within reach of every cycle, the second with   *)
(* an interval of two cycles.                                              *)
(***************************************************************************)
EXTENDS Overrun

CONSTANT t1

MCTenants == {t1}
MCQueries == {"first", "slow", "last"}
MCPlace == [q \in MCQueries |->
              CASE q = "first" -> 1 [] q = "slow" -> 2 [] q = "last" -> 3]
MCSeconds == [q \in MCQueries |-> IF q = "slow" THEN 12 ELSE 0]

============================================================================
