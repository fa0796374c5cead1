----------------------------- MODULE MCSchedule -----------------------------
(***************************************************************************)
(* Schedule for TLC: two tenants with staggers of their own and cycles of  *)
(* three units, of which a second has two.  A query runs every cycle, one  *)
(* has an interval within a cycle, one has the interval of two cycles, and *)
(* one has the least interval whose duration wraps.                        *)
(***************************************************************************)
EXTENDS Schedule, TLC

CONSTANTS t1, t2

MCTenants == {t1, t2}
MCQueries == {"every", "short", "double", "huge"}
MCSeconds == [q \in MCQueries |->
                CASE q = "every" -> 0 [] q = "short" -> 1 [] q = "double" -> 3
                  [] q = "huge" -> 8]

TenantSymmetry == Permutations(MCTenants)

=============================================================================
