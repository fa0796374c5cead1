------------------------------ MODULE MCDaemon ------------------------------
(***************************************************************************)
(* Daemon for TLC: two tenants, so that one may still connect, or hold a   *)
(* connection, while the other is down.                                    *)
(***************************************************************************)
EXTENDS Daemon, TLC

CONSTANTS t1, t2

MCTenants == {t1, t2}
MCOneTenant == {t1}
MCSlow == {}
TenantSymmetry == Permutations(MCTenants)

=============================================================================
