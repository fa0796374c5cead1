------------------------------ MODULE MCRunner ------------------------------
(***************************************************************************)
(* Runner for TLC: the overlap of a tenant's cycles is within one tenant,  *)
(* so one is enough; the inbox is small enough to be full.                 *)
(***************************************************************************)
EXTENDS Runner, TLC

CONSTANTS t1

MCTenants == {t1}
MCSlow == {2}
MCNone == {}

=============================================================================
