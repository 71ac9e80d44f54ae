-------------------------- MODULE MCMaintenanceGate --------------------------
(***************************************************************************)
(* Two replicas whose clocks differ by one unit, a margin of two units.    *)
(***************************************************************************)
EXTENDS MaintenanceGate, TLC

CONSTANTS r1, r2

MCSkew == (r1 :> 0) @@ (r2 :> 1)
=============================================================================
