------------------------------ MODULE MCFleetRun ------------------------------
(***************************************************************************)
(* Instances of FleetRun for TLC.                                          *)
(***************************************************************************)
EXTENDS FleetRun

CONSTANTS s1, s2, s3, r1, p1, noCall
=============================================================================
