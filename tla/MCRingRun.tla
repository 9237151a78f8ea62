------------------------------ MODULE MCRingRun ------------------------------
(***************************************************************************)
(* Instances of RingRun for TLC.                                           *)
(***************************************************************************)
EXTENDS RingRun

CONSTANTS s1, s2, r1, noCall
=============================================================================
