----------------------------- MODULE MCConductor ----------------------------
(* Instances of Conductor for TLC.                                         *)
EXTENDS Conductor
=============================================================================
