------------------------------ MODULE MCTracing -----------------------------
(* Instances of Tracing for TLC.                                           *)
EXTENDS Tracing
=============================================================================
