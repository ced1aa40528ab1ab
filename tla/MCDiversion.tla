---------------------------- MODULE MCDiversion ----------------------------
(* Model checking of Diversion.                                            *)
EXTENDS Diversion
=============================================================================
