----------------------------- MODULE MCSubProxy -----------------------------
(* Model checking of SubProxy.                                             *)
EXTENDS SubProxy
=============================================================================
