---------------------------- MODULE MCController ----------------------------
(* Model checking of Controller.                                           *)
EXTENDS Controller, TLC

\* The configurations with ports are interchangeable (safety runs only).
RuleSymmetry == Permutations(Rules)

\* Behaviours are not followed beyond the second NewEnv once a reload has been
\* dropped: nothing repairs the host then, and the properties of it are void.
OneSessionAfterDrop == dropped => proxy.gen <= 1
=============================================================================
