-------------------------- MODULE MCLiveRuntime --------------------------
(* Symmetry for the model checking of LiveRuntime.                        *)
EXTENDS LiveRuntime, TLC

Symmetry == Permutations(Conns)
=============================================================================
