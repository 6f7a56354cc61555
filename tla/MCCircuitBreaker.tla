-------------------------- MODULE MCCircuitBreaker --------------------------
(* Two instances, so that what happens to one is seen not to touch the other;  *)
(* thresholds of 2, so that every counter has an intermediate value.           *)
EXTENDS CircuitBreaker, TLC

InstanceSymmetry == Permutations(Instances)
=============================================================================
