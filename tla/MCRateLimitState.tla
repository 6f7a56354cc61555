-------------------------- MODULE MCRateLimitState --------------------------
(* One instance with two models: the instance-wide state is shared, the        *)
(* model state is not.  RetryAfters has a cooldown below, at and above Ttl.    *)
EXTENDS RateLimitState, TLC

ModelSymmetry == Permutations(Models)
=============================================================================
