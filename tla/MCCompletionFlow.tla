-------------------------- MODULE MCCompletionFlow --------------------------
(***************************************************************************)
(* Small instances of CompletionFlow; the .cfg files choose which providers *)
(* errors, streams and cancellations a run has.                            *)
(***************************************************************************)
EXTENDS CompletionFlow, TLC

Symmetry == Permutations(Requests) \cup Permutations(Instances)

=============================================================================
