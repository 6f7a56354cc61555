-------------------------- MODULE MCParallelRacer --------------------------
(***************************************************************************)
(* A race of two legs: the first starts at once and has a watchdog, the    *)
(* second is delayed.                                                      *)
(***************************************************************************)
EXTENDS ParallelRacer

MCHandicap == <<1, 0>>

=============================================================================
