--------------------------- MODULE MCRequestDedup ---------------------------
(***************************************************************************)
(* Two places for requests and two contents in a cache with room for one:  *)
(* an eviction needs a third arrival, which a place that is free again     *)
(* makes.  One second for completed entries, two for streams in flight.    *)
(***************************************************************************)
EXTENDS RequestDedup
=============================================================================
