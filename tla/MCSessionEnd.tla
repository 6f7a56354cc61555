---------------------------- MODULE MCSessionEnd ----------------------------
(* The end of a session for TLC: two overlapping requests share an id, one of *)
(* their backend calls is repeated, the proxy restarts at most once, and the  *)
(* cache of ended ids may expire at any time.                                 *)
EXTENDS SessionEnd
=============================================================================
