-------------------------------- MODULE Race --------------------------------
(***************************************************************************)
(* What a parallel route promises to its client, whatever its legs do: the *)
(* stream is a run of keep-alives, then consecutive chunks of one leg, and *)
(* a stream that ends by itself ends only after the first chunk of the leg *)
(* that won, if one did.                                                   *)
(***************************************************************************)
EXTENDS Integers, Sequences

CONSTANTS
    N,          \* the number of legs
    MaxChunks   \* bound: the chunks of one leg

VARIABLES
    winner,  \* the leg that won; 0 if none did
    last,    \* the last item the client received; the end when it reads no more
    ending   \* "no", "normal" (end of stream) or "aborted" (the client left)

raceVars == <<winner, last, ending>>

\* An item of the stream: a keep-alive, the n-th chunk of a leg, or the end.
Item(kind, l, n) == [kind |-> kind, leg |-> l, n |-> n]

HasChunk == last.kind = "chunk"

RaceInit == winner = 0 /\ last = Item("nothing", 0, 0) /\ ending = "no"

Win(l) ==
    /\ winner = 0 /\ ending = "no"
    /\ winner' = l
    /\ UNCHANGED <<last, ending>>

KeepAlive ==
    /\ ending = "no" /\ ~HasChunk
    /\ last' = Item("beat", 0, 0)
    /\ UNCHANGED <<winner, ending>>

\* The client gets the next chunk of the winner, at first any of its chunks.
Relay(n) ==
    /\ ending = "no" /\ winner # 0
    /\ HasChunk => last.leg = winner /\ n = last.n + 1
    /\ last' = Item("chunk", winner, n)
    /\ UNCHANGED <<winner, ending>>

Finish ==
    /\ ending = "no" /\ (winner # 0 => HasChunk)
    /\ ending' = "normal" /\ last' = Item("end", 0, 0)
    /\ UNCHANGED winner

Leave ==
    /\ ending = "no"
    /\ ending' = "aborted" /\ last' = Item("end", 0, 0)
    /\ UNCHANGED winner

RaceNext ==
    \/ \E l \in 1..N : Win(l)
    \/ \E n \in 1..MaxChunks : Relay(n)
    \/ KeepAlive \/ Finish \/ Leave

RaceSpec == RaceInit /\ [][RaceNext]_raceVars

=============================================================================
