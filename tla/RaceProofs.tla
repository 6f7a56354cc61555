----------------------------- MODULE RaceProofs -----------------------------
(***************************************************************************)
(* ParallelRacer implements Race: whatever the legs, the backends, the     *)
(* clocks and the client do, the client sees keep-alives, then consecutive *)
(* chunks of the one leg that won, and a regular end only after the first  *)
(* of them.                                                                *)
(*                                                                         *)
(* What the client will see is what it has seen last followed by what is   *)
(* on the queue.  ClientInv says that this sequence is in order, item by   *)
(* item, and that its newest item agrees with where the winner is in its   *)
(* stream; an item put at one end and an item taken at the other keep it.  *)
(***************************************************************************)
EXTENDS ParallelRacerProofs

---------------------------------------------------------------------------
(* The invariant of what the client sees                                    *)

\* The client's view: what it received last, then the items of the queue.
Seen(i) == IF i = 0 THEN last ELSE queue[i]

(* What may come after an item: no keep-alive after a chunk, the chunks      *)
(* without a gap, and the end after a chunk when there is a winner.          *)
Follows(a, b) ==
    /\ b.kind = "beat" => a.kind # "chunk"
    /\ b.kind = "chunk" /\ a.kind = "chunk" => b.n = a.n + 1
    /\ b.kind = "end" /\ winner # 0 => a.kind \in {"chunk", "end"}

\* Only a winner that has put out its first chunk has chunks there.
Legit(i) ==
    /\ Seen(i).kind = "chunk" => emitted /\ Seen(i).leg = winner /\ Seen(i).n > 0
    /\ Seen(i).kind = "nothing" => i = 0
    /\ Seen(i).kind = "beat" => Seen(i) = Beat
    /\ Seen(i).kind = "end" => Seen(i) = Finis

\* While the client reads it has not seen the end, and all it will see is legitimate.
SeenInv ==
    reader = "reading" =>
        /\ finished = FALSE /\ last.kind # "end"
        /\ \A i \in 0..Len(queue) : Legit(i)

\* It will see it in order.
OrderInv ==
    reader = "reading" =>
        \A i \in 0..Len(queue) : i < Len(queue) => Follows(Seen(i), Seen(i + 1))

\* The item that was put last.
Newest == Seen(Len(queue))

(* After the winner's first chunk the newest item is a chunk, the one that   *)
(* the winner pulled last or the one before the chunk it has in hand, or     *)
(* the end.                                                                  *)
NewestInv ==
    reader = "reading" /\ emitted =>
        /\ Newest.kind \in {"chunk", "end"}
        /\ Newest.kind = "chunk" =>
             /\ pc[winner] \in {"reap", "pulling"} => pulled[winner] = Newest.n
             /\ pc[winner] = "check" => pulled[winner] = Newest.n + 1

\* A leg with a chunk in hand has pulled one.
PulledInv == \A l \in Legs : pc[l] \in {"check", "claim", "announce", "emit"} => pulled[l] > 0

\* The invariant of what the client sees.
ClientInv == SeenInv /\ OrderInv /\ NewestInv /\ PulledInv

\* The inductive invariant of the refinement.
ClientIInv == IInv /\ ClientInv

---------------------------------------------------------------------------
(* Putting and taking an item                                                *)

\* put_nowait adds to the end of the view of a client that reads.
LEMMA PutEffect ==
  ASSUME QueueType, reader = "reading", NEW x \in Items, Put(x), last' = last
  PROVE  /\ Len(queue) \in Nat /\ Len(queue') = Len(queue) + 1
         /\ \A i \in 0..Len(queue) : Seen(i)' = Seen(i)
         /\ Newest' = x
         /\ \A i \in 0..Len(queue') :
              i \in 0..Len(queue) \/ (i = Len(queue) + 1 /\ Seen(i)' = x)
  <1>1. queue \in Seq(Items) /\ queue' = Append(queue, x)
    BY DEF QueueType, Put
  <1>2. Len(queue) \in Nat /\ Len(queue') = Len(queue) + 1 /\ queue'[Len(queue) + 1] = x
    BY <1>1
  <1>3. \A i \in 1..Len(queue) : queue'[i] = queue[i]
    BY <1>1
  <1> QED
    BY <1>2, <1>3 DEF Seen, Newest

\* get takes what the client sees next and shifts the view by one.
LEMMA TakeEffect ==
  ASSUME QueueType, queue # <<>>, last' = Head(queue), queue' = Tail(queue)
  PROVE  /\ Len(queue') \in Nat /\ Len(queue) = Len(queue') + 1
         /\ \A i \in 0..Len(queue') : Seen(i)' = Seen(i + 1)
         /\ Newest' = Newest
  <1>1. queue \in Seq(Items) /\ Len(queue) \in Nat \ {0} /\ Head(queue) = queue[1]
    BY DEF QueueType
  <1>2. Len(queue') = Len(queue) - 1 /\ \A i \in 1..Len(queue) - 1 : queue'[i] = queue[i + 1]
    BY <1>1
  <1>3. \A i \in 0..Len(queue') : Seen(i)' = Seen(i + 1)
    BY <1>1, <1>2 DEF Seen
  <1> QED
    BY <1>1, <1>2, <1>3 DEF Newest

\* Without a put or a get the view is the same.
LEMMA SameQueue ==
  ASSUME UNCHANGED <<queue, last>>
  PROVE  Newest' = Newest /\ \A i : Seen(i)' = Seen(i)
  BY DEF Newest, Seen

\* A legitimate item that may follow the newest one keeps the view in order.
LEMMA PutInv ==
  ASSUME Types, ClientInv, reader = "reading", NEW x \in Items, Put(x),
         UNCHANGED <<last, reader, finished, winner>>, emitted => emitted',
         x.kind = "chunk" => emitted' /\ x.leg = winner /\ x.n > 0,
         x.kind # "nothing", x.kind = "beat" => x = Beat, x.kind = "end" => x = Finis,
         Follows(Newest, x)
  PROVE  SeenInv' /\ OrderInv' /\ Newest' = x
  <1> USE DEF Types
  <1>1. \A i \in 0..Len(queue') : Legit(i)'
    <2>1. TAKE i \in 0..Len(queue')
    <2>2. CASE i \in 0..Len(queue)
      BY <2>2, PutEffect DEF ClientInv, SeenInv, Legit
    <2>3. CASE i = Len(queue) + 1
      <3>1. Seen(i)' = x /\ i # 0
        BY <2>3, PutEffect
      <3> QED
        BY <3>1 DEF Legit
    <2> QED
      BY <2>2, <2>3, PutEffect
  <1>2. ASSUME NEW i \in 0..Len(queue'), i < Len(queue')
        PROVE  Follows(Seen(i), Seen(i + 1))'
    <2>1. i \in 0..Len(queue) /\ i + 1 \in 0..Len(queue')
      BY <1>2, PutEffect
    <2>2. CASE i < Len(queue)
      <3>1. i + 1 \in 0..Len(queue) /\ Follows(Seen(i), Seen(i + 1))
        BY <2>1, <2>2, PutEffect DEF ClientInv, OrderInv
      <3>2. Seen(i)' = Seen(i) /\ Seen(i + 1)' = Seen(i + 1)
        BY <2>1, <3>1, PutEffect
      <3> QED
        BY <3>1, <3>2 DEF Follows
    <2>3. CASE i = Len(queue)
      <3>1. Seen(i)' = Newest /\ Seen(i + 1)' = x
        BY <2>1, <2>3, PutEffect DEF Newest
      <3> QED
        BY <3>1 DEF Follows
    <2> QED
      BY <2>1, <2>2, <2>3, PutEffect
  <1> QED
    BY <1>1, <1>2, PutEffect DEF SeenInv, OrderInv, ClientInv

(* A step of a leg that puts nothing keeps the invariant, if the winner      *)
(* leaves its stream, goes on to it, or pulls its next chunk.                *)
LEMMA ClientFrame ==
  ASSUME Types, WinInv, ClientInv, NEW l \in Legs,
         UNCHANGED <<queue, last, reader, finished, emitted, winner>>,
         \A m \in Legs \ {l} : pc'[m] = pc[m] /\ pulled'[m] = pulled[m],
         pc'[l] \in {"check", "claim", "announce", "emit"} => pulled'[l] > 0,
         \/ winner # l \/ ~emitted
         \/ pc'[l] \notin {"reap", "pulling", "check"}
         \/ pc[l] \in {"reap", "pulling"} /\ pc'[l] = "pulling" /\ pulled'[l] = pulled[l]
         \/ pc[l] \in {"reap", "pulling"} /\ pc'[l] = "check" /\ pulled'[l] = pulled[l] + 1
  PROVE  ClientInv'
  <1>1. SeenInv' /\ OrderInv' /\ Newest' = Newest
    BY SameQueue DEF ClientInv, SeenInv, OrderInv, Legit, Follows
  <1>2. PulledInv'
    BY DEF ClientInv, PulledInv
  <1>3. NewestInv'
    <2>1. SUFFICES ASSUME reader = "reading", emitted PROVE NewestInv'
      BY DEF NewestInv
    <2>2. CASE winner = l
      BY <1>1, <2>1, <2>2 DEF ClientInv, NewestInv
    <2>3. CASE winner \in Legs \ {l}
      BY <1>1, <2>1, <2>3 DEF ClientInv, NewestInv
    <2>4. CASE winner = 0
      BY <2>1, <2>4 DEF WinInv
    <2> QED
      BY <2>2, <2>3, <2>4 DEF Types, LegType, Legs
  <1> QED
    BY <1>1, <1>2, <1>3 DEF ClientInv

\* The end may be put unless a client that reads awaits the winner's first chunk.
LEMMA EndPut ==
  ASSUME Types, ClientInv, Put(Finis), winner # 0 /\ reader = "reading" => emitted,
         UNCHANGED <<pc, pulled, last, reader, finished, emitted, winner>>
  PROVE  ClientInv'
  <1> USE DEF Types
  <1>1. PulledInv'
    BY DEF ClientInv, PulledInv
  <1>2. CASE reader = "reading"
    <2>1. Finis \in Items /\ Finis.kind = "end"
      BY ItemTypes DEF Finis, Item
    <2>2. Follows(Newest, Finis)
      BY <1>2, <2>1 DEF Follows, ClientInv, NewestInv
    <2>3. SeenInv' /\ OrderInv' /\ Newest' = Finis
      BY <1>2, <2>1, <2>2, PutInv
    <2>4. NewestInv'
      BY <2>1, <2>3 DEF NewestInv
    <2> QED
      BY <1>1, <2>3, <2>4 DEF ClientInv
  <1>3. CASE reader # "reading"
    BY <1>1, <1>3 DEF ClientInv, SeenInv, OrderInv, NewestInv
  <1> QED
    BY <1>2, <1>3

---------------------------------------------------------------------------
(* The invariant is kept                                                     *)

(* A leg puts a chunk only as the winner, its first one before any other and *)
(* then each chunk that it pulls; a claim finds no end on the queue, because *)
(* it looks at race_stopped (_run_leg).                                      *)
LEMMA ClientLegStep ==
  ASSUME Types, WinInv, StopInv, ClientInv, NEW l \in Legs,
         LegStep(l) \/ Outside(l) \/ WatchdogReturns(l)
  PROVE  ClientInv'
  <1> USE DEF Types
  <1> DEFINE calm == UNCHANGED <<queue, last, reader, finished, emitted, winner>>
  <1>1. winner \in Legs \cup {0} /\ 0 \notin Legs
    BY RacerAssumption DEF LegType, Legs
  <1>2. ASSUME Return(l), calm,
               \A m \in Legs \ {l} : pulled'[m] = pulled[m]
        PROVE  ClientInv'
    BY <1>2, ReturnEffect, ClientFrame
  <1>3. ASSUME NEW where \in Wheres, Goto(l, where), calm, pulled' = pulled,
               \/ where \in {"gate", "failed", "done"}
               \/ where = "pulling" /\ (pc[l] = "reap" \/ winner # l)
               \/ where \in {"emit", "claim"} /\ pc[l] \in {"announce", "check"}
        PROVE  ClientInv'
    <2>1. pc'[l] = where /\ \A m \in Legs \ {l} : pc'[m] = pc[m]
      BY <1>3, GotoEffect
    <2>2. where \in {"emit", "claim"} => pulled[l] > 0
      BY <1>3 DEF ClientInv, PulledInv
    <2> QED
      BY <1>3, <2>1, <2>2, ClientFrame
  <1>4. ASSUME UNCHANGED <<pc, pulled>>, calm PROVE ClientInv'
    <2>1. Newest' = Newest
      BY <1>4, SameQueue
    <2> QED
      BY <1>4, <2>1, SameQueue
      DEF ClientInv, SeenInv, OrderInv, Legit, Follows, NewestInv, PulledInv
  <1>5. CASE LeaveDelay(l)
    BY <1>2, <1>3, <1>5 DEF LeaveDelay, Wheres, winVars, others, readerVars
  <1>6. CASE Gate(l)
    <2>1. CASE winner # 0
      BY <1>2, <1>6, <2>1 DEF Gate, winVars, others, readerVars
    <2>2. CASE winner = 0
      <3>1. pc'[l] = "calling" /\ pulled' = pulled /\ \A m \in Legs \ {l} : pc'[m] = pc[m]
        BY <1>6, <2>2 DEF Gate, CtlType
      <3>2. calm
        BY <1>6 DEF Gate, winVars, others, readerVars
      <3> QED
        BY <3>1, <3>2, ClientFrame
    <2> QED
      BY <2>1, <2>2
  <1>7. CASE CallAnswers(l) \/ WatchdogFires(l) \/ WatchdogReturns(l)
    BY <1>4, <1>7 DEF CallAnswers, WatchdogFires, WatchdogReturns, legVars, winVars, others,
                      readerVars
  <1>8. CASE CallFails(l) \/ Resume(l)
    <2>1. winner # l
      BY <1>1, <1>8 DEF CallFails, Resume, Runs, WinInv
    <2> QED
      BY <1>2, <1>3, <1>8, <2>1
      DEF CallFails, Resume, Fail, Wheres, winVars, others, readerVars
  <1>9. CASE Pull(l)
    <2>1. /\ calm /\ pc[l] = "pulling" /\ pulled'[l] = pulled[l] + 1 /\ pulled[l] \in Nat
          /\ \A m \in Legs \ {l} : pulled'[m] = pulled[m]
      BY <1>9 DEF Pull, Runs, LegType, winVars, others, readerVars
    <2>2. CASE ShouldStop
      BY <1>2, <1>9, <2>1, <2>2 DEF Pull
    <2>3. CASE ~ShouldStop
      <3>1. pc'[l] = "check" /\ \A m \in Legs \ {l} : pc'[m] = pc[m]
        BY <1>9, <2>3, GotoEffect DEF Pull, Wheres
      <3>2. pulled'[l] > 0
        BY <2>1
      <3> QED
        BY <2>1, <3>1, <3>2, ClientFrame
    <2> QED
      BY <2>2, <2>3
  <1>10. CASE StreamEnds(l)
    BY <1>2, <1>3, <1>10 DEF StreamEnds, Fail, Wheres, winVars, others, readerVars
  <1>11. CASE Check(l)
    <2>1. /\ pc[l] = "check" /\ pulled' = pulled /\ pulled[l] \in 0..MaxChunks /\ pulled[l] > 0
          /\ UNCHANGED <<last, reader, finished, emitted, winner>>
      BY <1>11 DEF Check, Runs, LegType, ClientInv, PulledInv, winVars, others, readerVars
    <2>2. CASE winner = l /\ Put(Item("chunk", l, pulled[l])) /\ Goto(l, "pulling")
      <3>1. pc'[l] = "pulling" /\ \A m \in Legs \ {l} : pc'[m] = pc[m]
        BY <2>2, GotoEffect DEF Wheres
      <3>2. PulledInv'
        BY <2>1, <3>1 DEF ClientInv, PulledInv
      <3>3. CASE reader = "reading"
        <4> DEFINE x == Item("chunk", l, pulled[l])
        <4>1. /\ x \in Items /\ x.kind = "chunk" /\ x.leg = winner /\ x.n = pulled[l]
              /\ x.n > 0
          BY <2>1, <2>2, ItemTypes DEF Item
        <4>2. emitted
          BY <1>1, <2>1, <2>2 DEF WinInv
        <4>3. Follows(Newest, x)
          BY <2>1, <2>2, <3>3, <4>1, <4>2 DEF Follows, ClientInv, NewestInv
        <4> HIDE DEF x
        <4>4. Put(x)
          BY <2>2 DEF x
        <4>5. SeenInv' /\ OrderInv' /\ Newest' = x
          BY <2>1, <3>3, <4>1, <4>2, <4>3, <4>4, PutInv
        <4>6. NewestInv'
          BY <2>1, <2>2, <3>1, <4>1, <4>5 DEF NewestInv
        <4> QED
          BY <3>2, <4>5, <4>6 DEF ClientInv
      <3>4. CASE reader # "reading"
        BY <2>1, <3>2, <3>4 DEF ClientInv, SeenInv, OrderInv, NewestInv
      <3> QED
        BY <3>3, <3>4
    <2>3. CASE winner = 0 /\ UNCHANGED queue /\ (Goto(l, "claim") \/ Goto(l, "pulling"))
      BY <1>1, <1>3, <2>1, <2>3 DEF Wheres
    <2>4. CASE UNCHANGED queue /\ Fail(l)
      BY <1>3, <2>1, <2>4 DEF Fail, Wheres
    <2>5. CASE UNCHANGED queue /\ Return(l)
      BY <1>2, <2>1, <2>5
    <2> QED
      BY <1>11, <2>2, <2>3, <2>4, <2>5 DEF Check
  <1>12. CASE Claim(l)
    <2>1. CASE winner = 0 /\ ~ShouldStop
      <3>1. /\ winner' = l /\ pc'[l] = "announce" /\ pc[l] = "claim"
            /\ \A m \in Legs \ {l} : pc'[m] = pc[m]
            /\ UNCHANGED <<queue, last, reader, finished, emitted, pulled>>
        BY <1>12, <2>1 DEF Claim, Runs, CtlType, others, readerVars
      <3>2. ~emitted /\ ~EndQueued
        BY <2>1 DEF WinInv, StopInv, ShouldStop
      <3>3. PulledInv'
        BY <3>1 DEF ClientInv, PulledInv
      <3>4. ASSUME reader = "reading", NEW i \in 0..Len(queue)
            PROVE  Seen(i).kind \notin {"chunk", "end"}
        BY <3>2, <3>4 DEF ClientInv, SeenInv, Legit, Seen, EndQueued
      <3>5. SeenInv'
        BY <3>1, <3>4, SameQueue DEF ClientInv, SeenInv, Legit
      <3>6. OrderInv'
        <4>1. SUFFICES ASSUME reader = "reading", NEW i \in 0..Len(queue), i < Len(queue)
                       PROVE  Follows(Seen(i), Seen(i + 1))'
          BY <3>1 DEF OrderInv
        <4>2. i + 1 \in 0..Len(queue) /\ Follows(Seen(i), Seen(i + 1))
          BY <4>1 DEF ClientInv, OrderInv, QueueType
        <4>3. Seen(i)' = Seen(i) /\ Seen(i + 1)' = Seen(i + 1) /\ Seen(i + 1).kind # "end"
          BY <3>1, <3>4, <4>1, <4>2, SameQueue
        <4> QED
          BY <4>2, <4>3 DEF Follows
      <3>7. NewestInv'
        BY <3>1, <3>2 DEF NewestInv
      <3> QED
        BY <3>3, <3>5, <3>6, <3>7 DEF ClientInv
    <2>2. CASE ~(winner = 0 /\ ~ShouldStop)
      <3>1. winner # l
        BY <1>1, <1>12 DEF Claim, Runs, WinInv
      <3> QED
        BY <1>3, <1>12, <2>2, <3>1 DEF Claim, Wheres, others, readerVars
    <2> QED
      BY <2>1, <2>2
  <1>13. CASE StopLosers(l) \/ ReapLosers(l) \/ Hurry(l)
    BY <1>3, <1>13
    DEF StopLosers, ReapLosers, Hurry, Runs, Wheres, winVars, others, readerVars
  <1>14. CASE EmitFirst(l)
    <2>1. /\ pc[l] = "emit" /\ winner = l /\ emitted' = TRUE /\ pc'[l] = "reap"
          /\ \A m \in Legs \ {l} : pc'[m] = pc[m]
          /\ UNCHANGED <<last, reader, finished, winner, pulled>>
      BY <1>14 DEF EmitFirst, Runs, WinInv, CtlType, others, readerVars
    <2>2. pulled[l] \in 0..MaxChunks /\ pulled[l] > 0 /\ ~emitted
      BY <1>1, <2>1 DEF LegType, ClientInv, PulledInv, WinInv
    <2>3. PulledInv'
      BY <2>1 DEF ClientInv, PulledInv
    <2>4. CASE reader = "reading"
      <3> DEFINE x == Item("chunk", l, pulled[l])
      <3>1. x \in Items /\ x.kind = "chunk" /\ x.leg = winner /\ x.n = pulled[l] /\ x.n > 0
        BY <2>1, <2>2, ItemTypes DEF Item
      <3>2. Len(queue) \in 0..Len(queue)
        BY DEF QueueType
      <3>3. Newest.kind # "chunk"
        BY <2>2, <2>4, <3>2 DEF ClientInv, SeenInv, Legit, Newest
      <3>4. Follows(Newest, x)
        BY <3>1, <3>3 DEF Follows
      <3> HIDE DEF x
      <3>5. Put(x)
        BY <1>14 DEF EmitFirst, x
      <3>6. SeenInv' /\ OrderInv' /\ Newest' = x
        BY <2>1, <2>4, <3>1, <3>4, <3>5, PutInv
      <3>7. NewestInv'
        BY <2>1, <3>1, <3>6 DEF NewestInv
      <3> QED
        BY <2>3, <3>6, <3>7 DEF ClientInv
    <2>5. CASE reader # "reading"
      BY <2>1, <2>3, <2>5 DEF ClientInv, SeenInv, OrderInv, NewestInv
    <2> QED
      BY <2>4, <2>5
  <1>15. CASE Accelerate(l)
    BY <1>2, <1>15 DEF Accelerate, winVars, others, readerVars
  <1>16. CASE Unwind(l)
    BY <1>2, <1>3, <1>16 DEF Unwind, Wheres, winVars, others, readerVars
  <1> QED
    BY <1>5, <1>6, <1>7, <1>8, <1>9, <1>10, <1>11, <1>12, <1>13, <1>14, <1>15, <1>16
    DEF LegStep, Outside, Start, Expire

(* The keep-alive loop puts nothing after a claim, the watcher and the       *)
(* orchestrator end the stream after the winner's first chunk, and the       *)
(* reader takes one item at a time.                                          *)
LEMMA ClientStep ==
  ASSUME Types, WinInv, StopInv, ClientInv, [Next]_vars
  PROVE  ClientInv'
  <1> USE DEF Types
  <1>1. ASSUME NEW l \in Legs, LegStep(l) \/ Outside(l) \/ WatchdogReturns(l) PROVE ClientInv'
    BY <1>1, ClientLegStep
  <1>2. CASE KeepAlive
    <2>1. /\ winner = 0 /\ ~emitted
          /\ UNCHANGED <<pc, pulled, last, reader, finished, emitted, winner>>
      BY <1>2 DEF KeepAlive, WinInv, legVars, winVars, readerVars
    <2>2. PulledInv' /\ NewestInv'
      BY <2>1 DEF ClientInv, PulledInv, NewestInv
    <2>3. CASE reader = "reading"
      <3>1. Beat \in Items /\ Beat.kind = "beat"
        BY ItemTypes DEF Beat, Item
      <3>2. Len(queue) \in 0..Len(queue)
        BY DEF QueueType
      <3>3. Newest.kind # "chunk"
        BY <2>1, <2>3, <3>2 DEF ClientInv, SeenInv, Legit, Newest
      <3>4. SeenInv' /\ OrderInv'
        BY <1>2, <2>1, <2>3, <3>1, <3>3, PutInv DEF KeepAlive, Follows
      <3> QED
        BY <2>2, <3>4 DEF ClientInv
    <2>4. CASE reader # "reading"
      BY <2>1, <2>2, <2>4 DEF ClientInv, SeenInv, OrderInv
    <2> QED
      BY <2>3, <2>4
  <1>3. CASE ClientCancels \/ CancelAllLegs \/ WatcherWakes \/ UNCHANGED vars
    <2>1. UNCHANGED <<pc, pulled, queue, last, reader, finished, emitted, winner>>
      BY <1>3
      DEF ClientCancels, CancelAllLegs, WatcherWakes, vars, legVars, winVars, readerVars
    <2>2. Newest' = Newest
      BY <2>1, SameQueue
    <2> QED
      BY <2>1, <2>2, SameQueue
      DEF ClientInv, SeenInv, OrderInv, Legit, Follows, NewestInv, PulledInv
  <1>4. CASE WatcherSweeps
    <2>1. UNCHANGED <<pc, pulled, last, reader, finished, emitted, winner>>
      BY <1>4 DEF WatcherSweeps, legVars, winVars, readerVars
    <2>2. CASE queue' = queue
      <3>1. Newest' = Newest
        BY <2>1, <2>2, SameQueue
      <3> QED
        BY <2>1, <2>2, <3>1, SameQueue
        DEF ClientInv, SeenInv, OrderInv, Legit, Follows, NewestInv, PulledInv
    <2>3. CASE wpos = N + 1 /\ Put(Finis)
      <3>1. ~FirstChunkAwaited
        BY <1>4, <2>3, RacerAssumption DEF WatcherSweeps, StopInv
      <3>2. winner # 0 /\ reader = "reading" => emitted
        BY <3>1 DEF FirstChunkAwaited, WinInv
      <3> QED
        BY <2>1, <2>3, <3>2, EndPut
    <2> QED
      BY <1>4, <2>2, <2>3 DEF WatcherSweeps
  <1>5. CASE Orchestrated
    <2>1. UNCHANGED <<pc, pulled, last, reader, finished, emitted, winner>> /\ Put(Finis)
      BY <1>5 DEF Orchestrated, legVars, winVars, readerVars
    <2>2. winner # 0 => winner \in Legs /\ pc[winner] = "done"
      BY <1>5, RacerAssumption DEF Orchestrated, Alive, LegType, Legs
    <2>3. winner # 0 /\ reader = "reading" => emitted
      BY <2>2 DEF WinInv
    <2> QED
      BY <2>1, <2>3, EndPut
  <1>6. CASE Deliver
    <2>1. UNCHANGED <<pc, pulled, winner, emitted>>
      BY <1>6 DEF Deliver, legVars, winVars
    <2>2. PulledInv'
      BY <2>1 DEF ClientInv, PulledInv
    <2>3. CASE Head(queue) # Finis
      <3>1. /\ reader = "reading" /\ reader' = "reading" /\ queue # <<>> /\ finished' = finished
            /\ last' = Head(queue) /\ queue' = Tail(queue)
        BY <1>6, <2>3 DEF Deliver
      <3>2. /\ Len(queue') \in Nat /\ Len(queue) = Len(queue') + 1 /\ Newest' = Newest
            /\ \A i \in 0..Len(queue') : Seen(i)' = Seen(i + 1)
        BY <3>1, TakeEffect
      <3>3. \A i \in 0..Len(queue') : Legit(i)'
        <4>1. TAKE i \in 0..Len(queue')
        <4>2. i + 1 \in 0..Len(queue) /\ i + 1 # 0
          BY <3>2
        <4>3. Legit(i + 1)
          BY <3>1, <4>2 DEF ClientInv, SeenInv
        <4> QED
          BY <2>1, <3>2, <4>2, <4>3 DEF Legit
      <3>4. last'.kind # "end"
        <4>1. 1 \in 0..Len(queue) /\ Seen(1) = Head(queue)
          BY <3>1, <3>2 DEF Seen, QueueType
        <4> QED
          BY <2>3, <3>1, <4>1 DEF ClientInv, SeenInv, Legit
      <3>5. OrderInv'
        <4>1. SUFFICES ASSUME NEW i \in 0..Len(queue'), i < Len(queue')
                       PROVE  Follows(Seen(i), Seen(i + 1))'
          BY DEF OrderInv
        <4>2. /\ i + 1 \in 0..Len(queue) /\ i + 1 < Len(queue)
              /\ i + 1 \in 0..Len(queue') /\ (i + 1) + 1 = i + 2
          BY <3>2, <4>1
        <4>3. Follows(Seen(i + 1), Seen((i + 1) + 1))
          BY <3>1, <4>2 DEF ClientInv, OrderInv
        <4>4. Seen(i)' = Seen(i + 1) /\ Seen(i + 1)' = Seen((i + 1) + 1)
          BY <3>2, <4>2
        <4> QED
          BY <2>1, <4>3, <4>4 DEF Follows
      <3>6. NewestInv'
        BY <2>1, <3>1, <3>2 DEF ClientInv, NewestInv
      <3> QED
        BY <2>2, <3>1, <3>3, <3>4, <3>5, <3>6 DEF ClientInv, SeenInv
    <2>4. CASE Head(queue) = Finis
      BY <1>6, <2>2, <2>4 DEF Deliver, ClientInv, SeenInv, OrderInv, NewestInv
    <2> QED
      BY <2>3, <2>4
  <1>7. CASE ReaderLeaves \/ Cleanup
    <2>1. UNCHANGED <<pc, pulled>> /\ reader' # "reading"
      BY <1>7 DEF ReaderLeaves, Cleanup, CleanupSweeps, CleanupReaps, CleanupEnds, legVars
    <2> QED
      BY <2>1 DEF ClientInv, SeenInv, OrderInv, NewestInv, PulledInv
  <1> QED
    BY <1>1, <1>2, <1>3, <1>4, <1>5, <1>6, <1>7 DEF Next, Watcher, Finished

(* Throughout every race the items on the queue and the last one received    *)
(* are consecutive, all from the winner, and end only after its first chunk. *)
THEOREM ClientInvariance == Spec => []ClientIInv
  <1>1. Init => ClientIInv
    <2> SUFFICES ASSUME Init PROVE ClientInv
      BY InvInit DEF ClientIInv
    <2>1. Len(queue) = 0 /\ Seen(0) = Nothing /\ ~emitted /\ finished = FALSE
      BY DEF Init, Seen
    <2>2. Nothing.kind = "nothing"
      BY DEF Nothing, Item
    <2>3. \A i \in 0..Len(queue) : i = 0
      BY <2>1
    <2>4. SeenInv
      BY <2>1, <2>2, <2>3 DEF Init, SeenInv, Legit
    <2>5. OrderInv /\ NewestInv /\ PulledInv
      BY <2>1, <2>3 DEF Init, OrderInv, NewestInv, PulledInv
    <2> QED
      BY <2>4, <2>5 DEF ClientInv
  <1>2. ClientIInv /\ [Next]_vars => ClientIInv'
    <2> SUFFICES ASSUME ClientIInv, [Next]_vars PROVE ClientIInv'
      OBVIOUS
    <2>1. IInv' /\ Types /\ WinInv /\ StopInv /\ ClientInv
      BY InvStep, TypeParts DEF ClientIInv, IInv
    <2> QED
      BY <2>1, ClientStep DEF ClientIInv
  <1> QED
    BY <1>1, <1>2, PTL DEF Spec

---------------------------------------------------------------------------
(* The refinement                                                            *)

\* The race starts where Race starts.
LEMMA RaceInitial == Init => R!RaceInit
  BY DEF Init, R!RaceInit, R!Item, Nothing, Item

(* A claim is Race's Win, the delivery of an item its KeepAlive, Relay or    *)
(* Finish, a client that leaves its Leave; every other step of a task is     *)
(* invisible to the client.                                                  *)
LEMMA RaceStep ==
  ASSUME ClientIInv, [Next]_vars
  PROVE  [R!RaceNext]_R!raceVars
  <1>1. Types /\ WinInv /\ StopInv /\ ClientInv
    BY TypeParts DEF ClientIInv, IInv
  <1>2. ASSUME UNCHANGED <<winner, last, reader, finished>> PROVE UNCHANGED R!raceVars
    BY <1>2 DEF R!raceVars
  <1>3. ASSUME NEW l \in Legs, Claim(l) PROVE [R!RaceNext]_R!raceVars
    <2>1. CASE winner = 0 /\ ~ShouldStop
      <3>1. reader = "reading" /\ winner' = l /\ UNCHANGED <<last, reader, finished>>
        BY <1>1, <1>3, <2>1 DEF Claim, ShouldStop, StopInv, others, readerVars
      <3>2. R!Win(l)
        BY <2>1, <3>1 DEF R!Win
      <3> QED
        BY <3>2 DEF R!RaceNext, Legs
    <2>2. CASE ~(winner = 0 /\ ~ShouldStop)
      BY <1>2, <1>3, <2>2 DEF Claim, others, readerVars
    <2> QED
      BY <2>1, <2>2
  <1>4. ASSUME NEW l \in Legs, LegStep(l) \/ Outside(l) \/ WatchdogReturns(l), ~Claim(l)
        PROVE  UNCHANGED R!raceVars
    BY <1>2, <1>4
    DEF LegStep, Outside, WatchdogReturns, Start, Expire, LeaveDelay, Gate, Resume,
         Check, StopLosers, EmitFirst, ReapLosers, Accelerate, Hurry, Unwind, CallAnswers,
         CallFails, Pull, StreamEnds, WatchdogFires, winVars, others, readerVars
  <1>5. CASE \/ KeepAlive \/ ClientCancels \/ CancelAllLegs \/ Watcher \/ Orchestrated
             \/ UNCHANGED vars
    BY <1>2, <1>5
    DEF KeepAlive, ClientCancels, CancelAllLegs, Watcher, WatcherWakes, WatcherSweeps,
         Orchestrated, vars, winVars, readerVars
  <1>6. CASE Cleanup
    <2>1. /\ reader # "reading" /\ reader' # "reading"
          /\ UNCHANGED <<winner, last, finished>>
      BY <1>6 DEF Cleanup, CleanupSweeps, CleanupReaps, CleanupEnds, winVars
    <2> QED
      BY <2>1 DEF R!raceVars
  <1>7. CASE Deliver
    <2>1. /\ reader = "reading" /\ queue # <<>> /\ winner' = winner /\ finished = FALSE
      BY <1>1, <1>7 DEF Deliver, winVars, ClientInv, SeenInv
    <2>2. /\ Len(queue) \in Nat /\ 0 < Len(queue) /\ 0 \in 0..Len(queue) /\ 1 \in 0..Len(queue)
          /\ Seen(0) = last /\ Seen(1) = Head(queue) /\ Head(queue) \in Items
      BY <1>1, <2>1 DEF Types, QueueType, Seen
    <2>3. Legit(0) /\ Legit(1) /\ Follows(Seen(0), Seen(0 + 1)) /\ 0 + 1 = 1
      BY <1>1, <2>1, <2>2 DEF ClientInv, SeenInv, OrderInv
    <2>4. Follows(last, Head(queue)) /\ last.kind # "end"
      BY <1>1, <2>1, <2>2, <2>3 DEF ClientInv, SeenInv
    <2>5. CASE Head(queue) = Finis
      <3>1. /\ last' = Finis /\ finished' = TRUE /\ reader' = "reap" /\ Finis.kind = "end"
            /\ Finis = R!Item("end", 0, 0)
        BY <1>7, <2>5 DEF Deliver, Finis, Item, R!Item
      <3>2. winner # 0 => last.kind = "chunk"
        BY <2>4, <2>5, <3>1 DEF Follows
      <3>3. R!Finish
        BY <2>1, <3>1, <3>2 DEF R!Finish, R!HasChunk
      <3> QED
        BY <3>3 DEF R!RaceNext
    <2>6. CASE Head(queue) # Finis
      <3>1. last' = Head(queue) /\ UNCHANGED <<reader, finished>>
        BY <1>7, <2>6 DEF Deliver
      <3>2. Head(queue).kind \in {"beat", "chunk"}
        BY <2>2, <2>3, <2>6 DEF Items, Legit
      <3>3. CASE Head(queue).kind = "beat"
        <4>1. Head(queue) = R!Item("beat", 0, 0) /\ last.kind # "chunk"
          BY <2>2, <2>3, <2>4, <3>3 DEF Legit, Follows, Beat, Item, R!Item
        <4>2. R!KeepAlive
          BY <2>1, <3>1, <4>1 DEF R!KeepAlive, R!HasChunk
        <4> QED
          BY <4>2 DEF R!RaceNext
      <3>4. CASE Head(queue).kind = "chunk"
        <4> DEFINE n == Head(queue).n
        <4>1. n \in 1..MaxChunks /\ Head(queue) = R!Item("chunk", winner, n) /\ emitted
          BY <2>2, <2>3, <3>4 DEF Legit, Items, R!Item
        <4>2. winner # 0
          BY <1>1, <4>1 DEF WinInv
        <4>3. last.kind = "chunk" => last.leg = winner /\ n = last.n + 1
          BY <2>2, <2>3, <2>4, <3>4 DEF Legit, Follows
        <4>4. R!Relay(n)
          BY <2>1, <3>1, <4>1, <4>2, <4>3 DEF R!Relay, R!HasChunk
        <4> QED
          BY <4>1, <4>4 DEF R!RaceNext
      <3> QED
        BY <3>2, <3>3, <3>4
    <2> QED
      BY <2>5, <2>6
  <1>8. CASE ReaderLeaves
    <2>1. /\ reader = "reading" /\ reader' = "sweep" /\ last' = R!Item("end", 0, 0)
          /\ finished = FALSE /\ finished' = FALSE /\ winner' = winner
      BY <1>1, <1>8 DEF ReaderLeaves, Finis, Item, R!Item, winVars, ClientInv, SeenInv
    <2>2. R!Leave
      BY <2>1 DEF R!Leave
    <2> QED
      BY <2>2 DEF R!RaceNext
  <1> QED
    BY <1>3, <1>4, <1>5, <1>6, <1>7, <1>8 DEF Next, Cleanup, Finished

(* ParallelCompletionRacer.race keeps the promise of Race, for any number of *)
(* legs, any handicaps and any length of the streams.                        *)
THEOREM RaceRefinement == Spec => RaceSpec
  <1>1. ClientIInv /\ [Next]_vars => [R!RaceNext]_R!raceVars
    BY RaceStep
  <1> QED
    BY RaceInitial, ClientInvariance, <1>1, PTL DEF Spec, RaceSpec, R!RaceSpec

=============================================================================
