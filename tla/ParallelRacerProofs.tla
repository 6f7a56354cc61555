------------------------- MODULE ParallelRacerProofs -------------------------
(***************************************************************************)
(* What ParallelRacer promises about its tasks and backends, for any       *)
(* number of legs, any handicaps and watchdogs and any length of a stream. *)
(*                                                                         *)
(* The promises rest on each other.  Who may cancel a leg's task depends   *)
(* on who has won (WinInv), what a sweep has passed (StopInv) and who      *)
(* holds the lock (LockInv); that the winner's first chunk is never swept  *)
(* away depends on who may cancel it (ToldInv); and a leg that returns     *)
(* with its backend's stream open is excused only by somebody who is on    *)
(* the way to cancel it (UpInv), or, while its call has answered and the   *)
(* leg has not resumed, by its own cancellation (AnswerInv).  So the       *)
(* inductive invariant holds them all, and one lemma per part shows that   *)
(* every action keeps it.                                                  *)
(*                                                                         *)
(* Each of these lemmas first treats the three ways in which a leg's task  *)
(* moves, Return, Goto and not at all, and then the actions one by one.    *)
(***************************************************************************)
EXTENDS ParallelRacer, TLAPS

---------------------------------------------------------------------------
(* The inductive invariant                                                  *)

(* winner_lock is held by exactly the watchdog that is cancelling its leg,   *)
(* there is no winner then, and its leg's runtime is cancelled; a leg that   *)
(* has not called yet or has returned has no watchdog (_ttft_watchdog).      *)
LockInv ==
    \A l \in Legs :
        /\ watchdog[l] = "holding" <=> lock = l
        /\ watchdog[l] = "holding" => winner = 0 /\ l \in cancelled
        /\ pc[l] \in {"delay", "gate", "hurry", "done"} => watchdog[l] = "off"

(* Only the winner is between its claim and its second chunk.  A winner      *)
(* whose first chunk is not out is on its way to put it out, or was          *)
(* cancelled for a client that had left (_run_leg).                          *)
WinInv ==
    /\ \A l \in Legs : pc[l] \in {"announce", "emit", "reap"} => winner = l
    /\ winner = 0 => ~emitted /\ ~emitted_ev
    /\ winner # 0 =>
         /\ first_token
         /\ pc[winner] \in {"announce", "emit", "reap", "pulling", "check", "failed", "done"}
         /\ pc[winner] \in {"announce", "emit"} => ~emitted /\ ~emitted_ev
         /\ ~emitted => \/ pc[winner] \in {"announce", "emit"}
                        \/ pc[winner] = "done" /\ winner \in cancelled /\ reader # "reading"

\* The state that _stop_all leaves behind: every runtime cancelled, or no leg left.
Stopped == Legs \subseteq cancelled \/ Alive = {}

\* The end of the stream is on the queue.
EndQueued == \E i \in 1..Len(queue) : queue[i] = Finis

(* BackendToldFirst, with what makes it last: the winner is past             *)
(* _stop_loser_protocols when it stops the losers' tasks, a leg that failed  *)
(* has cancelled its own runtime, and a winner whose first chunk is not out  *)
(* is sent cancel() only by the last part of the cleanup.                    *)
ToldInv ==
    /\ BackendToldFirst
    /\ \A l \in Legs : /\ pc[l] \in {"emit", "reap"} => Legs \ {l} \subseteq cancelled
                       /\ pc[l] = "failed" => l \in cancelled
                       /\ pc[l] \in {"announce", "emit"} /\ l \in task_cancel =>
                            Legs \subseteq cancelled /\ reader # "reading"

(* How far a stop has come.  A sweep has cancelled the runtimes of the legs  *)
(* that it has passed, and it passes none while a first chunk is awaited;    *)
(* race_stopped has a reason; the end of the stream is put on the queue, and *)
(* the cleanup goes on to the tasks, only when no runtime is left to cancel. *)
StopInv ==
    /\ watcher = "sweep" =>
         /\ stopped /\ client # "connected"
         /\ wpos > 1 => ~FirstChunkAwaited
         /\ \A l \in Legs : l < wpos => l \in cancelled
    /\ reader = "sweep" =>
         /\ rpos > 1 => ~FirstChunkAwaited
         /\ \A l \in Legs : l < rpos => l \in cancelled
    /\ watcher = "idle" => wpos = 1
    /\ reader = "reading" => rpos = 1
    /\ reader # "reading" => stopped
    /\ stopped => client # "connected" \/ Alive = {} \/ reader # "reading"
    /\ EndQueued => Stopped /\ stopped
    /\ reader \in {"reap", "await", "over"} => Stopped
    /\ reader \in {"await", "over"} => watcher = "off"
    /\ reader = "over" => Alive = {}
    /\ client = "cancelled" => Legs \subseteq cancelled

(* A cancelled runtime has no call and no stream.  A leg that has returned   *)
(* from its stream leaves it open only while the client's cancel callback,   *)
(* the cleanup's sweep or the winner's _stop_loser_protocols is about to     *)
(* cancel its runtime.                                                       *)
UpInv ==
    /\ \A l \in Legs :
        /\ l \in cancelled => upstream[l] \notin {"calling", "open"}
        /\ pc[l] \in {"delay", "gate"} => upstream[l] = "none"
        /\ pc[l] = "calling" => upstream[l] # "open"
        /\ pc[l] \in {"hurry", "done"} /\ upstream[l] \in {"calling", "open"} =>
             \/ client = "cancelling" \/ reader = "sweep"
             \/ winner # 0 /\ pc[winner] = "announce"
    /\ winner # 0 => pc[winner] = "announce" \/ Legs \ {winner} \subseteq cancelled

(* A backend is called for a leg that awaits the call.  An answer that its   *)
(* leg has not taken is awaited too, or the leg was cancelled meanwhile.     *)
AnswerInv ==
    \A l \in Legs :
        /\ upstream[l] = "calling" => pc[l] = "calling"
        /\ upstream[l] = "answered" => pc[l] = "calling" \/ l \in cancelled

(* FailureStartsTheRest, and a leg that is cancelled before it could tell    *)
(* the delayed ones leaves a winner or a stopped race behind.                *)
HurryInv ==
    /\ FailureStartsTheRest
    /\ \A l \in task_cancel : pc[l] = "hurry" => winner # 0 \/ ShouldStop

\* The inductive invariant of Spec.
IInv ==
    /\ TypeOK /\ LockInv /\ WinInv /\ ToldInv /\ StopInv /\ UpInv /\ AnswerInv
    /\ HurryInv

---------------------------------------------------------------------------
(* The types, in the groups that the actions change together                 *)

\* The places in _run_leg at which a leg's task may be.
Wheres == {"delay", "gate", "calling", "pulling", "check", "claim", "announce", "emit",
           "reap", "failed", "hurry", "done"}

\* What Return and Goto change.
CtlType ==
    /\ pc \in [Legs -> Wheres]
    /\ watchdog \in [Legs -> {"off", "armed", "holding"}]
    /\ lock \in 0..N
    /\ emitted_ev \in BOOLEAN

\* What CancelRuntimes changes.
UpType ==
    /\ cancelled \subseteq Legs
    /\ upstream \in [Legs -> {"none", "calling", "answered", "open", "over"}]

\* What the legs themselves keep.
LegType ==
    /\ chunk \in [Legs -> {"none", "token", "noise", "error"}]
    /\ pulled \in [Legs -> 0..MaxChunks]
    /\ started \subseteq Legs /\ task_cancel \subseteq Legs
    /\ winner \in 0..N

\* The flags and events that the tasks share.
FlagType ==
    /\ emitted \in BOOLEAN /\ first_token \in BOOLEAN /\ stopped \in BOOLEAN
    /\ accelerate \in BOOLEAN /\ finished \in BOOLEAN /\ gathering \in BOOLEAN

\* The client, its watcher and its reader.
EnvType ==
    /\ client \in {"connected", "cancelling", "cancelled"}
    /\ watcher \in {"idle", "sweep", "off"} /\ wpos \in 1..N + 1
    /\ reader \in {"reading", "sweep", "reap", "await", "over"}
    /\ rpos \in 1..N + 1

\* What the client reads.
QueueType == queue \in Seq(Items) /\ last \in Items

\* All of them.
Types == CtlType /\ UpType /\ LegType /\ FlagType /\ EnvType /\ QueueType

\* The groups together are TypeOK.
LEMMA TypeParts == TypeOK <=> Types
  BY DEF TypeOK, Types, CtlType, UpType, LegType, FlagType, EnvType, QueueType, Wheres

---------------------------------------------------------------------------
(* What the helpers of the legs do                                           *)

(* The finally block of _run_leg: the leg is done or about to hurry the      *)
(* others, its watchdog is off, the lock is free if its watchdog had it, and *)
(* nothing else of the control state changes.                                *)
LEMMA ReturnEffect ==
  ASSUME CtlType, NEW l \in Legs, Return(l)
  PROVE  /\ CtlType'
         /\ pc'[l] = IF l \in started /\ Handicap[l] > 0 /\ winner = 0 THEN "hurry" ELSE "done"
         /\ watchdog'[l] = "off"
         /\ \A m \in Legs \ {l} : pc'[m] = pc[m] /\ watchdog'[m] = watchdog[m]
         /\ lock' = IF lock = l THEN 0 ELSE lock
         /\ emitted_ev' <=> emitted_ev \/ winner = l
  <1>1. /\ pc' \in [Legs -> Wheres]
        /\ pc'[l] = IF l \in started /\ Handicap[l] > 0 /\ winner = 0 THEN "hurry" ELSE "done"
        /\ \A m \in Legs \ {l} : pc'[m] = pc[m]
    BY DEF CtlType, Return, Wheres
  <1>2. /\ watchdog' \in [Legs -> {"off", "armed", "holding"}] /\ watchdog'[l] = "off"
        /\ \A m \in Legs \ {l} : watchdog'[m] = watchdog[m]
    BY DEF CtlType, Return
  <1>3. lock' \in 0..N /\ lock' = IF lock = l THEN 0 ELSE lock
    BY RacerAssumption DEF CtlType, Return
  <1>4. emitted_ev' \in BOOLEAN /\ (emitted_ev' <=> emitted_ev \/ winner = l)
    BY Zenon DEF CtlType, Return
  <1> QED
    BY <1>1, <1>2, <1>3, <1>4 DEF CtlType

\* A leg that goes on to its next await moves nobody else.
LEMMA GotoEffect ==
  ASSUME CtlType, NEW l \in Legs, NEW where \in Wheres, Goto(l, where)
  PROVE  /\ CtlType'
         /\ pc'[l] = where
         /\ \A m \in Legs \ {l} : pc'[m] = pc[m]
         /\ UNCHANGED <<watchdog, lock, emitted_ev>>
  BY DEF CtlType, Goto, dogVars

(* _cancel_leg_runtime sets the flag of each of the legs and ends the calls  *)
(* and the streams of those that did not have it.                            *)
LEMMA CancelEffect ==
  ASSUME UpType, NEW S, S \subseteq Legs, CancelRuntimes(S)
  PROVE  /\ UpType'
         /\ cancelled' = cancelled \cup S
         /\ \A l \in Legs :
              upstream'[l] = IF l \in S \ cancelled /\ upstream[l] \in {"calling", "open"}
                             THEN "over" ELSE upstream[l]
  BY DEF UpType, CancelRuntimes

\* What is put on the queue is an item.
LEMMA ItemTypes ==
  /\ Beat \in Items /\ Finis \in Items
  /\ \A l \in Legs, n \in 0..MaxChunks : Item("chunk", l, n) \in Items
  BY RacerAssumption DEF Items, Item, Beat, Finis, Legs

\* Putting an item on the queue leaves a queue of items.
LEMMA PutTypes ==
  ASSUME queue \in Seq(Items), NEW x \in Items, Put(x)
  PROVE  queue' \in Seq(Items)
  BY DEF Put

\* Keep-alives and chunks are not the end of the stream.
LEMMA ItemKinds ==
  /\ Beat # Finis
  /\ \A l \in Legs, n \in 0..MaxChunks : Item("chunk", l, n) # Finis
  BY DEF Beat, Finis, Item

\* An item other than the end does not put the end on the queue.
LEMMA EndNotPut ==
  ASSUME QueueType, NEW x \in Items, x # Finis, Put(x)
  PROVE  EndQueued' => EndQueued
  BY DEF QueueType, Put, EndQueued

---------------------------------------------------------------------------
(* The types are kept                                                        *)

\* The race starts with every variable of its type.
LEMMA TypeInit == Init => TypeOK
  <1> SUFFICES ASSUME Init PROVE Types
    BY TypeParts
  <1>1. UpType /\ LegType /\ EnvType
    BY RacerAssumption DEF Init, UpType, LegType, EnvType
  <1>2. FlagType /\ emitted_ev \in BOOLEAN
    BY Zenon DEF Init, FlagType
  <1>3. QueueType
    BY RacerAssumption DEF Init, QueueType, Items, Item, Nothing
  <1>4. CtlType
    BY <1>2, RacerAssumption DEF Init, CtlType, Wheres
  <1> QED
    BY <1>1, <1>2, <1>3, <1>4 DEF Types

(* Every action keeps the types; in particular a sweep, which is one step    *)
(* behind with the tasks, never cancels a leg 0 or N + 1.                    *)
LEMMA TypeStep == ASSUME TypeOK, [Next]_vars PROVE TypeOK'
  <1> SUFFICES Types'
    BY TypeParts, PTL
  <1> USE TypeParts DEF Types
  <1>1. ASSUME NEW l \in Legs, LeaveDelay(l) PROVE Types'
    <2>1. CtlType' /\ UpType'
      BY <1>1, ReturnEffect, GotoEffect
      DEF LeaveDelay, Runs, CtlType, UpType, Wheres, dogVars, upVars
    <2>2. LegType'
      BY <1>1 DEF LeaveDelay, Runs, LegType, winVars, Alive
    <2>3. FlagType' /\ EnvType' /\ QueueType'
      BY <1>1
      DEF LeaveDelay, Runs, LegType, FlagType, EnvType, QueueType, winVars, others,
          clientVars, readerVars
    <2> QED
      BY <2>1, <2>2, <2>3
  <1>2. ASSUME NEW l \in Legs, Gate(l) PROVE Types'
    <2>1. CtlType' /\ UpType'
      BY <1>2, ReturnEffect DEF Gate, Runs, CtlType, UpType, Wheres, dogVars, upVars
    <2>2. LegType'
      BY <1>2 DEF Gate, Runs, LegType, winVars, Alive
    <2>3. FlagType' /\ EnvType' /\ QueueType'
      BY <1>2
      DEF Gate, Runs, LegType, FlagType, EnvType, QueueType, winVars, others, clientVars,
          readerVars
    <2> QED
      BY <2>1, <2>2, <2>3
  <1>3. ASSUME NEW l \in Legs, CallAnswers(l) PROVE Types'
    <2>1. CtlType' /\ UpType'
      BY <1>3 DEF CallAnswers, CtlType, UpType, legVars, dogVars
    <2>2. LegType'
      BY <1>3 DEF CallAnswers, LegType, winVars, legVars
    <2>3. FlagType' /\ EnvType' /\ QueueType'
      BY <1>3
      DEF CallAnswers, LegType, FlagType, EnvType, QueueType, winVars, others, clientVars,
          readerVars
    <2> QED
      BY <2>1, <2>2, <2>3
  <1>4. ASSUME NEW l \in Legs, CallFails(l) PROVE Types'
    <2>1. CtlType' /\ UpType'
      BY <1>4, GotoEffect, CancelEffect
      DEF CallFails, Runs, Fail, CtlType, UpType, Wheres, dogVars, upVars
    <2>2. LegType'
      BY <1>4 DEF CallFails, Runs, Fail, LegType, winVars, Alive
    <2>3. FlagType' /\ EnvType' /\ QueueType'
      BY <1>4
      DEF CallFails, Runs, Fail, LegType, FlagType, EnvType, QueueType, winVars, others,
          clientVars, readerVars
    <2> QED
      BY <2>1, <2>2, <2>3
  <1>5. ASSUME NEW l \in Legs, Resume(l) PROVE Types'
    <2>1. CtlType' /\ UpType'
      BY <1>5, ReturnEffect, GotoEffect
      DEF Resume, Runs, CtlType, UpType, Wheres, dogVars, upVars
    <2>2. LegType'
      BY <1>5 DEF Resume, Runs, LegType, winVars, Alive
    <2>3. FlagType' /\ EnvType' /\ QueueType'
      BY <1>5
      DEF Resume, Runs, LegType, FlagType, EnvType, QueueType, winVars, others, clientVars,
          readerVars
    <2> QED
      BY <2>1, <2>2, <2>3
  <1>6. ASSUME NEW l \in Legs, Pull(l) PROVE Types'
    <2>1. CtlType' /\ UpType'
      BY <1>6, ReturnEffect, GotoEffect
      DEF Pull, Runs, CtlType, UpType, Wheres, dogVars, upVars
    <2>2. LegType'
      BY <1>6, RacerAssumption DEF Pull, LegType, winVars
    <2>3. FlagType' /\ EnvType' /\ QueueType'
      BY <1>6
      DEF Pull, Runs, LegType, FlagType, EnvType, QueueType, winVars, others, clientVars,
          readerVars
    <2> QED
      BY <2>1, <2>2, <2>3
  <1>7. ASSUME NEW l \in Legs, StreamEnds(l) PROVE Types'
    <2>1. CtlType' /\ UpType'
      BY <1>7, ReturnEffect, GotoEffect, CancelEffect
      DEF StreamEnds, Runs, Fail, CtlType, UpType, Wheres, dogVars, upVars
    <2>2. LegType'
      BY <1>7 DEF StreamEnds, Runs, Fail, LegType, winVars, Alive
    <2>3. FlagType' /\ EnvType' /\ QueueType'
      BY <1>7
      DEF StreamEnds, Runs, Fail, LegType, FlagType, EnvType, QueueType, winVars, others,
          clientVars, readerVars
    <2> QED
      BY <2>1, <2>2, <2>3
  <1>8. ASSUME NEW l \in Legs, Check(l) PROVE Types'
    <2>1. CtlType' /\ UpType'
      BY <1>8, ReturnEffect, GotoEffect, CancelEffect
      DEF Check, Runs, Fail, CtlType, UpType, Wheres, dogVars, upVars
    <2>2. LegType'
      BY <1>8 DEF Check, Runs, Fail, LegType, winVars, Alive
    <2>3. FlagType' /\ EnvType' /\ QueueType'
      BY <1>8, PutTypes, ItemTypes
      DEF Check, Runs, Fail, LegType, FlagType, EnvType, QueueType, winVars, others,
          clientVars, readerVars
    <2> QED
      BY <2>1, <2>2, <2>3
  <1>9. ASSUME NEW l \in Legs, Claim(l) PROVE Types'
    <2>1. CtlType' /\ UpType'
      BY <1>9, GotoEffect DEF Claim, Runs, CtlType, UpType, Wheres, dogVars, upVars
    <2>2. LegType'
      BY <1>9, RacerAssumption DEF Claim, LegType, Legs
    <2>3. FlagType' /\ EnvType' /\ QueueType'
      BY <1>9
      DEF Claim, Runs, LegType, FlagType, EnvType, QueueType, winVars, others, clientVars,
          readerVars
    <2> QED
      BY <2>1, <2>2, <2>3
  <1>10. ASSUME NEW l \in Legs, StopLosers(l) PROVE Types'
    <2>1. CtlType' /\ UpType'
      BY <1>10, GotoEffect, CancelEffect
      DEF StopLosers, Runs, CtlType, UpType, Wheres, dogVars, upVars
    <2>2. LegType'
      BY <1>10 DEF StopLosers, Runs, LegType, winVars, Alive
    <2>3. FlagType' /\ EnvType' /\ QueueType'
      BY <1>10
      DEF StopLosers, Runs, LegType, FlagType, EnvType, QueueType, winVars, others,
          clientVars, readerVars
    <2> QED
      BY <2>1, <2>2, <2>3
  <1>11. ASSUME NEW l \in Legs, EmitFirst(l) PROVE Types'
    <2>1. CtlType' /\ UpType'
      BY <1>11 DEF EmitFirst, Runs, CtlType, UpType, Wheres, dogVars, upVars
    <2>2. LegType'
      BY <1>11 DEF EmitFirst, Runs, LegType, winVars, Alive
    <2>3. FlagType' /\ EnvType' /\ QueueType'
      BY <1>11, PutTypes, ItemTypes
      DEF EmitFirst, Runs, LegType, FlagType, EnvType, QueueType, winVars, others,
          clientVars, readerVars
    <2> QED
      BY <2>1, <2>2, <2>3
  <1>12. ASSUME NEW l \in Legs, ReapLosers(l) PROVE Types'
    <2>1. CtlType' /\ UpType'
      BY <1>12, GotoEffect DEF ReapLosers, Runs, CtlType, UpType, Wheres, dogVars, upVars
    <2>2. LegType'
      BY <1>12 DEF ReapLosers, Runs, LegType, winVars, Alive
    <2>3. FlagType' /\ EnvType' /\ QueueType'
      BY <1>12
      DEF ReapLosers, Runs, LegType, FlagType, EnvType, QueueType, winVars, others,
          clientVars, readerVars
    <2> QED
      BY <2>1, <2>2, <2>3
  <1>13. ASSUME NEW l \in Legs, Accelerate(l) PROVE Types'
    <2>1. CtlType' /\ UpType'
      BY <1>13, ReturnEffect DEF Accelerate, Runs, CtlType, UpType, Wheres, dogVars, upVars
    <2>2. LegType'
      BY <1>13 DEF Accelerate, Runs, LegType, winVars, Alive
    <2>3. FlagType' /\ EnvType' /\ QueueType'
      BY <1>13
      DEF Accelerate, Runs, LegType, FlagType, EnvType, QueueType, winVars, others,
          clientVars, readerVars
    <2> QED
      BY <2>1, <2>2, <2>3
  <1>14. ASSUME NEW l \in Legs, Hurry(l) PROVE Types'
    <2>1. CtlType' /\ UpType'
      BY <1>14, GotoEffect DEF Hurry, Runs, CtlType, UpType, Wheres, dogVars, upVars
    <2>2. LegType'
      BY <1>14 DEF Hurry, Runs, LegType, winVars, Alive
    <2>3. FlagType' /\ EnvType' /\ QueueType'
      BY <1>14
      DEF Hurry, Runs, LegType, FlagType, EnvType, QueueType, winVars, others, clientVars,
          readerVars
    <2> QED
      BY <2>1, <2>2, <2>3
  <1>15. ASSUME NEW l \in Legs, Unwind(l) PROVE Types'
    <2>1. CtlType' /\ UpType'
      BY <1>15, ReturnEffect, GotoEffect DEF Unwind, CtlType, UpType, Wheres, dogVars, upVars
    <2>2. LegType'
      BY <1>15 DEF Unwind, LegType, winVars, Alive
    <2>3. FlagType' /\ EnvType' /\ QueueType'
      BY <1>15
      DEF Unwind, LegType, FlagType, EnvType, QueueType, winVars, others, clientVars,
          readerVars
    <2> QED
      BY <2>1, <2>2, <2>3
  <1>16. ASSUME NEW l \in Legs, WatchdogFires(l) PROVE Types'
    <2>1. CtlType' /\ UpType'
      <3>1. UpType'
        BY <1>16, CancelEffect DEF WatchdogFires, UpType, upVars
      <3>2. l \in 0..N
        BY RacerAssumption DEF Legs
      <3> QED
        BY <1>16, <3>1, <3>2 DEF WatchdogFires, CtlType, legVars
    <2>2. LegType'
      BY <1>16 DEF WatchdogFires, LegType, winVars, legVars
    <2>3. FlagType' /\ EnvType' /\ QueueType'
      BY <1>16
      DEF WatchdogFires, LegType, FlagType, EnvType, QueueType, winVars, others, clientVars,
          readerVars
    <2> QED
      BY <2>1, <2>2, <2>3
  <1>17. ASSUME NEW l \in Legs, WatchdogReturns(l) PROVE Types'
    <2>1. CtlType' /\ UpType'
      BY <1>17, RacerAssumption DEF WatchdogReturns, CtlType, UpType, legVars, upVars
    <2>2. LegType'
      BY <1>17 DEF WatchdogReturns, LegType, winVars, legVars, Alive
    <2>3. FlagType' /\ EnvType' /\ QueueType'
      BY <1>17
      DEF WatchdogReturns, LegType, FlagType, EnvType, QueueType, winVars, others,
          clientVars, readerVars
    <2> QED
      BY <2>1, <2>2, <2>3
  <1>18. CASE KeepAlive
    <2>1. CtlType' /\ UpType' /\ LegType'
      BY <1>18 DEF KeepAlive, CtlType, UpType, LegType, legVars, upVars, dogVars, winVars
    <2>2. FlagType' /\ EnvType' /\ QueueType'
      BY <1>18, PutTypes, ItemTypes
      DEF KeepAlive, FlagType, EnvType, QueueType, winVars, clientVars, readerVars
    <2> QED
      BY <2>1, <2>2
  <1>19. CASE ClientCancels
    <2>1. CtlType' /\ UpType' /\ LegType'
      BY <1>19, CancelEffect
      DEF ClientCancels, CtlType, UpType, LegType, legVars, upVars, dogVars, winVars
    <2>2. FlagType' /\ EnvType' /\ QueueType'
      BY <1>19
      DEF ClientCancels, FlagType, EnvType, QueueType, winVars, clientVars, readerVars
    <2> QED
      BY <2>1, <2>2
  <1>20. CASE CancelAllLegs
    <2>1. CtlType' /\ UpType' /\ LegType'
      BY <1>20, CancelEffect
      DEF CancelAllLegs, CtlType, UpType, LegType, legVars, upVars, dogVars, winVars
    <2>2. FlagType' /\ EnvType' /\ QueueType'
      BY <1>20
      DEF CancelAllLegs, FlagType, EnvType, QueueType, winVars, clientVars, readerVars
    <2> QED
      BY <2>1, <2>2
  <1>21. CASE WatcherWakes
    <2>1. CtlType' /\ UpType' /\ LegType'
      BY <1>21
      DEF WatcherWakes, MarkStopped, CtlType, UpType, LegType, legVars, upVars, dogVars,
          winVars
    <2>2. FlagType' /\ EnvType' /\ QueueType'
      BY <1>21
      DEF WatcherWakes, MarkStopped, FlagType, EnvType, QueueType, winVars, clientVars,
          readerVars
    <2> QED
      BY <2>1, <2>2
  <1>22. CASE WatcherSweeps
    <2>1. UpType'
      BY <1>22, CancelEffect DEF WatcherSweeps, SweepStep
    <2>2. CtlType' /\ LegType'
      BY <1>22, <2>1
      DEF WatcherSweeps, SweepStep, CtlType, LegType, legVars, dogVars, winVars, Alive
    <2>3. FlagType' /\ EnvType' /\ QueueType'
      BY <1>22, PutTypes, ItemTypes, RacerAssumption
      DEF WatcherSweeps, FlagType, EnvType, QueueType, winVars, clientVars, readerVars
    <2> QED
      BY <2>1, <2>2, <2>3
  <1>23. CASE Orchestrated
    <2>1. CtlType' /\ UpType' /\ LegType'
      BY <1>23
      DEF Orchestrated, MarkStopped, CtlType, UpType, LegType, legVars, upVars, dogVars,
          winVars
    <2>2. FlagType' /\ EnvType' /\ QueueType'
      BY <1>23, PutTypes, ItemTypes
      DEF Orchestrated, MarkStopped, FlagType, EnvType, QueueType, winVars, clientVars,
          readerVars
    <2> QED
      BY <2>1, <2>2
  <1>24. CASE Deliver
    <2>1. CtlType' /\ UpType' /\ LegType'
      BY <1>24
      DEF Deliver, MarkStopped, CtlType, UpType, LegType, legVars, upVars, dogVars, winVars
    <2>2. FlagType' /\ EnvType'
      BY <1>24 DEF Deliver, MarkStopped, FlagType, EnvType, winVars, clientVars
    <2>3. QueueType'
      <3>1. queue \in Seq(Items) /\ queue # <<>>
        BY <1>24 DEF Deliver, QueueType
      <3>2. Head(queue) \in Items /\ Tail(queue) \in Seq(Items) /\ <<>> \in Seq(Items)
        BY <3>1
      <3> QED
        BY <1>24, <3>2, ItemTypes DEF Deliver, QueueType
    <2> QED
      BY <2>1, <2>2, <2>3
  <1>25. CASE ReaderLeaves
    <2>1. CtlType' /\ UpType' /\ LegType'
      BY <1>25, ItemTypes
      DEF ReaderLeaves, MarkStopped, CtlType, UpType, LegType, legVars, upVars, dogVars,
          winVars
    <2>2. FlagType' /\ EnvType' /\ QueueType'
      BY <1>25, ItemTypes
      DEF ReaderLeaves, MarkStopped, FlagType, EnvType, QueueType, winVars, clientVars,
          readerVars
    <2> QED
      BY <2>1, <2>2
  <1>26. CASE CleanupSweeps
    <2>1. UpType'
      BY <1>26, CancelEffect DEF CleanupSweeps, SweepStep
    <2>2. CtlType' /\ LegType'
      BY <1>26, <2>1
      DEF CleanupSweeps, SweepStep, CtlType, LegType, legVars, dogVars, winVars, Alive
    <2>3. FlagType' /\ EnvType' /\ QueueType'
      BY <1>26, RacerAssumption
      DEF CleanupSweeps, FlagType, EnvType, QueueType, winVars, clientVars, readerVars
    <2> QED
      BY <2>1, <2>2, <2>3
  <1>27. CASE CleanupReaps
    <2>1. CtlType' /\ UpType' /\ LegType'
      BY <1>27
      DEF CleanupReaps, CtlType, UpType, LegType, legVars, upVars, dogVars, winVars, Alive
    <2>2. FlagType' /\ EnvType' /\ QueueType'
      BY <1>27 DEF CleanupReaps, FlagType, EnvType, QueueType, winVars, clientVars, readerVars
    <2> QED
      BY <2>1, <2>2
  <1>28. CASE CleanupEnds
    <2>1. CtlType' /\ UpType' /\ LegType'
      BY <1>28 DEF CleanupEnds, CtlType, UpType, LegType, legVars, upVars, dogVars, winVars
    <2>2. FlagType' /\ EnvType' /\ QueueType'
      BY <1>28 DEF CleanupEnds, FlagType, EnvType, QueueType, winVars, clientVars, readerVars
    <2> QED
      BY <2>1, <2>2
  <1>29. CASE UNCHANGED vars
    BY <1>29
    DEF vars, CtlType, UpType, LegType, FlagType, EnvType, QueueType, legVars, upVars,
        dogVars, winVars, clientVars, readerVars
  <1> QED
    BY <1>1, <1>2, <1>3, <1>4, <1>5, <1>6, <1>7, <1>8, <1>9, <1>10, <1>11, <1>12, <1>13,
       <1>14, <1>15, <1>16, <1>17, <1>18, <1>19, <1>20, <1>21, <1>22, <1>23, <1>24, <1>25,
       <1>26, <1>27, <1>28, <1>29
    DEF Next, LegStep, Outside, Start, Expire, Watcher, Cleanup, Finished

---------------------------------------------------------------------------
(* The parts of the invariant are kept                                       *)

(* Nobody but its watchdog takes or frees the lock, except the leg that      *)
(* returns and cancels the watchdog; a claim waits for the lock.             *)
LEMMA LockStep == ASSUME Types, LockInv, [Next]_vars PROVE LockInv'
  <1> USE DEF Types
  <1>1. ASSUME NEW l \in Legs, Return(l), winner' = winner, cancelled \subseteq cancelled'
        PROVE  LockInv'
    <2>1. lock = l <=> watchdog[l] = "holding"
      BY DEF LockInv
    <2> QED
      BY <1>1, <2>1, ReturnEffect, RacerAssumption DEF LockInv, Legs
  <1>2. ASSUME NEW l \in Legs, NEW where \in Wheres, Goto(l, where),
               where \in {"gate", "done"} => watchdog[l] = "off",
               where \notin {"delay", "hurry"},
               winner' = winner, cancelled \subseteq cancelled'
        PROVE  LockInv'
    BY <1>2, GotoEffect DEF LockInv
  <1>3. ASSUME UNCHANGED <<pc, watchdog, lock, winner>>, cancelled \subseteq cancelled'
        PROVE  LockInv'
    BY <1>3 DEF LockInv
  <1>4. \A S : CancelRuntimes(S) => cancelled \subseteq cancelled'
    BY DEF CancelRuntimes
  <1>5. ASSUME NEW l \in Legs, LeaveDelay(l) PROVE LockInv'
    BY <1>1, <1>2, <1>5 DEF LeaveDelay, Runs, LockInv, Wheres, upVars, winVars
  <1>6. ASSUME NEW l \in Legs, Gate(l) PROVE LockInv'
    <2>1. CASE winner # 0
      BY <1>1, <1>6, <2>1 DEF Gate, winVars
    <2>2. CASE winner = 0
      BY <1>6, <2>2, RacerAssumption DEF Gate, CtlType, LockInv, winVars, Legs
    <2> QED
      BY <2>1, <2>2
  <1>7. ASSUME NEW l \in Legs, CallAnswers(l) \/ EmitFirst(l) PROVE LockInv'
    BY <1>7
    DEF CallAnswers, EmitFirst, Runs, LockInv, CtlType, legVars, upVars, dogVars, winVars
  <1>8. ASSUME NEW l \in Legs, CallFails(l) \/ Resume(l) PROVE LockInv'
    BY <1>1, <1>2, <1>4, <1>8 DEF CallFails, Resume, Fail, winVars, Wheres
  <1>9. ASSUME NEW l \in Legs, Pull(l) \/ StreamEnds(l) PROVE LockInv'
    BY <1>1, <1>2, <1>4, <1>9 DEF Pull, StreamEnds, Fail, winVars, upVars, Wheres
  <1>10. ASSUME NEW l \in Legs, Check(l) PROVE LockInv'
    BY <1>1, <1>2, <1>4, <1>10 DEF Check, Fail, winVars, upVars, Wheres
  <1>11. ASSUME NEW l \in Legs, Claim(l) PROVE LockInv'
    <2>1. CASE winner = 0 /\ ~ShouldStop
      BY <1>11, <2>1, RacerAssumption DEF Claim, CtlType, LockInv, Legs, upVars
    <2>2. CASE ~(winner = 0 /\ ~ShouldStop)
      BY <1>2, <1>11, <2>2 DEF Claim, Wheres, upVars
    <2> QED
      BY <2>1, <2>2
  <1>12. ASSUME NEW l \in Legs, StopLosers(l) \/ ReapLosers(l) PROVE LockInv'
    BY <1>2, <1>4, <1>12 DEF StopLosers, ReapLosers, winVars, upVars, Wheres
  <1>13. ASSUME NEW l \in Legs, Accelerate(l) PROVE LockInv'
    BY <1>1, <1>13 DEF Accelerate, winVars, upVars
  <1>14. ASSUME NEW l \in Legs, Hurry(l) PROVE LockInv'
    BY <1>2, <1>14 DEF Hurry, Runs, LockInv, winVars, upVars, Wheres
  <1>15. ASSUME NEW l \in Legs, Unwind(l) PROVE LockInv'
    BY <1>1, <1>2, <1>15 DEF Unwind, LockInv, winVars, Wheres
  <1>16. ASSUME NEW l \in Legs, WatchdogFires(l) PROVE LockInv'
    BY <1>16, RacerAssumption DEF WatchdogFires, CancelRuntimes, CtlType, LockInv, Legs,
                                  legVars, upVars, winVars
  <1>17. ASSUME NEW l \in Legs, WatchdogReturns(l) PROVE LockInv'
    BY <1>17, RacerAssumption
    DEF WatchdogReturns, CtlType, LockInv, Legs, legVars, upVars, winVars
  <1>18. CASE \/ KeepAlive \/ ClientCancels \/ CancelAllLegs \/ Watcher \/ Orchestrated
              \/ Deliver \/ ReaderLeaves \/ Cleanup \/ UNCHANGED vars
    BY <1>3, <1>4, <1>18 DEF KeepAlive, ClientCancels, CancelAllLegs, Watcher, WatcherWakes,
         WatcherSweeps, SweepStep, Orchestrated, Deliver, ReaderLeaves, Cleanup,
         CleanupSweeps, CleanupReaps, CleanupEnds, vars, legVars, upVars, dogVars, winVars
  <1> QED
    BY <1>5, <1>6, <1>7, <1>8, <1>9, <1>10, <1>11, <1>12, <1>13, <1>14, <1>15, <1>16, <1>17,
       <1>18
    DEF Next, LegStep, Outside, Start, Expire, Finished

(* The claim makes a winner of a leg while there is none, and nobody stops   *)
(* the winner between the claim and its first chunk while the client reads.  *)
LEMMA WinStep ==
  ASSUME Types, LockInv, WinInv, ToldInv, StopInv, [Next]_vars PROVE WinInv'
  <1> USE DEF Types
  <1> DEFINE frame == /\ UNCHANGED <<winner, emitted, first_token, reader>>
                      /\ cancelled \subseteq cancelled'
  <1>1. ASSUME NEW l \in Legs, Return(l), frame,
               \/ pc[l] \notin {"announce", "emit", "done"}
               \/ l \in cancelled /\ reader # "reading"
        PROVE  WinInv'
    <2>1. winner = l => pc'[l] = "done" /\ winner # 0
      BY <1>1, ReturnEffect, RacerAssumption DEF Legs
    <2>2. winner \in Legs \cup {0} /\ 0 \notin Legs
      BY RacerAssumption DEF LegType, Legs
    <2>3. winner = l => emitted \/ (l \in cancelled /\ reader # "reading")
      BY <1>1, <2>1 DEF WinInv
    <2> QED
      BY <1>1, <2>1, <2>2, <2>3, ReturnEffect DEF WinInv
  <1>2. ASSUME NEW l \in Legs, NEW where \in Wheres \ {"announce", "emit", "reap"},
               Goto(l, where), frame, pc[l] \notin {"announce", "emit", "done"},
               winner = l => where \in {"pulling", "check", "failed", "done"}
        PROVE  WinInv'
    BY <1>2, GotoEffect DEF WinInv, LegType, Legs
  <1>3. ASSUME UNCHANGED <<pc, winner, emitted, emitted_ev>>, first_token => first_token',
               cancelled \subseteq cancelled', reader # "reading" => reader' # "reading"
        PROVE  WinInv'
    BY <1>3 DEF WinInv
  <1>4. \A S : CancelRuntimes(S) => cancelled \subseteq cancelled'
    BY DEF CancelRuntimes
  <1>5. ASSUME NEW l \in Legs, LeaveDelay(l) PROVE WinInv'
    <2>1. winner # l
      BY <1>5, RacerAssumption DEF LeaveDelay, Runs, WinInv, Legs
    <2> QED
      BY <1>1, <1>2, <1>5, <2>1
      DEF LeaveDelay, Runs, Wheres, upVars, winVars, others, readerVars
  <1>6. ASSUME NEW l \in Legs, Gate(l) PROVE WinInv'
    <2>1. CASE winner # 0
      BY <1>1, <1>6, <2>1 DEF Gate, Runs, winVars, others, readerVars
    <2>2. CASE winner = 0
      <3>1. pc'[l] = "calling" /\ \A m \in Legs \ {l} : pc'[m] = pc[m]
        BY <1>6, <2>2 DEF Gate, CtlType
      <3> QED
        BY <1>6, <2>2, <3>1 DEF Gate, WinInv, winVars
    <2> QED
      BY <2>1, <2>2
  <1>7. ASSUME NEW l \in Legs, CallAnswers(l) \/ WatchdogFires(l) \/ WatchdogReturns(l)
        PROVE  WinInv'
    BY <1>3, <1>4, <1>7
    DEF CallAnswers, WatchdogFires, WatchdogReturns, legVars, upVars, winVars,
         others, readerVars
  <1>8. ASSUME NEW l \in Legs, CallFails(l) \/ Resume(l) PROVE WinInv'
    BY <1>1, <1>2, <1>4, <1>8
    DEF CallFails, Resume, Fail, Runs, winVars, others, readerVars, Wheres
  <1>9. ASSUME NEW l \in Legs, Pull(l) \/ StreamEnds(l) PROVE WinInv'
    BY <1>1, <1>2, <1>4, <1>9
    DEF Pull, StreamEnds, Fail, Runs, upVars, winVars, others, readerVars, Wheres
  <1>10. ASSUME NEW l \in Legs, Check(l) PROVE WinInv'
    BY <1>1, <1>2, <1>4, <1>10, RacerAssumption
    DEF Check, Fail, Runs, upVars, winVars, others, readerVars, Wheres, Legs
  <1>11. ASSUME NEW l \in Legs, Claim(l) PROVE WinInv'
    <2>1. CASE winner = 0 /\ ~ShouldStop
      <3>1. /\ winner' = l /\ first_token' = TRUE /\ pc'[l] = "announce" /\ l # 0
            /\ \A m \in Legs \ {l} : pc'[m] = pc[m]
            /\ UNCHANGED <<emitted, emitted_ev>>
        BY <1>11, <2>1, RacerAssumption DEF Claim, CtlType, Legs
      <3> QED
        BY <2>1, <3>1, RacerAssumption DEF WinInv, Legs
    <2>2. CASE ~(winner = 0 /\ ~ShouldStop)
      <3>1. winner # l
        BY <1>11, RacerAssumption DEF Claim, Runs, WinInv, Legs
      <3> QED
        BY <1>2, <1>11, <2>2, <3>1 DEF Claim, Runs, Wheres, upVars, others, readerVars
    <2> QED
      BY <2>1, <2>2
  <1>12. ASSUME NEW l \in Legs, StopLosers(l) PROVE WinInv'
    <2>1. pc[l] = "announce" /\ winner = l /\ frame
      BY <1>4, <1>12 DEF StopLosers, Runs, WinInv, winVars, others, readerVars
    <2>2. Goto(l, "emit") /\ "emit" \in Wheres
      BY <1>12 DEF StopLosers, Wheres
    <2> QED
      BY <2>1, <2>2, GotoEffect DEF WinInv
  <1>13. ASSUME NEW l \in Legs, EmitFirst(l) PROVE WinInv'
    <2>1. pc[l] = "emit" /\ winner = l /\ winner' = winner /\ first_token' = first_token
      BY <1>13 DEF EmitFirst, Runs, WinInv
    <2>2. emitted' = TRUE /\ pc'[l] = "reap" /\ \A m \in Legs \ {l} : pc'[m] = pc[m]
      BY <1>13 DEF EmitFirst, CtlType
    <2> QED
      BY <2>1, <2>2, RacerAssumption DEF WinInv, Legs
  <1>14. ASSUME NEW l \in Legs, ReapLosers(l) PROVE WinInv'
    BY <1>2, <1>14 DEF ReapLosers, Runs, upVars, winVars, others, readerVars, Wheres
  <1>15. ASSUME NEW l \in Legs, Accelerate(l) PROVE WinInv'
    BY <1>1, <1>15 DEF Accelerate, Runs, upVars, winVars, others, readerVars
  <1>16. ASSUME NEW l \in Legs, Hurry(l) PROVE WinInv'
    BY <1>2, <1>16 DEF Hurry, Runs, upVars, winVars, others, readerVars, Wheres
  <1>17. ASSUME NEW l \in Legs, Unwind(l) PROVE WinInv'
    <2>1. pc[l] # "done" /\ frame
      BY <1>17 DEF Unwind, Alive, winVars, others, readerVars
    <2>2. CASE pc[l] = "hurry"
      BY <1>2, <1>17, <2>1, <2>2 DEF Unwind, Wheres
    <2>3. CASE pc[l] # "hurry"
      <3>1. pc[l] \in {"announce", "emit"} => l \in cancelled /\ reader # "reading"
        BY <1>17 DEF Unwind, ToldInv
      <3> QED
        BY <1>1, <1>17, <2>1, <2>3, <3>1 DEF Unwind
    <2> QED
      BY <2>2, <2>3
  <1>18. CASE \/ KeepAlive \/ ClientCancels \/ CancelAllLegs \/ Watcher \/ Orchestrated
              \/ Deliver \/ ReaderLeaves \/ Cleanup \/ UNCHANGED vars
    BY <1>3, <1>4, <1>18 DEF KeepAlive, ClientCancels, CancelAllLegs, Watcher, WatcherWakes,
         WatcherSweeps, SweepStep, MarkStopped, Orchestrated, Deliver, ReaderLeaves, Cleanup,
         CleanupSweeps, CleanupReaps, CleanupEnds, vars, legVars, upVars, winVars, readerVars
  <1> QED
    BY <1>5, <1>6, <1>7, <1>8, <1>9, <1>10, <1>11, <1>12, <1>13, <1>14, <1>15, <1>16, <1>17,
       <1>18
    DEF Next, LegStep, Outside, Start, Expire, Finished

(* Whoever sends cancel() to a leg's task, the winner, a watchdog, a sweep   *)
(* or the end of the cleanup, does so after the leg's runtime was cancelled. *)
LEMMA ToldStep ==
  ASSUME Types, LockInv, WinInv, ToldInv, StopInv, [Next]_vars PROVE ToldInv'
  <1> USE DEF Types
  <1> DEFINE frame == cancelled \subseteq cancelled' /\ (reader # "reading" => reader' # "reading")
  <1>1. ASSUME NEW l \in Legs, Return(l), frame, task_cancel' \subseteq task_cancel,
               pc[l] # "done"
        PROVE  ToldInv'
    <2>1. pc'[l] \in {"hurry", "done"} /\ \A m \in Legs \ {l} : pc'[m] = pc[m]
      BY <1>1, ReturnEffect
    <2> QED
      BY <1>1, <2>1 DEF ToldInv, BackendToldFirst, Alive
  <1>2. ASSUME NEW l \in Legs, NEW where \in Wheres \ {"announce", "emit", "reap"},
               Goto(l, where), frame, where = "failed" => l \in cancelled',
               task_cancel' \subseteq task_cancel, pc[l] # "done"
        PROVE  ToldInv'
    BY <1>2, GotoEffect DEF ToldInv, BackendToldFirst, Alive
  <1>3. ASSUME pc' = pc, frame,
               \A m \in task_cancel' \ task_cancel :
                   /\ m \in Alive => m \in cancelled'
                   /\ pc[m] \in {"announce", "emit"} =>
                         Legs \subseteq cancelled' /\ reader' # "reading"
        PROVE  ToldInv'
    BY <1>3 DEF ToldInv, BackendToldFirst, Alive
  <1>4. \A S : CancelRuntimes(S) => cancelled \subseteq cancelled' /\ S \subseteq cancelled'
    BY DEF CancelRuntimes
  <1>5. ASSUME NEW l \in Legs, LeaveDelay(l) PROVE ToldInv'
    BY <1>1, <1>2, <1>5 DEF LeaveDelay, Runs, Wheres, upVars, others, readerVars
  <1>6. ASSUME NEW l \in Legs, Gate(l) PROVE ToldInv'
    <2>1. CASE winner # 0
      BY <1>1, <1>6, <2>1 DEF Gate, Runs, others, readerVars
    <2>2. CASE winner = 0
      BY <1>6, <2>2
      DEF Gate, CtlType, Runs, ToldInv, BackendToldFirst, Alive, others, readerVars
    <2> QED
      BY <2>1, <2>2
  <1>7. ASSUME NEW l \in Legs, CallAnswers(l) \/ WatchdogFires(l) PROVE ToldInv'
    BY <1>3, <1>4, <1>7 DEF CallAnswers, WatchdogFires, legVars, upVars, others, readerVars
  <1>8. ASSUME NEW l \in Legs, CallFails(l) \/ Resume(l) PROVE ToldInv'
    BY <1>1, <1>2, <1>4, <1>8 DEF CallFails, Resume, Fail, Runs, others, readerVars, Wheres
  <1>9. ASSUME NEW l \in Legs, Pull(l) \/ StreamEnds(l) PROVE ToldInv'
    BY <1>1, <1>2, <1>4, <1>9
    DEF Pull, StreamEnds, Fail, Runs, upVars, others, readerVars, Wheres
  <1>10. ASSUME NEW l \in Legs, Check(l) PROVE ToldInv'
    BY <1>1, <1>2, <1>4, <1>10 DEF Check, Fail, Runs, upVars, others, readerVars, Wheres
  <1>11. ASSUME NEW l \in Legs, Claim(l) PROVE ToldInv'
    <2>1. CASE winner = 0 /\ ~ShouldStop
      BY <1>11, <2>1
      DEF Claim, CtlType, Runs, ToldInv, BackendToldFirst, Alive, upVars, others,
         readerVars
    <2>2. CASE ~(winner = 0 /\ ~ShouldStop)
      BY <1>2, <1>11, <2>2 DEF Claim, Runs, Wheres, upVars, others, readerVars
    <2> QED
      BY <2>1, <2>2
  <1>12. ASSUME NEW l \in Legs, StopLosers(l) PROVE ToldInv'
    BY <1>4, <1>12, GotoEffect DEF StopLosers, Runs, ToldInv, BackendToldFirst, Alive, Wheres,
         others, readerVars
  <1>13. ASSUME NEW l \in Legs, EmitFirst(l) PROVE ToldInv'
    BY <1>13 DEF EmitFirst, CtlType, Runs, ToldInv, BackendToldFirst, Alive, upVars, others,
         readerVars
  <1>14. ASSUME NEW l \in Legs, ReapLosers(l) PROVE ToldInv'
    <2>1. /\ Legs \ {l} \subseteq cancelled /\ winner = l
          /\ \A m \in Legs \ {l} : pc[m] \notin {"announce", "emit"}
      BY <1>14 DEF ReapLosers, Runs, ToldInv, WinInv
    <2>2. /\ pc'[l] = "pulling" /\ \A m \in Legs \ {l} : pc'[m] = pc[m]
          /\ task_cancel' = task_cancel \cup (Alive \ {l}) /\ l \notin task_cancel
          /\ UNCHANGED <<cancelled, reader>>
      BY <1>14, GotoEffect DEF ReapLosers, Runs, Wheres, upVars, others, readerVars
    <2> QED
      BY <2>1, <2>2 DEF ToldInv, BackendToldFirst, Alive
  <1>15. ASSUME NEW l \in Legs, Accelerate(l) PROVE ToldInv'
    BY <1>1, <1>15 DEF Accelerate, Runs, upVars, others, readerVars
  <1>16. ASSUME NEW l \in Legs, Hurry(l) PROVE ToldInv'
    BY <1>2, <1>16 DEF Hurry, Runs, upVars, others, readerVars, Wheres
  <1>17. ASSUME NEW l \in Legs, Unwind(l) PROVE ToldInv'
    BY <1>1, <1>2, <1>17 DEF Unwind, Alive, Wheres, others, readerVars
  <1>18. ASSUME NEW l \in Legs, WatchdogReturns(l) PROVE ToldInv'
    <2>1. l \in cancelled /\ pc[l] \notin {"announce", "emit"}
      BY <1>18, RacerAssumption DEF WatchdogReturns, LockInv, WinInv, Legs
    <2> QED
      BY <1>3, <1>18, <2>1 DEF WatchdogReturns, legVars, upVars, others, readerVars
  <1>19. ASSUME NEW p \in 1..N + 1, SweepStep(p), pc' = pc, frame,
                \A l \in Legs : l < p => l \in cancelled
         PROVE  ToldInv'
    <2>1. \A m \in task_cancel' \ task_cancel : m \in Legs /\ m < p /\ ~DeferWinner(m)
      BY <1>19, RacerAssumption DEF SweepStep, Alive, Legs
    <2>2. \A m \in Legs : pc[m] \in {"announce", "emit"} => DeferWinner(m)
      BY RacerAssumption DEF WinInv, DeferWinner, Legs
    <2> QED
      BY <1>3, <1>19, <2>1, <2>2
  <1>20. CASE WatcherSweeps
    BY <1>4, <1>19, <1>20 DEF WatcherSweeps, SweepStep, StopInv, EnvType, legVars, readerVars
  <1>21. CASE CleanupSweeps
    BY <1>4, <1>19, <1>21 DEF CleanupSweeps, SweepStep, StopInv, EnvType, legVars
  <1>22. CASE CleanupReaps
    <2>1. Legs \subseteq cancelled \/ Alive = {}
      BY <1>22 DEF CleanupReaps, StopInv, Stopped
    <2> QED
      BY <1>3, <1>22, <2>1 DEF CleanupReaps, Alive, legVars, upVars
  <1>23. CASE \/ KeepAlive \/ ClientCancels \/ CancelAllLegs \/ WatcherWakes \/ Orchestrated
              \/ Deliver \/ ReaderLeaves \/ CleanupEnds \/ UNCHANGED vars
    BY <1>3, <1>4, <1>23
    DEF KeepAlive, ClientCancels, CancelAllLegs, WatcherWakes, Orchestrated,
         Deliver, ReaderLeaves, CleanupEnds, vars, legVars, upVars, readerVars
  <1> QED
    BY <1>5, <1>6, <1>7, <1>8, <1>9, <1>10, <1>11, <1>12, <1>13, <1>14, <1>15, <1>16, <1>17,
       <1>18, <1>20, <1>21, <1>22, <1>23
    DEF Next, LegStep, Outside, Start, Expire, Watcher, Cleanup, Finished

\* What a leg or its environment does never undoes a part of a stop.
LEMMA StopLegStep ==
  ASSUME Types, LockInv, WinInv, ToldInv, StopInv, NEW l \in Legs,
         LegStep(l) \/ Outside(l) \/ WatchdogReturns(l)
  PROVE  StopInv'
  <1> USE DEF Types
  <1> DEFINE quiet == UNCHANGED <<winner, emitted, queue>> /\ cancelled \subseteq cancelled'
             fixed == UNCHANGED <<watcher, wpos, reader, rpos, stopped, client>>
  <1>1. ASSUME fixed, cancelled \subseteq cancelled', Alive' \subseteq Alive,
               stopped => winner' = winner, emitted => emitted', emitted_ev => emitted_ev',
               EndQueued' => EndQueued
        PROVE  StopInv'
    BY <1>1 DEF StopInv, Stopped, FirstChunkAwaited
  <1>2. fixed
    BY
    DEF LegStep, Outside, WatchdogReturns, Start, Expire, LeaveDelay, Gate, Resume, Check,
        Claim,
           StopLosers, EmitFirst, ReapLosers, Accelerate, Hurry, Unwind, CallAnswers, CallFails,
           Pull, StreamEnds, WatchdogFires, others, clientVars, readerVars
  <1>3. ASSUME Return(l), quiet, pc[l] # "done" PROVE StopInv'
    <2>1. Alive' \subseteq Alive /\ (emitted_ev => emitted_ev')
      BY <1>3, ReturnEffect DEF Alive
    <2>2. EndQueued' => EndQueued
      BY <1>3 DEF EndQueued
    <2> QED
      BY <1>1, <1>2, <1>3, <2>1, <2>2
  <1>4. ASSUME NEW where \in Wheres, Goto(l, where), cancelled \subseteq cancelled', pc[l] # "done",
               UNCHANGED <<winner, emitted>>, EndQueued' => EndQueued
        PROVE  StopInv'
    <2>1. Alive' \subseteq Alive /\ emitted_ev' = emitted_ev
      BY <1>4, GotoEffect DEF Alive
    <2> QED
      BY <1>1, <1>2, <1>4, <2>1
  <1>5. ASSUME queue' = queue PROVE EndQueued' => EndQueued
    BY <1>5 DEF EndQueued
  <1>6. \A S : CancelRuntimes(S) => cancelled \subseteq cancelled'
    BY DEF CancelRuntimes
  <1>7. CASE LeaveDelay(l)
    BY <1>3, <1>4, <1>5, <1>7 DEF LeaveDelay, Runs, upVars, winVars, Wheres
  <1>8. CASE Gate(l)
    <2>1. CASE winner # 0
      BY <1>3, <1>8, <2>1 DEF Gate, Runs, winVars
    <2>2. CASE winner = 0
      <3>1. Alive' \subseteq Alive
        BY <1>8, <2>2 DEF Gate, Runs, CtlType, Alive
      <3> QED
        BY <1>1, <1>2, <1>5, <1>8, <2>2, <3>1 DEF Gate, winVars
    <2> QED
      BY <2>1, <2>2
  <1>9. CASE CallAnswers(l) \/ WatchdogFires(l) \/ WatchdogReturns(l)
    <2>1. Alive' = Alive
      BY <1>9 DEF CallAnswers, WatchdogFires, WatchdogReturns, legVars, Alive
    <2> QED
      BY <1>1, <1>2, <1>5, <1>6, <1>9, <2>1
      DEF CallAnswers, WatchdogFires, WatchdogReturns, upVars, winVars
  <1>10. CASE CallFails(l) \/ Resume(l)
    BY <1>3, <1>4, <1>5, <1>6, <1>10 DEF CallFails, Resume, Fail, Runs, winVars, Wheres
  <1>11. CASE Pull(l) \/ StreamEnds(l)
    BY <1>3, <1>4, <1>5, <1>6, <1>11 DEF Pull, StreamEnds, Fail, Runs, upVars, winVars, Wheres
  <1>12. CASE Check(l)
    <2>1. ASSUME Put(Item("chunk", l, pulled[l])) PROVE EndQueued' => EndQueued
      BY <2>1, EndNotPut, ItemTypes, ItemKinds DEF LegType
    <2> QED
      BY <1>3, <1>4, <1>5, <1>6, <1>12, <2>1 DEF Check, Fail, Runs, upVars, winVars, Wheres
  <1>13. CASE Claim(l)
    <2>1. CASE winner = 0 /\ ~ShouldStop
      <3>1. Alive' \subseteq Alive
        BY <1>13, <2>1 DEF Claim, Runs, CtlType, Alive
      <3> QED
        BY <1>1, <1>2, <1>5, <1>13, <2>1, <3>1 DEF Claim, upVars, ShouldStop
    <2>2. CASE ~(winner = 0 /\ ~ShouldStop)
      BY <1>4, <1>5, <1>13, <2>2 DEF Claim, Runs, Wheres, upVars
    <2> QED
      BY <2>1, <2>2
  <1>14. CASE StopLosers(l) \/ ReapLosers(l) \/ Hurry(l)
    BY <1>4, <1>5, <1>6, <1>14
    DEF StopLosers, ReapLosers, Hurry, Runs, upVars, winVars, Wheres
  <1>15. CASE EmitFirst(l)
    <2>1. Alive' \subseteq Alive
      BY <1>15 DEF EmitFirst, Runs, CtlType, Alive
    <2>2. EndQueued' => EndQueued
      BY <1>15, EndNotPut, ItemTypes, ItemKinds DEF EmitFirst, LegType
    <2> QED
      BY <1>1, <1>2, <1>15, <2>1, <2>2 DEF EmitFirst, upVars
  <1>16. CASE Accelerate(l)
    BY <1>3, <1>16 DEF Accelerate, Runs, upVars, winVars
  <1>17. CASE Unwind(l)
    BY <1>3, <1>4, <1>5, <1>17 DEF Unwind, Alive, winVars, Wheres
  <1> QED
    BY <1>7, <1>8, <1>9, <1>10, <1>11, <1>12, <1>13, <1>14, <1>15, <1>16, <1>17
    DEF LegStep, Outside, Start, Expire

(* The step of a sweep that passes a leg leaves its runtime cancelled, also  *)
(* when the cancellation of a winner is deferred: after the first chunk was  *)
(* awaited, such a winner has been cancelled already.                        *)
LEMMA SweepReaches ==
  ASSUME Types, WinInv, NEW p \in 1..N, SweepStep(p), ~FirstChunkAwaited,
         \A l \in Legs : l < p => l \in cancelled
  PROVE  \A l \in Legs : l < p + 1 => l \in cancelled'
  <1>1. p \in Legs
    BY RacerAssumption DEF Legs
  <1>2. cancelled' = cancelled \cup {l \in Legs : l = p /\ ~DeferWinner(l)}
    BY DEF SweepStep, CancelRuntimes
  <1>3. CASE DeferWinner(p)
    <2>1. winner = p /\ winner # 0 /\ ~emitted /\ emitted_ev
      BY <1>3 DEF DeferWinner, FirstChunkAwaited
    <2>2. p \in cancelled
      BY <2>1 DEF WinInv
    <2> QED
      BY <1>2, <2>2, RacerAssumption DEF Legs
  <1>4. CASE ~DeferWinner(p)
    BY <1>1, <1>2, <1>4, RacerAssumption DEF Legs
  <1> QED
    BY <1>3, <1>4

(* The client's callback, the watcher, the orchestrator and the cleanup move *)
(* a stop forward, and put the end on the queue only behind it.              *)
LEMMA StopStep ==
  ASSUME Types, LockInv, WinInv, ToldInv, StopInv, [Next]_vars PROVE StopInv'
  <1> USE DEF Types
  <1>1. ASSUME NEW l \in Legs, LegStep(l) \/ Outside(l) \/ WatchdogReturns(l) PROVE StopInv'
    BY <1>1, StopLegStep
  <1>2. CASE KeepAlive
    <2>1. EndQueued' => EndQueued
      BY <1>2, EndNotPut, ItemTypes, ItemKinds DEF KeepAlive
    <2> QED
      BY <1>2, <2>1
      DEF KeepAlive, StopInv, Stopped, Alive, FirstChunkAwaited, legVars, upVars,
         winVars, clientVars, readerVars
  <1>3. CASE ClientCancels
    BY <1>3 DEF ClientCancels, StopInv, Stopped, EndQueued, Alive, FirstChunkAwaited, legVars,
         upVars, winVars, readerVars
  <1>4. CASE CancelAllLegs
    <2>1. Legs \subseteq cancelled'
      BY <1>4, CancelEffect DEF CancelAllLegs
    <2> QED
      BY <1>4, <2>1 DEF CancelAllLegs, StopInv, Stopped, EndQueued, Alive, FirstChunkAwaited,
         legVars, winVars, readerVars
  <1>5. CASE WatcherWakes
    BY <1>5
    DEF WatcherWakes, MarkStopped, StopInv, Stopped, EndQueued, Alive, FirstChunkAwaited,
         legVars, upVars, winVars, readerVars, EnvType, Legs
  <1>6. CASE WatcherSweeps
    <2>1. /\ UNCHANGED <<pc, winner, emitted, emitted_ev, stopped, client, reader, rpos>>
          /\ cancelled \subseteq cancelled' /\ ~FirstChunkAwaited /\ watcher = "sweep"
      BY <1>6
      DEF WatcherSweeps, SweepStep, CancelRuntimes, StopInv, EnvType, legVars, winVars,
                  readerVars
    <2>2. stopped /\ client # "connected" /\ \A l \in Legs : l < wpos => l \in cancelled
      BY <2>1 DEF StopInv
    <2>3. CASE wpos <= N
      <3>1. wpos \in 1..N /\ SweepStep(wpos) /\ wpos' = wpos + 1 /\ UNCHANGED <<watcher, queue>>
        BY <1>6, <2>3, RacerAssumption DEF WatcherSweeps, EnvType
      <3>2. \A l \in Legs : l < wpos' => l \in cancelled'
        BY <2>1, <2>2, <3>1, SweepReaches
      <3> QED
        BY <2>1, <2>2, <3>1, <3>2 DEF StopInv, Stopped, EndQueued, Alive, FirstChunkAwaited
    <2>4. CASE wpos = N + 1
      <3>1. watcher' = "off" /\ wpos' = wpos
        BY <1>6, <2>4, RacerAssumption DEF WatcherSweeps
      <3>2. Legs \subseteq cancelled
        BY <2>2, <2>4, RacerAssumption DEF Legs
      <3> QED
        BY <2>1, <2>2, <3>1, <3>2 DEF StopInv, Stopped, Alive, FirstChunkAwaited
    <2> QED
      BY <2>3, <2>4, RacerAssumption DEF EnvType
  <1>7. CASE Orchestrated
    BY <1>7 DEF Orchestrated, MarkStopped, StopInv, Stopped, Alive, FirstChunkAwaited,
         legVars, upVars, winVars, readerVars
  <1>8. CASE Deliver
    <2>1. UNCHANGED <<pc, cancelled, winner, emitted, emitted_ev, client, watcher, wpos, rpos>>
      BY <1>8 DEF Deliver, legVars, upVars, winVars, clientVars
    <2>2. CASE Head(queue) # Finis
      <3>1. EndQueued' => EndQueued
        BY <1>8, <2>2 DEF Deliver, EndQueued, QueueType
      <3> QED
        BY <1>8, <2>1, <2>2, <3>1 DEF Deliver, StopInv, Stopped, Alive, FirstChunkAwaited
    <2>3. CASE Head(queue) = Finis
      <3>1. EndQueued
        BY <1>8, <2>3 DEF Deliver, EndQueued, QueueType
      <3>2. reader' = "reap" /\ stopped' = TRUE /\ ~EndQueued'
        BY <1>8, <2>3 DEF Deliver, MarkStopped, EndQueued
      <3> QED
        BY <2>1, <3>1, <3>2 DEF StopInv, Stopped, Alive, FirstChunkAwaited
    <2> QED
      BY <2>2, <2>3
  <1>9. CASE ReaderLeaves
    <2>1. ~EndQueued'
      BY <1>9 DEF ReaderLeaves, EndQueued
    <2> QED
      BY <1>9, <2>1 DEF ReaderLeaves, MarkStopped, StopInv, Stopped, Alive, FirstChunkAwaited,
         legVars, upVars, winVars, clientVars, Legs
  <1>10. CASE CleanupSweeps
    <2>1. /\ UNCHANGED <<pc, winner, emitted, emitted_ev, stopped, client, watcher, wpos, queue>>
          /\ cancelled \subseteq cancelled' /\ ~FirstChunkAwaited /\ reader = "sweep"
      BY <1>10
      DEF CleanupSweeps, SweepStep, CancelRuntimes, StopInv, EnvType, legVars, winVars,
                   clientVars
    <2>2. stopped /\ \A l \in Legs : l < rpos => l \in cancelled
      BY <2>1 DEF StopInv
    <2>3. CASE rpos <= N
      <3>1. rpos \in 1..N /\ SweepStep(rpos) /\ rpos' = rpos + 1 /\ reader' = reader
        BY <1>10, <2>3, RacerAssumption DEF CleanupSweeps, EnvType
      <3>2. \A l \in Legs : l < rpos' => l \in cancelled'
        BY <2>1, <2>2, <3>1, SweepReaches
      <3> QED
        BY <2>1, <2>2, <3>1, <3>2 DEF StopInv, Stopped, EndQueued, Alive, FirstChunkAwaited
    <2>4. CASE rpos = N + 1
      <3>1. reader' = "reap" /\ rpos' = rpos
        BY <1>10, <2>4, RacerAssumption DEF CleanupSweeps
      <3>2. Legs \subseteq cancelled
        BY <2>2, <2>4, RacerAssumption DEF Legs
      <3> QED
        BY <2>1, <2>2, <3>1, <3>2 DEF StopInv, Stopped, EndQueued, Alive, FirstChunkAwaited
    <2> QED
      BY <2>3, <2>4, RacerAssumption DEF EnvType
  <1>11. CASE CleanupReaps \/ CleanupEnds
    BY <1>11
    DEF CleanupReaps, CleanupEnds, StopInv, Stopped, EndQueued, Alive, FirstChunkAwaited,
         legVars, upVars, winVars, clientVars
  <1>12. CASE UNCHANGED vars
    BY <1>12 DEF vars, StopInv, Stopped, EndQueued, Alive, FirstChunkAwaited, legVars, upVars,
         winVars, clientVars, readerVars
  <1> QED
    BY <1>1, <1>2, <1>3, <1>4, <1>5, <1>6, <1>7, <1>8, <1>9, <1>10, <1>11, <1>12
    DEF Next, Watcher, Cleanup, Finished

\* The backend works for the leg.
Busy == {"calling", "open"}

\* No call and no stream begins, and a runtime that is or becomes cancelled has none.
Fades ==
    /\ cancelled \subseteq cancelled'
    /\ \A m \in Legs :
         /\ m \in cancelled' => upstream'[m] \notin Busy
         /\ \/ upstream'[m] = upstream[m]
            \/ upstream[m] \in Busy /\ upstream'[m] \in {"over", "answered"}

\* _cancel_leg_runtime, of any legs, begins nothing and leaves those legs with nothing.
LEMMA CancelFades ==
  ASSUME UpType, UpInv, NEW S, S \subseteq Legs, CancelRuntimes(S)
  PROVE  Fades
  BY CancelEffect DEF Fades, UpInv, Busy

(* A leg that returns has nothing left with its backend or has an excuse:    *)
(* it saw that the race was stopped or that another leg had won, and the     *)
(* one who did that has still to cancel the runtimes or has done so.         *)
LEMMA UpLegStep ==
  ASSUME Types, LockInv, WinInv, ToldInv, StopInv, UpInv, NEW l \in Legs,
         LegStep(l) \/ Outside(l) \/ WatchdogReturns(l)
  PROVE  UpInv'
  <1> USE DEF Types
  <1>1. winner \in Legs \cup {0} /\ 0 \notin Legs
    BY RacerAssumption DEF LegType, Legs
  <1>2. UNCHANGED <<client, reader>>
    BY DEF LegStep, Outside, WatchdogReturns, Start, Expire, LeaveDelay, Gate, Resume, Check,
           Claim, StopLosers, EmitFirst, ReapLosers, Accelerate, Hurry, Unwind, CallAnswers,
           CallFails, Pull, StreamEnds, WatchdogFires, others, clientVars, readerVars
  <1>3. ASSUME Return(l), Fades, winner' = winner,
               pc[l] = "announce" => Legs \subseteq cancelled,
               \/ upstream'[l] \notin Busy \/ client = "cancelling" \/ reader = "sweep"
               \/ winner \notin {0, l} /\ pc[winner] = "announce"
        PROVE  UpInv'
    <2>1. pc'[l] \in {"hurry", "done"} /\ \A m \in Legs \ {l} : pc'[m] = pc[m]
      BY <1>3, ReturnEffect
    <2>2. pc'[winner] = "announce" \/ winner \in {0, l} \/ pc'[winner] = pc[winner]
      BY <1>1, <2>1
    <2> QED
      BY <1>1, <1>2, <1>3, <2>1, <2>2 DEF UpInv, Fades, Busy
  <1>4. ASSUME NEW where \in Wheres \ {"announce", "delay", "calling", "hurry"}, Goto(l, where),
               Fades, winner' = winner, pc[l] # "announce",
               where = "gate" => upstream'[l] = "none", where = "done" => pc[l] = "hurry"
        PROVE  UpInv'
    <2>1. pc'[l] = where /\ \A m \in Legs \ {l} : pc'[m] = pc[m]
      BY <1>4, GotoEffect
    <2> QED
      BY <1>1, <1>2, <1>4, <2>1 DEF UpInv, Fades, Busy
  <1>5. ASSUME pc' = pc, winner' = winner, Fades PROVE UpInv'
    BY <1>2, <1>5 DEF UpInv, Fades, Busy
  <1>6. ASSUME UNCHANGED upVars PROVE Fades
    BY <1>6 DEF upVars, Fades, UpInv, Busy
  <1>7. \A S : S \subseteq Legs /\ CancelRuntimes(S) => Fades
    BY CancelFades
  <1>8. CASE LeaveDelay(l)
    <2>1. Runs(l, "delay") /\ upstream[l] = "none" /\ UNCHANGED <<upVars, winner>>
      BY <1>8 DEF LeaveDelay, Runs, UpInv, winVars
    <2>2. (Return(l) \/ Goto(l, "gate")) /\ pc[l] = "delay" /\ upstream'[l] = "none"
      BY <1>8, <2>1 DEF LeaveDelay, Runs, upVars
    <2> QED
      BY <1>3, <1>4, <1>6, <2>1, <2>2 DEF Wheres, Busy
  <1>9. CASE Gate(l)
    <2>1. pc[l] = "gate" /\ upstream[l] = "none" /\ winner' = winner /\ cancelled' = cancelled
      BY <1>9 DEF Gate, Runs, UpInv, winVars
    <2>2. CASE winner # 0
      BY <1>3, <1>6, <1>9, <2>1, <2>2 DEF Gate, Busy, upVars
    <2>3. CASE winner = 0
      <3>1. /\ pc'[l] = "calling" /\ upstream'[l] = (IF l \in cancelled THEN "none" ELSE "calling")
            /\ \A m \in Legs \ {l} : pc'[m] = pc[m] /\ upstream'[m] = upstream[m]
        BY <1>9, <2>1, <2>3 DEF Gate, CtlType, UpType
      <3> QED
        BY <1>2, <2>1, <2>3, <3>1 DEF UpInv
    <2> QED
      BY <2>2, <2>3
  <1>10. CASE CallAnswers(l)
    <2>1. Fades
      BY <1>10 DEF CallAnswers, UpInv, UpType, Fades, Busy
    <2> QED
      BY <1>5, <1>10, <2>1 DEF CallAnswers, legVars, winVars
  <1>11. CASE CallFails(l)
    BY <1>4, <1>7, <1>11 DEF CallFails, Fail, Runs, Wheres, winVars
  <1>12. CASE Resume(l)
    <2>1. pc[l] = "calling" /\ winner' = winner /\ cancelled' = cancelled /\ upstream[l] \notin Busy
      BY <1>12 DEF Resume, Runs, UpInv, Busy, winVars
    <2>2. CASE upstream[l] = "answered" /\ l \notin cancelled
      <3>1. upstream'[l] = "open" /\ \A m \in Legs \ {l} : upstream'[m] = upstream[m]
        BY <1>12, <2>2 DEF Resume, UpType
      <3>2. pc'[l] = "pulling" /\ \A m \in Legs \ {l} : pc'[m] = pc[m]
        BY <1>12, <2>2, GotoEffect DEF Resume, Wheres
      <3>3. pc'[winner] = pc[winner] \/ winner = 0 \/ winner = l
        BY <1>1, <3>2
      <3> QED
        BY <1>2, <2>1, <2>2, <3>1, <3>2, <3>3 DEF UpInv
    <2>3. CASE ~(upstream[l] = "answered" /\ l \notin cancelled)
      BY <1>3, <1>6, <1>12, <2>1, <2>3 DEF Resume, upVars
    <2> QED
      BY <2>2, <2>3
  <1>13. CASE Pull(l)
    <2>1. pc[l] = "pulling" /\ winner' = winner /\ Fades /\ upstream' = upstream
      BY <1>6, <1>13 DEF Pull, Runs, winVars, upVars
    <2>2. CASE ShouldStop
      <3>1. l \in Alive
        BY <2>1 DEF Alive
      <3>2. client = "cancelling" \/ reader = "sweep" \/ Legs \subseteq cancelled
        BY <2>2, <3>1 DEF ShouldStop, StopInv, Stopped, EnvType
      <3>3. upstream'[l] \notin Busy \/ client = "cancelling" \/ reader = "sweep"
        BY <2>1, <3>2 DEF UpInv, Busy
      <3> QED
        BY <1>3, <1>13, <2>1, <2>2, <3>3 DEF Pull
    <2>3. CASE ~ShouldStop
      BY <1>4, <1>13, <2>1, <2>3 DEF Pull, Wheres
    <2> QED
      BY <2>2, <2>3
  <1>14. CASE StreamEnds(l)
    <2>1. pc[l] = "pulling" /\ winner' = winner
      BY <1>14 DEF StreamEnds, Runs, winVars
    <2>2. CASE upstream' = [upstream EXCEPT ![l] = "over"] /\ Return(l) /\ UNCHANGED cancelled
      <3>1. upstream'[l] = "over" /\ \A m \in Legs \ {l} : upstream'[m] = upstream[m]
        BY <2>2 DEF UpType
      <3>2. pc'[l] \in {"hurry", "done"} /\ \A m \in Legs \ {l} : pc'[m] = pc[m]
        BY <2>2, ReturnEffect
      <3>3. pc'[winner] = pc[winner] \/ winner = 0 \/ winner = l
        BY <1>1, <3>2
      <3> QED
        BY <1>2, <2>1, <2>2, <3>1, <3>2, <3>3 DEF UpInv
    <2>3. CASE Fail(l)
      BY <1>4, <1>7, <2>1, <2>3 DEF Fail, Wheres
    <2> QED
      BY <1>14, <2>2, <2>3 DEF StreamEnds
  <1>15. CASE Check(l)
    <2>1. pc[l] = "check" /\ winner' = winner
      BY <1>15 DEF Check, Runs, winVars
    <2>2. CASE winner \notin {0, l} /\ Return(l) /\ UNCHANGED upVars
      <3>1. pc[winner] = "announce" \/ l \in cancelled
        BY <2>2 DEF UpInv
      <3>2. l \in cancelled => upstream'[l] \notin Busy
        BY <2>2 DEF UpInv, Busy, upVars
      <3> QED
        BY <1>3, <1>6, <2>1, <2>2, <3>1, <3>2
    <2>3. CASE Fail(l)
      BY <1>4, <1>7, <2>1, <2>3 DEF Fail, Wheres
    <2>4. CASE (Goto(l, "pulling") \/ Goto(l, "claim")) /\ UNCHANGED upVars
      BY <1>4, <1>6, <2>1, <2>4 DEF Wheres
    <2> QED
      BY <1>15, <2>2, <2>3, <2>4 DEF Check
  <1>16. CASE Claim(l)
    <2>1. CASE winner = 0 /\ ~ShouldStop
      <3>1. /\ winner' = l /\ pc'[l] = "announce" /\ pc[l] = "claim"
            /\ \A m \in Legs \ {l} : pc'[m] = pc[m]
            /\ UNCHANGED <<upstream, cancelled>>
        BY <1>16, <2>1 DEF Claim, Runs, CtlType, upVars
      <3> QED
        BY <1>1, <1>2, <2>1, <3>1 DEF UpInv
    <2>2. CASE ~(winner = 0 /\ ~ShouldStop)
      BY <1>4, <1>6, <1>16, <2>2 DEF Claim, Runs, Wheres
    <2> QED
      BY <2>1, <2>2
  <1>17. CASE StopLosers(l)
    <2>1. winner = l /\ winner' = l /\ Fades /\ Legs \ {l} \subseteq cancelled'
      BY <1>7, <1>17, CancelEffect DEF StopLosers, Runs, WinInv, winVars
    <2>2. pc'[l] = "emit" /\ \A m \in Legs \ {l} : pc'[m] = pc[m]
      BY <1>17, GotoEffect DEF StopLosers, Wheres
    <2> QED
      BY <2>1, <2>2 DEF UpInv, Fades, Busy
  <1>18. CASE EmitFirst(l)
    <2>1. /\ pc[l] = "emit" /\ pc'[l] = "reap" /\ \A m \in Legs \ {l} : pc'[m] = pc[m]
          /\ UNCHANGED <<winner, upstream, cancelled>>
      BY <1>18 DEF EmitFirst, Runs, CtlType, upVars
    <2>2. winner # 0 => (pc'[winner] = "announce" <=> pc[winner] = "announce")
      BY <1>1, <2>1
    <2> QED
      BY <1>2, <2>1, <2>2 DEF UpInv
  <1>19. CASE ReapLosers(l)
    BY <1>4, <1>6, <1>19 DEF ReapLosers, Runs, Wheres, winVars
  <1>20. CASE Accelerate(l)
    <2>1. pc[l] = "failed" /\ winner' = winner /\ Fades /\ Return(l)
      BY <1>6, <1>20 DEF Accelerate, Runs, winVars
    <2>2. upstream'[l] \notin Busy
      BY <1>20, <2>1 DEF Accelerate, ToldInv, UpInv, Busy, upVars
    <2> QED
      BY <1>3, <2>1, <2>2
  <1>21. CASE Hurry(l)
    BY <1>4, <1>6, <1>21 DEF Hurry, Runs, Wheres, winVars
  <1>22. CASE Unwind(l)
    <2>1. l \in cancelled /\ upstream[l] \notin Busy /\ winner' = winner
      BY <1>22 DEF Unwind, ToldInv, BackendToldFirst, UpInv, Busy, winVars
    <2>2. UNCHANGED upVars
      BY <1>22, <2>1 DEF Unwind, UpType, Busy, upVars
    <2>3. CASE pc[l] = "hurry"
      BY <1>4, <1>6, <1>22, <2>1, <2>2, <2>3 DEF Unwind, Wheres
    <2>4. CASE pc[l] # "hurry"
      <3>1. pc[l] = "announce" => Legs \subseteq cancelled
        BY <1>22 DEF Unwind, ToldInv
      <3> QED
        BY <1>3, <1>6, <1>22, <2>1, <2>2, <2>4, <3>1 DEF Unwind, upVars
    <2> QED
      BY <2>3, <2>4
  <1>23. CASE WatchdogFires(l) \/ WatchdogReturns(l)
    BY <1>5, <1>6, <1>7, <1>23 DEF WatchdogFires, WatchdogReturns, legVars, winVars
  <1> QED
    BY <1>8, <1>9, <1>10, <1>11, <1>12, <1>13, <1>14, <1>15, <1>16, <1>17, <1>18, <1>19,
       <1>20,
       <1>21, <1>22, <1>23
    DEF LegStep, Outside, Start, Expire

(* Nobody who is an excuse for an open stream goes away before it has        *)
(* cancelled the runtimes.                                                   *)
LEMMA UpStep ==
  ASSUME Types, LockInv, WinInv, ToldInv, StopInv, UpInv, [Next]_vars PROVE UpInv'
  <1> USE DEF Types
  <1>1. ASSUME NEW l \in Legs, LegStep(l) \/ Outside(l) \/ WatchdogReturns(l) PROVE UpInv'
    BY <1>1, UpLegStep
  <1>2. ASSUME pc' = pc, winner' = winner, Fades,
               \/ Legs \subseteq cancelled'
               \/ /\ client = "cancelling" => client' = "cancelling"
                  /\ reader = "sweep" => reader' = "sweep"
        PROVE  UpInv'
    BY <1>2 DEF UpInv, Fades, Busy
  <1>3. ASSUME UNCHANGED upVars PROVE Fades
    BY <1>3 DEF upVars, Fades, UpInv, Busy
  <1>4. ASSUME NEW p, SweepStep(p) PROVE Fades
    BY <1>4, CancelFades DEF SweepStep
  <1>5. CASE \/ KeepAlive \/ ClientCancels \/ WatcherWakes \/ Orchestrated \/ Deliver
             \/ ReaderLeaves \/ CleanupReaps \/ CleanupEnds \/ UNCHANGED vars
    BY <1>2, <1>3, <1>5 DEF KeepAlive, ClientCancels, WatcherWakes, Orchestrated, Deliver,
         ReaderLeaves, CleanupReaps, CleanupEnds, vars, legVars, winVars, clientVars, readerVars
  <1>6. CASE CancelAllLegs
    <2>1. Fades /\ Legs \subseteq cancelled'
      BY <1>6, CancelFades, CancelEffect DEF CancelAllLegs
    <2> QED
      BY <1>2, <1>6, <2>1 DEF CancelAllLegs, legVars, winVars
  <1>7. CASE WatcherSweeps
    BY <1>2, <1>4, <1>7 DEF WatcherSweeps, legVars, winVars, readerVars
  <1>8. CASE CleanupSweeps
    <2>1. Fades /\ pc' = pc /\ winner' = winner /\ client' = client
      BY <1>4, <1>8 DEF CleanupSweeps, legVars, winVars, clientVars
    <2>2. reader' = reader \/ rpos = N + 1
      BY <1>8 DEF CleanupSweeps
    <2>3. rpos = N + 1 => Legs \subseteq cancelled
      BY <1>8, RacerAssumption DEF CleanupSweeps, StopInv, Legs
    <2> QED
      BY <1>2, <2>1, <2>2, <2>3 DEF Fades
  <1> QED
    BY <1>1, <1>5, <1>6, <1>7, <1>8 DEF Next, Watcher, Cleanup, Finished

\* No call begins or answers, and no flag of a runtime is taken back.
Settles ==
    /\ cancelled \subseteq cancelled'
    /\ \A m \in Legs : upstream'[m] = upstream[m] \/ upstream'[m] = "over"

(* A leg leaves the await of its call with the answer, after its call has    *)
(* ended, or because it was cancelled (_stream_factory).                     *)
LEMMA AnswerStep ==
  ASSUME Types, ToldInv, UpInv, AnswerInv, [Next]_vars PROVE AnswerInv'
  <1> USE DEF Types
  <1>1. ASSUME Settles, pc' = pc PROVE AnswerInv'
    BY <1>1 DEF Settles, AnswerInv
  <1>2. ASSUME NEW l \in Legs, Settles, \A m \in Legs \ {l} : pc'[m] = pc[m],
               \/ pc[l] # "calling"
               \/ upstream'[l] \notin {"calling", "answered"}
               \/ upstream'[l] = "answered" /\ l \in cancelled'
        PROVE  AnswerInv'
    BY <1>2 DEF Settles, AnswerInv
  <1>3. ASSUME UNCHANGED upVars PROVE Settles
    BY <1>3 DEF upVars, Settles
  <1>4. \A S : S \subseteq Legs /\ CancelRuntimes(S) => Settles
    BY CancelEffect DEF Settles
  <1>5. ASSUME NEW l \in Legs, Return(l) PROVE \A m \in Legs \ {l} : pc'[m] = pc[m]
    BY <1>5, ReturnEffect
  <1>6. ASSUME NEW l \in Legs, NEW where \in Wheres, Goto(l, where)
        PROVE  \A m \in Legs \ {l} : pc'[m] = pc[m]
    BY <1>6, GotoEffect
  <1>7. ASSUME NEW l \in Legs, Fail(l)
        PROVE  Settles /\ \A m \in Legs \ {l} : pc'[m] = pc[m]
    BY <1>4, <1>6, <1>7 DEF Fail, Wheres
  <1>8. ASSUME NEW l \in Legs, LeaveDelay(l) PROVE AnswerInv'
    BY <1>2, <1>3, <1>5, <1>6, <1>8 DEF LeaveDelay, Runs, Wheres
  <1>9. ASSUME NEW l \in Legs, Gate(l) PROVE AnswerInv'
    <2>1. pc[l] = "gate" /\ cancelled' = cancelled
      BY <1>9 DEF Gate, Runs
    <2>2. CASE winner # 0
      BY <1>2, <1>3, <1>5, <1>9, <2>1, <2>2 DEF Gate, upVars
    <2>3. CASE winner = 0
      <3>1. /\ pc'[l] = "calling"
            /\ \A m \in Legs \ {l} : pc'[m] = pc[m] /\ upstream'[m] = upstream[m]
        BY <1>9, <2>3 DEF Gate, CtlType, UpType
      <3> QED
        BY <2>1, <3>1 DEF AnswerInv
    <2> QED
      BY <2>2, <2>3
  <1>10. ASSUME NEW l \in Legs, CallAnswers(l) PROVE AnswerInv'
    BY <1>10 DEF CallAnswers, AnswerInv, UpType, legVars
  <1>11. ASSUME NEW l \in Legs, CallFails(l) PROVE AnswerInv'
    <2>1. upstream[l] = "calling" /\ CancelRuntimes({l}) /\ Fail(l)
      BY <1>11 DEF CallFails, Fail
    <2>2. upstream'[l] = "over"
      BY <2>1, CancelEffect DEF UpInv
    <2> QED
      BY <1>2, <1>7, <2>1, <2>2
  <1>12. ASSUME NEW l \in Legs, Resume(l) PROVE AnswerInv'
    <2>1. pc[l] = "calling" /\ upstream[l] # "calling" /\ cancelled' = cancelled
      BY <1>12 DEF Resume, Runs
    <2>2. CASE upstream[l] = "answered" /\ l \notin cancelled
      <3>1. upstream'[l] = "open" /\ \A m \in Legs \ {l} : upstream'[m] = upstream[m]
        BY <1>12, <2>2 DEF Resume, UpType
      <3>2. \A m \in Legs \ {l} : pc'[m] = pc[m]
        BY <1>6, <1>12, <2>2 DEF Resume, Wheres
      <3> QED
        BY <2>1, <3>1, <3>2 DEF AnswerInv
    <2>3. CASE ~(upstream[l] = "answered" /\ l \notin cancelled)
      BY <1>2, <1>3, <1>5, <1>12, <2>1, <2>3 DEF Resume, upVars
    <2> QED
      BY <2>2, <2>3
  <1>13. ASSUME NEW l \in Legs, Pull(l) PROVE AnswerInv'
    BY <1>2, <1>3, <1>5, <1>6, <1>13 DEF Pull, Runs, Wheres
  <1>14. ASSUME NEW l \in Legs, StreamEnds(l) PROVE AnswerInv'
    <2>1. pc[l] = "pulling"
      BY <1>14 DEF StreamEnds, Runs
    <2>2. CASE upstream' = [upstream EXCEPT ![l] = "over"] /\ Return(l) /\ UNCHANGED cancelled
      <3>1. Settles
        BY <2>2 DEF Settles, UpType
      <3> QED
        BY <1>2, <1>5, <2>1, <2>2, <3>1
    <2> QED
      BY <1>2, <1>7, <1>14, <2>1, <2>2 DEF StreamEnds
  <1>15. ASSUME NEW l \in Legs, Check(l) PROVE AnswerInv'
    <2>1. pc[l] = "check"
      BY <1>15 DEF Check, Runs
    <2>2. CASE Fail(l)
      BY <1>2, <1>7, <2>1, <2>2
    <2>3. CASE UNCHANGED upVars /\ (Return(l) \/ Goto(l, "pulling") \/ Goto(l, "claim"))
      BY <1>2, <1>3, <1>5, <1>6, <2>1, <2>3 DEF Wheres
    <2> QED
      BY <1>15, <2>2, <2>3 DEF Check
  <1>16. ASSUME NEW l \in Legs, Claim(l) PROVE AnswerInv'
    <2>1. pc[l] = "claim" /\ Settles
      BY <1>3, <1>16 DEF Claim, Runs
    <2>2. \A m \in Legs \ {l} : pc'[m] = pc[m]
      BY <1>6, <1>16 DEF Claim, CtlType, Wheres
    <2> QED
      BY <1>2, <2>1, <2>2
  <1>17. ASSUME NEW l \in Legs, StopLosers(l) PROVE AnswerInv'
    BY <1>2, <1>4, <1>6, <1>17 DEF StopLosers, Runs, Wheres
  <1>18. ASSUME NEW l \in Legs, EmitFirst(l) PROVE AnswerInv'
    <2>1. pc[l] = "emit" /\ Settles /\ \A m \in Legs \ {l} : pc'[m] = pc[m]
      BY <1>3, <1>18 DEF EmitFirst, Runs, CtlType
    <2> QED
      BY <1>2, <2>1
  <1>19. ASSUME NEW l \in Legs, ReapLosers(l) \/ Accelerate(l) \/ Hurry(l) PROVE AnswerInv'
    BY <1>2, <1>3, <1>5, <1>6, <1>19 DEF ReapLosers, Accelerate, Hurry, Runs, Wheres
  <1>20. ASSUME NEW l \in Legs, Unwind(l) PROVE AnswerInv'
    <2>1. l \in cancelled /\ upstream[l] # "calling"
      BY <1>20 DEF Unwind, ToldInv, BackendToldFirst, UpInv
    <2>2. Settles /\ l \in cancelled' /\ upstream'[l] = upstream[l]
      BY <1>20, <2>1 DEF Unwind, UpType, Settles
    <2>3. \A m \in Legs \ {l} : pc'[m] = pc[m]
      BY <1>5, <1>6, <1>20 DEF Unwind, Wheres
    <2> QED
      BY <1>2, <2>1, <2>2, <2>3
  <1>21. ASSUME NEW l \in Legs, WatchdogFires(l) \/ WatchdogReturns(l) PROVE AnswerInv'
    BY <1>1, <1>3, <1>4, <1>21 DEF WatchdogFires, WatchdogReturns, legVars
  <1>22. CASE \/ KeepAlive \/ ClientCancels \/ WatcherWakes \/ Orchestrated \/ Deliver
              \/ ReaderLeaves \/ CleanupReaps \/ CleanupEnds \/ UNCHANGED vars
    BY <1>1, <1>3, <1>22 DEF KeepAlive, ClientCancels, WatcherWakes, Orchestrated, Deliver,
         ReaderLeaves, CleanupReaps, CleanupEnds, vars, legVars
  <1>23. CASE CancelAllLegs \/ WatcherSweeps \/ CleanupSweeps
    <2>1. Settles
      BY <1>4, <1>23 DEF CancelAllLegs, WatcherSweeps, CleanupSweeps, SweepStep
    <2> QED
      BY <1>1, <1>23, <2>1 DEF CancelAllLegs, WatcherSweeps, CleanupSweeps, legVars
  <1> QED
    BY <1>8, <1>9, <1>10, <1>11, <1>12, <1>13, <1>14, <1>15, <1>16, <1>17, <1>18, <1>19,
       <1>20, <1>21, <1>22, <1>23
    DEF Next, LegStep, Outside, Start, Expire, Watcher, Cleanup, Finished

(* A leg with a handicap that returns without a winner goes through the step *)
(* that accelerates the delayed legs, or is cancelled there by somebody who  *)
(* has stopped the race.                                                     *)
LEMMA HurryStep ==
  ASSUME Types, LockInv, WinInv, StopInv, HurryInv, [Next]_vars PROVE HurryInv'
  <1> USE DEF Types
  <1> DEFINE Over == winner # 0 \/ ShouldStop
             frame == started' = started /\ winner' = winner /\ client' = client
                      /\ stopped' = stopped /\ (accelerate => accelerate')
  <1>1. ASSUME NEW l \in Legs, Return(l), frame, task_cancel' \subseteq task_cancel \ {l}
        PROVE  HurryInv'
    BY <1>1, ReturnEffect DEF HurryInv, FailureStartsTheRest, ShouldStop, LegType
  <1>2. ASSUME NEW l \in Legs, NEW where \in Wheres \ {"hurry", "done"}, Goto(l, where), frame,
               task_cancel' \subseteq task_cancel \/ Over
        PROVE  HurryInv'
    BY <1>2, GotoEffect DEF HurryInv, FailureStartsTheRest, ShouldStop, LegType
  <1>3. ASSUME UNCHANGED <<pc, started, winner>>, accelerate => accelerate',
               ShouldStop => ShouldStop', task_cancel' \subseteq task_cancel \/ Over
        PROVE  HurryInv'
    BY <1>3 DEF HurryInv, FailureStartsTheRest
  <1>4. ASSUME NEW l \in Legs, Accelerate(l) PROVE HurryInv'
    <2>1. accelerate => accelerate'
      BY <1>4, Zenon DEF Accelerate
    <2> QED
      BY <1>1, <1>4, <2>1 DEF Accelerate, Runs, winVars, others, clientVars
  <1>5. ASSUME NEW l \in Legs, LeaveDelay(l) \/ CallFails(l) \/ Resume(l) PROVE HurryInv'
    BY <1>1, <1>2, <1>5 DEF LeaveDelay, CallFails, Resume, Fail, Runs, winVars,
                            others, clientVars, Wheres
  <1>6. ASSUME NEW l \in Legs, Gate(l) PROVE HurryInv'
    <2>1. CASE winner # 0
      BY <1>1, <1>6, <2>1 DEF Gate, Runs, winVars, others, clientVars
    <2>2. CASE winner = 0
      <3>1. /\ started' = started \cup {l} /\ pc'[l] = "calling"
            /\ \A m \in Legs \ {l} : pc'[m] = pc[m]
            /\ UNCHANGED <<winner, stopped, client, accelerate, task_cancel>>
        BY <1>6, <2>2 DEF Gate, CtlType, winVars, others, clientVars
      <3>2. started \subseteq Legs /\ task_cancel \subseteq Legs
        BY DEF LegType
      <3> QED
        BY <3>1, <3>2 DEF HurryInv, FailureStartsTheRest, ShouldStop
    <2> QED
      BY <2>1, <2>2
  <1>7. ASSUME NEW l \in Legs, Pull(l) \/ StreamEnds(l) \/ Check(l) PROVE HurryInv'
    BY <1>1, <1>2, <1>7 DEF Pull, StreamEnds, Check, Fail, Runs, winVars, others, clientVars,
                            Wheres
  <1>8. ASSUME NEW l \in Legs, CallAnswers(l) PROVE HurryInv'
    BY <1>3, <1>8 DEF CallAnswers, legVars, winVars, others, clientVars, ShouldStop
  <1>9. ASSUME NEW l \in Legs, Claim(l) PROVE HurryInv'
    <2>1. CASE winner = 0 /\ ~ShouldStop
      BY <1>9, <2>1, RacerAssumption DEF Claim, HurryInv, FailureStartsTheRest, Legs
    <2>2. CASE ~(winner = 0 /\ ~ShouldStop)
      BY <1>2, <1>9, <2>2 DEF Claim, Wheres, others, clientVars
    <2> QED
      BY <2>1, <2>2
  <1>10. ASSUME NEW l \in Legs, StopLosers(l) PROVE HurryInv'
    BY <1>2, <1>10 DEF StopLosers, Wheres, winVars, others, clientVars
  <1>11. ASSUME NEW l \in Legs, ReapLosers(l) PROVE HurryInv'
    <2>1. winner # 0
      BY <1>11, RacerAssumption DEF ReapLosers, Runs, WinInv, Legs
    <2> QED
      BY <1>2, <1>11, <2>1 DEF ReapLosers, Wheres, winVars, others, clientVars
  <1>12. ASSUME NEW l \in Legs, EmitFirst(l) PROVE HurryInv'
    BY <1>12 DEF EmitFirst, CtlType, HurryInv, FailureStartsTheRest, ShouldStop, others,
                 clientVars
  <1>13. ASSUME NEW l \in Legs, Hurry(l) PROVE HurryInv'
    BY <1>13, GotoEffect DEF Hurry, Runs, HurryInv, FailureStartsTheRest, ShouldStop, LegType,
                 Wheres, winVars, others, clientVars
  <1>14. ASSUME NEW l \in Legs, Unwind(l) PROVE HurryInv'
    <2>1. CASE pc[l] # "hurry"
      BY <1>1, <1>14, <2>1 DEF Unwind, winVars, others, clientVars
    <2>2. CASE pc[l] = "hurry"
      <3>1. Over
        BY <1>14, <2>2 DEF Unwind, HurryInv
      <3> QED
        BY <1>14, <2>2, <3>1, GotoEffect
        DEF Unwind, HurryInv, FailureStartsTheRest, ShouldStop,
           winVars, others, clientVars, Wheres
    <2> QED
      BY <2>1, <2>2
  <1>15. ASSUME NEW l \in Legs, WatchdogFires(l) PROVE HurryInv'
    BY <1>3, <1>15 DEF WatchdogFires, legVars, winVars, others, clientVars, ShouldStop
  <1>16. ASSUME NEW l \in Legs, WatchdogReturns(l) PROVE HurryInv'
    BY <1>16 DEF WatchdogReturns, LockInv, HurryInv, FailureStartsTheRest, ShouldStop,
                 legVars, winVars, others, clientVars
  <1>17. CASE KeepAlive \/ ClientCancels \/ CancelAllLegs \/ WatcherWakes \/ Orchestrated
              \/ Deliver \/ ReaderLeaves \/ CleanupEnds \/ UNCHANGED vars
    BY <1>3, <1>17 DEF KeepAlive, ClientCancels, CancelAllLegs, WatcherWakes, MarkStopped,
         Orchestrated, Deliver, ReaderLeaves, CleanupEnds, vars, legVars, winVars, clientVars,
         EnvType, ShouldStop
  <1>18. CASE WatcherSweeps \/ CleanupSweeps \/ CleanupReaps
    <2>1. ShouldStop
      BY <1>18 DEF WatcherSweeps, CleanupSweeps, CleanupReaps, StopInv, ShouldStop
    <2> QED
      BY <1>3, <1>18, <2>1 DEF WatcherSweeps, CleanupSweeps, CleanupReaps, legVars, winVars,
         clientVars, ShouldStop
  <1> QED
    BY <1>4, <1>5, <1>6, <1>7, <1>8, <1>9, <1>10, <1>11, <1>12, <1>13, <1>14, <1>15, <1>16,
       <1>17, <1>18
    DEF Next, LegStep, Outside, Start, Expire, Watcher, Cleanup, Finished

---------------------------------------------------------------------------
(* The theorems                                                              *)

\* The race starts in the invariant.
LEMMA InvInit == Init => IInv
  <1> SUFFICES ASSUME Init PROVE IInv
    OBVIOUS
  <1>1. TypeOK
    BY TypeInit
  <1>2. 0 \notin Legs /\ Alive = Legs /\ ~EndQueued
    BY RacerAssumption DEF Init, Legs, Alive, EndQueued
  <1>3. LockInv /\ WinInv /\ ToldInv
    BY <1>2 DEF Init, LockInv, WinInv, ToldInv, BackendToldFirst
  <1>4. StopInv /\ UpInv /\ AnswerInv /\ HurryInv
    BY <1>2 DEF Init, StopInv, UpInv, AnswerInv, HurryInv, FailureStartsTheRest
  <1> QED
    BY <1>1, <1>3, <1>4 DEF IInv

\* Every step of a task, a backend, a clock or the client keeps the invariant.
LEMMA InvStep == IInv /\ [Next]_vars => IInv'
  <1> SUFFICES ASSUME IInv, [Next]_vars PROVE IInv'
    OBVIOUS
  <1>1. /\ TypeOK /\ Types /\ LockInv /\ WinInv /\ ToldInv /\ StopInv /\ UpInv /\ AnswerInv
        /\ HurryInv
    BY TypeParts DEF IInv
  <1>2. TypeOK'
    BY <1>1, TypeStep
  <1>3. LockInv' /\ WinInv' /\ ToldInv' /\ StopInv'
    BY <1>1, LockStep, WinStep, ToldStep, StopStep
  <1>4. UpInv' /\ AnswerInv' /\ HurryInv'
    BY <1>1, UpStep, AnswerStep, HurryStep
  <1> QED
    BY <1>2, <1>3, <1>4 DEF IInv

\* The invariant holds throughout every race.
THEOREM Invariance == Spec => []IInv
  BY InvInit, InvStep, PTL DEF Spec

(* Every variable keeps its type in every race: a sweep of _stop_all never   *)
(* cancels the task of a leg that does not exist.                            *)
THEOREM TypeCorrectness == Spec => []TypeOK
  <1>1. IInv => TypeOK
    BY DEF IInv
  <1> QED
    BY <1>1, Invariance, PTL

(* _ttft_watchdog never gives up the leg that has won: from the moment it    *)
(* has the lock until it frees it no leg wins.                               *)
THEOREM WinnerIsSpared == Spec => []WatchdogSparesWinner
  <1>1. IInv => WatchdogSparesWinner
    BY DEF IInv, LockInv, WatchdogSparesWinner
  <1> QED
    BY <1>1, Invariance, PTL

(* A leg's task is never cancelled before the leg's cancel callback has told *)
(* its backend, whoever cancels it (_cancel_leg_task).                       *)
THEOREM BackendIsToldFirst == Spec => []BackendToldFirst
  <1>1. IInv => BackendToldFirst
    BY DEF IInv, ToldInv
  <1> QED
    BY <1>1, Invariance, PTL

(* When the generator's cleanup is over no leg, watchdog or watcher is left, *)
(* every call in progress and every stream that a leg had taken over has     *)
(* been cancelled or is about to be, and a stream that no leg has taken over *)
(* is that of a leg which was cancelled while its call answered.             *)
THEOREM NoLegIsLeftRunning == Spec => []NoLegLeftRunning
  <1>1. IInv => NoLegLeftRunning
    <2> SUFFICES ASSUME IInv, reader = "over"
                 PROVE  /\ Alive = {} /\ lock = 0 /\ watcher = "off"
                        /\ \A l \in Legs : /\ upstream[l] \in Busy => client = "cancelling"
                                           /\ upstream[l] = "answered" => l \in cancelled
      BY DEF NoLegLeftRunning, Busy
    <2>1. Alive = {} /\ watcher = "off"
      BY DEF IInv, StopInv
    <2>2. \A l \in Legs : pc[l] = "done"
      BY <2>1 DEF Alive
    <2>3. lock = 0
      <3>1. \A l \in Legs : lock # l
        BY <2>2 DEF IInv, LockInv
      <3> QED
        BY <3>1, RacerAssumption DEF IInv, TypeOK, Legs
    <2>4. winner # 0 => winner \in Legs
      BY RacerAssumption DEF IInv, TypeOK, Legs
    <2>5. \A l \in Legs : upstream[l] \in Busy => client = "cancelling"
      BY <2>2, <2>4 DEF IInv, UpInv, Busy
    <2>6. \A l \in Legs : upstream[l] = "answered" => l \in cancelled
      BY <2>2 DEF IInv, AnswerInv
    <2> QED
      BY <2>1, <2>3, <2>5, <2>6
  <1> QED
    BY <1>1, Invariance, PTL

(* A leg that has failed, ended or timed out without a winner never leaves   *)
(* the delayed legs waiting (_maybe_accelerate_pending_legs).                *)
THEOREM FailureHurriesTheRest == Spec => []FailureStartsTheRest
  <1>1. IInv => FailureStartsTheRest
    BY DEF IInv, HurryInv
  <1> QED
    BY <1>1, Invariance, PTL

=============================================================================
