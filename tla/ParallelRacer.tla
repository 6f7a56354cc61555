---------------------------- MODULE ParallelRacer ----------------------------
(***************************************************************************)
(* ParallelCompletionRacer.race of src/core/services/                      *)
(* parallel_completion_racer.py with the leg runtimes that                 *)
(* parallel_completion_orchestrator.py gives it: the legs of a parallel    *)
(* route stream at the same time, the first one with a meaningful token    *)
(* wins, and only its chunks are put on the queue the client reads.        *)
(*                                                                         *)
(* Every asyncio task is an actor: the legs, their time-to-first-token     *)
(* watchdogs, the keep-alive loop, the watcher of the client's             *)
(* cancellation, the orchestrator, and the reader (the generator the       *)
(* client pulls, with its cleanup).  What a task does between two awaits   *)
(* is one action.  winner_lock is held across an await only by a watchdog, *)
(* so for everyone else it is a guard.  A task that was sent cancel() does *)
(* nothing but unwind.  Tasks created by one gather start back to back and *)
(* are one action.                                                         *)
(*                                                                         *)
(* A backend's call, its answer and its chunks are the environment's; the  *)
(* timers may fire at any time, except that a leg with a larger handicap   *)
(* is not due after one with a smaller handicap.                           *)
(***************************************************************************)
EXTENDS Integers, Sequences, FiniteSets

CONSTANTS
    N,          \* the number of legs
    Handicap,   \* handicap_seconds of each leg
    Timed,      \* the legs with ttft_timeout_seconds > 0
    MaxChunks,  \* bound: the chunks of one leg
    MaxBeats    \* bound: the keep-alives on the queue that the client has not read

Legs == 1..N

ASSUME RacerAssumption ==
    /\ N \in Nat \ {0}
    /\ Handicap \in [Legs -> Nat]
    /\ Timed \subseteq Legs
    /\ MaxChunks \in Nat
    /\ MaxBeats \in Nat

VARIABLES
    pc,          \* where each leg's task is
    chunk,       \* the chunk it has in hand
    pulled,      \* how many chunks it has pulled
    started,     \* leg_streaming_started
    task_cancel, \* legs whose task was sent cancel() and has not seen it yet
    upstream,    \* the backend call of each leg: "over" when it ended or was cancelled
    cancelled,   \* legs with runtime.cancelled
    watchdog,    \* of each leg: "off", "armed" or "holding" the lock
    lock,        \* winner_lock: the leg whose watchdog holds it, or 0
    winner,      \* winner_leg_id, or 0
    emitted,     \* winner_first_chunk_emitted
    emitted_ev,  \* winner_first_chunk_emitted_event
    first_token, \* first_token_event
    stopped,     \* race_stopped
    accelerate,  \* handicap_accelerate
    client,      \* "connected", "cancelling" (client_cancelled set) or "cancelled"
    watcher,     \* _client_cancel_watcher: "idle", "sweep" or "off"
    wpos,        \* how far its _stop_all is
    reader,      \* the generator: "reading", "sweep", "reap", "await", "over"
    rpos,        \* how far the cleanup's _stop_all is
    finished,    \* finished_normally
    gathering,   \* the orchestrator still waits for the legs
    queue,       \* the queue
    last         \* the last item the client received; Finis when it reads no more

legVars    == <<pc, chunk, pulled, started>>
upVars     == <<upstream, cancelled>>
dogVars    == <<watchdog, lock>>
winVars    == <<winner, emitted>>
clientVars == <<client, watcher, wpos>>
readerVars == <<reader, rpos, finished, last>>
vars == <<legVars, task_cancel, upVars, dogVars, winVars, emitted_ev, first_token,
          stopped, accelerate, clientVars, readerVars, gathering, queue>>

\* The promise of the race, over what the client sees: only chunks of the one leg
\* that won, in order and without a gap, keep-alives only before them, and no
\* regular end before the first chunk of a winner (race).
R == INSTANCE Race WITH
         ending <- IF reader = "reading" THEN "no"
                   ELSE IF finished THEN "normal" ELSE "aborted"

RaceSpec == R!RaceSpec

---------------------------------------------------------------------------
(* Helpers                                                                  *)

Item(kind, l, n) == [kind |-> kind, leg |-> l, n |-> n]
Nothing == Item("nothing", 0, 0)
Beat    == Item("beat", 0, 0)
Finis   == Item("end", 0, 0)

Items == [kind : {"nothing", "beat", "chunk", "end"}, leg : 0..N, n : 0..MaxChunks]

Alive == {l \in Legs : pc[l] # "done"}

ShouldStop == stopped \/ client # "connected"

\* The queue is of no interest once its reader has left.
Put(item) == queue' = IF reader = "reading" THEN Append(queue, item) ELSE <<>>

MarkStopped == stopped' = TRUE /\ first_token' = TRUE

\* Mutant: the cancel callback of an open stream is not called.
CancelCallsOnly(S) ==
    /\ cancelled' = cancelled \cup S
    /\ upstream' = [l \in Legs |->
          IF l \in S \ cancelled /\ upstream[l] = "calling" THEN "over" ELSE upstream[l]]

\* _cancel_leg_runtime of some legs: the flag, and the cancel callback of an
\* open stream or the cancellation of a running call.  A call that has just
\* answered is neither.  The callback is assumed to return; one that raises is
\* logged and its leg's task is cancelled all the same (_request_leg_cancel).
CancelRuntimes(S) ==
    /\ cancelled' = cancelled \cup S
    /\ upstream' = [l \in Legs |->
          IF l \in S \ cancelled /\ upstream[l] \in {"calling", "open"}
          THEN "over" ELSE upstream[l]]

\* _should_defer_winner_cancel, for the reasons client_cancel and race_aborted.
DeferWinner(l) == l = winner /\ ~emitted

\* Mutant: _cancel_leg_task of a leg that is not there.
SweepTooEarly(p) ==
    /\ CancelRuntimes({l \in Legs : l = p /\ ~DeferWinner(l)})
    /\ task_cancel' = task_cancel \cup {p - 1}

\* _stop_all, from one await to the next: _cancel_leg_task of the leg whose cancel
\* callback has returned, and _request_leg_cancel of the next.
SweepStep(p) ==
    /\ CancelRuntimes({l \in Legs : l = p /\ ~DeferWinner(l)})
    /\ task_cancel' = task_cancel \cup {l \in Alive : l = p - 1 /\ ~DeferWinner(l)}

\* Mutant: the watchdog is forgotten with the lock it holds.
ReturnKeepsLock(l) ==
    /\ pc' = [pc EXCEPT ![l] =
          IF l \in started /\ Handicap[l] > 0 /\ winner = 0 THEN "hurry" ELSE "done"]
    /\ watchdog' = [watchdog EXCEPT ![l] = "off"]
    /\ emitted_ev' = (emitted_ev \/ winner = l)
    /\ UNCHANGED lock

\* The finally block of _run_leg, entered from anywhere: the watchdog is
\* cancelled, which frees the lock if it held it.
Return(l) ==
    /\ pc' = [pc EXCEPT ![l] =
          IF l \in started /\ Handicap[l] > 0 /\ winner = 0 THEN "hurry" ELSE "done"]
    /\ watchdog' = [watchdog EXCEPT ![l] = "off"]
    /\ lock' = IF lock = l THEN 0 ELSE lock
    /\ emitted_ev' = (emitted_ev \/ winner = l)

\* The leg goes on to the next await.
Goto(l, where) ==
    /\ pc' = [pc EXCEPT ![l] = where]
    /\ UNCHANGED <<dogVars, emitted_ev>>

\* An exception or a terminal error: _stop_leg of the leg itself.
Fail(l) == CancelRuntimes({l}) /\ Goto(l, "failed")

Runs(l, where) == pc[l] = where /\ l \notin task_cancel

others == <<clientVars, readerVars, gathering>>

Init ==
    /\ pc = [l \in Legs |-> "delay"]
    /\ chunk = [l \in Legs |-> "none"]
    /\ pulled = [l \in Legs |-> 0]
    /\ started = {} /\ task_cancel = {}
    /\ upstream = [l \in Legs |-> "none"]
    /\ cancelled = {}
    /\ watchdog = [l \in Legs |-> "off"]
    /\ lock = 0 /\ winner = 0
    /\ emitted = FALSE /\ emitted_ev = FALSE /\ first_token = FALSE
    /\ stopped = FALSE /\ accelerate = FALSE
    /\ client = "connected"
    /\ watcher = "idle" /\ wpos = 1
    /\ reader = "reading" /\ rpos = 1 /\ finished = FALSE
    /\ gathering = TRUE
    /\ queue = <<>> /\ last = Nothing

---------------------------------------------------------------------------
(* The legs: _run_leg, and the call that its stream_factory makes           *)

LeaveDelay(l) ==
    /\ Runs(l, "delay")
    /\ IF ShouldStop THEN Return(l) ELSE Goto(l, "gate")
    /\ UNCHANGED <<chunk, pulled, started, task_cancel, upVars, winVars, first_token,
                   stopped, accelerate, others, queue>>

\* _wait_handicap_delay: no delay, or handicap_accelerate was set ...
Start(l) ==
    /\ accelerate \/ \A m \in Legs : Handicap[m] <= Handicap[l]
    /\ LeaveDelay(l)

\* ... or the delay is over.
Expire(l) ==
    /\ \A m \in Legs : Handicap[m] > Handicap[l] => pc[m] # "delay"
    /\ LeaveDelay(l)

\* The winner check before the start, then the watchdog and the backend call.
Gate(l) ==
    /\ Runs(l, "gate") /\ lock = 0
    /\ \/ winner # 0 /\ Return(l) /\ UNCHANGED <<started, upstream>>
       \/ /\ winner = 0
          /\ pc' = [pc EXCEPT ![l] = "calling"]
          /\ started' = started \cup {l}
          /\ watchdog' = [watchdog EXCEPT ![l] = IF l \in Timed THEN "armed" ELSE "off"]
          /\ upstream' = [upstream EXCEPT ![l] = IF l \in cancelled THEN @ ELSE "calling"]
          /\ UNCHANGED <<lock, emitted_ev>>
    /\ UNCHANGED <<chunk, pulled, task_cancel, cancelled, winVars, first_token, stopped,
                   accelerate, others, queue>>

\* The backend answers the call with a stream ...
CallAnswers(l) ==
    /\ upstream[l] = "calling"
    /\ upstream' = [upstream EXCEPT ![l] = "answered"]
    /\ UNCHANGED <<legVars, task_cancel, cancelled, dogVars, winVars, emitted_ev,
                   first_token, stopped, accelerate, others, queue>>

\* ... or with an exception, or there is none for the route.
CallFails(l) ==
    /\ Runs(l, "calling") /\ upstream[l] = "calling"
    /\ Fail(l)
    /\ UNCHANGED <<chunk, pulled, started, task_cancel, winVars, first_token, stopped,
                   accelerate, others, queue>>

\* The leg continues after its await of the call.  The answer of a call whose
\* leg was cancelled meanwhile is left where it is.
Resume(l) ==
    /\ Runs(l, "calling") /\ upstream[l] # "calling"
    /\ \/ /\ upstream[l] = "answered" /\ l \notin cancelled
          /\ upstream' = [upstream EXCEPT ![l] = "open"]
          /\ Goto(l, "pulling")
       \/ /\ upstream[l] # "answered" \/ l \in cancelled
          /\ Return(l)
          /\ UNCHANGED upstream
    /\ UNCHANGED <<chunk, pulled, started, task_cancel, cancelled, winVars, first_token,
                   stopped, accelerate, others, queue>>

\* A chunk arrives.
Pull(l) ==
    /\ Runs(l, "pulling") /\ pulled[l] < MaxChunks
    /\ pulled' = [pulled EXCEPT ![l] = @ + 1]
    /\ \/ ShouldStop /\ Return(l) /\ UNCHANGED chunk
       \/ /\ ~ShouldStop
          /\ \E kind \in {"token", "noise", "error"} : chunk' = [chunk EXCEPT ![l] = kind]
          /\ Goto(l, "check")
    /\ UNCHANGED <<started, task_cancel, upVars, winVars, first_token, stopped,
                   accelerate, others, queue>>

\* The stream ends, or raises an exception.
StreamEnds(l) ==
    /\ Runs(l, "pulling")
    /\ \/ /\ upstream' = [upstream EXCEPT ![l] = "over"]
          /\ Return(l)
          /\ UNCHANGED cancelled
       \/ Fail(l)
    /\ UNCHANGED <<chunk, pulled, started, task_cancel, winVars, first_token, stopped,
                   accelerate, others, queue>>

\* What becomes of the chunk: another leg has won, a terminal error, a chunk
\* of the winner, nothing meaningful, or a first token.
Check(l) ==
    /\ Runs(l, "check") /\ lock = 0
    /\ \/ winner \notin {0, l} /\ Return(l) /\ UNCHANGED <<upVars, queue>>
       \/ winner \in {0, l} /\ chunk[l] = "error" /\ Fail(l) /\ UNCHANGED queue
       \/ /\ winner = l /\ chunk[l] # "error"
          /\ Put(Item("chunk", l, pulled[l])) /\ Goto(l, "pulling")
          /\ UNCHANGED upVars
       \/ /\ winner = 0 /\ chunk[l] # "error"
          /\ Goto(l, IF chunk[l] = "token" THEN "claim" ELSE "pulling")
          /\ UNCHANGED <<upVars, queue>>
    /\ chunk' = [chunk EXCEPT ![l] = "none"]
    /\ UNCHANGED <<pulled, started, task_cancel, winVars, first_token, stopped, accelerate,
                   others>>

\* Mutant: the winner is not looked up again under the lock.
ClaimAnyway(l) ==
    /\ Runs(l, "claim") /\ lock = 0
    /\ winner' = l /\ first_token' = TRUE
    /\ pc' = [pc EXCEPT ![l] = "announce"]
    /\ watchdog' = [watchdog EXCEPT ![l] = "off"]
    /\ UNCHANGED <<chunk, pulled, started, task_cancel, upVars, emitted, emitted_ev, lock,
                   stopped, accelerate, others, queue>>

Claim(l) ==
    /\ Runs(l, "claim") /\ lock = 0
    /\ \/ /\ winner = 0 /\ ~ShouldStop
          /\ winner' = l /\ first_token' = TRUE
          /\ pc' = [pc EXCEPT ![l] = "announce"]
          /\ watchdog' = [watchdog EXCEPT ![l] = "off"]
          /\ UNCHANGED <<lock, emitted_ev>>
       \/ /\ winner # 0 \/ ShouldStop
          /\ Goto(l, "pulling")
          /\ UNCHANGED <<winner, first_token>>
    /\ UNCHANGED <<chunk, pulled, started, task_cancel, upVars, emitted, stopped,
                   accelerate, others, queue>>

\* Mutant: the losers' callbacks are skipped.
SkipLosers(l) ==
    /\ Runs(l, "announce")
    /\ Goto(l, "emit")
    /\ UNCHANGED <<chunk, pulled, started, task_cancel, upVars, winVars, first_token,
                   stopped, accelerate, others, queue>>

\* _stop_loser_protocols: the cancel callbacks of all other legs.
StopLosers(l) ==
    /\ Runs(l, "announce")
    /\ CancelRuntimes(Legs \ {l})
    /\ Goto(l, "emit")
    /\ UNCHANGED <<chunk, pulled, started, task_cancel, winVars, first_token, stopped,
                   accelerate, others, queue>>

\* The callbacks have returned; the first chunk goes out.
EmitFirst(l) ==
    /\ Runs(l, "emit")
    /\ Put(Item("chunk", l, pulled[l]))
    /\ emitted' = TRUE /\ emitted_ev' = TRUE
    /\ pc' = [pc EXCEPT ![l] = "reap"]
    /\ UNCHANGED <<chunk, pulled, started, task_cancel, upVars, dogVars, winner,
                   first_token, stopped, accelerate, others>>

\* _stop_loser_tasks.
ReapLosers(l) ==
    /\ Runs(l, "reap")
    /\ task_cancel' = task_cancel \cup (Alive \ {l})
    /\ Goto(l, "pulling")
    /\ UNCHANGED <<chunk, pulled, started, upVars, winVars, first_token, stopped,
                   accelerate, others, queue>>

\* _request_pending_leg_acceleration.
Accelerate(l) ==
    /\ Runs(l, "failed") /\ lock = 0
    /\ accelerate' = (accelerate \/ (winner = 0 /\ ~ShouldStop))
    /\ Return(l)
    /\ UNCHANGED <<chunk, pulled, started, task_cancel, upVars, winVars, first_token,
                   stopped, others, queue>>

\* Mutant: the leg leaves without telling the delayed ones.
HurryNobody(l) ==
    /\ Runs(l, "hurry") /\ lock = 0
    /\ Goto(l, "done")
    /\ UNCHANGED <<chunk, pulled, started, task_cancel, upVars, winVars, first_token,
                   stopped, accelerate, others, queue>>

\* _maybe_accelerate_pending_legs, for a leg that returned without a winner.
Hurry(l) ==
    /\ Runs(l, "hurry") /\ lock = 0
    /\ accelerate' = (accelerate \/ ~ShouldStop)
    /\ Goto(l, "done")
    /\ UNCHANGED <<chunk, pulled, started, task_cancel, upVars, winVars, first_token,
                   stopped, others, queue>>

\* The CancelledError of task.cancel(); it reaches a call that is awaited too.
Unwind(l) ==
    /\ l \in task_cancel \cap Alive
    /\ task_cancel' = task_cancel \ {l}
    /\ upstream' = [upstream EXCEPT ![l] =
          IF pc[l] = "calling" /\ @ = "calling" THEN "over" ELSE @]
    /\ IF pc[l] = "hurry" THEN Goto(l, "done") ELSE Return(l)
    /\ UNCHANGED <<chunk, pulled, started, cancelled, winVars, first_token, stopped,
                   accelerate, others, queue>>

---------------------------------------------------------------------------
(* The watchdogs and the keep-alives                                        *)

\* Mutant: the watchdog does not look for a winner.
WatchdogBlind(l) ==
    /\ watchdog[l] = "armed" /\ lock = 0
    /\ CancelRuntimes({l})
    /\ watchdog' = [watchdog EXCEPT ![l] = "holding"]
    /\ lock' = l
    /\ UNCHANGED <<legVars, task_cancel, winVars, emitted_ev, first_token, stopped,
                   accelerate, others, queue>>

\* The time to first token is over and the watchdog has the lock: it keeps it
\* while the leg's cancel callback runs.
WatchdogFires(l) ==
    /\ watchdog[l] = "armed" /\ lock = 0
    /\ \/ /\ winner = 0 /\ ~ShouldStop
          /\ CancelRuntimes({l})
          /\ watchdog' = [watchdog EXCEPT ![l] = "holding"]
          /\ lock' = l
       \/ /\ winner # 0 \/ ShouldStop
          /\ watchdog' = [watchdog EXCEPT ![l] = "off"]
          /\ UNCHANGED <<upVars, lock>>
    /\ UNCHANGED <<legVars, task_cancel, winVars, emitted_ev, first_token, stopped,
                   accelerate, others, queue>>

WatchdogReturns(l) ==
    /\ watchdog[l] = "holding"
    /\ watchdog' = [watchdog EXCEPT ![l] = "off"]
    /\ lock' = 0
    /\ task_cancel' = task_cancel \cup ({l} \cap Alive)
    /\ UNCHANGED <<legVars, upVars, winVars, emitted_ev, first_token, stopped,
                   accelerate, others, queue>>

KeepAlive ==
    /\ gathering /\ ~ShouldStop /\ ~first_token /\ Len(queue) < MaxBeats
    /\ Put(Beat)
    /\ UNCHANGED <<legVars, task_cancel, upVars, dogVars, winVars, emitted_ev, first_token,
                   stopped, accelerate, clientVars, readerVars, gathering>>

---------------------------------------------------------------------------
(* The client's cancellation                                                *)

\* _cancel_all_legs, the envelope's cancel callback, sets client_cancelled ...
ClientCancels ==
    /\ client = "connected" /\ reader # "over"
    /\ client' = "cancelling"
    /\ UNCHANGED <<legVars, task_cancel, upVars, dogVars, winVars, emitted_ev, first_token,
                   stopped, accelerate, watcher, wpos, readerVars, gathering, queue>>

\* ... and cancels the runtimes of all legs.
CancelAllLegs ==
    /\ client = "cancelling"
    /\ client' = "cancelled"
    /\ CancelRuntimes(Legs)
    /\ UNCHANGED <<legVars, task_cancel, dogVars, winVars, emitted_ev, first_token,
                   stopped, accelerate, watcher, wpos, readerVars, gathering, queue>>

WatcherWakes ==
    /\ watcher = "idle" /\ client # "connected"
    /\ watcher' = "sweep"
    /\ MarkStopped
    /\ UNCHANGED <<legVars, task_cancel, upVars, dogVars, winVars, emitted_ev, accelerate,
                   client, wpos, readerVars, gathering, queue>>

\* A winner whose first chunk is not out yet: _client_cancel_watcher, which looks for it
\* under the lock, and _cleanup wait for that chunk before they stop the legs.
FirstChunkAwaited == winner # 0 /\ ~emitted /\ ~emitted_ev

WatcherSweeps ==
    /\ watcher = "sweep"
    /\ wpos = 1 => lock = 0 /\ ~FirstChunkAwaited
    /\ SweepStep(wpos)
    /\ \/ /\ wpos <= N
          /\ wpos' = wpos + 1
          /\ UNCHANGED <<watcher, queue>>
       \/ /\ wpos = N + 1
          /\ watcher' = "off" /\ Put(Finis)
          /\ UNCHANGED wpos
    /\ UNCHANGED <<legVars, dogVars, winVars, emitted_ev, first_token, stopped, accelerate,
                   client, readerVars, gathering>>

---------------------------------------------------------------------------
(* The orchestrator and the reader                                          *)

\* All legs are done: the auxiliary tasks are cancelled and the stream ends.
Orchestrated ==
    /\ gathering /\ Alive = {}
    /\ gathering' = FALSE
    /\ MarkStopped
    /\ watcher' = "off"
    /\ Put(Finis)
    /\ UNCHANGED <<legVars, task_cancel, upVars, dogVars, winVars, emitted_ev, accelerate,
                   client, wpos, readerVars>>

Deliver ==
    /\ reader = "reading" /\ queue # <<>>
    /\ \/ /\ Head(queue) # Finis
          /\ last' = Head(queue)
          /\ queue' = Tail(queue)
          /\ UNCHANGED <<reader, finished, stopped, first_token>>
       \/ /\ Head(queue) = Finis
          /\ last' = Finis /\ finished' = TRUE
          /\ reader' = "reap" /\ queue' = <<>>
          /\ MarkStopped
    /\ UNCHANGED <<legVars, task_cancel, upVars, dogVars, winVars, emitted_ev, accelerate,
                   clientVars, rpos, gathering>>

\* The client closes the stream, or its request is cancelled while it waits.
ReaderLeaves ==
    /\ reader = "reading"
    /\ reader' = "sweep" /\ queue' = <<>> /\ last' = Finis
    /\ MarkStopped
    /\ UNCHANGED <<legVars, task_cancel, upVars, dogVars, winVars, emitted_ev, accelerate,
                   clientVars, rpos, finished, gathering>>

CleanupSweeps ==
    /\ reader = "sweep"
    /\ rpos = 1 => ~FirstChunkAwaited
    /\ SweepStep(rpos)
    /\ \/ rpos <= N /\ rpos' = rpos + 1 /\ UNCHANGED reader
       \/ rpos = N + 1 /\ reader' = "reap" /\ UNCHANGED rpos
    /\ UNCHANGED <<legVars, dogVars, winVars, emitted_ev, first_token, stopped, accelerate,
                   clientVars, finished, last, gathering, queue>>

\* The orchestrator and every task that is left are cancelled ...
CleanupReaps ==
    /\ reader = "reap"
    /\ reader' = "await"
    /\ gathering' = FALSE
    /\ watcher' = "off"
    /\ task_cancel' = task_cancel \cup Alive
    /\ UNCHANGED <<legVars, upVars, dogVars, winVars, emitted_ev, first_token, stopped,
                   accelerate, client, wpos, rpos, finished, last, queue>>

\* ... and awaited.
CleanupEnds ==
    /\ reader = "await" /\ Alive = {}
    /\ reader' = "over"
    /\ UNCHANGED <<legVars, task_cancel, upVars, dogVars, winVars, emitted_ev, first_token,
                   stopped, accelerate, clientVars, rpos, finished, last, gathering,
                   queue>>

\* The race is over and nobody acts any more.
Finished == reader = "over" /\ client # "cancelling" /\ UNCHANGED vars

---------------------------------------------------------------------------
LegStep(l) ==
    \/ Start(l) \/ Gate(l) \/ Resume(l) \/ Check(l) \/ Claim(l) \/ StopLosers(l)
    \/ EmitFirst(l) \/ ReapLosers(l) \/ Accelerate(l) \/ Hurry(l)
    \/ Unwind(l)

\* What the backends and the clocks do.
Outside(l) ==
    \/ Expire(l) \/ CallAnswers(l) \/ CallFails(l) \/ Pull(l) \/ StreamEnds(l)
    \/ WatchdogFires(l)

Watcher == WatcherWakes \/ WatcherSweeps

Cleanup == CleanupSweeps \/ CleanupReaps \/ CleanupEnds

Next ==
    \/ \E l \in Legs : LegStep(l) \/ Outside(l) \/ WatchdogReturns(l)
    \/ KeepAlive \/ ClientCancels \/ CancelAllLegs \/ Watcher \/ Orchestrated
    \/ Deliver \/ ReaderLeaves \/ Cleanup \/ Finished

Spec == Init /\ [][Next]_vars

\* What the event loop has to run.
Tasks ==
    \/ \E l \in Legs : LegStep(l) \/ WatchdogReturns(l)
    \/ CancelAllLegs \/ Watcher \/ Orchestrated \/ Cleanup

\* As long as a task can run the event loop runs one, and the client reads.  Nothing
\* is assumed of the backends and the timers: a call may never answer, a stream may
\* fall silent and a delay may be long.
FairSpec == Spec /\ WF_vars(Tasks) /\ WF_vars(Deliver)

---------------------------------------------------------------------------
(* Properties                                                               *)

\* Every variable has its type; a sweep never cancels a leg that does not exist.
TypeOK ==
    /\ pc \in [Legs -> {"delay", "gate", "calling", "pulling", "check", "claim", "announce",
                        "emit", "reap", "failed", "hurry", "done"}]
    /\ chunk \in [Legs -> {"none", "token", "noise", "error"}]
    /\ pulled \in [Legs -> 0..MaxChunks]
    /\ started \subseteq Legs /\ task_cancel \subseteq Legs /\ cancelled \subseteq Legs
    /\ upstream \in [Legs -> {"none", "calling", "answered", "open", "over"}]
    /\ watchdog \in [Legs -> {"off", "armed", "holding"}]
    /\ lock \in 0..N /\ winner \in 0..N
    /\ {emitted, emitted_ev, first_token, stopped, accelerate, finished, gathering}
          \subseteq BOOLEAN
    /\ client \in {"connected", "cancelling", "cancelled"}
    /\ watcher \in {"idle", "sweep", "off"} /\ wpos \in 1..N + 1
    /\ reader \in {"reading", "sweep", "reap", "await", "over"}
    /\ rpos \in 1..N + 1
    /\ queue \in Seq(Items) /\ last \in Items

\* While a watchdog cancels its leg for its late first token no leg has won: the
\* leg it gives up is never the one whose stream the client is about to get
\* (_ttft_watchdog against the claim in _run_leg).
WatchdogSparesWinner == \A l \in Legs : watchdog[l] = "holding" => winner = 0

\* A leg's task is cancelled only after its backend was told through the leg's
\* cancel callback, whoever stops it: the winner, a watchdog, the client's
\* cancellation or the cleanup of a closed stream.
BackendToldFirst == task_cancel \cap Alive \subseteq cancelled

\* When the race is over no task of it is left, nobody holds the lock, and every call in
\* progress and every stream a leg had taken over is cancelled or about to be by
\* _cancel_all_legs.  What a leg may leave behind is the stream of a call that had
\* answered, and only if the leg was cancelled before its task resumed
\* (_stream_factory): a leg that nobody cancelled leaves nothing behind.
NoLegLeftRunning ==
    reader = "over" =>
        /\ Alive = {} /\ lock = 0 /\ watcher = "off"
        /\ \A l \in Legs :
            /\ upstream[l] \in {"calling", "open"} => client = "cancelling"
            /\ upstream[l] = "answered" => l \in cancelled

\* What the documentation promises: the proxy "cancels all losing B-legs" and, when
\* the client goes, "all active and scheduled B-legs are stopped".  After the race no
\* backend is left with a call or a stream.
NoBackendLeftOpen ==
    reader = "over" /\ client # "cancelling" =>
        \A l \in Legs : upstream[l] \in {"none", "over"}

\* Once the client cancels, leaves or has read the end, the race comes to its end,
\* also when backends are silent for ever.
GoneMeansStopped == (client # "connected" \/ reader # "reading") ~> (reader = "over")

\* When a leg with a handicap has run and returned, for whatever reason, and there
\* is no winner, the legs that still wait for their delay need not wait any longer.
FailureStartsTheRest ==
    (/\ winner = 0 /\ ~ShouldStop
     /\ \E l \in started : Handicap[l] > 0 /\ pc[l] = "done")
        => accelerate

=============================================================================
