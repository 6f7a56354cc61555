-------------------------- MODULE SessionEndProofs --------------------------
(***************************************************************************)
(* What SessionEnd promises, for any number of requests that share an id,  *)
(* any number of retries and any number of restarts.                       *)
(*                                                                         *)
(* The inductive invariant has five parts besides the types: who may still *)
(* win the claim (ClaimInv), what the cache remembers (OpenInv), how long  *)
(* the mark of a cancelled session stands (KeyInv), when a request signals *)
(* (EndInv) and where an open stream can be (StreamInv).                   *)
(***************************************************************************)
EXTENDS SessionEnd, TLAPS

(* claim_eos_emission: an event was emitted on a claim only if the row of its *)
(* id carries eos_emitted_at; whoever has won and has not emitted yet found   *)
(* no earlier event, and is alone.                                            *)
ClaimInv ==
    /\ \A i \in Ids : claimed[i] \in {0, 1} /\ (claimed[i] = 1 => row[i] = "ended")
    /\ \A t \in Tasks :
         At(t, "won") => row[sig[t].id] = "ended" /\ claimed[sig[t].id] = 0
    /\ \A t, u \in Tasks :
         At(t, "won") /\ At(u, "won") /\ sig[t].id = sig[u].id => t = u

(* record_signal without the database: an event it emitted is in the cache,   *)
(* under the id that every later signal asks for.                             *)
OpenInv == opened \in {0, 1} /\ (opened = 1 => "request" \in seen)

\* A termination that passed report_client_termination and may still publish
\* the event whose cleanup erases the coordinator's state.
Terminates(t) ==
    sig[t].id = "request" /\ sig[t].at \in {"metrics", "claim", "won", "raised"}

(* From the report of a termination until its cleanup has run the session     *)
(* stays cancelled: the second report returns early, so that one termination  *)
(* and one cleanup at most are on their way, never both.                      *)
KeyInv ==
    /\ \A t \in Tasks : Terminates(t) => key = "cancelled" /\ cleanups = 0
    /\ \A t, u \in Tasks : Terminates(t) /\ Terminates(u) => t = u
    /\ cleanups \in {0, 1}
    /\ cleanups = 1 => key = "cancelled"

(* A request signals only when it is over.                                    *)
EndInv == \A t \in Tasks : pc[t] # "over" => At(t, "none")

(* An open upstream belongs to a call that dies with its task, or it is held  *)
(* by the coordinator, and the departure of its client has not been reported: *)
(* a report either finds the session cancelled, with nothing held, or cancels *)
(* whatever is held.                                                          *)
StreamInv ==
    \A s \in Streams :
        upstream[s] = "open" =>
            /\ (s = Cur(s[1]) /\ pc[s[1]] = "calling") \/ s \in held
            /\ ~Reported(s[1])

\* The inductive invariant of the module.
IInv == TypeOK /\ ClaimInv /\ OpenInv /\ KeyInv /\ EndInv /\ StreamInv

-----------------------------------------------------------------------------
(* The proxy starts with no request, no row and nothing cancelled, which      *)
(* satisfies every part of the invariant.                                     *)
LEMMA InvInit == Init => IInv
  <1> SUFFICES ASSUME Init PROVE IInv
    OBVIOUS
  <1>1. TypeOK
    BY SessionAssumption DEF Init, TypeOK, Ids, Streams
  <1>2. ClaimInv
    BY DEF Init, ClaimInv, At, Ids
  <1>3. OpenInv /\ KeyInv
    BY DEF Init, OpenInv, KeyInv, Terminates
  <1>4. EndInv /\ StreamInv
    BY DEF Init, EndInv, StreamInv, At
  <1> QED
    BY <1>1, <1>2, <1>3, <1>4 DEF IInv

(* The stream of a task's attempt is one that can be asked for.               *)
LEMMA CurIsStream == ASSUME TypeOK, NEW t \in Tasks PROVE Cur(t) \in Streams
  BY DEF TypeOK, Cur, Streams

(* A request that goes again is at its next attempt, one that does not is     *)
(* over, and no other request moves.                                          *)
LEMMA GoesAgain ==
  ASSUME TypeOK, NEW t \in Tasks, GoAgain(t)
  PROVE  /\ pc' \in [Tasks -> {"idle", "gate", "accounting", "calling", "wrapping",
                               "ready", "streaming", "over"}]
         /\ pc'[t] \in {"gate", "over"}
         /\ retries' \in 0 .. MaxRetries
         /\ try' \in [Tasks -> 0 .. MaxRetries]
         /\ \A u \in Tasks : try'[u] <= retries'
         /\ \A u \in Tasks : u # t => pc'[u] = pc[u] /\ try'[u] = try[u]
  <1>1. CASE /\ retries < MaxRetries
             /\ Goto(t, "gate")
             /\ retries' = retries + 1
             /\ try' = [try EXCEPT ![t] = @ + 1]
    BY <1>1, SessionAssumption DEF TypeOK, Goto
  <1>2. CASE Goto(t, "over") /\ UNCHANGED <<retries, try>>
    BY <1>2 DEF TypeOK, Goto
  <1> QED
    BY <1>1, <1>2 DEF GoAgain

(* Every operation of the coordinator, the reports, the claim and the         *)
(* subscribers keeps the types, and the coordinator drops its cancellables    *)
(* whenever the session leaves the active state.                              *)
LEMMA TypeStep == ASSUME TypeOK, [Next]_vars PROVE TypeOK'
  <1>1. ASSUME NEW t \in Tasks, Begin(t) PROVE TypeOK'
    BY <1>1 DEF TypeOK, Ids, coord, handlers, history, Begin, Goto, ensure_session_metrics
  <1>2. ASSUME NEW t \in Tasks, Gate(t) PROVE TypeOK'
    BY <1>2 DEF TypeOK, others, coord, handlers, history, Gate, Goto
  <1>3. ASSUME NEW t \in Tasks, Call(t) PROVE TypeOK'
    BY <1>3, CurIsStream DEF TypeOK, others, coord, handlers, history, Call, Goto
  <1>4. ASSUME NEW t \in Tasks, CallFails(t) PROVE TypeOK'
    <2>1. upstream' \in [Streams -> {"none", "open", "bare", "cancelled"}]
      BY <1>4, CurIsStream DEF TypeOK, CallFails
    <2> QED
      BY <1>4, <2>1, GoesAgain DEF TypeOK, others, coord, handlers, history, CallFails
  <1>5. ASSUME NEW t \in Tasks, NEW callback \in BOOLEAN, CallAnswers(t, callback)
        PROVE  TypeOK'
    BY <1>5, CurIsStream DEF TypeOK, others, coord, handlers, history, CallAnswers, Goto,
                register_cancellable, CancelUpstream
  <1>6. ASSUME NEW t \in Tasks, Deliver(t) \/ Start(t) \/ Drop(t) \/ Stop(t) PROVE TypeOK'
    BY <1>6 DEF TypeOK, others, coord, handlers, history, Deliver, Start, Drop, Stop, Goto
  <1>7. ASSUME NEW t \in Tasks, ErrorEnvelope(t) PROVE TypeOK'
    BY <1>7, GoesAgain DEF TypeOK, others, coord, handlers, history, ErrorEnvelope
  <1>8. ASSUME NEW t \in Tasks, Complete(t) PROVE TypeOK'
    BY <1>8, CurIsStream DEF TypeOK, Ids, coord, handlers, history, Complete, Goto
  <1>9. ASSUME NEW t \in Tasks, Leave(t) PROVE TypeOK'
    BY <1>9, CurIsStream DEF TypeOK, Ids, coord, handlers, history, Leave, Goto
  <1>10. ASSUME NEW t \in Tasks, Report(t) PROVE TypeOK'
    <2>1. CASE key = "cancelled"
      BY <1>10, <2>1 DEF TypeOK, coord, handlers, history, Report, Moves
    <2>2. CASE key # "cancelled"
      BY <1>10, <2>2 DEF TypeOK, handlers, history, Report, Moves, cancel_session,
                         CancelUpstream
    <2> QED
      BY <2>1, <2>2
  <1>11. ASSUME NEW t \in Tasks, Metrics(t) PROVE TypeOK'
    BY <1>11 DEF TypeOK, Ids, tasks, coord, handlers, history, Metrics, Moves,
                 ensure_session_metrics
  <1>12. ASSUME NEW t \in Tasks, Claim(t) PROVE TypeOK'
    BY <1>12 DEF TypeOK, Ids, tasks, coord, handlers, history, Claim, Moves
  <1>13. ASSUME NEW t \in Tasks, Won(t) PROVE TypeOK'
    BY <1>13 DEF TypeOK, Ids, tasks, coord, Won, Moves, Publish
  <1>14. ASSUME NEW t \in Tasks, Lost(t) PROVE TypeOK'
    BY <1>14 DEF TypeOK, Ids, tasks, coord, handlers, history, Lost, Moves
  <1>15. ASSUME NEW t \in Tasks, Raised(t) PROVE TypeOK'
    BY <1>15 DEF TypeOK, Ids, tasks, coord, handlers, Raised, Moves, Publish
  <1>16. CASE CleanupHandler
    BY <1>16 DEF TypeOK, tasks, history, CleanupHandler, cleanup
  <1>17. ASSUME NEW i \in Ids, UsageHandler(i) PROVE TypeOK'
    BY <1>17 DEF TypeOK, tasks, coord, history, UsageHandler
  <1>18. CASE Forget
    BY <1>18 DEF TypeOK, tasks, coord, handlers, Forget
  <1>19. CASE Restart
    BY <1>19, SessionAssumption DEF TypeOK, Restart
  <1>20. CASE UNCHANGED vars
    BY <1>20 DEF TypeOK, tasks, coord, handlers, history, vars
  <1> QED
    BY <1>1, <1>2, <1>3, <1>4, <1>5, <1>6, <1>7, <1>8, <1>9, <1>10, <1>11, <1>12,
       <1>13, <1>14, <1>15, <1>16, <1>17, <1>18, <1>19, <1>20
    DEF Next, Request, Signal, Handlers, Quiet

-----------------------------------------------------------------------------
(* A signal that goes on keeps its id, and every other signal stays where it  *)
(* is.                                                                        *)
LEMMA MovesOne ==
  ASSUME TypeOK, NEW t \in Tasks, NEW label, Moves(t, label)
  PROVE  /\ sig'[t].at = label
         /\ \A u \in Tasks : sig'[u].id = sig[u].id /\ (u # t => sig'[u].at = sig[u].at)
  BY DEF TypeOK, Moves

(* ensure_session_metrics never touches a row that exists: what has ended     *)
(* stays ended.                                                               *)
LEMMA MetricsKeepEnded ==
  ASSUME TypeOK, ensure_session_metrics
  PROVE  \A i \in Ids : row[i] = "ended" => row'[i] = "ended"
  BY DEF TypeOK, Ids, ensure_session_metrics, WritesRow

(* Of all the signals that claim an id one wins: the conditional update takes *)
(* the row from open to ended and no step takes it back, not even a restart.  *)
LEMMA ClaimStep == ASSUME TypeOK, ClaimInv, [Next]_vars PROVE ClaimInv'
  <1>1. ASSUME UNCHANGED <<claimed, row, sig>> PROVE ClaimInv'
    BY <1>1 DEF ClaimInv, At
  <1>2. ASSUME NEW t \in Tasks,
               Request(t), ~Complete(t), ~Leave(t)
        PROVE  UNCHANGED <<claimed, row, sig>>
    BY <1>2 DEF others, history, Request, Gate, Call, CallFails, CallAnswers, ErrorEnvelope,
                Deliver, Start, Drop, Stop
  <1>3. ASSUME NEW t \in Tasks, Begin(t) PROVE ClaimInv'
    BY <1>3, MetricsKeepEnded DEF TypeOK, ClaimInv, At, history, Begin
  <1>4. ASSUME NEW t \in Tasks, Complete(t) PROVE ClaimInv'
    BY <1>4 DEF TypeOK, ClaimInv, At, history, Complete
  <1>5. ASSUME NEW t \in Tasks, Leave(t) PROVE ClaimInv'
    BY <1>5 DEF TypeOK, ClaimInv, At, history, Leave
  <1>6. ASSUME NEW t \in Tasks, Report(t) PROVE ClaimInv'
    <2>1. PICK label \in {"done", "metrics"} : Moves(t, label)
      BY <1>6 DEF Report
    <2>2. \A u \in Tasks : sig'[u].id = sig[u].id /\ (At(u, "won")' => At(u, "won"))
      BY <2>1, MovesOne DEF At
    <2> QED
      BY <1>6, <2>2 DEF ClaimInv, Report, history
  <1>7. ASSUME NEW t \in Tasks, Metrics(t) PROVE ClaimInv'
    BY <1>7, MetricsKeepEnded DEF TypeOK, ClaimInv, At, history, Metrics, Moves
  <1>8. ASSUME NEW t \in Tasks, Claim(t) PROVE ClaimInv'
    <2> DEFINE i == sig[t].id
    <2>1. i \in Ids /\ \A u \in Tasks : sig'[u].id = sig[u].id
      <3>1. \E label : Moves(t, label)
        BY <1>8 DEF Claim
      <3> QED
        BY <3>1, MovesOne DEF TypeOK
    <2>2. \A u \in Tasks : At(u, "won")' => At(u, "won") \/ (u = t /\ row[i] = "open")
      BY <1>8 DEF TypeOK, Claim, Moves, At
    <2>3. At(t, "won")' => row'[i] = "ended"
      BY <1>8, <2>1 DEF TypeOK, Claim, Moves, At
    <2>4. claimed' = claimed /\ \A j \in Ids : row[j] = "ended" => row'[j] = "ended"
      BY <1>8, <2>1 DEF TypeOK, Claim, history
    <2>5. At(t, "claim")
      BY <1>8 DEF Claim
    <2>6. \A j \in Ids : row[j] = "open" => claimed[j] = 0
      BY DEF ClaimInv
    <2>7. \A u \in Tasks : At(u, "won") => row[sig[u].id] = "ended" /\ sig[u].id \in Ids
      BY DEF ClaimInv, TypeOK
    <2>8. \A j \in Ids :
            claimed'[j] \in {0, 1} /\ (claimed'[j] = 1 => row'[j] = "ended")
      BY <2>4 DEF ClaimInv
    <2>9. \A u \in Tasks :
            At(u, "won")' => row'[sig'[u].id] = "ended" /\ claimed'[sig'[u].id] = 0
      BY <2>1, <2>2, <2>3, <2>4, <2>6, <2>7 DEF ClaimInv
    <2>10. \A u, v \in Tasks :
             At(u, "won")' /\ At(v, "won")' /\ sig'[u].id = sig'[v].id => u = v
      BY <2>1, <2>2, <2>7 DEF ClaimInv
    <2> QED
      BY <2>8, <2>9, <2>10 DEF ClaimInv, At
  <1>9. ASSUME NEW t \in Tasks, Won(t) PROVE ClaimInv'
    BY <1>9 DEF TypeOK, ClaimInv, At, Won, Moves
  <1>10. ASSUME NEW t \in Tasks, Lost(t) PROVE ClaimInv'
    BY <1>10 DEF TypeOK, ClaimInv, At, history, Lost, Moves
  <1>11. ASSUME NEW t \in Tasks, Raised(t) PROVE ClaimInv'
    BY <1>11 DEF TypeOK, ClaimInv, At, Raised, Moves
  <1>12. CASE CleanupHandler \/ Forget
    BY <1>1, <1>12 DEF history, CleanupHandler, Forget
  <1>13. ASSUME NEW i \in Ids, UsageHandler(i) PROVE ClaimInv'
    BY <1>13 DEF TypeOK, ClaimInv, At, history, UsageHandler
  <1>14. CASE Restart
    BY <1>14 DEF TypeOK, ClaimInv, At, Restart
  <1>15. CASE UNCHANGED vars
    BY <1>1, <1>15 DEF history, vars
  <1> QED
    BY <1>1, <1>2, <1>3, <1>4, <1>5, <1>6, <1>7, <1>8, <1>9, <1>10, <1>11, <1>12, <1>13,
       <1>14, <1>15
    DEF Next, Request, Signal, Handlers, Quiet

(* record_signal looks for the request id before it emits without a claim and *)
(* puts it in when it does; only an expiry or a restart takes it out.         *)
LEMMA OpenStep == ASSUME TypeOK, OpenInv, [Next]_vars PROVE OpenInv'
  <1>1. ASSUME UNCHANGED <<opened, seen>> PROVE OpenInv'
    BY <1>1 DEF OpenInv
  <1>2. ASSUME NEW t \in Tasks,
               \/ Begin(t) \/ Request(t)
               \/ Report(t) \/ Metrics(t) \/ Claim(t)
        PROVE  UNCHANGED <<opened, seen>>
    BY <1>2 DEF Begin, Request, Gate, Call, CallFails, CallAnswers, ErrorEnvelope, Deliver,
                Start, Drop, Stop, Complete, Leave, Report, Metrics, Claim, others, history
  <1>3. ASSUME NEW t \in Tasks, Won(t) \/ Lost(t) PROVE OpenInv'
    BY <1>3 DEF OpenInv, Won, Lost, history
  <1>4. ASSUME NEW t \in Tasks, Raised(t) PROVE OpenInv'
    BY <1>4 DEF OpenInv, Raised, HasEnded
  <1>5. CASE Handlers
    BY <1>1, <1>5 DEF Handlers, CleanupHandler, UsageHandler, history
  <1>6. CASE Forget \/ Restart
    BY <1>6 DEF OpenInv, Forget, Restart
  <1>7. CASE UNCHANGED vars
    BY <1>1, <1>7 DEF vars, history
  <1> QED
    BY <1>1, <1>2, <1>3, <1>4, <1>5, <1>6, <1>7 DEF Next, Signal, Quiet

-----------------------------------------------------------------------------
(* The mark of a cancelled session is taken back by one cleanup only, after   *)
(* the event of the one termination that set it.                              *)
LEMMA KeyStep == ASSUME TypeOK, KeyInv, EndInv, [Next]_vars PROVE KeyInv'
  <1>1. ASSUME UNCHANGED <<key, cleanups, sig>> PROVE KeyInv'
    BY <1>1 DEF KeyInv, Terminates
  <1>2. ASSUME NEW t \in Tasks,
               \/ Begin(t) \/ Gate(t) \/ Call(t) \/ CallFails(t) \/ ErrorEnvelope(t)
               \/ Deliver(t) \/ Start(t) \/ Drop(t) \/ Stop(t)
        PROVE  UNCHANGED <<key, cleanups, sig>>
    BY <1>2 DEF others, coord, handlers, Begin, Gate, Call, CallFails, ErrorEnvelope, Deliver,
                Start, Drop, Stop
  <1>3. ASSUME NEW t \in Tasks, NEW callback \in BOOLEAN, CallAnswers(t, callback)
        PROVE  KeyInv'
    BY <1>3 DEF TypeOK, KeyInv, Terminates, others, coord, handlers, CallAnswers,
                register_cancellable
  <1>4. ASSUME NEW t \in Tasks, Complete(t) PROVE KeyInv'
    BY <1>4 DEF TypeOK, KeyInv, Terminates, coord, handlers, Complete
  <1>5. ASSUME NEW t \in Tasks, Leave(t) PROVE KeyInv'
    BY <1>5 DEF TypeOK, KeyInv, Terminates, coord, handlers, Leave
  <1>6. ASSUME NEW t \in Tasks, Report(t) PROVE KeyInv'
    <2>1. cleanups' = cleanups
      BY <1>6 DEF Report, handlers
    <2>2. CASE key = "cancelled"
      <3>1. Moves(t, "done") /\ key' = key
        BY <1>6, <2>2 DEF Report, coord
      <3>2. \A u \in Tasks : Terminates(u)' => Terminates(u)
        BY <3>1, MovesOne DEF Terminates
      <3> QED
        BY <2>1, <3>1, <3>2 DEF KeyInv
    <2>3. CASE key # "cancelled"
      <3>1. Moves(t, "metrics") /\ key' = "cancelled"
        BY <1>6, <2>3 DEF Report, cancel_session
      <3>2. \A u \in Tasks : ~Terminates(u)
        BY <2>3 DEF KeyInv
      <3>3. \A u \in Tasks : Terminates(u)' => u = t
        BY <3>1, <3>2, MovesOne DEF Terminates
      <3>4. cleanups = 0
        BY <2>3 DEF KeyInv
      <3> QED
        BY <2>1, <3>1, <3>3, <3>4 DEF KeyInv
    <2> QED
      BY <2>2, <2>3
  <1>7. ASSUME NEW t \in Tasks, Metrics(t) PROVE KeyInv'
    BY <1>7 DEF TypeOK, KeyInv, Terminates, At, coord, handlers, Metrics, Moves
  <1>8. ASSUME NEW t \in Tasks, Claim(t) PROVE KeyInv'
    <2>1. \A u \in Tasks : Terminates(u)' => Terminates(u)
      BY <1>8 DEF TypeOK, Terminates, At, Claim, Moves
    <2>2. UNCHANGED <<key, cleanups>>
      BY <1>8 DEF Claim, coord, handlers
    <2> QED
      BY <2>1, <2>2 DEF KeyInv
  <1>9. ASSUME NEW t \in Tasks, Won(t) PROVE KeyInv'
    BY <1>9 DEF TypeOK, KeyInv, Terminates, At, coord, Won, Moves, Publish
  <1>10. ASSUME NEW t \in Tasks, Lost(t) PROVE KeyInv'
    BY <1>10 DEF TypeOK, KeyInv, Terminates, At, coord, handlers, Lost, Moves
  <1>11. ASSUME NEW t \in Tasks, Raised(t) PROVE KeyInv'
    BY <1>11 DEF TypeOK, KeyInv, Terminates, At, coord, handlers, Raised, Moves, Publish
  <1>12. CASE CleanupHandler
    BY <1>12 DEF TypeOK, KeyInv, Terminates, CleanupHandler, cleanup
  <1>13. CASE Forget \/ \E i \in Ids : UsageHandler(i)
    BY <1>1, <1>13 DEF coord, handlers, UsageHandler, Forget
  <1>14. CASE Restart
    BY <1>14 DEF TypeOK, KeyInv, Terminates, At, Restart
  <1>15. CASE UNCHANGED vars
    BY <1>1, <1>15 DEF coord, handlers, vars
  <1> QED
    BY <1>1, <1>2, <1>3, <1>4, <1>5, <1>6, <1>7, <1>8, <1>9, <1>10, <1>11, <1>12, <1>13,
       <1>14, <1>15
    DEF Next, Request, Signal, Handlers, Quiet

(* A request sets its signal in the step that ends it, and no step revives a  *)
(* request that is over.                                                      *)
LEMMA EndStep == ASSUME TypeOK, EndInv, [Next]_vars PROVE EndInv'
  <1>1. ASSUME UNCHANGED <<pc, sig>> PROVE EndInv'
    BY <1>1 DEF EndInv, At
  <1>2. ASSUME NEW t \in Tasks, Begin(t) PROVE EndInv'
    BY <1>2 DEF TypeOK, EndInv, At, Begin, Goto
  <1>3. ASSUME NEW t \in Tasks, Request(t), ~Complete(t), ~Leave(t) PROVE EndInv'
    <2>1. sig' = sig /\ pc[t] # "over"
      BY <1>3 DEF Request, others, Gate, Call, CallFails, CallAnswers, ErrorEnvelope,
                  Deliver, Start, Drop, Stop
    <2>2. \A u \in Tasks : u # t => pc'[u] = pc[u]
      BY <1>3 DEF TypeOK, Request, Gate, Call, CallFails, CallAnswers, ErrorEnvelope,
                  Deliver, Start, Drop, Stop, GoAgain, Goto
    <2> QED
      BY <2>1, <2>2 DEF EndInv, At
  <1>4. ASSUME NEW t \in Tasks, Complete(t) \/ Leave(t) PROVE EndInv'
    BY <1>4 DEF TypeOK, EndInv, At, Complete, Leave, Goto
  <1>5. ASSUME NEW t \in Tasks, Signal(t) PROVE EndInv'
    <2>1. pc' = pc /\ ~At(t, "none")
      BY <1>5 DEF Signal, tasks, Report, Metrics, Claim, Won, Lost, Raised, At
    <2>2. \E label : Moves(t, label)
      BY <1>5 DEF Signal, Report, Metrics, Claim, Won, Lost, Raised
    <2> QED
      BY <2>1, <2>2, MovesOne DEF EndInv, At
  <1>6. CASE Handlers \/ Forget
    BY <1>1, <1>6 DEF tasks, Handlers, CleanupHandler, UsageHandler, Forget
  <1>7. CASE Restart
    BY <1>7 DEF TypeOK, EndInv, At, Restart
  <1>8. CASE UNCHANGED vars
    BY <1>1, <1>8 DEF tasks, vars
  <1> QED
    BY <1>2, <1>3, <1>4, <1>5, <1>6, <1>7, <1>8 DEF Next, Quiet

(* A step that opens no stream, lets go of none that is open and ends no call *)
(* that is waited for keeps StreamInv, if no open stream's client becomes     *)
(* reported.                                                                  *)
LEMMA StreamKept ==
  ASSUME TypeOK, StreamInv, TypeOK',
         \A s \in Streams : upstream'[s] = "open" =>
             /\ upstream[s] = "open"
             /\ s \in held => s \in held'
             /\ s = Cur(s[1]) /\ pc[s[1]] = "calling" =>
                  s \in held' \/ (s = Cur(s[1])' /\ pc'[s[1]] = "calling")
             /\ Reported(s[1])' => Reported(s[1])
  PROVE  StreamInv'
  BY DEF StreamInv, Streams

(* An open stream is never lost from sight: cancel_session cancels what it    *)
(* drops, register_cancellable cancels what it does not take, and cleanup     *)
(* runs only where the session is cancelled and nothing is held (KeyInv).     *)
LEMMA StreamStep ==
  ASSUME TypeOK, TypeOK', KeyInv, EndInv, StreamInv, [Next]_vars PROVE StreamInv'
  <1>1. ASSUME UNCHANGED <<pc, try, upstream, held, sig>> PROVE StreamInv'
    BY <1>1 DEF StreamInv, Cur, Reported
  <1>a. \A s \in Streams : s[1] \in Tasks /\ s[2] \in 0 .. MaxRetries /\ s = <<s[1], s[2]>>
    BY DEF Streams
  <1>2. ASSUME NEW t \in Tasks,
               Begin(t) \/ Gate(t) \/ Deliver(t) \/ Start(t) \/ Drop(t) \/ Stop(t)
        PROVE  StreamInv'
    <2>1. UNCHANGED <<try, upstream, held, sig>> /\ pc[t] # "calling"
      BY <1>2 DEF others, coord, Begin, Gate, Deliver, Start, Drop, Stop
    <2>2. \A u \in Tasks : u # t => pc'[u] = pc[u]
      BY <1>2 DEF TypeOK, Begin, Gate, Deliver, Start, Drop, Stop, Goto
    <2> QED
      BY <1>a, <2>1, <2>2, StreamKept DEF Cur, Reported
  <1>3. ASSUME NEW t \in Tasks, Call(t) PROVE StreamInv'
    <2>1. UNCHANGED <<try, held, sig>> /\ pc[t] = "accounting"
      BY <1>3 DEF others, coord, Call
    <2>2. \A u \in Tasks : u # t => pc'[u] = pc[u]
      BY <1>3 DEF TypeOK, Call, Goto
    <2>3. \A s \in Streams : upstream'[s] = "open" =>
            upstream[s] = "open" \/ (s = Cur(t) /\ pc'[t] = "calling")
      BY <1>3, CurIsStream DEF TypeOK, Call, Goto
    <2>4. ~Reported(t)
      BY <2>1 DEF EndInv, Reported, At
    <2>5. Cur(t)[1] = t
      BY DEF Cur
    <2> QED
      BY <1>a, <2>1, <2>2, <2>3, <2>4, <2>5 DEF StreamInv, Cur, Reported
  <1>4. ASSUME NEW t \in Tasks, CallFails(t) PROVE StreamInv'
    <2>1. UNCHANGED <<held, sig>> /\ GoAgain(t)
      BY <1>4 DEF others, coord, CallFails
    <2>2. \A s \in Streams : upstream'[s] = "open" => s # Cur(t) /\ upstream[s] = "open"
      BY <1>4, CurIsStream DEF TypeOK, CallFails
    <2> QED
      BY <1>a, <2>1, <2>2, GoesAgain, StreamKept DEF Cur, Reported
  <1>5. ASSUME NEW t \in Tasks, NEW callback \in BOOLEAN, CallAnswers(t, callback)
        PROVE  StreamInv'
    <2>1. UNCHANGED <<try, sig>>
      BY <1>5 DEF others, CallAnswers
    <2>2. \A u \in Tasks : u # t => pc'[u] = pc[u]
      BY <1>5 DEF TypeOK, CallAnswers, Goto
    <2>3. held \subseteq held'
      BY <1>5 DEF CallAnswers, register_cancellable, coord
    <2>4. \A s \in Streams :
            upstream'[s] = "open" => upstream[s] = "open" /\ (s = Cur(t) => s \in held')
      BY <1>5, CurIsStream DEF TypeOK, CallAnswers, register_cancellable, CancelUpstream
    <2> QED
      BY <1>a, <2>1, <2>2, <2>3, <2>4, StreamKept DEF Cur, Reported
  <1>6. ASSUME NEW t \in Tasks, ErrorEnvelope(t) PROVE StreamInv'
    <2>1. UNCHANGED <<upstream, held, sig>> /\ GoAgain(t) /\ pc[t] = "wrapping"
      BY <1>6 DEF others, coord, ErrorEnvelope
    <2> QED
      BY <1>a, <2>1, GoesAgain, StreamKept DEF Cur, Reported
  <1>7. ASSUME NEW t \in Tasks, Complete(t) PROVE StreamInv'
    <2>1. UNCHANGED <<try, held>> /\ pc[t] = "streaming"
      BY <1>7 DEF coord, Complete
    <2>2. \A u \in Tasks : u # t => pc'[u] = pc[u] /\ sig'[u] = sig[u]
      BY <1>7 DEF TypeOK, Complete, Goto
    <2>3. \A s \in Streams : upstream'[s] = "open" => upstream[s] = "open"
      BY <1>7, CurIsStream DEF TypeOK, Complete
    <2>4. ~Reported(t)'
      BY <1>7 DEF TypeOK, Complete, Reported
    <2> QED
      BY <1>a, <2>1, <2>2, <2>3, <2>4, StreamKept DEF Cur, Reported
  <1>8. ASSUME NEW t \in Tasks, Leave(t) PROVE StreamInv'
    <2>1. UNCHANGED <<try, held>>
      BY <1>8 DEF coord, Leave
    <2>2. \A u \in Tasks : u # t => pc'[u] = pc[u] /\ sig'[u] = sig[u]
      BY <1>8 DEF TypeOK, Leave, Goto
    <2>3. \A s \in Streams : upstream'[s] = "open" =>
            upstream[s] = "open" /\ (pc[t] = "calling" => s # Cur(t))
      BY <1>8, CurIsStream DEF TypeOK, Leave
    <2>4. ~Reported(t)'
      BY <1>8 DEF TypeOK, Leave, Reported
    <2> QED
      BY <1>a, <2>1, <2>2, <2>3, <2>4, StreamKept DEF Cur, Reported
  <1>9. ASSUME NEW t \in Tasks, Report(t) PROVE StreamInv'
    <2>1. UNCHANGED <<pc, try>> /\ At(t, "report")
      BY <1>9 DEF Report
    <2>2. pc[t] = "over"
      BY <2>1 DEF EndInv, At
    <2>3. \A u \in Tasks : u # t => sig'[u] = sig[u]
      BY <1>9 DEF TypeOK, Report, Moves
    <2>4. \A s \in Streams : upstream'[s] = "open" => upstream[s] = "open" /\ s \notin held
      <3>1. CASE key = "cancelled"
        BY <1>9, <3>1 DEF TypeOK, Report
      <3>2. CASE key # "cancelled"
        BY <1>9, <3>2 DEF TypeOK, Report, cancel_session, CancelUpstream
      <3> QED
        BY <3>1, <3>2
    <2>5. \A s \in Streams : upstream'[s] = "open" => s[1] # t
      BY <2>2, <2>4 DEF StreamInv
    <2> QED
      BY <1>a, <2>1, <2>3, <2>4, <2>5, StreamKept DEF Cur, Reported
  <1>10. ASSUME NEW t \in Tasks, Signal(t), ~Report(t) PROVE StreamInv'
    <2>1. UNCHANGED <<pc, try, upstream, held>> /\ sig[t].at \notin {"none", "report"}
      BY <1>10 DEF Signal, tasks, coord, Metrics, Claim, Won, Lost, Raised, At
    <2>2. \E label : Moves(t, label)
      BY <1>10 DEF Signal, Metrics, Claim, Won, Lost, Raised
    <2>3. \A u \in Tasks : Reported(u)' => Reported(u)
      BY <2>1, <2>2, MovesOne DEF Reported
    <2> QED
      BY <1>a, <2>1, <2>3, StreamKept DEF Cur
  <1>11. CASE CleanupHandler
    <2>1. held = {} /\ UNCHANGED <<pc, try, upstream, sig>> /\ held' = {}
      BY <1>11 DEF TypeOK, KeyInv, tasks, CleanupHandler, cleanup
    <2> QED
      BY <1>1, <2>1
  <1>12. CASE Forget \/ \E i \in Ids : UsageHandler(i)
    BY <1>1, <1>12 DEF tasks, coord, UsageHandler, Forget
  <1>13. CASE Restart
    BY <1>13 DEF StreamInv, Restart
  <1>14. CASE UNCHANGED vars
    BY <1>1, <1>14 DEF tasks, coord, vars
  <1> QED
    BY <1>2, <1>3, <1>4, <1>5, <1>6, <1>7, <1>8, <1>9, <1>10, <1>11, <1>12, <1>13, <1>14
    DEF Next, Request, Handlers, Quiet

-----------------------------------------------------------------------------
(* The conjunction of types, claims, cache, mark and streams is an invariant  *)
(* of the end of a session.                                                   *)
THEOREM Invariance == Spec => []IInv
  <1>1. IInv /\ [Next]_vars => IInv'
    BY TypeStep, ClaimStep, OpenStep, KeyStep, EndStep, StreamStep DEF IInv
  <1> QED
    BY InvInit, <1>1, PTL DEF Spec

(* Every variable of the coordinator, the reports and the subscribers keeps   *)
(* its type, and cancellables are held only for an active session.            *)
THEOREM TypeCorrectness == Spec => []TypeOK
  <1>1. IInv => TypeOK
    BY DEF IInv
  <1> QED
    BY Invariance, <1>1, PTL

(* At most one End-of-Session event of an id is emitted on a claim, whatever  *)
(* the number of signals, restarts and cache expiries.                        *)
THEOREM OneClaimedEvent == Spec => []ClaimedOnce
  <1>1. IInv => ClaimedOnce
    BY DEF IInv, ClaimInv, ClaimedOnce
  <1> QED
    BY Invariance, <1>1, PTL

(* While the cache remembers, record_signal fails open at most once.          *)
THEOREM OneOpenEvent == Spec => []OpenedOnce
  <1>1. IInv => OpenedOnce
    BY DEF IInv, OpenInv, OpenedOnce
  <1> QED
    BY Invariance, <1>1, PTL

(* Every backend stream that is open and has a cancel callback is one that    *)
(* its task still waits for or one that the coordinator can cancel, error     *)
(* envelopes that were raised and responses that were never started included, *)
(* and none belongs to a request whose client was reported gone.              *)
THEOREM NoStreamGetsAway == Spec => []NoStreamEscapes
  <1>1. IInv => NoStreamEscapes
    <2> SUFFICES ASSUME IInv, NEW t \in Tasks, NEW n \in 0 .. MaxRetries,
                        upstream[<<t, n>>] = "open"
                 PROVE  /\ (n = try[t] /\ pc[t] = "calling") \/ <<t, n>> \in held
                        /\ ~Reported(t)
      BY DEF NoStreamEscapes
    <2>1. <<t, n>> \in Streams
      BY DEF Streams
    <2> QED
      BY <2>1 DEF IInv, StreamInv, Cur
  <1> QED
    BY Invariance, <1>1, PTL
=============================================================================
