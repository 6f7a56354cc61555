----------------------------- MODULE SessionEnd -----------------------------
(***************************************************************************)
(* The end of a session: SessionCancellationCoordinator, the client        *)
(* termination reports of ClientEndOfSessionService, EndOfSessionService   *)
(* with its claim in the database, and the event's subscribers.            *)
(*                                                                         *)
(* The lifecycle key of a request is its request id, which the client may  *)
(* choose (x-request-id, x-correlation-id): the tasks of this module are   *)
(* the requests that share one id.  They also share a conversation, whose  *)
(* session id the signals of completed streams carry instead.              *)
(*                                                                         *)
(* Everything runs on one event loop: a step goes from one await that      *)
(* really suspends to the next.                                            *)
(***************************************************************************)
EXTENDS Naturals, FiniteSets

CONSTANTS
    Tasks,          \* the requests that use the id, in any overlap
    MaxRetries,     \* bound: backend calls that are repeated after a failure
    MaxRestarts     \* bound: restarts of the proxy

ASSUME SessionAssumption ==
    /\ IsFiniteSet(Tasks)
    /\ MaxRetries \in Nat
    /\ MaxRestarts \in Nat

\* The two ids that session metrics rows and the cache of ended ids are keyed by.
Ids == {"request", "session"}

VARIABLES
    memo,       \* the metrics initializer's memo is on (cache_ttl_seconds > 0)
    pc,         \* the tasks
    retries,
    try,        \* the attempt that a task is at
    upstream,   \* the backend calls and streams, one for each attempt of a task
    key,        \* the coordinator's state for the request id
    held,       \* its cancellables
    sig,        \* the end-of-session signal of a task: where it is
    row,        \* session_metrics: no row, a row, a row with eos_emitted_at
    seen,       \* _ended_sessions
    cleanups,   \* pending handlers of the cancellation cleanup subscriber
    usages,     \* pending handlers of the usage tracking subscriber, by id
    claimed,    \* history: events emitted on a claim, by id
    opened,     \* history: events emitted without one since seen was lost
    restarts

tasks    == <<pc, retries, try, upstream>>
coord    == <<key, held>>
handlers == <<cleanups, usages>>
history  == <<claimed, opened>>
vars     == <<memo, tasks, coord, sig, row, seen, handlers, history, restarts>>

-----------------------------------------------------------------------------
(* SessionCancellationCoordinator.  Its states also expire after an hour: the *)
(* requests of this module are shorter than that.                             *)

\* What the backends can be asked for: a stream for each attempt of each task.
Streams == Tasks \X (0 .. MaxRetries)

\* The stream of the attempt that a task is at.
Cur(t) == <<t, try[t]>>

CancelUpstream(S) ==
    upstream' = [s \in Streams |->
                    IF s \in S /\ upstream[s] = "open" THEN "cancelled" ELSE upstream[s]]

\* Mutant: the mark is set and the cancellables stay where they are.
cancel_session_keeps == key' = "cancelled" /\ held' = held /\ CancelUpstream(held)

\* Mutant: only the mark is set; the streams are expected to notice it.
cancel_session_marks == key' = "cancelled" /\ held' = {} /\ CancelUpstream({})

cancel_session ==
    /\ key' = "cancelled"
    /\ held' = {}
    /\ CancelUpstream(held)

\* Mutant: the registration does not look at the mark.
register_cancellable_blind(s) ==
    key' = "active" /\ held' = held \cup {s} /\ UNCHANGED upstream

register_cancellable(s) ==
    IF key = "cancelled"
    THEN CancelUpstream({s}) /\ UNCHANGED coord
    ELSE /\ key' = "active"
         /\ held' = held \cup {s}
         /\ UNCHANGED upstream

\* cleanup, called with the key of an End-of-Session event.
cleanup == key' = "none" /\ held' = {}

-----------------------------------------------------------------------------
(* ensure_session_metrics: with the memo on, the call writes the memo before  *)
(* it takes the lock and finds its own entry under it, so it writes no row.   *)

WritesRow == ~memo /\ row["request"] = "none"

\* The row is written, or the write fails or times out.
ensure_session_metrics ==
    \/ WritesRow /\ row' = [row EXCEPT !["request"] = "open"]
    \/ row' = row

-----------------------------------------------------------------------------
Init ==
    /\ memo \in BOOLEAN
    /\ pc = [t \in Tasks |-> "idle"]
    /\ retries = 0
    /\ try = [t \in Tasks |-> 0]
    /\ upstream = [s \in Streams |-> "none"]
    /\ key = "none"
    /\ held = {}
    /\ sig = [t \in Tasks |-> [at |-> "none", id |-> "request"]]
    /\ row = [i \in Ids |-> "none"]
    /\ seen = {}
    /\ cleanups = 0
    /\ usages = [i \in Ids |-> 0]
    /\ claimed = [i \in Ids |-> 0]
    /\ opened = 0
    /\ restarts = 0

-----------------------------------------------------------------------------
(* The request.  Every backend call passes two gates with an await between    *)
(* them: in the completion flow, and again in the connector.                  *)

Goto(t, label) == pc' = [pc EXCEPT ![t] = label]

\* The controller accepts the request and makes sure of its metrics.
Begin(t) ==
    /\ pc[t] = "idle"
    /\ Goto(t, "gate")
    /\ ensure_session_metrics
    /\ UNCHANGED <<memo, retries, try, upstream, coord, sig, seen, handlers, history, restarts>>

\* What a step of a request leaves alone that neither reports nor signals.
others == <<memo, sig, row, seen, handlers, history, restarts>>

Gate(t) ==
    /\ pc[t] = "gate"
    /\ Goto(t, IF key = "cancelled" THEN "over" ELSE "accounting")
    /\ UNCHANGED <<retries, try, upstream, coord, others>>

\* The connector looks again and starts the call.
Call(t) ==
    /\ pc[t] = "accounting"
    /\ IF key = "cancelled"
       THEN Goto(t, "over") /\ UNCHANGED upstream
       ELSE /\ Goto(t, "calling")
            /\ upstream' = [upstream EXCEPT ![Cur(t)] = "open"]
    /\ UNCHANGED <<retries, try, coord, others>>

\* A retry or a failover goes through both gates again; else the error surfaces.
GoAgain(t) ==
    \/ /\ retries < MaxRetries
       /\ Goto(t, "gate")
       /\ retries' = retries + 1
       /\ try' = [try EXCEPT ![t] = @ + 1]
    \/ Goto(t, "over") /\ UNCHANGED <<retries, try>>

\* The backend fails.
CallFails(t) ==
    /\ pc[t] = "calling"
    /\ upstream' = [upstream EXCEPT ![Cur(t)] = "none"]
    /\ GoAgain(t)
    /\ UNCHANGED <<coord, others>>

\* The backend answers with a stream.  Its cancel callback is registered, if it has
\* one; some connectors return streams without, which only their iterator ends.
CallAnswers(t, callback) ==
    /\ pc[t] = "calling"
    /\ Goto(t, "wrapping")
    /\ IF callback
       THEN register_cancellable(Cur(t))
       ELSE upstream' = [upstream EXCEPT ![Cur(t)] = "bare"] /\ UNCHANGED coord
    /\ UNCHANGED <<retries, try, others>>

\* The stream was an error envelope, which is raised like a failed call.  Nobody
\* closes it: it keeps its registration, if it has one.
ErrorEnvelope(t) ==
    /\ pc[t] = "wrapping"
    /\ GoAgain(t)
    /\ UNCHANGED <<upstream, coord, others>>

\* After the awaits of the wrapping, the session is looked at once more, and the
\* response goes to the transport.
Deliver(t) ==
    /\ pc[t] = "wrapping"
    /\ Goto(t, IF key = "cancelled" THEN "over" ELSE "ready")
    /\ UNCHANGED <<retries, try, upstream, coord, others>>

\* The transport asks for the first item ...
Start(t) ==
    /\ pc[t] = "ready"
    /\ Goto(t, "streaming")
    /\ UNCHANGED <<retries, try, upstream, coord, others>>

\* ... or drops the response: a generator that never started handles no exception,
\* so that neither the cancel callback nor the report runs.
Drop(t) ==
    /\ pc[t] = "ready"
    /\ Goto(t, "over")
    /\ UNCHANGED <<retries, try, upstream, coord, others>>

\* The guarded stream stops at a cancelled session, or its upstream was cancelled.
Stop(t) ==
    /\ pc[t] = "streaming"
    /\ key = "cancelled" \/ upstream[Cur(t)] = "cancelled"
    /\ Goto(t, "over")
    /\ UNCHANGED <<retries, try, upstream, coord, others>>

\* The last chunk: the stream processor signals the end of the session, under the
\* session id, unless either id has ended.
Complete(t) ==
    /\ pc[t] = "streaming"
    /\ key # "cancelled"
    /\ upstream[Cur(t)] # "cancelled"
    /\ upstream' = [upstream EXCEPT ![Cur(t)] = "none"]
    /\ Goto(t, "over")
    /\ sig' = [sig EXCEPT ![t] =
                  [at |-> IF seen = {} THEN "claim" ELSE "done", id |-> "session"]]
    /\ UNCHANGED <<memo, retries, try, coord, row, seen, handlers, history, restarts>>

\* The client leaves, and the task is cancelled where it waits.  A pending HTTP
\* call dies with it; the stream of a started response is closed by its cancel
\* callback and its iterators; one that was not delivered yet has only its
\* registration.
Leave(t) ==
    /\ pc[t] \in {"gate", "accounting", "calling", "wrapping", "streaming"}
    /\ Goto(t, "over")
    /\ upstream' = IF pc[t] \in {"calling", "streaming"}
                   THEN [upstream EXCEPT ![Cur(t)] = "cancelled"] ELSE upstream
    /\ sig' = [sig EXCEPT ![t] = [at |-> "report", id |-> "request"]]
    /\ UNCHANGED <<memo, retries, try, coord, row, seen, handlers, history, restarts>>

-----------------------------------------------------------------------------
(* Reports and signals. *)

At(t, label) == sig[t].at = label
Moves(t, label) == sig' = [sig EXCEPT ![t].at = label]

\* report_client_termination up to its first await.
Report(t) ==
    /\ At(t, "report")
    /\ IF key = "cancelled"
       THEN Moves(t, "done") /\ UNCHANGED <<coord, upstream>>
       ELSE Moves(t, "metrics") /\ cancel_session
    /\ UNCHANGED <<memo, pc, retries, try, row, seen, handlers, history, restarts>>

\* The metrics are made sure of; record_signal asks the cache.
Metrics(t) ==
    /\ At(t, "metrics")
    /\ ensure_session_metrics
    /\ Moves(t, IF "request" \in seen THEN "done" ELSE "claim")
    /\ UNCHANGED <<memo, tasks, coord, seen, handlers, history, restarts>>

\* Mutant: the update is not conditional on eos_emitted_at IS NULL.
ClaimUnconditional(t) ==
    LET i == sig[t].id
    IN  /\ At(t, "claim")
        /\ Moves(t, IF row[i] = "none" THEN "lost" ELSE "won")
        /\ row' = [row EXCEPT ![i] = IF @ = "none" THEN @ ELSE "ended"]
        /\ UNCHANGED <<memo, tasks, coord, seen, handlers, history, restarts>>

\* claim_eos_emission: one conditional update.  A database error may hide that the
\* update took effect.
Claim(t) ==
    LET i     == sig[t].id
        taken == [row EXCEPT ![i] = IF @ = "open" THEN "ended" ELSE @]
    IN  /\ At(t, "claim")
        /\ \/ Moves(t, IF row[i] = "open" THEN "won" ELSE "lost") /\ row' = taken
           \/ Moves(t, "raised") /\ row' \in {row, taken}
        /\ UNCHANGED <<memo, tasks, coord, seen, handlers, history, restarts>>

\* The event goes to its subscribers, each in a task of its own.  The cancellation
\* subscriber derives the key from the id of the event.
Publish(i) ==
    /\ cleanups' = cleanups + (IF i = "request" THEN 1 ELSE 0)
    /\ usages' = [usages EXCEPT ![i] = @ + 1]

\* record_signal after the claim.
Won(t) ==
    /\ At(t, "won")
    /\ Moves(t, "done")
    /\ seen' = seen \cup {"request", sig[t].id}
    /\ Publish(sig[t].id)
    /\ claimed' = [claimed EXCEPT ![sig[t].id] = @ + 1]
    /\ UNCHANGED <<memo, tasks, coord, row, opened, restarts>>

\* The second look at the database may fail, which leaves the session id out.  It
\* comes after an await, but whoever asks for the session id asks for the request
\* id too, which is in the cache by then: one step.
Lost(t) ==
    /\ At(t, "lost")
    /\ Moves(t, "done")
    /\ \/ seen' = seen \cup {"request"}
       \/ row[sig[t].id] = "ended" /\ seen' = seen \cup {"request", sig[t].id}
    /\ UNCHANGED <<memo, tasks, coord, row, handlers, history, restarts>>

\* Mutant: only the id of the signal is looked up.
HasEndedById(t) == sig[t].id \in seen

\* has_ended for the ids of the signal.
HasEnded(t) == {"request", sig[t].id} \cap seen # {}

\* Fail open: without the database the cache alone decides.
Raised(t) ==
    /\ At(t, "raised")
    /\ Moves(t, "done")
    /\ IF HasEnded(t)
       THEN UNCHANGED <<seen, handlers, opened>>
       ELSE /\ seen' = seen \cup {"request"}
            /\ Publish(sig[t].id)
            /\ opened' = opened + 1
    /\ UNCHANGED <<memo, tasks, coord, row, claimed, restarts>>

-----------------------------------------------------------------------------
(* Subscribers, and what the environment does. *)

CleanupHandler ==
    /\ cleanups > 0
    /\ cleanups' = cleanups - 1
    /\ cleanup
    /\ UNCHANGED <<memo, tasks, sig, row, seen, usages, history, restarts>>

\* The usage subscriber updates or creates the row, or fails.
UsageHandler(i) ==
    /\ usages[i] > 0
    /\ usages' = [usages EXCEPT ![i] = @ - 1]
    /\ row' \in {row, [row EXCEPT ![i] = "ended"]}
    /\ UNCHANGED <<memo, tasks, coord, sig, seen, cleanups, history, restarts>>

\* The entries of the cache of ended ids live for five minutes.
Forget ==
    /\ seen # {}
    /\ seen' = {}
    /\ opened' = 0
    /\ UNCHANGED <<memo, tasks, coord, sig, row, handlers, claimed, restarts>>

\* The proxy stops and starts again: only the database is left.
Restart ==
    /\ restarts < MaxRestarts
    /\ restarts' = restarts + 1
    /\ pc' = [t \in Tasks |-> IF pc[t] = "idle" THEN "idle" ELSE "over"]
    /\ try' = [t \in Tasks |-> 0]
    /\ upstream' = [s \in Streams |-> "none"]
    /\ key' = "none" /\ held' = {}
    /\ sig' = [t \in Tasks |-> IF At(t, "none") THEN sig[t] ELSE [sig[t] EXCEPT !.at = "done"]]
    /\ seen' = {}
    /\ cleanups' = 0 /\ usages' = [i \in Ids |-> 0]
    /\ opened' = 0
    /\ UNCHANGED <<memo, retries, row, claimed>>

\* Nothing is left to do.
Quiet ==
    /\ \A t \in Tasks : pc[t] = "over" /\ sig[t].at \in {"none", "done"}
    /\ cleanups = 0 /\ \A i \in Ids : usages[i] = 0
    /\ UNCHANGED vars

Request(t) ==
    \/ Gate(t) \/ Call(t) \/ CallFails(t)
    \/ \E callback \in BOOLEAN : CallAnswers(t, callback)
    \/ ErrorEnvelope(t) \/ Deliver(t) \/ Start(t) \/ Drop(t)
    \/ Stop(t) \/ Complete(t) \/ Leave(t)

Signal(t) == Report(t) \/ Metrics(t) \/ Claim(t) \/ Won(t) \/ Lost(t) \/ Raised(t)

Handlers == CleanupHandler \/ \E i \in Ids : UsageHandler(i)

Next ==
    \/ \E t \in Tasks : Begin(t) \/ Request(t) \/ Signal(t)
    \/ Handlers
    \/ Forget
    \/ Restart
    \/ Quiet

Spec == Init /\ [][Next]_vars

\* A stream that was answered is delivered or its request goes on, a response that was
\* delivered is started or dropped, and a started one is pulled until it stops.
\* Nothing is assumed of backends, clients, the database or the handlers of events.
FairSpec ==
    Spec /\ \A t \in Tasks : WF_vars(Deliver(t)) /\ WF_vars(Start(t)) /\ WF_vars(Stop(t))

-----------------------------------------------------------------------------
(* Every variable has its type, and the coordinator holds cancellables only   *)
(* for a session that is active: cancel_session and cleanup drop them all, so *)
(* nothing is cancelled a second time.                                        *)
TypeOK ==
    /\ memo \in BOOLEAN
    /\ pc \in [Tasks -> {"idle", "gate", "accounting", "calling", "wrapping",
                         "ready", "streaming", "over"}]
    /\ retries \in 0 .. MaxRetries
    /\ try \in [Tasks -> 0 .. MaxRetries] /\ \A t \in Tasks : try[t] <= retries
    /\ upstream \in [Streams -> {"none", "open", "bare", "cancelled"}]
    /\ key \in {"none", "active", "cancelled"}
    /\ held \subseteq Streams
    /\ held # {} => key = "active"
    /\ sig \in [Tasks -> [at : {"none", "report", "metrics", "claim", "won", "lost",
                                "raised", "done"}, id : Ids]]
    /\ row \in [Ids -> {"none", "open", "ended"}]
    /\ seen \subseteq Ids
    /\ cleanups \in Nat /\ usages \in [Ids -> Nat]
    /\ claimed \in [Ids -> Nat] /\ opened \in Nat
    /\ restarts \in 0 .. MaxRestarts

(* Over the whole life of a session, restarts of the proxy and expiries of    *)
(* the cache included, at most one event is emitted on a claim: of all the    *)
(* signals that reach record_signal only one wins the conditional update.     *)
ClaimedOnce == \A i \in Ids : claimed[i] <= 1

(* While the cache remembers, at most one event is emitted without a claim:   *)
(* signals whose claims fail in the database at the same time, a termination  *)
(* and a completion among them, see each other in the cache.                  *)
OpenedOnce == opened <= 1

\* The departure of t's client has been reported, and its report looked at.
Reported(t) == sig[t].id = "request" /\ sig[t].at \notin {"none", "report"}

(* No stream with a cancel callback gets out of reach.  Every one that is     *)
(* open is a call that its task still waits for, or is held by the            *)
(* coordinator, so that a termination of the id cancels it: abandoned error   *)
(* envelopes and responses that nobody started included, however the          *)
(* coordinator's state was set, erased and set again in between.  And once a  *)
(* client's departure has been reported, no stream of any attempt of its      *)
(* request is open.  Streams without a callback are out of the coordinator's  *)
(* reach from the start, and a response that is dropped before its first item *)
(* reports nothing: it stays open, and held.                                  *)
NoStreamEscapes ==
    \A t \in Tasks, n \in 0 .. MaxRetries :
        upstream[<<t, n>>] = "open" =>
            /\ (n = try[t] /\ pc[t] = "calling") \/ <<t, n>> \in held
            /\ ~Reported(t)

\* Task t is handing the stream of its attempt n to the client.
Reads(t, n) == try[t] = n /\ pc[t] \in {"wrapping", "ready", "streaming"}

(* A termination stops the streams of every request that shares the id, for   *)
(* good: although the event's cleanup may take the cancelled mark back before *)
(* a stream looks at it, no stream that has a cancel callback goes on.        *)
StreamsStop ==
    \A u \in Tasks, n \in 0 .. MaxRetries :
        (/\ Reads(u, n) /\ upstream[<<u, n>>] # "bare"
         /\ \E t \in Tasks : At(t, "metrics"))
            ~> ~Reads(u, n)
=============================================================================
