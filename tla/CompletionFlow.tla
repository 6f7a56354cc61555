--------------------------- MODULE CompletionFlow ---------------------------
(***************************************************************************)
(* call_completion in src/core/services/backend_completion_flow/service.py *)
(* with its availability checker, its failure recovery and its resilience  *)
(* accounting: requests that run concurrently on one event loop and share  *)
(* the circuit breaker, the cooldown tables and the lifecycle manager.     *)
(*                                                                         *)
(* A retry or a failover is a nested call of call_completion, so a request *)
(* has a stack of the backends whose calls are open.  An exception of the  *)
(* innermost call is seen by every outer one.  What runs between two       *)
(* awaits is one action.                                                   *)
(*                                                                         *)
(* Scope.  One model; every request has a RequestContext of its own; no    *)
(* composite selector, no failover route and no health gating is           *)
(* configured.  A stream that fails after its first chunk is over as far   *)
(* as this module goes (what StreamingResponseHandler does next is a new   *)
(* request), so rule 1 of decide never applies.  The ttl of the cooldown   *)
(* tables (an hour) is long compared with a request and is not counted     *)
(* down here.                                                              *)
(***************************************************************************)
EXTENDS BreakerOps, LimitOps, Sequences, SequencesExt, FiniteSets

CONSTANTS
    Requests,           \* requests in flight at a time
    Instances,          \* backend instances
    StaticCredentials,  \* the instances with has_static_credentials
    Streams,            \* the values of the argument stream that callers use
    ErrorKinds,         \* the errors that providers answer with
    Hints,              \* the retry-afters that providers send in a header, in ticks
    NoHint,             \* no retry-after
    DefaultCooldown,    \* the rate limit handler's cooldown without one
    Cancels,            \* TRUE if clients cancel requests
    MaxFailoverHops,    \* config.max_failover_hops
    TotalTimeoutBudget, \* config.total_timeout_budget, in ticks
    MaxSilentWait,      \* config.max_silent_wait, in ticks
    NoError

\* transient: 5xx, timeout, transport.  auth: 401.  blocked: not a 401, but the text
\* asks for the account to be validated.  client: any other BackendError, a plain 403
\* among them.  invalid: an LLMProxyError that is not a BackendError.
AllErrorKinds ==
    {"transient", "limit_model", "limit_instance", "auth", "blocked", "unsupported",
     "client", "invalid"}

ASSUME FlowAssumption ==
    /\ StaticCredentials \subseteq Instances
    /\ Streams \subseteq BOOLEAN
    /\ ErrorKinds \subseteq AllErrorKinds
    /\ Hints \subseteq Nat
    /\ NoHint \notin Nat
    /\ DefaultCooldown \in Nat
    /\ Cancels \in BOOLEAN
    /\ MaxFailoverHops \in Nat \ {0}
    /\ TotalTimeoutBudget \in Nat
    /\ MaxSilentWait \in Nat

VARIABLES
    breaker,    \* CircuitBreakerStateManager._states
    instances,  \* RateLimitStateManager._instance_state
    models,     \* RateLimitStateManager._model_state, of the one model
    disabled,   \* BackendLifecycleManager._disabled_backends
    pc,         \* where each request is
    call,       \* its arguments, [stream, allow_failover]
    stack,      \* the backends of its open calls, the innermost last
    attempted,  \* extensions["attempted_backends"]
    elapsed,    \* ticks since budget_start_time, up to TotalTimeoutBudget
    left,       \* ticks left of a silent wait
    output,     \* extensions["meaningful_output_emitted"]
    error,      \* the exception that is being handled
    probes,     \* history: <<r, i>> while r runs as a half-open probe of i
    denied      \* history: the instances that denied access: auth or blocked

tables  == <<breaker, instances, models, disabled>>
history == <<probes, denied>>
vars    == <<tables, pc, call, stack, attempted, elapsed, left, output, error, history>>

---------------------------------------------------------------------------
(* Errors                                                                   *)

Errors ==
    [kind : AllErrorKinds, hint : Nat \cup {NoHint},
     handled : BOOLEAN,         \* __handled_by_inner_handler__
     recorded : BOOLEAN]        \* history: some handler has recorded it

\* "No exception" is not an exception (None).
ASSUME NoErrorAssumption == NoError \notin Errors

\* A retry-after matters for these kinds only.
HintsOf(kind) ==
    IF kind \in {"transient", "limit_model", "limit_instance"}
      THEN Hints \cup {NoHint}
      ELSE {NoHint}

NewError(kind, hint) == [kind |-> kind, hint |-> hint, handled |-> FALSE, recorded |-> FALSE]

Recorded(e) == [e EXCEPT !.recorded = TRUE]

\* Mutant: the marker is forgotten.
MarkNothing(e) == Recorded(e)

MarkHandled(e) == [Recorded(e) EXCEPT !.handled = TRUE]

Cooldown(e) == IF e.hint = NoHint THEN DefaultCooldown ELSE e.hint

\* ResilienceCoordinator.record_failure: the classifier takes "unsupported", the
\* chain of handlers (breaker, rate limit, auth) takes the rest.
RecordFailure(i, e) ==
    /\ breaker' = [breaker EXCEPT ![i] = IF e.kind = "transient" THEN AfterFailure(@) ELSE @]
    /\ instances' = [instances EXCEPT ![i] =
                        IF e.kind = "limit_instance" THEN LimitInstance(@, Cooldown(e))
                        ELSE IF e.kind \in {"auth", "blocked"} THEN DisableInstance(@)
                        ELSE @]
    /\ models' = [models EXCEPT ![i] =
                     IF e.kind = "limit_model" THEN LimitModel(@, Cooldown(e))
                     ELSE IF e.kind = "unsupported" THEN MarkUnsupported(@)
                     ELSE @]

\* ResilienceCoordinator.record_success.
RecordSuccess(i) ==
    /\ breaker' = [breaker EXCEPT ![i] = AfterSuccess(@)]
    /\ models' = [models EXCEPT ![i] = ClearModelCooldown(@)]
    /\ UNCHANGED <<instances, disabled>>

---------------------------------------------------------------------------
(* Availability                                                             *)

\* ResilienceCoordinator.check_availability: may a request to i proceed?
Available(i) ==
    /\ Proceeds(breaker[i])
    /\ InstanceStatus(instances[i]) = "ACTIVE"
    /\ ModelAvailable(models[i])

\* check_backend_availability: the error of a request that is turned away.
Rejection(i) ==
    IF i \in disabled \/ ~Proceeds(breaker[i]) \/ InstanceStatus(instances[i]) = "DISABLED"
      THEN NewError("transient", NoHint)
    ELSE IF InstanceStatus(instances[i]) = "RATE_LIMITED"
      THEN NewError("limit_model", instances[i].cooldown_left)
    ELSE IF models[i].unsupported
      THEN NewError("unsupported", NoHint)
    ELSE NewError("limit_model", models[i].cooldown_left)

\* Asking for the availability of the instances in S also moves their breakers on
\* and drops their expired entries.  Each check stops at the first obstacle.
LookedAt(S) ==
    /\ breaker' = [i \in Instances |-> IF i \in S THEN AfterCheck(breaker[i]) ELSE breaker[i]]
    /\ instances' = [i \in Instances |->
                       IF i \in S /\ Proceeds(breaker[i])
                         THEN DropExpiredInstance(instances[i])
                         ELSE instances[i]]
    /\ models' = [i \in Instances |->
                    IF i \in S /\ Proceeds(breaker[i]) /\ InstanceStatus(instances[i]) = "ACTIVE"
                      THEN DropExpiredModel(models[i])
                      ELSE models[i]]

---------------------------------------------------------------------------
(* Requests                                                                 *)

Backend(r) == Last(stack[r])

Init ==
    /\ breaker = [i \in Instances |-> NoState]
    /\ instances = [i \in Instances |-> NoEntry]
    /\ models = [i \in Instances |-> NoEntry]
    /\ disabled = {}
    /\ pc = [r \in Requests |-> "idle"]
    /\ call = [r \in Requests |-> [stream |-> FALSE, allow_failover |-> FALSE]]
    /\ stack = [r \in Requests |-> <<>>]
    /\ attempted = [r \in Requests |-> <<>>]
    /\ elapsed = [r \in Requests |-> 0]
    /\ left = [r \in Requests |-> 0]
    /\ output = [r \in Requests |-> FALSE]
    /\ error = [r \in Requests |-> NoError]
    /\ probes = {}
    /\ denied = {}

\* The request is over, with a response, a terminal error chunk or an exception.
Finish(r) ==
    /\ pc' = [pc EXCEPT ![r] = "idle"]
    /\ call' = [call EXCEPT ![r] = [stream |-> FALSE, allow_failover |-> FALSE]]
    /\ stack' = [stack EXCEPT ![r] = <<>>]
    /\ attempted' = [attempted EXCEPT ![r] = <<>>]
    /\ elapsed' = [elapsed EXCEPT ![r] = 0]
    /\ left' = [left EXCEPT ![r] = 0]
    /\ output' = [output EXCEPT ![r] = FALSE]
    /\ error' = [error EXCEPT ![r] = NoError]

\* The innermost call of r stops running on its backend.
LeaveBackend(r) == probes' = {p \in probes : p[1] # r}

\* Mutant: a stream re-raises, too.
AlwaysUnwinds(r) == Len(stack[r]) > 1

\* "if stream": an exception ends a stream with an error chunk, any other nested
\* call re-raises it in the call around it.
Unwinds(r) == ~call[r].stream /\ Len(stack[r]) > 1

\* An exception leaves the innermost call.
Raise(r, e) ==
    IF Unwinds(r)
      THEN /\ pc' = [pc EXCEPT ![r] = "escape"]
           /\ stack' = [stack EXCEPT ![r] = Front(@)]
           /\ error' = [error EXCEPT ![r] = e]
           /\ UNCHANGED <<call, attempted, elapsed, left, output>>
      ELSE Finish(r)

\* The target is resolved to i; callers choose stream and allow_failover.
Start(r, i, s, a) ==
    /\ pc[r] = "idle"
    /\ pc' = [pc EXCEPT ![r] = "check"]
    /\ call' = [call EXCEPT ![r] = [stream |-> s, allow_failover |-> a]]
    /\ stack' = [stack EXCEPT ![r] = <<i>>]
    /\ UNCHANGED <<tables, attempted, elapsed, left, output, error, history>>

\* check_backend_availability, up to and including the probe reservation.
Admit(r) ==
    LET i == Backend(r) IN
    /\ pc[r] = "check"
    /\ i \notin disabled
    /\ Available(i)
    /\ breaker' = [breaker EXCEPT ![i] = AfterAcquire(AfterCheck(@))]
    /\ instances' = [instances EXCEPT ![i] = DropExpiredInstance(@)]
    /\ models' = [models EXCEPT ![i] = DropExpiredModel(@)]
    /\ probes' = IF CheckReason(breaker[i]) = "half_open_probe_allowed"
                   THEN probes \cup {<<r, i>>}
                   ELSE probes
    /\ pc' = [pc EXCEPT ![r] = "invoke"]
    /\ UNCHANGED <<disabled, call, stack, attempted, elapsed, left, output, error, denied>>

\* The rejection is raised before the call's own try: no handler of this call sees it.
Reject(r) ==
    LET i == Backend(r) IN
    /\ pc[r] = "check"
    /\ i \in disabled \/ ~Available(i)
    /\ IF i \in disabled THEN UNCHANGED <<breaker, instances, models>> ELSE LookedAt({i})
    /\ Raise(r, Rejection(i))
    /\ UNCHANGED <<disabled, history>>

\* A response that is not a stream: every open call returns it.
Respond(r) ==
    /\ pc[r] = "invoke" /\ ~call[r].stream
    /\ RecordSuccess(Backend(r))
    /\ Finish(r)
    /\ LeaveBackend(r)
    /\ UNCHANGED denied

\* The connector raises, or returns a stream whose status is an error.
Fail(r, kind, hint) ==
    LET i == Backend(r) IN
    /\ pc[r] = "invoke"
    /\ error' = [error EXCEPT ![r] = NewError(kind, hint)]
    /\ denied' = IF kind \in {"auth", "blocked"} THEN denied \cup {i} ELSE denied
    /\ disabled' = IF kind = "auth" /\ i \in StaticCredentials     \* handle_auth_failure
                     THEN disabled \cup {i}
                     ELSE disabled
    /\ pc' = [pc EXCEPT ![r] = IF kind = "auth" THEN "escape" ELSE "failed"]
    /\ LeaveBackend(r)
    /\ UNCHANGED <<breaker, instances, models, call, stack, attempted, elapsed, left, output>>

\* The inner handler records the failure of this attempt and marks the exception.
RecordAttempt(r) ==
    /\ pc[r] = "failed"
    /\ RecordFailure(Backend(r), error[r])
    /\ error' = [error EXCEPT ![r] = MarkHandled(@)]
    /\ pc' = [pc EXCEPT ![r] = IF call[r].allow_failover THEN "recover" ELSE "escape"]
    /\ UNCHANGED <<disabled, call, stack, attempted, elapsed, left, output, history>>

\* The outer handler: every exception that leaves the inner one, or a nested call.
Escape(r) ==
    LET e == error[r] IN
    /\ pc[r] = "escape"
    /\ IF e.handled
         THEN UNCHANGED <<breaker, instances, models>> /\ Raise(r, e)
         ELSE RecordFailure(Backend(r), e) /\ Raise(r, Recorded(e))
    /\ UNCHANGED <<disabled, history>>

---------------------------------------------------------------------------
(* Recovery                                                                 *)

\* Mutant: the hops are not counted.
SpentTimeOnly(r, tried) == elapsed[r] >= TotalTimeoutBudget

\* decide, rules 2 and 3.
BudgetSpent(r, tried) ==
    Len(tried) >= MaxFailoverHops \/ elapsed[r] >= TotalTimeoutBudget

\* decide, rule 4: a retry-after of a header gets a second (a tick) on top, which is
\* at least min_retry_wait.
WaitFor(e) == e.hint + 1

ShouldRetry(r, e) ==
    /\ e.kind \in {"transient", "limit_model", "limit_instance"}
    /\ e.hint # NoHint
    /\ e.hint <= MaxSilentWait
    /\ WaitFor(e) <= TotalTimeoutBudget - elapsed[r]

\* find_alternative_instances looks at every other instance.
Candidates(r, tried) == (Instances \ Range(tried)) \ disabled

Alternatives(r, tried) == {i \in Candidates(r, tried) : Available(i)}

\* The error that is surfaced: a new one when the budget is spent or when the
\* strategy saw a BackendError made from something else, and else the same one.
Surfaced(r, tried) ==
    IF BudgetSpent(r, tried) THEN NewError("transient", NoHint)
    ELSE IF error[r].kind = "invalid" THEN NewError("transient", NoHint)
    ELSE error[r]

\* apply_failure_recovery up to the nested call; the ranking of the alternatives
\* is left open.
Recover(r) ==
    LET i == Backend(r)
        e == error[r]
        tried == IF Contains(attempted[r], i) THEN attempted[r] ELSE Append(attempted[r], i)
        dead == BudgetSpent(r, tried)
    IN
    /\ pc[r] = "recover"
    /\ attempted' = [attempted EXCEPT ![r] = tried]
    /\ LookedAt(Candidates(r, tried))
    /\ \/ /\ ~dead /\ ShouldRetry(r, e)                      \* WAIT_AND_RETRY
          /\ pc' = [pc EXCEPT ![r] = "waiting"]
          /\ left' = [left EXCEPT ![r] = WaitFor(e)]
          /\ UNCHANGED <<stack, error>>
       \/ /\ ~dead /\ ~ShouldRetry(r, e)                     \* FAILOVER_IMMEDIATE
          /\ \E j \in Alternatives(r, tried) : stack' = [stack EXCEPT ![r] = Append(@, j)]
          /\ pc' = [pc EXCEPT ![r] = "check"]
          /\ error' = [error EXCEPT ![r] = NoError]
          /\ UNCHANGED left
       \/ /\ dead \/ (~ShouldRetry(r, e) /\ Alternatives(r, tried) = {})
          /\ pc' = [pc EXCEPT ![r] = "escape"]               \* SURFACE_ERROR
          /\ error' = [error EXCEPT ![r] = Surfaced(r, tried)]
          /\ UNCHANGED <<stack, left>>
    /\ UNCHANGED <<disabled, call, elapsed, output, history>>

\* execute_retry after the wait: the backend is tried again.
Retry(r) ==
    /\ pc[r] = "waiting" /\ left[r] = 0
    /\ attempted' = [attempted EXCEPT ![r] =
                        IF @ # <<>> /\ Last(@) = Backend(r) THEN Front(@) ELSE @]
    /\ stack' = [stack EXCEPT ![r] = Append(@, Backend(r))]
    /\ pc' = [pc EXCEPT ![r] = "check"]
    /\ error' = [error EXCEPT ![r] = NoError]
    /\ UNCHANGED <<tables, call, elapsed, left, output, history>>

---------------------------------------------------------------------------
(* Streams                                                                  *)

\* The connector returns a stream; its accounting generator has not started yet.
OpenStream(r) ==
    /\ pc[r] = "invoke" /\ call[r].stream
    /\ pc' = [pc EXCEPT ![r] = "opened"]
    /\ UNCHANGED <<tables, call, stack, attempted, elapsed, left, output, error, history>>

\* The transport asks for the first chunk.
BeginStream(r) ==
    /\ pc[r] = "opened"
    /\ pc' = [pc EXCEPT ![r] = "streaming"]
    /\ UNCHANGED <<tables, call, stack, attempted, elapsed, left, output, error, history>>

\* mark_stream_meaningful_output
Emit(r) ==
    /\ pc[r] = "streaming" /\ ~output[r]
    /\ output' = [output EXCEPT ![r] = TRUE]
    /\ UNCHANGED <<tables, pc, call, stack, attempted, elapsed, left, error, history>>

\* _record_streaming_resilience_outcome: the stream ran to its end.
CompleteStream(r) ==
    /\ pc[r] = "streaming"
    /\ RecordSuccess(Backend(r))
    /\ Finish(r)
    /\ LeaveBackend(r)
    /\ UNCHANGED denied

\* ... an error, raised or in a chunk.
BreakStream(r, kind, hint) ==
    /\ pc[r] = "streaming"
    /\ RecordFailure(Backend(r), NewError(kind, hint))
    /\ denied' = IF kind \in {"auth", "blocked"} THEN denied \cup {Backend(r)} ELSE denied
    /\ Finish(r)
    /\ LeaveBackend(r)
    /\ UNCHANGED disabled

\* Mutant: a disconnect reports nothing.
ForgetDisconnect(r) == UNCHANGED tables

\* A disconnect counts as a success once there was output.
AccountDisconnect(r) ==
    IF output[r]
      THEN RecordSuccess(Backend(r))
      ELSE /\ breaker' = [breaker EXCEPT ![Backend(r)] = AfterRelease(@)]
           /\ UNCHANGED <<instances, models, disabled>>

\* ... the client went away.
Disconnect(r) ==
    /\ pc[r] = "streaming"
    /\ AccountDisconnect(r)
    /\ Finish(r)
    /\ LeaveBackend(r)
    /\ UNCHANGED denied

---------------------------------------------------------------------------
\* CancelledError or SessionCancelledError at an await, or a stream that is
\* dropped before it is iterated: no handler and no finally reports anything.
Cancel(r) ==
    /\ Cancels
    /\ pc[r] \notin {"idle", "streaming"}
    /\ Finish(r)
    /\ LeaveBackend(r)
    /\ UNCHANGED <<tables, denied>>

\* Mutant: the silent wait does not come to an end.
WaitOn(n) == n

CountDown(n) == IF n > 0 THEN n - 1 ELSE 0

\* The budget starts to run once the first check has passed.
Running(r) == pc[r] # "idle" /\ ~(pc[r] = "check" /\ Len(stack[r]) = 1)

Tick ==
    /\ breaker' = [i \in Instances |-> AfterBreakerTick(breaker[i])]
    /\ instances' = [i \in Instances |-> Cool(instances[i])]
    /\ models' = [i \in Instances |-> Cool(models[i])]
    /\ elapsed' = [r \in Requests |->
                     IF Running(r) /\ elapsed[r] < TotalTimeoutBudget
                       THEN elapsed[r] + 1
                       ELSE elapsed[r]]
    /\ left' = [r \in Requests |-> CountDown(left[r])]
    /\ UNCHANGED <<disabled, pc, call, stack, attempted, output, error, history>>

Answer(r) ==
    \/ Respond(r)
    \/ OpenStream(r)
    \/ \E kind \in ErrorKinds : \E hint \in HintsOf(kind) : Fail(r, kind, hint)

EndStream(r) ==
    \/ CompleteStream(r)
    \/ \E kind \in ErrorKinds : \E hint \in HintsOf(kind) : BreakStream(r, kind, hint)
    \/ Disconnect(r)

\* What the event loop runs without anything new from outside.
Proceed(r) ==
    \/ Admit(r) \/ Reject(r) \/ Answer(r)
    \/ RecordAttempt(r) \/ Escape(r) \/ Recover(r) \/ Retry(r)
    \/ BeginStream(r) \/ EndStream(r)

Next ==
    \/ \E r \in Requests :
         \/ \E i \in Instances, s \in Streams, a \in BOOLEAN : Start(r, i, s, a)
         \/ Proceed(r)
         \/ Emit(r)
         \/ Cancel(r)
    \/ Tick

Spec == Init /\ [][Next]_vars

\* The event loop runs what is ready, connector calls and streams end (the HTTP
\* client has timeouts), and time goes on.  Nobody has to send requests or cancel.
Fairness == WF_vars(Tick) /\ \A r \in Requests : WF_vars(Proceed(r))

FairSpec == Spec /\ Fairness

---------------------------------------------------------------------------
(* Properties                                                               *)

Phases ==
    {"idle", "check", "invoke", "failed", "recover", "waiting", "escape", "opened",
     "streaming"}

\* The type invariant; a request that is not idle has a call open, and an error is
\* there exactly while it is being handled.
TypeOK ==
    /\ breaker \in [Instances -> CircuitBreakerState \cup {NoState}]
    /\ instances \in [Instances -> InstanceState \cup {NoEntry}]
    /\ models \in [Instances -> ModelState \cup {NoEntry}]
    /\ disabled \subseteq Instances
    /\ pc \in [Requests -> Phases]
    /\ call \in [Requests -> [stream : BOOLEAN, allow_failover : BOOLEAN]]
    /\ elapsed \in [Requests -> 0 .. TotalTimeoutBudget]
    /\ left \in [Requests -> Nat]
    /\ output \in [Requests -> BOOLEAN]
    /\ error \in [Requests -> Errors \cup {NoError}]
    /\ probes \subseteq Requests \X Instances
    /\ denied \subseteq Instances
    /\ \A r \in Requests :
         /\ stack[r] \in Seq(Instances) /\ attempted[r] \in Seq(Instances)
         /\ pc[r] = "idle" <=> stack[r] = <<>>
         /\ pc[r] \in {"failed", "recover", "waiting", "escape"} <=> error[r] # NoError

\* Retries and failovers of one request, however they alternate, reach at most
\* max_failover_hops backends, never come back to a backend that was given up,
\* and nest at most one call per hop and per tick of the budget: the budget in
\* the RequestContext is not reset by the nested call_completion.
AttemptsBounded ==
    \A r \in Requests :
        LET s == stack[r] IN
        /\ Cardinality(Range(s)) <= MaxFailoverHops
        /\ \A a, c \in DOMAIN s : a < c /\ s[a] = s[c] => \A b \in a .. c : s[b] = s[a]
        /\ Len(s) <= MaxFailoverHops + TotalTimeoutBudget

\* "to avoid double-calling record_failure for the same error" (service.py): an
\* exception that the outer handler is about to record was not recorded before.
RecordedOnce ==
    \A r \in Requests : pc[r] = "escape" /\ ~error[r].handled => ~error[r].recorded

\* Only an instance that denied access itself, with a 401 or the request to validate
\* the account, is disabled: neither the failure of another instance nor an error
\* that is no denial (a plain 403 among them) is held against it.
DisabledDeservedly ==
    \A i \in Instances :
        i \in disabled \/ InstanceStatus(instances[i]) = "DISABLED" => i \in denied

\* Half-open probing is bounded: no more than half_open_max_inflight requests run
\* as probes of one instance at a time.
ProbesBounded ==
    \A i \in Instances : Cardinality({p \in probes : p[2] = i}) <= MaxInflight

\* Every request ends, whatever the providers answer: no chain of retries,
\* failovers and silent waits goes on for ever.
RequestsEnd == \A r \in Requests : pc[r] # "idle" ~> pc[r] = "idle"

\* The breaker excludes an instance for a bounded time: an open breaker lets
\* probes through at last, and a probe slot that is taken is given back.
ExclusionEnds ==
    \A i \in Instances : ~Proceeds(breaker[i]) ~> Proceeds(breaker[i])

=============================================================================
