# A TLA+ model of the LLM interactive proxy

The proxy accepts requests in several LLM protocols, picks a backend instance,
sends the request on and streams the answer back.  What makes it more than a pipe
is what happens when backends fail: cooldowns, circuit breakers, silent retries,
failovers, and many requests that do all of this at once on one event loop and
share the tables that say which backend is usable.  That, and what surrounds a
completion on the same event loop (races between backends, duplicates of a request,
clients that leave), is what these modules model.  Source paths below are relative
to `src/core/services/` of the repository unless they start with `src/`.

## 1. The system and its parts

| Part | State it keeps | Operations | Talks to | What is hard | What makes it correct |
|---|---|---|---|---|---|
| Circuit breaker (`resilience/circuit_breaker_state.py`) | one entry per failing instance: phase, consecutive failures, deadline, probes in flight, probe successes | check, acquire and release a probe, record failure, record success | called by the coordinator, under one lock | outcomes of requests that started in an earlier phase; eviction of entries | failures are never miscounted; probes only after a quiet cooldown; counters stay in their phase |
| Rate limit state (`resilience/rate_limit_state.py`, `backend_reactivation_control.py`) | two TTL caches: instance status with cooldown; (instance, model) cooldown and unsupported mark | status, cooldowns, disable, reactivate, mark, clear | coordinator, operator | entries vanish by themselves; late 429s and late successes | a disabled instance, a cooling instance, an unsupported model is not brought back by accident |
| Coordinator and handlers (`resilience/coordinator.py`, `resilience/handlers/`, `provider_error_classifier.py`) | none of its own | availability, record success, record failure by class of error | both tables | which table an error reaches | each error reaches the table it is about |
| Completion flow (`backend_completion_flow/`) | the request: call arguments, nested calls, exception | admission, call, record, recover, stream, account | all of the above | nested calls that see the same exception, cancellation, abandoned streams | an error is recorded once, against the right backend; slots come back; requests end |
| Failure strategy and budget (`failure_handling_strategy.py`, `streaming/stream_recovery_budget.py`) | attempted backends, start time, in the request context | decide: wait and retry, fail over, surface | completion flow | retries and failovers that alternate | hops and time are bounded |
| Routing (`backend_routing_service.py`) | round-robin indices | find alternatives | coordinator | availability is stale when it is used | alternatives were available when asked |
| Lifecycle manager (`backend_lifecycle_manager.py`) | backend cache, disabled backends, shutdown tasks | get or create, disable, shut down | completion flow | concurrent creation, eviction while in use | one backend per key, no use after shutdown |
| Parallel racer (`parallel_completion_racer.py`) | legs, winner, queues, watchdogs | race | completion flow | two first chunks at once, watchdog against a queued chunk, cleanup | one winner, no chunk of a loser, every leg is cancelled |
| End of session (`end_of_session_service.py`) | ended sessions, claim in the database | record a signal, emit with a timeout, prune | event bus, database | several signals and workers, fail-open claim | the event is emitted at most once on a claim and at most once without |
| Session cancellation (`session_cancellation_coordinator.py`, `backend_work_guard.py`) | cancelled sessions (TTL), registered work | cancel, register, ensure, clean up | completion flow | cancel between gate and registration | no work of a cancelled session goes on |
| Request deduplication (`request_deduplication_service.py`) | entry per request hash: status and expiry | check and register, mark complete, clean up | request processing | entries that expire before their request ends, stale completions | parallel duplicates blocked, retries after errors allowed |
| Usage tracking (`async_usage_write_queue.py`) | bounded queue, pending usage records | enqueue, flush, stop | completion flow, database | a full queue, shutdown during a flush | nothing is lost silently or written twice |
| B2BUA sessions (`b2bua_*`) | maps between A-leg and B-leg identifiers | allocate, resolve | session handling | concurrent allocation | B-leg identifiers are unique and stable |
| Composite and weighted routing (`composite_*`, `weighted_branch_selector.py`) | pending branches of a selector | choose, advance | failure recovery | interplay with failover | each branch is tried once, in order |
| Streaming handler (`backend_request_manager/streaming_response_handler.py`) | attempt counter in the budget | recover empty streams | calls the completion flow again | recovery after output | no recovery once output was sent |
| Endpoint health, concurrency guard, rate limiter | small counters and flags | probe, enter, leave | routing, transport | staleness, leaked slots | bounded, released |
| Loop detection, tool call reactor, commands, translation, connectors, wire capture, redaction, compaction, configuration, DI, storage | per-session or none | text and format transformations, I/O | | little interleaving | checked by tests |

A request goes through them like this: `call_completion` resolves a target, asks
the availability checker (lifecycle manager, breaker, rate limit state, probe
slot), calls the connector, and records the outcome.  On an error the inner handler
records it and, if failover is allowed, `apply_failure_recovery` asks routing for
alternatives and the strategy for a decision.  A retry and a failover are *nested
calls of `call_completion`*, so exceptions pass through the handlers of every call
that is still open.  A stream is accounted for by a generator that runs in the
transport, after `call_completion` has returned.

## 2. Modules

| Module | Models |
|---|---|
| `BreakerOps` | one entry of the breaker's table and what each method does to it, as operators |
| `CircuitBreaker` | `CircuitBreakerStateManager`: one action per method, any caller, any order |
| `CircuitBreakerProofs` | its theorems |
| `LimitOps` | one entry of each table of `RateLimitStateManager`, as operators |
| `RateLimitState` | `RateLimitStateManager` with the operator's reactivation: one action per method |
| `RateLimitStateProofs` | its theorems |
| `CompletionFlow` | concurrent requests in `call_completion`, over the same operators: composes breaker, rate limit state, coordinator, strategy, routing and the lifecycle manager's disabled set |
| `CompletionFlowProofs` | its theorems |
| `Race` | what a parallel route promises its client, as an abstract specification |
| `ParallelRacer` | `ParallelCompletionRacer.race` with the orchestrator's leg runtimes, every asyncio task an actor; implements `Race` |
| `ParallelRacerProofs`, `RaceProofs` | its theorems, and that it implements `Race` |
| `RequestDedup` | `RequestDeduplicationService` and the requests `BackendRequestManager` sends through it |
| `RequestDedupProofs` | its theorems |
| `SessionEnd` | the cancellation coordinator, its gates and registrations, the end-of-session signals, their claim in the database, and the event's subscribers |
| `SessionEndProofs` | its theorems |
| `MC*` | instances for TLC |

`BreakerOps` and `LimitOps` exist so that the two open tables, which are checked and
proved under *every* sequence of calls, and `CompletionFlow`, which makes only the
calls the proxy makes, use the same definitions.

### Time

Every deadline is kept as the number of ticks left (`open_left` for `open_until`,
`cooldown_left` for `cooldown_until`, `ttl_left` for the cache's deadline, `left` for
a silent wait) and `Tick` counts all of them down together.  `now >= deadline` in the
code is "0 left" in the model.

### CircuitBreaker

`states` is `_states`; `NoState` stands for a missing key.  `streak` and `quiet` are
history: failures since the last success, and ticks since the last failure, both
saturating.  All methods take one `threading.Lock`, so a call is an action.  With
`enabled = False` every method returns at once.

### RateLimitState

`instances` and `models` are the two TTL caches.  Assigning to a cache restarts the
entry's ttl; changing a stored object in place (`clear_cooldown`) does not, and the
model keeps that difference.  `revoked`, `owed` and `refused` are history: how long
ago an instance was disabled, how much of a cooldown is still owed, how long ago a
model was marked.  The eviction of the oldest entry at `maxsize` is not modelled.

### CompletionFlow

`pc[r]` is the await at which request `r` is; what runs between two awaits is one
action.

| `pc` | Code | Leaves by |
|---|---|---|
| `check` | before `check_backend_availability` | `Admit` (with the probe reservation), `Reject` |
| `invoke` | the connector call | `Respond`, `OpenStream`, `Fail` |
| `failed` | inner `except` | `RecordAttempt` |
| `recover` | `apply_failure_recovery` | `Recover`: wait, fail over, or surface |
| `waiting` | `_wait_with_cancellation_boundaries` | `Retry` |
| `escape` | outer `except`, of this call or of the one around it | `Escape` |
| `opened`, `streaming` | the accounting generator, before and after its first step | `BeginStream`; `CompleteStream`, `BreakStream`, `Disconnect` |

`stack[r]` holds the backends of the open calls, the innermost last: a retry pushes
the same backend, a failover another one, and an exception of a request that is not
a stream pops one level and enters the outer handler of the call below (`Unwinds`,
`Raise`).  An exception is its class, its retry-after, the marker
`__handled_by_inner_handler__`, and a history bit "has been recorded".  `probes` and
`denied` are history, too.

Error classes: `transient` (5xx, timeouts, transport errors: what the breaker
counts), `limit_model` and `limit_instance` (429, for one model or for the whole
instance), `auth` (401 or `AuthenticationError`), `blocked` (not a 401, but its text asks
for the account to be validated, which the handler treats as a denial), `unsupported`
(the classifier says the model does not exist there), `client` (any other
`BackendError`, a plain 403 among them: it leaves the tables alone), `invalid` (an
error of the proxy that is no `BackendError`).  How messages and headers are parsed into
these classes is left out.  A retry-after is one of a header (or of
`retry_after_seconds`), for which the strategy adds a second.

Left out of the flow: composite selectors, configured failover routes, parallel
completion, interleaved thinking, health gating, usage records, wire capture, and
personal and OAuth backends (which authentication errors never disable).  One model
name; the hour-long ttl of the tables is not counted down here.

### ParallelRacer and Race

Each task of the race is an actor: the legs (`pc[l]` is the await they are at), the
time-to-first-token watchdogs, the keep-alive loop, the watcher of the client's
cancellation, the orchestrator and the reader with its cleanup.  `winner_lock` is held
across an await only by a watchdog that is stopping its leg, so `lock` names that leg
and is a guard for everybody else.  `task_cancel` holds the legs that were sent
`cancel()` and have not seen it; a task in it does nothing but unwind.

| `pc` | Code | Leaves by |
|---|---|---|
| `delay` | `_wait_handicap_delay` | `Start` (no delay, accelerated), `Expire` |
| `gate` | the first `winner_lock` | `Gate`: watchdog, backend call |
| `calling` | `await runtime.call_task` | `CallFails`, `Resume` |
| `pulling` | `async for chunk in stream` | `Pull`, `StreamEnds` |
| `check`, `claim` | the two locks in the loop | `Check`, `Claim` |
| `announce`, `emit`, `reap` | stop the losers' protocols, emit, stop their tasks | `StopLosers`, `EmitFirst`, `ReapLosers` |
| `failed`, `hurry` | acceleration of the pending legs | `Accelerate`, `Hurry` |

`upstream[l]` is the backend's side: none, calling, answered (the call is done and
the leg has not resumed), open, over.  `_stop_all` awaits between its legs, so a sweep
is one step per leg (`wpos`, `rpos`).  Cancel callbacks are taken to return: one that
raises is logged and its task is cancelled all the same, one that never returns would
hold up the sweep and is not modelled.  `Race` sees `winner`, the last item the client
received, and whether the stream ended by itself; the mapping of `ending` is the only
one that is not the identity.

### RequestDedup

The cache holds, per content, status, code, age and time left; `Arrive` is
`check_and_register` with its cleanup and what `process_backend_request` makes of the
verdict (admit, swallow, or replay the error of the attempt before).  An attempt then
ends in one of the ways the manager knows: the call raises, is cancelled, answers,
opens with an error; a stream is handed over, perhaps never started, sees `[DONE]` or
a terminal chunk, is exhausted, breaks, or is left.  An answer without streaming may be
an error envelope, which the request processor raises to the client; a stream may end in
the error chunk that the proxy's streaming handler makes of an exception (`EmitsError`),
a dict, which the wrapper does not look into.  `excused`, `owner` and `failure` are
history: contents whose attempts may overlap and why, who registered an entry, and
whether the client was told of a failure by the last attempt of a content, one the manager
recognised ("seen") or not ("unseen").

Requests that bypass the service (`_should_bypass_dedup`: the header
`x-llmproxy-no-dedup`, and streams of the model prefixes `internlm:`, `internlm/`,
`kimi-code:` and `kimi/`) neither read nor write its cache and are left out.

### SessionEnd

The tasks are requests that share one request id, which is the coordinator's key (a
client may choose it), and one session id, which is what the signals of completed
streams carry.  `key` and `held` are the coordinator's state; `row`, `seen` and `sig`
are the session metrics rows, the cache of ended ids and where each signal is.
`upstream` has one backend call or stream for each attempt of a task (`try`), since a
stream may outlive its attempt:

* a stream with a cancel callback is registered when the call answers; one without
  (`bare`; several connectors return such streams) is not, and only its iterator ends it;
* an error envelope is raised after the registration and handled like a failed call, by
  a retry, a failover or the error itself, and nobody closes it (`ErrorEnvelope`);
* a response that was handed to the transport (`ready`) is started, or dropped before its
  first item (`Drop`), in which case the `except` clauses of its generator, where the
  cancel callback and the report are, do not run.

`Restart` keeps only the rows; `Forget` empties the cache, which lives five minutes.
`memo` is chosen at the start: `TRUE` is the deployed metrics initializer
(`cache_ttl_seconds` 5), which never writes a row (see "Seen on the way"), `FALSE` the
one with the ttl 0 that the tests use, where claims can be won.  Backends are a
connector with its own gate (`src/connectors/openai.py`).

## 3. Runs

Passing runs:

| Run | Instance | Shows |
|---|---|---|
| `breaker` | 2 instances, threshold 3, cooldown 2, 2 probes, 2 successes | `ClosedMeansFewFailures`, `HalfOpenMeansQuiet`, `ProbeAccounting`, `NoPristineEntry`, `TripsOnlyOnStreak` under any interleaving of the methods |
| `limits` | 1 instance, 2 models, ttl 3, retry-afters 1, 3 and 4 | `DisabledSticks`, `CooldownServed`, `UnsupportedSticks`: within one ttl nothing but an operator brings back what was taken out |
| `flow` | 2 streaming requests, 3 instances, 2 hops, budget 2, no breaker, 401, block messages and transient errors, cancellations | `AttemptsBounded`: at most `max_failover_hops` backends, never back to one that was given up, nesting bounded by hops and time, although a retry removes its backend from the attempted list. `RecordedOnce`, `DisabledDeservedly`: for streams an exception is recorded once and only a backend that denied access is disabled |
| `flow_liveness` | 2 requests, 1 instance, transient errors, streams, fairness | `RequestsEnd`, `ExclusionEnds`: requests end and the breaker lets the instance back in, with streams that clients abandon after the first step |
| `race` | 2 legs, handicaps 1 and 0, a watchdog on the first, 2 chunks each, 1 unread keep-alive | implements `Race`; `WatchdogSparesWinner`, `BackendToldFirst`, `NoLegLeftRunning`, `FailureStartsTheRest`, `GoneMeansStopped` |
| `dedup` | 2 requests at a time, 2 contents, a cache for 1, windows 1 and 2, codes 200, 400, 503 | `OneAtATime`, `InFlightMeansRunning`, `RecognisedFailureNotSilenced`, `BlockingEnds` |
| `session_end` | 2 requests of one id, 1 retry, 1 restart, with and without rows | `ClaimedOnce`, `OpenedOnce`, `NoStreamEscapes`, `StreamsStop` |

What the properties of the last three say:

* `RaceSpec`: the client gets keep-alives, then the consecutive chunks of one leg, and
  a regular end only after the winner's first chunk.  `WatchdogSparesWinner`: no leg
  wins while a watchdog is giving its leg up.  `BackendToldFirst`: no task is cancelled
  before its backend was told.  `NoLegLeftRunning`: after the race no task is left, no
  call runs on and no stream is open that nobody is about to cancel; an answered stream
  that its leg did not pick up belongs to a leg that was told to stop.  That such a
  stream is closed is `NoBackendLeftOpen`, which does not hold (`race_leak`).
  `FailureStartsTheRest`: when a leg with
  a handicap is done without a winner, the delayed ones are told to start.
  `GoneMeansStopped`: once the client is gone the race ends, silent backends or not.
* `OneAtATime`: two attempts of a content overlap only if one outlived its in-flight
  window or was evicted while it ran.  `InFlightMeansRunning`: an in-flight entry belongs
  to a running attempt, or to a stream nobody started.  `RecognisedFailureNotSilenced`:
  after a failure that the manager recognised, whatever chunks and departures followed
  it, a repetition is admitted or gets the error.  Of every failure that the client was
  told of, this is `FailureNotSilenced`, which does not hold (`dedup_silenced`).
  `BlockingEnds`: no content is blocked for ever.
* `ClaimedOnce`: one event per id on a claim, over restarts and cache expiry.
  `OpenedOnce`: one event without a claim while the cache remembers.  `NoStreamEscapes`:
  every open stream with a cancel callback is a call its task waits for or is held by the
  coordinator, so that a termination reaches it, wherever its reader went; and none is open
  for a request whose client was reported gone.  `StreamsStop`: a termination stops every
  stream with a callback that a request of the id is reading, although the event's
  cleanup may take the cancelled mark back before the stream looks.

Runs that end in a counterexample, each against a statement of the repository:

| Run | Property | What happens |
|---|---|---|
| `flow_twice` | `RecordedOnce` | a request that is not a stream fails over from A to B; B answers 401; the nested call records it against B and re-raises it unmarked; the outer handler records it again, against A, and disables A. The comment there says the marker is "to avoid double-calling record_failure" |
| `flow_leak` | `ExclusionEnds` | a half-open probe is answered 429; the 429 never reaches the breaker, so the slot is not given back and every later check is refused; the plan of that phase promises a "bounded cooldown window". One request that is not a stream and one instance suffice, where `flow_liveness`, whose providers answer with transient errors only, passes |
| `flow_probes` | `ProbesBounded` | a stream admitted while the breaker was closed ends without output while another request is probing; its release gives back the other's slot and a second probe is admitted; the plan says "at most one probe in flight per instance" |
| `race_leak` | `NoBackendLeftOpen` | a leg is cancelled after its call has answered and before its task resumes (`parallel_completion_orchestrator.py:283`): the call is done and the envelope is not stored yet, so neither is cancelled and the stream stays open; the repository's README says the race "stops every active or scheduled B-leg" |
| `dedup_silenced` | `FailureNotSilenced` | an answer that is an error envelope is filed as 200, and so is a stream that ends in the proxy's own error chunk; the client's retry gets an empty answer, against the comment "A cached upstream failure must not be converted into an empty successful stream" and the guide's "Retries after 429/503 errors are NEVER blocked" |

### Bounds, and why they are enough

Thresholds of 2 and 3 tell "reached" from "one short"; cooldowns of one or two ticks
tell expired from not expired; retry-afters lie below, at and above the ttl and the
silent wait.  Breaker entries of different instances never touch each other, so two
instances show what any number does.  In the flow two requests are enough for one to
change a table between another's look and its use of it, a third is needed only in
`flow_probes` (an old stream, a probe, a second probe).  Three instances with two
hops allow a failover that must not happen.  `Hints = {0}` with the added second
gives the shortest wait, hence the most retries within a budget.  `elapsed` stops at
the budget, since nothing distinguishes later times.  `flow` runs without
the breaker and `flow_liveness` with one instance to keep the state spaces small: the
former asks about the strategy, the latter about the breaker.  Symmetry is used only
in runs without liveness properties.

`race`: two legs suffice for two first tokens at once, a loser's late chunk and a delayed
leg; the first may time out and the second never does, so watchdog and claim meet in
both orders; two chunks tell a first chunk from a later one.  `dedup`: two requests are
a duplicate and its original, or a retry and a late completion; two contents and room
for one make eviction happen; the codes are a success, an error that is replayed and
one that may be retried; the windows differ so that "in flight" and "completed" expire at
different times; the sweep of expired entries is due at every registration
(`CleanupInterval` 0), which makes it meet the most states.  `session_end`: two requests
are a termination and a stream that it must stop, or a completion whose signal races the
termination's; one retry sends a request through the gates again after they were closed
and reopened, and leaves the stream of an error envelope behind while the next one opens;
the theorems are about any number of both.

### Fairness

`WF(Tick)`: time goes on.  `WF(Proceed(r))` for each request: the event loop runs
what is ready, a connector call returns or raises, and a stream ends or is closed,
since the HTTP clients have timeouts.  Nobody is obliged to start a request, to
cancel one, or to emit output before a stream ends.  There is no fairness between the
answers: a provider may fail for ever.  `flow_liveness` excludes cancellations,
because a cancelled probe does keep its slot, for the reason `flow_leak` shows.

`race` assumes that the event loop runs a task as long as one can run and that a
connected client reads what is queued; nothing of backends and timers.  `dedup` assumes
only that time goes on: an attempt may hang for ever.  `session_end` assumes that an
answered stream is delivered or its request goes on, that a delivered response is started
or dropped, and that a started stream whose upstream was cancelled, or whose session is
cancelled, is pulled until it stops; nothing of backends, clients, the
database or the event's handlers.

### Seen on the way

Behaviour of the code that the models show and no run is about:

* An error of the leg that has already won ends the client's stream as if the answer were
  complete (`parallel_completion_racer.py:436`).
* `DISABLED` is an entry of a `TTLCache` (`rate_limit_state.py:81`): after an hour without
  another failure the instance is available again, although requirement 7 of the
  resilience layer (`.kiro/specs/archive/resilience-layer-architecture/requirements.md:76`)
  says it "remains disabled until manually reactivated".  `DisabledSticks` promises the
  one ttl that the code keeps.
* The same requirements (line 75), and the docstrings of the handler, let a 403 disable an
  instance; the code and its tests do not (`auth_error_handler.py:28`).
* Requirement 4.1 of the client termination (`client-end-of-session-handling/requirements.md`)
  cancels "all in-flight backend requests" of a session.  Streams without a cancel callback
  are out of the coordinator's reach, and a stream whose response was dropped before its
  first item, or that was raised as an error envelope, stays open until another
  termination of its id is reported, if there is one.
* `ensure_session_metrics` with `cache_ttl_seconds > 0` finds the memo it has just
  written and never creates the row (`session_metrics_initializer.py:113`); the claim
  then finds no row and no event is emitted while the database works.
* The event of a termination erases the cancelled mark
  (`session_cancellation_cleanup_eos_subscriber.py:98`), so a request of the same id that
  was between two gates goes on to its backend.
* The claim commits before the event is published, so a crash in between loses it; and a
  claim that raised may emit beside one that was won.

## 4. Proofs

Every invariant that a passing run checks is also a theorem, for all instances,
models, requests, legs and configurations that satisfy the named assumptions.  So are
the action property `TripsOnlyOnStreak` and the refinement of `Race`.

| Module | Assumptions | Theorems |
|---|---|---|
| `CircuitBreakerProofs` | `ConfigAssumption` (thresholds, limits and the cooldown are positive, as `CircuitBreakerConfig` requires), `NoStateAssumption` | `TypeCorrectness`, `CountIsKept`, `CooldownIsServed`, `ProbesAreBounded`, `TableStaysSmall`, `NoSpuriousTrip` |
| `RateLimitStateProofs` | `TtlAssumption`, `NoEntryAssumption`, `RetryAftersAssumption` | `TypeCorrectness`, `DisabledInstancesStay`, `CooldownsAreServed`, `UnsupportedMarksStay` |
| `CompletionFlowProofs` | `FlowAssumption` (`max_failover_hops` at least 1, the other budgets natural numbers), those of the two tables, `NoErrorAssumption` | `TypeCorrectness`, `AttemptsAreBounded`; for callers that only stream `StreamFailuresRecordedOnce`, `StreamsDisableDeservedly` |
| `ParallelRacerProofs` | `RacerAssumption` (at least one leg) | `TypeCorrectness`, `WinnerIsSpared`, `BackendIsToldFirst`, `NoLegIsLeftRunning`, `FailureHurriesTheRest` |
| `RaceProofs` | the same | `RaceRefinement` |
| `RequestDedupProofs` | `DedupAssumption` (the window is positive), `EntryAssumption` | `TypeCorrectness`, `OneAttemptAtATime`, `InFlightIsTrue`, `RecognisedFailuresStayAudible` |
| `SessionEndProofs` | `SessionAssumption` | `TypeCorrectness`, `OneClaimedEvent`, `OneOpenEvent`, `NoStreamGetsAway` |

Assumptions such as `NoErrorAssumption`, `EntryAssumption` and `NoStateAssumption` only
say that "nothing" (`None`, a missing key) is not one of the records it stands in for.
`MaxChunks`, `MaxBeats`, `MaxRetries` and `MaxRestarts` bound the behaviours for TLC; the
theorems hold for every value of them.

Hardly any of the invariants is inductive alone.  In each module `IInv` is the
strengthening, `Invariance` says that it holds, and TLC has checked it on an instance
before it was proved.  A proof that `IInv` is preserved has a lemma for each part and,
in it, a step for each action.

* **Breaker.**  `EntryMatches` ties each entry to its history: a closed entry counts
  exactly the streak and remembers something, an open one has
  `open_left + quiet = OpenCooldown`, a half-open one has been quiet for a whole
  cooldown.  "Nothing stored" has to mean "no streak", or eviction would lose failures;
  that is where the pristine test of the code is needed.
* **Rate limits.**  `InstanceMatches` and `ModelMatches` do the same for the other
  tables: a disabled entry has `ttl_left + revoked = Ttl`, and a cooldown that is owed is
  covered by both the entry's cooldown and its ttl.
* **Completion flow.**  `AttemptsBounded` speaks of the stack of nested calls; the code
  never looks at that stack, it looks at the list of attempted backends and the clock.
  `HopInv` relates the three.  While a backend is tried, every backend below it is on
  the list and it is not, and every nested call that was not a hop has cost a tick.
  While a request waits to try a backend again, that backend is the last one on the
  list, from where `execute_retry` takes it, and the wait fits into the rest of the
  budget.  The second fact is what pays for the nested call of the retry: `WaitFor` is
  at least a tick.  `StreamInv` says of a stream's exception that it was not recorded
  before it reaches the outer handler, and that a denial (`auth`, `blocked`) is charged to
  the backend that sent it.  For calls that are not streams both are false (`flow_twice`), which is
  why the last two theorems have the hypothesis `Streams \subseteq {TRUE}`.
* **Racer.**  Who may cancel a leg's task depends on who has won (`WinInv`), how far a
  sweep has come (`StopInv`) and who holds `winner_lock` (`LockInv`); that the winner's
  first chunk is not swept away depends on who may cancel it (`ToldInv`); a leg that
  returns with its backend's stream open is excused only by somebody on the way to
  cancel it (`UpInv`), and one that leaves an answer behind was cancelled (`AnswerInv`).
* **Refinement of `Race`.**  What the client will see is what it received last followed
  by the queue.  `ClientInv` says that this sequence is in order, that its chunks are
  the winner's, and that its newest item agrees with how far the winner has pulled its
  stream.  An item put at one end and an item taken at the other keep it, and each step
  of the racer is then a step of `Race` or a stutter.
* **Deduplication.**  `SoloInv`: while nothing excuses company, the entry of a running
  attempt is in flight, is its own, and expires exactly when the attempt has used up
  its window.  Late completions, sweeps and evictions must not disturb that.
* **End of session.**  `ClaimInv`: who has won the claim is alone and its row is ended.
  `KeyInv`: from the report of a termination until its cleanup has run the session
  stays cancelled and no second termination is on its way, so that cleanup finds nothing
  held.  `EndInv`: only a request that is over signals.  `StreamInv`: an open stream of
  any attempt is its task's pending call or is held by the coordinator, and its request
  has not been reported: the report would have cancelled everything that is held.

Only model-checked: liveness (`RequestsEnd`, `ExclusionEnds`, `GoneMeansStopped`,
`BlockingEnds`, `StreamsStop`), which is out of the prover's reach; and the five
properties that do not hold, whose counterexamples TLC finds.

## 5. Plan

1. The usage queue (`async_usage_write_queue.py`) and the lifecycle manager's backend
   cache.
2. An abstract breaker implemented by `CircuitBreaker` and, through the same mapping, by
   the breaker of `CompletionFlow`, with the step simulation proved.
3. Composite selectors, failover routes (whose attempts swallow every exception but the
   last) and the streaming handler as callers of `CompletionFlow`.

## 6. Not modelled

The parts that sections 1 and 2 do not assign to a module: the ones in the plan; the
selection of racing legs and the collection of a raced stream into one response; error
signals and the other subscribers of the end of a session; and text and format
transformations (translation, loop detection, redaction, compaction), connectors,
configuration, dependency injection and storage adapters.  These make up most of the
repository by size, but they are conversions of data and I/O with little state that
steps of several actors share, where a model would repeat the code.
