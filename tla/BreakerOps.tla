----------------------------- MODULE BreakerOps -----------------------------
(***************************************************************************)
(* One entry of the circuit breaker table, and what each method of         *)
(* CircuitBreakerStateManager does to it                                   *)
(* (src/core/services/resilience/circuit_breaker_state.py).                *)
(* CircuitBreaker makes a specification of these operators and             *)
(* CompletionFlow calls them the way the request path does.                *)
(*                                                                         *)
(* Time.  The code stores the deadline open_until and compares it with     *)
(* time.monotonic().  The only question it asks is now < open_until, so an *)
(* entry keeps open_left, the ticks until that deadline; a tick counts it  *)
(* down to 0, which means that the deadline has passed.                    *)
(***************************************************************************)
EXTENDS Integers

CONSTANTS
    NoState,            \* "no entry in _states"
    Enabled,            \* config.enabled
    FailureThreshold,   \* config.failure_threshold
    OpenCooldown,       \* config.open_cooldown_seconds, in ticks
    SuccessThreshold,   \* config.half_open_success_threshold
    MaxInflight         \* config.half_open_max_inflight

\* CircuitBreakerConfig: three fields are at least 1 and the cooldown is positive.
ASSUME ConfigAssumption ==
    /\ Enabled \in BOOLEAN
    /\ FailureThreshold \in Nat \ {0}
    /\ OpenCooldown \in Nat \ {0}
    /\ SuccessThreshold \in Nat \ {0}
    /\ MaxInflight \in Nat \ {0}

\* CircuitBreakerState; last_failure_reason keeps only whether it is empty.
CircuitBreakerState ==
    [state : {"closed", "open", "half_open"},
     consecutive_failures : Nat,
     open_left : Nat,
     half_open_inflight : Nat,
     half_open_successes : Nat,
     last_failure_reason : {"none", "error"}]

ASSUME NoStateAssumption == NoState \notin CircuitBreakerState

\* The dataclass defaults: the entry that setdefault() creates.
FreshState ==
    [state |-> "closed",
     consecutive_failures |-> 0,
     open_left |-> 0,
     half_open_inflight |-> 0,
     half_open_successes |-> 0,
     last_failure_reason |-> "none"]

---------------------------------------------------------------------------
(* Operators on one entry: a CircuitBreakerState or NoState.                *)

\* _transition_to_open keeps the failure count and the reason.
ToOpen(e) ==
    [state |-> "open",
     consecutive_failures |-> e.consecutive_failures,
     open_left |-> OpenCooldown,
     half_open_inflight |-> 0,
     half_open_successes |-> 0,
     last_failure_reason |-> e.last_failure_reason]

\* _transition_to_half_open keeps only the reason.
ToHalfOpen(e) ==
    [state |-> "half_open",
     consecutive_failures |-> 0,
     open_left |-> 0,
     half_open_inflight |-> 0,
     half_open_successes |-> 0,
     last_failure_reason |-> e.last_failure_reason]

\* _transition_to_closed resets every field to its default.
ToClosed(e) == FreshState

\* Mutant: entries are never dropped.
EvictNever(e) == e

\* _evict_if_pristine: an entry equal to the defaults is dropped.
EvictIfPristine(e) == IF e = FreshState THEN NoState ELSE e

\* Mutant: the slot count is decremented without a guard.
DropProbeUnguarded(e) == [e EXCEPT !.half_open_inflight = @ - 1]

\* "if state.half_open_inflight > 0: state.half_open_inflight -= 1"
DropProbe(e) ==
    IF e.half_open_inflight > 0
      THEN [e EXCEPT !.half_open_inflight = @ - 1]
      ELSE e

\* Mutant: the open phase ends one tick early.
OpenExpiredEarly(e) == e # NoState /\ e.state = "open" /\ e.open_left <= 1

OpenExpired(e) == e # NoState /\ e.state = "open" /\ e.open_left = 0

\* check and try_acquire both move an open entry whose deadline has passed to
\* half_open before they decide anything.
ExpireOpen(e) == IF OpenExpired(e) THEN ToHalfOpen(e) ELSE e

\* Mutant: one slot too many.
HasCapacityOffByOne(e) == e.half_open_inflight <= MaxInflight

HasCapacity(e) == e.half_open_inflight < MaxInflight

\* CircuitBreakerDecision.reason; try_acquire_half_open_probe decides alike.
CheckReason(e) ==
    LET x == ExpireOpen(e)
    IN  IF ~Enabled THEN "circuit_breaker_disabled"
        ELSE IF x = NoState \/ x.state = "closed" THEN "circuit_closed"
        ELSE IF x.state = "open" THEN "circuit_open"
        ELSE IF HasCapacity(x) THEN "half_open_probe_allowed"
        ELSE "half_open_probe_inflight"

Proceeds(e) == CheckReason(e) \notin {"circuit_open", "half_open_probe_inflight"}

AfterCheck(e) == IF Enabled THEN ExpireOpen(e) ELSE e

\* try_acquire_half_open_probe: its result is Proceeds(e).
AfterAcquire(e) ==
    IF CheckReason(e) = "half_open_probe_allowed"
      THEN [ExpireOpen(e) EXCEPT !.half_open_inflight = @ + 1]
      ELSE AfterCheck(e)

AfterRelease(e) ==
    IF Enabled /\ e # NoState /\ e.state = "half_open" THEN DropProbe(e) ELSE e

\* Mutant: one failure too many is tolerated.
TrippedLate(e) == e.consecutive_failures > FailureThreshold

Tripped(e) == e.consecutive_failures >= FailureThreshold

CountFailure(e) ==
    LET x == [e EXCEPT !.consecutive_failures = @ + 1, !.half_open_successes = 0]
    IN  IF Tripped(x) THEN ToOpen(x) ELSE x

\* setdefault, then one branch per phase; last_failure_reason is always set.
AfterFailure(e) ==
    LET x == [(IF e = NoState THEN FreshState ELSE e)
                EXCEPT !.last_failure_reason = "error"]
    IN  IF ~Enabled THEN e
        ELSE IF x.state = "half_open" THEN ToOpen(DropProbe(x))
        ELSE IF x.state = "open" THEN ToOpen(x)
        ELSE CountFailure(x)

\* Mutant: a success in the closed state does not restart the count.
ForgiveReasonOnly(e) == [e EXCEPT !.last_failure_reason = "none"]

Forgive(e) == [e EXCEPT !.consecutive_failures = 0, !.last_failure_reason = "none"]

CountSuccess(e) ==
    LET x == [DropProbe(e) EXCEPT !.half_open_successes = @ + 1]
    IN  IF x.half_open_successes >= SuccessThreshold
          THEN EvictIfPristine(ToClosed(x))
          ELSE x

AfterSuccess(e) ==
    IF ~Enabled \/ e = NoState THEN e
    ELSE IF e.state = "half_open" THEN CountSuccess(e)
    ELSE IF e.state = "closed" THEN EvictIfPristine(Forgive(e))
    ELSE e

\* One tick of the monotonic clock.
AfterBreakerTick(e) ==
    IF e # NoState /\ e.open_left > 0 THEN [e EXCEPT !.open_left = @ - 1] ELSE e

=============================================================================
