--------------------------- MODULE CircuitBreaker ---------------------------
(***************************************************************************)
(* The per-instance circuit breaker, CircuitBreakerStateManager in         *)
(* src/core/services/resilience/circuit_breaker_state.py.                  *)
(*                                                                         *)
(* Every method runs under one threading.Lock, so one method call is one   *)
(* action.  The module is open: any caller may call any method on any      *)
(* instance at any time, which is all that the lock guarantees.  What the  *)
(* callers really do is in module CompletionFlow.                          *)
(***************************************************************************)
EXTENDS BreakerOps

CONSTANT Instances      \* backend instance identifiers

VARIABLES
    states,     \* _states
    streak,     \* history: failures reported since the last success reported
    quiet       \* history: ticks since the last failure reported
                \* (both saturate, at FailureThreshold and at OpenCooldown)

vars == <<states, streak, quiet>>

Saturate(n, limit) == IF n + 1 < limit THEN n + 1 ELSE limit

Init ==
    /\ states = [i \in Instances |-> NoState]
    /\ streak = [i \in Instances |-> 0]
    /\ quiet  = [i \in Instances |-> OpenCooldown]

Check(i) ==
    /\ states' = [states EXCEPT ![i] = AfterCheck(@)]
    /\ UNCHANGED <<streak, quiet>>

TryAcquire(i) ==
    /\ states' = [states EXCEPT ![i] = AfterAcquire(@)]
    /\ UNCHANGED <<streak, quiet>>

Release(i) ==
    /\ states' = [states EXCEPT ![i] = AfterRelease(@)]
    /\ UNCHANGED <<streak, quiet>>

RecordFailure(i) ==
    /\ states' = [states EXCEPT ![i] = AfterFailure(@)]
    /\ streak' = [streak EXCEPT ![i] = Saturate(@, FailureThreshold)]
    /\ quiet'  = [quiet EXCEPT ![i] = 0]

RecordSuccess(i) ==
    /\ states' = [states EXCEPT ![i] = AfterSuccess(@)]
    /\ streak' = [streak EXCEPT ![i] = 0]
    /\ UNCHANGED quiet

Tick ==
    /\ states' = [i \in Instances |-> AfterBreakerTick(states[i])]
    /\ quiet'  = [i \in Instances |-> Saturate(quiet[i], OpenCooldown)]
    /\ UNCHANGED streak

Next ==
    \/ \E i \in Instances :
         Check(i) \/ TryAcquire(i) \/ Release(i) \/ RecordFailure(i) \/ RecordSuccess(i)
    \/ Tick

Spec == Init /\ [][Next]_vars

---------------------------------------------------------------------------
Is(i, phase) == states[i] # NoState /\ states[i].state = phase

\* An instance without an entry is closed.
IsClosed(i) == states[i] = NoState \/ Is(i, "closed")

\* The type invariant: every entry of _states is a CircuitBreakerState and the
\* two histories stay within their saturation bounds.
TypeOK ==
    /\ states \in [Instances -> CircuitBreakerState \cup {NoState}]
    /\ streak \in [Instances -> 0 .. FailureThreshold]
    /\ quiet  \in [Instances -> 0 .. OpenCooldown]

\* After failure_threshold failures with no success between them the breaker of
\* that instance is not closed, whatever was evicted, probed or re-opened in the
\* meantime: record_failure never loses count (eviction in record_success drops
\* only entries that remember nothing).
ClosedMeansFewFailures ==
    Enabled => \A i \in Instances : IsClosed(i) => streak[i] < FailureThreshold

\* Probes are let through only after a whole cooldown without any reported
\* failure: a failure of a request still in flight when the breaker opened
\* restarts the cooldown (record_failure in the open state), and one that
\* arrives during half_open ends it.
HalfOpenMeansQuiet ==
    \A i \in Instances : Is(i, "half_open") => quiet[i] = OpenCooldown

\* The counters of the half-open phase never escape it, the reserved slots never
\* exceed half_open_max_inflight, and enough successes always end the phase.
ProbeAccounting ==
    \A i \in Instances :
        states[i] # NoState =>
            IF states[i].state = "half_open"
              THEN /\ states[i].half_open_inflight <= MaxInflight
                   /\ states[i].half_open_successes < SuccessThreshold
              ELSE /\ states[i].half_open_inflight = 0
                   /\ states[i].half_open_successes = 0

\* _states does not grow with healthy instances: a stored entry remembers a
\* failure, and no success leaves a closed one behind.
NoPristineEntry ==
    \A i \in Instances :
        Is(i, "closed") =>
            /\ states[i].last_failure_reason # "none"
            /\ states[i].consecutive_failures > 0

\* The breaker trips from closed only on failure_threshold consecutive failures:
\* a success in between starts the count again (record_success).
TripsOnlyOnStreak ==
    [][\A i \in Instances :
         IsClosed(i) /\ Is(i, "open")' => streak'[i] = FailureThreshold]_vars

=============================================================================
