--------------------------- MODULE RateLimitState ---------------------------
(***************************************************************************)
(* RateLimitStateManager: cooldowns, disabled instances and unsupported    *)
(* models (src/core/services/resilience/rate_limit_state.py), with the     *)
(* operator's reactivation (backend_reactivation_control.py).              *)
(*                                                                         *)
(* The methods are synchronous and run on the event loop, so one call is   *)
(* one action.  Like CircuitBreaker the module is open: any call in any    *)
(* order.                                                                  *)
(***************************************************************************)
EXTENDS LimitOps

CONSTANTS
    Instances,      \* backend instance identifiers
    Models,         \* model names
    RetryAfters     \* the cooldowns that providers ask for, in ticks

ASSUME RetryAftersAssumption == RetryAfters \subseteq Nat

VARIABLES
    instances,      \* _instance_state
    models,         \* _model_state
    revoked,        \* history: ticks since disable_instance, until reactivated
    owed,           \* history: ticks left of the cooldown last accepted
    refused         \* history: ticks since mark_model_unsupported, until cleared

vars == <<instances, models, revoked, owed, refused>>

\* A history of -1 says that nothing is remembered; the clocks saturate at Ttl.
Never == -1

Older(n) == IF n = Never \/ n >= Ttl THEN n ELSE n + 1

Pairs == Instances \X Models

Init ==
    /\ instances = [i \in Instances |-> NoEntry]
    /\ models = [p \in Pairs |-> NoEntry]
    /\ revoked = [i \in Instances |-> Never]
    /\ owed = [i \in Instances |-> 0]
    /\ refused = [p \in Pairs |-> Never]

\* check_model_availability: the model is looked at only if the instance is up.
CheckAvailability(i, m) ==
    /\ instances' = [instances EXCEPT ![i] = DropExpiredInstance(@)]
    /\ models' = IF InstanceStatus(instances[i]) = "ACTIVE"
                   THEN [models EXCEPT ![<<i, m>>] = DropExpiredModel(@)]
                   ELSE models
    /\ UNCHANGED <<revoked, owed, refused>>

SetInstanceCooldown(i, n) ==
    /\ instances' = [instances EXCEPT ![i] = LimitInstance(@, n)]
    /\ owed' = [owed EXCEPT ![i] = IF InstanceStatus(instances[i]) = "DISABLED" THEN @
                                  ELSE IF n < Ttl THEN n ELSE Ttl]
    /\ UNCHANGED <<models, revoked, refused>>

Disable(i) ==
    /\ instances' = [instances EXCEPT ![i] = DisableInstance(@)]
    /\ revoked' = [revoked EXCEPT ![i] = 0]
    /\ owed' = [owed EXCEPT ![i] = 0]
    /\ UNCHANGED <<models, refused>>

\* reactivate_backend_instance, with or without clear_unsupported.
Reactivate(i, clear_unsupported) ==
    /\ instances' = [instances EXCEPT ![i] = ReactivateInstance(@)]
    /\ revoked' = [revoked EXCEPT ![i] = Never]
    /\ owed' = [owed EXCEPT ![i] = 0]
    /\ IF clear_unsupported
         THEN /\ models' = [p \in Pairs |->
                              IF p[1] = i THEN ClearUnsupported(models[p]) ELSE models[p]]
              /\ refused' = [p \in Pairs |-> IF p[1] = i THEN Never ELSE refused[p]]
         ELSE UNCHANGED <<models, refused>>

SetModelCooldown(i, m, n) ==
    /\ models' = [models EXCEPT ![<<i, m>>] = LimitModel(@, n)]
    /\ UNCHANGED <<instances, revoked, owed, refused>>

MarkModelUnsupported(i, m) ==
    /\ models' = [models EXCEPT ![<<i, m>>] = MarkUnsupported(@)]
    /\ refused' = [refused EXCEPT ![<<i, m>>] = 0]
    /\ UNCHANGED <<instances, revoked, owed>>

\* record_success in coordinator.py clears the cooldown of the pair only.
RecordSuccess(i, m) ==
    /\ models' = [models EXCEPT ![<<i, m>>] = ClearModelCooldown(@)]
    /\ UNCHANGED <<instances, revoked, owed, refused>>

\* clear_cooldown without a model.
ClearCooldown(i) ==
    /\ instances' = [instances EXCEPT ![i] = ClearInstanceCooldown(@)]
    /\ owed' = [owed EXCEPT ![i] = 0]
    /\ UNCHANGED <<models, revoked, refused>>

Tick ==
    /\ instances' = [i \in Instances |-> Age(Cool(instances[i]))]
    /\ models' = [p \in Pairs |-> Age(Cool(models[p]))]
    /\ revoked' = [i \in Instances |-> Older(revoked[i])]
    /\ owed' = [i \in Instances |-> IF owed[i] > 0 THEN owed[i] - 1 ELSE 0]
    /\ refused' = [p \in Pairs |-> Older(refused[p])]

Next ==
    \/ \E i \in Instances :
         \/ \E n \in RetryAfters : SetInstanceCooldown(i, n)
         \/ Disable(i)
         \/ \E c \in BOOLEAN : Reactivate(i, c)
         \/ ClearCooldown(i)
         \/ \E m \in Models :
              \/ CheckAvailability(i, m)
              \/ \E n \in RetryAfters : SetModelCooldown(i, m, n)
              \/ MarkModelUnsupported(i, m)
              \/ RecordSuccess(i, m)
    \/ Tick

Spec == Init /\ [][Next]_vars

---------------------------------------------------------------------------
\* The type invariant.
TypeOK ==
    /\ instances \in [Instances -> InstanceState \cup {NoEntry}]
    /\ models \in [Pairs -> ModelState \cup {NoEntry}]
    /\ revoked \in [Instances -> {Never} \cup 0 .. Ttl]
    /\ owed \in [Instances -> 0 .. Ttl]
    /\ refused \in [Pairs -> {Never} \cup 0 .. Ttl]

\* What the code guarantees of a disabled instance: no cooldown, expiry, success
\* or check brings it back within one ttl of the last disable_instance.
DisabledSticks ==
    \A i \in Instances :
        revoked[i] \in 0 .. Ttl - 1 => InstanceStatus(instances[i]) = "DISABLED"

\* An instance-wide cooldown is served in full, up to one ttl: a success of some
\* model, a check or a cooldown of a model does not end it.
CooldownServed ==
    \A i \in Instances : owed[i] > 0 => InstanceStatus(instances[i]) # "ACTIVE"

\* A model marked unsupported stays refused for one ttl: neither the success of a
\* request that was already in flight nor a late 429 clears the mark.
UnsupportedSticks ==
    \A p \in Pairs : refused[p] \in 0 .. Ttl - 1 => ~ModelAvailable(models[p])

=============================================================================
