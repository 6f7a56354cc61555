------------------------------ MODULE LimitOps ------------------------------
(***************************************************************************)
(* One entry of each of the two tables of RateLimitStateManager, and what  *)
(* its methods do to it (src/core/services/resilience/rate_limit_state.py).*)
(*                                                                         *)
(* Both tables are cachetools.TTLCaches: an entry that was stored more     *)
(* than ttl seconds ago is not there any more.  Assigning to the table     *)
(* stores the entry anew; changing a field of the stored object does not.  *)
(*                                                                         *)
(* Time.  Deadlines are kept as ticks that are left: cooldown_left for     *)
(* cooldown_until, ttl_left for the cache's own deadline.                  *)
(***************************************************************************)
EXTENDS Integers

CONSTANTS
    NoEntry,    \* "no entry in the table"
    Ttl         \* the ttl of both caches, 3600 s in the code, in ticks

ASSUME TtlAssumption == Ttl \in Nat \ {0}

\* InstanceState: the reason and the time of the disabling are not kept.
InstanceState ==
    [status : {"ACTIVE", "RATE_LIMITED", "DISABLED"},
     cooldown_left : Nat,
     ttl_left : Nat]

\* ModelState: cooling is "cooldown_until is not None", and of retry_count only
\* "is it zero" is ever asked.
ModelState ==
    [cooling : BOOLEAN,
     cooldown_left : Nat,
     retried : BOOLEAN,
     unsupported : BOOLEAN,
     ttl_left : Nat]

ASSUME NoEntryAssumption == NoEntry \notin InstanceState \cup ModelState

---------------------------------------------------------------------------
(* _instance_state[instance_id]                                            *)

\* get_instance_status: its result, and the expired entry that it drops.
InstanceStatus(e) ==
    IF e = NoEntry \/ (e.status = "RATE_LIMITED" /\ e.cooldown_left = 0)
      THEN "ACTIVE"
      ELSE e.status

\* Mutant: the entry is dropped one tick early.
DropAlmostExpired(e) ==
    IF e # NoEntry /\ e.status = "RATE_LIMITED" /\ e.cooldown_left <= 1 THEN NoEntry ELSE e

DropExpiredInstance(e) ==
    IF e # NoEntry /\ e.status = "RATE_LIMITED" /\ e.cooldown_left = 0 THEN NoEntry ELSE e

\* Mutant: a cooldown replaces whatever is stored.
LimitInstanceBlindly(e, n) == [status |-> "RATE_LIMITED", cooldown_left |-> n, ttl_left |-> Ttl]

\* set_instance_cooldown leaves a disabled instance alone and otherwise replaces
\* the entry, a longer cooldown included.
LimitInstance(e, n) ==
    IF e # NoEntry /\ e.status = "DISABLED"
      THEN e
      ELSE [status |-> "RATE_LIMITED", cooldown_left |-> n, ttl_left |-> Ttl]

\* disable_instance
DisableInstance(e) == [status |-> "DISABLED", cooldown_left |-> 0, ttl_left |-> Ttl]

\* reactivate_instance
ReactivateInstance(e) ==
    IF e = NoEntry \/ e.status = "ACTIVE"
      THEN e
      ELSE [status |-> "ACTIVE", cooldown_left |-> 0, ttl_left |-> Ttl]

\* clear_cooldown(instance_id): changed in place.
ClearInstanceCooldown(e) ==
    IF e # NoEntry /\ e.status = "RATE_LIMITED"
      THEN [status |-> "ACTIVE", cooldown_left |-> 0, ttl_left |-> e.ttl_left]
      ELSE e

---------------------------------------------------------------------------
(* _model_state[(instance_id, model)]                                      *)

\* check_model_availability, once the instance is found to be available.
ModelAvailable(e) ==
    e # NoEntry => ~e.unsupported /\ (e.cooling => e.cooldown_left = 0)

DropExpiredModel(e) ==
    IF e # NoEntry /\ ~e.unsupported /\ e.cooling /\ e.cooldown_left = 0 THEN NoEntry ELSE e

\* Mutant: a cooldown replaces the mark as well.
LimitModelBlindly(e, n) ==
    [cooling |-> TRUE, cooldown_left |-> n, retried |-> TRUE, unsupported |-> FALSE,
     ttl_left |-> Ttl]

\* set_model_cooldown
LimitModel(e, n) ==
    IF e # NoEntry /\ e.unsupported
      THEN e
      ELSE [cooling |-> TRUE, cooldown_left |-> n, retried |-> TRUE, unsupported |-> FALSE,
            ttl_left |-> Ttl]

\* mark_model_unsupported
MarkUnsupported(e) ==
    [cooling |-> FALSE, cooldown_left |-> 0, retried |-> e # NoEntry /\ e.retried,
     unsupported |-> TRUE, ttl_left |-> Ttl]

\* clear_model_unsupported
ClearUnsupported(e) ==
    IF e = NoEntry \/ ~e.unsupported THEN e
    ELSE IF ~e.cooling /\ ~e.retried THEN NoEntry
    ELSE [cooling |-> e.cooling, cooldown_left |-> e.cooldown_left, retried |-> e.retried,
          unsupported |-> FALSE, ttl_left |-> Ttl]

\* clear_cooldown(instance_id, model): changed in place.
ClearModelCooldown(e) ==
    IF e = NoEntry THEN e
    ELSE [cooling |-> FALSE, cooldown_left |-> 0, retried |-> FALSE,
          unsupported |-> e.unsupported, ttl_left |-> e.ttl_left]

---------------------------------------------------------------------------
\* Mutant: time goes on counting past the deadline.
CoolUnguarded(e) == IF e = NoEntry THEN e ELSE [e EXCEPT !.cooldown_left = @ - 1]

\* One tick of the wall clock, for an entry of either table.
Cool(e) ==
    IF e # NoEntry /\ e.cooldown_left > 0 THEN [e EXCEPT !.cooldown_left = @ - 1] ELSE e

\* One tick of the cache's clock: the entry is gone when its time is over.
Age(e) ==
    IF e = NoEntry \/ e.ttl_left <= 1 THEN NoEntry ELSE [e EXCEPT !.ttl_left = @ - 1]

=============================================================================
