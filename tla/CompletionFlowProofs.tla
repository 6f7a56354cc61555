------------------------ MODULE CompletionFlowProofs ------------------------
(***************************************************************************)
(* What CompletionFlow promises, for any number of requests and instances, *)
(* any budgets and any mixture of errors and retry-afters.                 *)
(*                                                                         *)
(* AttemptsBounded is about the stack of nested calls only and is not      *)
(* inductive: that a failover finds a backend which is new, and a retry    *)
(* one which is not, follows from how the list of attempted backends, the  *)
(* elapsed time and the silent wait relate to the stack.  HopInv says how, *)
(* for a request that tries a backend (TryingOK) and for one that waits to *)
(* try it again (WaitingOK).  The lemmas on chains show that the moves of  *)
(* the recovery keep it; the rest follows the actions one by one.          *)
(*                                                                         *)
(* What is recorded against a backend depends on whose exception it is.    *)
(* For streams StreamInv and the table lemmas settle that.                 *)
(***************************************************************************)
EXTENDS CompletionFlow, FiniteSetTheorems, TLAPS

---------------------------------------------------------------------------
(* The inductive invariant                                                  *)

(* The tables of CircuitBreakerStateManager and RateLimitStateManager hold   *)
(* an entry or nothing for every instance, and only instances are disabled.  *)
TableType ==
    /\ breaker \in [Instances -> CircuitBreakerState \cup {NoState}]
    /\ instances \in [Instances -> InstanceState \cup {NoEntry}]
    /\ models \in [Instances -> ModelState \cup {NoEntry}]
    /\ disabled \subseteq Instances

(* The variables of a request have their types; its stack and its list of    *)
(* attempted backends are sequences of instances.                            *)
RequestType ==
    /\ pc \in [Requests -> Phases]
    /\ call \in [Requests -> [stream : BOOLEAN, allow_failover : BOOLEAN]]
    /\ stack \in [Requests -> Seq(Instances)]
    /\ attempted \in [Requests -> Seq(Instances)]
    /\ elapsed \in [Requests -> 0 .. TotalTimeoutBudget]
    /\ left \in [Requests -> Nat]
    /\ output \in [Requests -> BOOLEAN]
    /\ error \in [Requests -> Errors \cup {NoError}]

(* The histories have their types.                                           *)
HistoryType == probes \subseteq Requests \X Instances /\ denied \subseteq Instances

(* The phases in which an exception is being handled.                        *)
Handling == {"failed", "recover", "waiting", "escape"}

(* A request is idle exactly while it has no call open, it has an exception  *)
(* exactly while one is being handled, and its budget is fresh when it       *)
(* starts: what call_completion leaves behind is not seen by the next        *)
(* request.                                                                  *)
PhaseOK(r) ==
    /\ pc[r] = "idle" <=> stack[r] = <<>>
    /\ pc[r] \in Handling <=> error[r] # NoError
    /\ pc[r] = "idle" => attempted[r] = <<>> /\ elapsed[r] = 0

(* The calls of one backend are next to each other on the stack.             *)
Together(s) ==
    \A a, c \in DOMAIN s : a < c /\ s[a] = s[c] => \A b \in a .. c : s[b] = s[a]

(* What AttemptsBounded says of one stack. That its backends are finitely    *)
(* many is what makes the cardinality mean anything.                         *)
Bounded(s) ==
    /\ IsFiniteSet(Range(s))
    /\ Cardinality(Range(s)) <= MaxFailoverHops
    /\ Together(s)
    /\ Len(s) <= MaxFailoverHops + TotalTimeoutBudget

(* The phases in which the innermost call is an attempt that decide has not  *)
(* ruled on yet.                                                             *)
Trying == {"check", "invoke", "failed", "recover", "opened", "streaming"}

(* s is the stack, t the list of attempted backends and n the elapsed time   *)
(* of a request that is trying a backend. Every backend below is on the      *)
(* list, the one being tried is not, so the next hop counts it as new; and a *)
(* nested call that is not a hop has cost a tick.                            *)
TryingOK(s, t, n) ==
    /\ \A k \in DOMAIN s : s[k] = Last(s) \/ Contains(t, s[k])
    /\ ~Contains(t, Last(s))
    /\ Cardinality(Range(s)) <= Len(t) + 1
    /\ Len(t) + 1 <= MaxFailoverHops
    /\ Len(s) <= Len(t) + 1 + n

(* The same while it waits w more ticks to try the same backend again: that  *)
(* backend is the last on the list, from which execute_retry takes it off    *)
(* (failure_recovery_executor.py), and the wait fits into what is left of    *)
(* the budget.                                                               *)
WaitingOK(s, t, n, w) ==
    /\ t # <<>> /\ Last(t) = Last(s) /\ ~Contains(Front(t), Last(s))
    /\ \A k \in DOMAIN s : Contains(t, s[k])
    /\ Cardinality(Range(s)) <= Len(t)
    /\ Len(t) < MaxFailoverHops
    /\ Len(s) + 1 <= Len(t) + n + w
    /\ w = 0 \/ n + w <= TotalTimeoutBudget

(* The hops of one request. An exception that unwinds through the outer      *)
(* calls only shortens the stack.                                            *)
HopOK(r) ==
    /\ Bounded(stack[r])
    /\ pc[r] \in Trying => TryingOK(stack[r], attempted[r], elapsed[r])
    /\ pc[r] = "waiting" => WaitingOK(stack[r], attempted[r], elapsed[r], left[r])

(* The exception that ends a stream: what decide sees was marked by the      *)
(* inner handler, what the outer handler is about to record was not recorded *)
(* before, and a denial came from the backend it is charged to. The last two *)
(* fail for a call that is not a stream, whose exception passes through the  *)
(* handlers of every outer call.                                             *)
StreamOK(r) ==
    call[r].stream =>
        /\ pc[r] = "recover" => error[r].handled
        /\ pc[r] = "escape" /\ ~error[r].handled => ~error[r].recorded
        /\ pc[r] \in Handling /\ error[r].kind \in {"auth", "blocked"} =>
             Backend(r) \in denied

(* A request that runs was called with one of the values of stream that      *)
(* callers use.                                                              *)
CallOK(r) == pc[r] # "idle" => call[r].stream \in Streams

(* Each of these for every request.                                          *)
PhaseInv == \A r \in Requests : PhaseOK(r)

HopInv == \A r \in Requests : HopOK(r)

StreamInv == \A r \in Requests : StreamOK(r)

CallInv == \A r \in Requests : CallOK(r)

(* The inductive invariant.                                                  *)
IInv == TableType /\ RequestType /\ HistoryType /\ PhaseInv /\ HopInv /\ StreamInv /\ CallInv

---------------------------------------------------------------------------
(* Operators of the breaker and of the cooldown tables                      *)

(* What the tables hold for an instance.                                     *)
BreakerEntry == CircuitBreakerState \cup {NoState}

InstanceEntry == InstanceState \cup {NoEntry}

ModelEntry == ModelState \cup {NoEntry}

(* Every operation of CircuitBreakerStateManager leaves an entry, or         *)
(* nothing.                                                                  *)
LEMMA BreakerTypes ==
  ASSUME NEW e \in BreakerEntry
  PROVE  /\ AfterCheck(e) \in BreakerEntry
         /\ AfterAcquire(e) \in BreakerEntry
         /\ AfterRelease(e) \in BreakerEntry
         /\ AfterFailure(e) \in BreakerEntry
         /\ AfterSuccess(e) \in BreakerEntry
         /\ AfterBreakerTick(e) \in BreakerEntry
  <1> USE ConfigAssumption, NoStateAssumption
  <1>1. \A x \in CircuitBreakerState :
          /\ ToOpen(x) \in CircuitBreakerState
          /\ ToHalfOpen(x) \in CircuitBreakerState
          /\ DropProbe(x) \in CircuitBreakerState
    BY DEF CircuitBreakerState, ToOpen, ToHalfOpen, DropProbe
  <1>2. FreshState \in CircuitBreakerState
    BY DEF CircuitBreakerState, FreshState
  <1>3. ExpireOpen(e) \in BreakerEntry /\ AfterCheck(e) \in BreakerEntry
    BY <1>1 DEF BreakerEntry, ExpireOpen, OpenExpired, AfterCheck
  <1>4. AfterAcquire(e) \in BreakerEntry
    <2>1. CASE CheckReason(e) = "half_open_probe_allowed"
      <3> DEFINE x == ExpireOpen(e)
      <3>1. x # NoState
        BY <2>1 DEF CheckReason
      <3>2. x \in CircuitBreakerState
        BY <1>3, <3>1 DEF BreakerEntry
      <3> HIDE DEF x
      <3>3. [x EXCEPT !.half_open_inflight = @ + 1] \in CircuitBreakerState
        BY <3>2 DEF CircuitBreakerState
      <3> QED
        BY <2>1, <3>3 DEF AfterAcquire, BreakerEntry, x
    <2>2. CASE CheckReason(e) # "half_open_probe_allowed"
      BY <1>3, <2>2 DEF AfterAcquire
    <2> QED
      BY <2>1, <2>2
  <1>5. AfterRelease(e) \in BreakerEntry
    BY <1>1 DEF AfterRelease, BreakerEntry
  <1>6. AfterFailure(e) \in BreakerEntry
    <2> DEFINE z == IF e = NoState THEN FreshState ELSE e
               x == [z EXCEPT !.last_failure_reason = "error"]
               w == [x EXCEPT !.consecutive_failures = @ + 1]
               y == [x EXCEPT !.consecutive_failures = @ + 1, !.half_open_successes = 0]
    <2>1. z \in CircuitBreakerState
      BY <1>2 DEF BreakerEntry
    <2> HIDE DEF z
    <2>2. x \in CircuitBreakerState
      BY <2>1 DEF CircuitBreakerState
    <2> HIDE DEF x
    <2>3. w \in CircuitBreakerState /\ y = [w EXCEPT !.half_open_successes = 0]
      BY <2>2 DEF CircuitBreakerState
    <2> HIDE DEF w
    <2>4. y \in CircuitBreakerState
      BY <2>3 DEF CircuitBreakerState
    <2>5. CountFailure(x) \in CircuitBreakerState
      BY <1>1, <2>4 DEF CountFailure
    <2>6. AfterFailure(e) \in {e, ToOpen(DropProbe(x)), ToOpen(x), CountFailure(x)}
      BY DEF AfterFailure, x, z
    <2> QED
      BY <1>1, <2>2, <2>5, <2>6 DEF BreakerEntry
  <1>7. AfterSuccess(e) \in BreakerEntry
    <2>1. CASE e = NoState
      BY <2>1 DEF AfterSuccess, BreakerEntry
    <2>2. CASE e \in CircuitBreakerState
      <3> DEFINE d == DropProbe(e)
                 x == [d EXCEPT !.half_open_successes = @ + 1]
                 v == [e EXCEPT !.consecutive_failures = 0]
      <3>1. d \in CircuitBreakerState
        BY <1>1, <2>2
      <3> HIDE DEF d
      <3>2. x \in CircuitBreakerState
        BY <3>1 DEF CircuitBreakerState
      <3>3. CountSuccess(e) \in BreakerEntry
        BY <1>2, <3>2 DEF CountSuccess, EvictIfPristine, ToClosed, BreakerEntry, d
      <3>4. v \in CircuitBreakerState /\ Forgive(e) = [v EXCEPT !.last_failure_reason = "none"]
        BY <2>2 DEF CircuitBreakerState, Forgive
      <3> HIDE DEF v
      <3>5. Forgive(e) \in CircuitBreakerState
        BY <3>4 DEF CircuitBreakerState
      <3> QED
        BY <2>2, <3>3, <3>5 DEF AfterSuccess, EvictIfPristine, BreakerEntry
    <2> QED
      BY <2>1, <2>2 DEF BreakerEntry
  <1>8. AfterBreakerTick(e) \in BreakerEntry
    BY DEF AfterBreakerTick, BreakerEntry, CircuitBreakerState
  <1> QED
    BY <1>3, <1>4, <1>5, <1>6, <1>7, <1>8

(* So does every operation on an instance of RateLimitStateManager; an       *)
(* instance without an entry is active.                                      *)
LEMMA InstanceTypes ==
  ASSUME NEW e \in InstanceEntry, NEW n \in Nat
  PROVE  /\ DropExpiredInstance(e) \in InstanceEntry
         /\ LimitInstance(e, n) \in InstanceEntry
         /\ DisableInstance(e) \in InstanceEntry
         /\ Cool(e) \in InstanceEntry
         /\ InstanceStatus(e) \in {"ACTIVE", "RATE_LIMITED", "DISABLED"}
         /\ InstanceStatus(e) # "ACTIVE" => e \in InstanceState
  BY TtlAssumption, NoEntryAssumption
  DEF InstanceEntry, InstanceState, DropExpiredInstance, LimitInstance, DisableInstance, Cool,
      InstanceStatus

(* And every operation on a model of an instance.                            *)
LEMMA ModelTypes ==
  ASSUME NEW e \in ModelEntry, NEW n \in Nat
  PROVE  /\ DropExpiredModel(e) \in ModelEntry
         /\ LimitModel(e, n) \in ModelEntry
         /\ MarkUnsupported(e) \in ModelEntry
         /\ ClearModelCooldown(e) \in ModelEntry
         /\ Cool(e) \in ModelEntry
  <1> USE TtlAssumption, NoEntryAssumption
  <1>1. DropExpiredModel(e) \in ModelEntry
    BY DEF DropExpiredModel, ModelEntry
  <1>2. LimitModel(e, n) \in ModelEntry
    <2>1. TRUE \in BOOLEAN /\ FALSE \in BOOLEAN
      OBVIOUS
    <2>2. [cooling |-> TRUE, cooldown_left |-> n, retried |-> TRUE, unsupported |-> FALSE,
           ttl_left |-> Ttl] \in ModelState
      BY <2>1 DEF ModelState
    <2> QED
      BY <2>2 DEF LimitModel, ModelEntry
  <1>3. MarkUnsupported(e) \in ModelEntry
    <2>1. (e # NoEntry /\ e.retried) \in BOOLEAN
      OBVIOUS
    <2>2. MarkUnsupported(e) \in ModelState
      BY <2>1 DEF MarkUnsupported, ModelState
    <2> QED
      BY <2>2 DEF ModelEntry
  <1>4. ClearModelCooldown(e) \in ModelEntry
    BY DEF ClearModelCooldown, ModelEntry, ModelState
  <1>5. Cool(e) \in ModelEntry
    BY DEF Cool, ModelEntry, ModelState
  <1> QED
    BY <1>1, <1>2, <1>3, <1>4, <1>5

---------------------------------------------------------------------------
(* Sequences                                                                *)

(* What Append does to length, elements, last element and range.             *)
LEMMA AppendFacts ==
  ASSUME NEW S, NEW s \in Seq(S), NEW x \in S
  PROVE  /\ Append(s, x) \in Seq(S) /\ Len(s) \in Nat
         /\ Len(Append(s, x)) = Len(s) + 1
         /\ DOMAIN s = 1 .. Len(s) /\ DOMAIN Append(s, x) = 1 .. Len(s) + 1
         /\ \A k \in 1 .. Len(s) : Append(s, x)[k] = s[k]
         /\ Append(s, x)[Len(s) + 1] = x
         /\ Last(Append(s, x)) = x
         /\ Range(Append(s, x)) = Range(s) \cup {x}
         /\ \A y : Contains(Append(s, x), y) <=> Contains(s, y) \/ y = x
  <1>1. /\ Append(s, x) \in Seq(S) /\ Len(s) \in Nat
        /\ Len(Append(s, x)) = Len(s) + 1
        /\ DOMAIN s = 1 .. Len(s) /\ DOMAIN Append(s, x) = 1 .. Len(s) + 1
        /\ \A k \in 1 .. Len(s) : Append(s, x)[k] = s[k]
        /\ Append(s, x)[Len(s) + 1] = x
    OBVIOUS
  <1>2. \A k \in 1 .. Len(s) + 1 : k \in 1 .. Len(s) \/ k = Len(s) + 1
    BY <1>1
  <1>3. Len(s) + 1 \in 1 .. Len(s) + 1 /\ 1 .. Len(s) \subseteq 1 .. Len(s) + 1
    BY <1>1
  <1> DEFINE z == Append(s, x)
  <1> HIDE DEF z
  <1>4. Range(z) = Range(s) \cup {x}
    BY <1>1, <1>2, <1>3 DEF Range, z
  <1>5. \A y : Contains(z, y) <=> Contains(s, y) \/ y = x
    BY <1>1, <1>2, <1>3 DEF Contains, z
  <1> QED
    BY <1>1, <1>4, <1>5 DEF Last, z

(* What Front does to them.                                                  *)
LEMMA FrontFacts ==
  ASSUME NEW S, NEW s \in Seq(S), s # <<>>
  PROVE  /\ Front(s) \in Seq(S) /\ Len(s) \in Nat \ {0} /\ Last(s) \in S
         /\ Len(Front(s)) = Len(s) - 1
         /\ DOMAIN s = 1 .. Len(s) /\ DOMAIN Front(s) = 1 .. Len(s) - 1
         /\ \A k \in 1 .. Len(s) - 1 : Front(s)[k] = s[k]
         /\ Range(Front(s)) \subseteq Range(s)
         /\ \A y : Contains(s, y) <=> Contains(Front(s), y) \/ y = Last(s)
  <1>1. /\ Front(s) \in Seq(S) /\ Len(s) \in Nat \ {0} /\ Last(s) \in S
        /\ Len(Front(s)) = Len(s) - 1
        /\ DOMAIN s = 1 .. Len(s) /\ DOMAIN Front(s) = 1 .. Len(s) - 1
        /\ \A k \in 1 .. Len(s) - 1 : Front(s)[k] = s[k]
    <2>1. Len(s) \in Nat \ {0} /\ DOMAIN s = 1 .. Len(s) /\ Last(s) \in S
      BY DEF Last
    <2>2. \A k \in 1 .. Len(s) - 1 : s[k] \in S
      BY <2>1
    <2>3. /\ Front(s) \in Seq(S) /\ Len(Front(s)) = Len(s) - 1
          /\ \A k \in 1 .. Len(s) - 1 : Front(s)[k] = s[k]
      BY <2>1, <2>2 DEF Front
    <2> QED
      BY <2>1, <2>3
  <1>2. \A k \in 1 .. Len(s) : k \in 1 .. Len(s) - 1 \/ k = Len(s)
    BY <1>1
  <1>3. Len(s) \in 1 .. Len(s) /\ 1 .. Len(s) - 1 \subseteq 1 .. Len(s)
    BY <1>1
  <1> DEFINE z == Front(s)
  <1> HIDE DEF z
  <1>4. Range(z) \subseteq Range(s)
    BY <1>1, <1>3 DEF Range, z
  <1>5. \A y : Contains(s, y) <=> Contains(z, y) \/ y = Last(s)
    BY <1>1, <1>2, <1>3 DEF Contains, Last, z
  <1> QED
    BY <1>1, <1>4, <1>5 DEF z

(* Contains and Range agree: "in attempted_backends" is membership in a set. *)
LEMMA RangeContains ==
  ASSUME NEW S, NEW s \in Seq(S)
  PROVE  \A y : Contains(s, y) <=> y \in Range(s)
  BY DEF Contains, Range

---------------------------------------------------------------------------
(* The chain of nested calls                                                *)

(* A call of the last backend again, or of one that is new, keeps the calls  *)
(* of each backend together.                                                 *)
LEMMA TogetherAppend ==
  ASSUME NEW s \in Seq(Instances), s # <<>>, Together(s), NEW x \in Instances,
         x = Last(s) \/ x \notin Range(s)
  PROVE  Together(Append(s, x))
  <1> DEFINE z == Append(s, x)
  <1>1. /\ Len(s) \in Nat \ {0} /\ DOMAIN s = 1 .. Len(s) /\ DOMAIN z = 1 .. Len(s) + 1
        /\ \A k \in 1 .. Len(s) : z[k] = s[k]
        /\ z[Len(s) + 1] = x
    BY AppendFacts, FrontFacts
  <1> HIDE DEF z
  <1> SUFFICES ASSUME NEW a \in DOMAIN z, NEW c \in DOMAIN z, a < c, z[a] = z[c],
                      NEW b \in a .. c
               PROVE  z[b] = z[a]
    BY DEF Together, z
  <1>2. a \in 1 .. Len(s) /\ z[a] = s[a]
    BY <1>1
  <1>3. CASE c \in 1 .. Len(s)
    <2>1. z[c] = s[c]
      BY <1>1, <1>3
    <2>2. s[b] = s[a]
      BY <1>1, <1>2, <1>3, <2>1 DEF Together
    <2>3. b \in 1 .. Len(s)
      BY <1>1, <1>2, <1>3
    <2> QED
      BY <1>1, <1>2, <2>2, <2>3
  <1>4. CASE c = Len(s) + 1
    <2>1. s[a] = x /\ x \in Range(s)
      BY <1>1, <1>2, <1>4 DEF Range
    <2>2. s[a] = s[Len(s)]
      BY <2>1 DEF Last
    <2>3. CASE b = Len(s) + 1
      BY <1>1, <1>2, <2>1, <2>3
    <2>4. CASE b \in a .. Len(s)
      <3>1. s[b] = s[a]
        BY <1>1, <1>2, <2>2, <2>4 DEF Together
      <3> QED
        BY <1>1, <1>2, <2>4, <3>1
    <2> QED
      BY <1>1, <1>2, <1>4, <2>3, <2>4
  <1> QED
    BY <1>1, <1>3, <1>4

(* A request without a call is within its bounds.                            *)
LEMMA EmptyChain == Bounded(<<>>)
  <1> DEFINE t == <<>>
  <1>1. Len(t) = 0 /\ DOMAIN t = {}
    OBVIOUS
  <1> HIDE DEF t
  <1>2. Range(t) = {}
    BY <1>1 DEF Range
  <1>3. Bounded(t)
    BY <1>1, <1>2, FS_EmptySet, FlowAssumption DEF Bounded, Together
  <1> QED
    BY <1>3 DEF t

(* So is a first call.                                                       *)
LEMMA StartChain ==
  ASSUME NEW i \in Instances
  PROVE  Bounded(<<i>>) /\ TryingOK(<<i>>, <<>>, 0)
  <1> DEFINE s == <<i>>
             t == <<>>
  <1>1. /\ Len(s) = 1 /\ DOMAIN s = 1 .. 1 /\ Last(s) = i /\ Len(t) = 0
        /\ \A k \in 1 .. 1 : s[k] = i
    BY DEF Last
  <1>2. ~Contains(t, i)
    BY DEF Contains
  <1> HIDE DEF s, t
  <1>3. Range(s) = {i}
    BY <1>1 DEF Range
  <1>4. IsFiniteSet({i}) /\ Cardinality({i}) = 1
    BY FS_Singleton
  <1>5. TryingOK(s, t, 0)
    BY <1>1, <1>2, <1>3, <1>4, FlowAssumption DEF TryingOK
  <1>6. \A a, c \in DOMAIN s : ~(a < c)
    BY <1>1
  <1>7. Bounded(s)
    BY <1>1, <1>3, <1>4, <1>6, FlowAssumption DEF Bounded, Together
  <1> QED
    BY <1>5, <1>7 DEF s, t

(* An exception that leaves the innermost call leaves a stack within its     *)
(* bounds.                                                                   *)
LEMMA FrontChain ==
  ASSUME NEW s \in Seq(Instances), s # <<>>, Bounded(s)
  PROVE  Bounded(Front(s))
  <1>1. IsFiniteSet(Range(Front(s))) /\ Cardinality(Range(Front(s))) <= Cardinality(Range(s))
    BY FrontFacts, FS_Subset DEF Bounded
  <1>2. Cardinality(Range(Front(s))) \in Nat /\ Cardinality(Range(s)) \in Nat
    BY <1>1, FS_CardinalityType DEF Bounded
  <1> DEFINE z == Front(s)
  <1>3. /\ Len(s) \in Nat \ {0} /\ DOMAIN s = 1 .. Len(s) /\ DOMAIN z = 1 .. Len(s) - 1
        /\ Len(z) = Len(s) - 1 /\ \A k \in 1 .. Len(s) - 1 : z[k] = s[k]
    BY FrontFacts
  <1> HIDE DEF z
  <1>4. ASSUME NEW a \in DOMAIN z, NEW c \in DOMAIN z, a < c, z[a] = z[c], NEW b \in a .. c
        PROVE  z[b] = z[a]
    <2>1. /\ a \in DOMAIN s /\ c \in DOMAIN s /\ b \in 1 .. Len(s) - 1
          /\ z[a] = s[a] /\ z[c] = s[c]
      BY <1>3, <1>4
    <2>2. s[b] = s[a]
      BY <1>4, <2>1 DEF Bounded, Together
    <2> QED
      BY <1>3, <2>1, <2>2
  <1>5. Bounded(z)
    BY <1>1, <1>2, <1>3, <1>4, FlowAssumption DEF Bounded, Together, z
  <1> QED
    BY <1>5 DEF z

(* A failover: decide has counted the backend that failed, hops are left,    *)
(* and the alternative was not tried before (find_alternative_instances).    *)
LEMMA FailoverChain ==
  ASSUME NEW s \in Seq(Instances), NEW t \in Seq(Instances), s # <<>>,
         NEW n \in 0 .. TotalTimeoutBudget, Bounded(s), TryingOK(s, t, n),
         Len(Append(t, Last(s))) < MaxFailoverHops,
         NEW j \in Instances, ~Contains(Append(t, Last(s)), j)
  PROVE  Bounded(Append(s, j)) /\ TryingOK(Append(s, j), Append(t, Last(s)), n)
  <1> DEFINE u == Append(t, Last(s))
  <1>1. /\ Last(s) \in Instances /\ Len(t) \in Nat /\ Len(s) \in Nat \ {0}
        /\ Len(u) = Len(t) + 1 /\ \A y : Contains(u, y) <=> Contains(t, y) \/ y = Last(s)
    BY FrontFacts, AppendFacts
  <1>2. \A k \in DOMAIN s : Contains(u, s[k])
    BY <1>1 DEF TryingOK
  <1>3. j \notin Range(s)
    BY <1>2 DEF Range
  <1>4. /\ IsFiniteSet(Range(s)) /\ Cardinality(Range(s)) \in Nat
        /\ Range(Append(s, j)) = Range(s) \cup {j}
    BY AppendFacts, FS_CardinalityType DEF Bounded
  <1>5. /\ IsFiniteSet(Range(Append(s, j)))
        /\ Cardinality(Range(Append(s, j))) = Cardinality(Range(s)) + 1
    BY <1>3, <1>4, FS_AddElement
  <1>6. Together(Append(s, j))
    BY <1>3, TogetherAppend DEF Bounded
  <1>7. TryingOK(Append(s, j), u, n)
    <2>1. \A k \in DOMAIN Append(s, j) : Append(s, j)[k] = j \/ Contains(u, Append(s, j)[k])
      <3>1. TAKE k \in DOMAIN Append(s, j)
      <3>2. (k \in DOMAIN s /\ Append(s, j)[k] = s[k]) \/ Append(s, j)[k] = j
        BY AppendFacts
      <3> QED
        BY <1>2, <3>2
    <2>2. Last(Append(s, j)) = j /\ Len(Append(s, j)) = Len(s) + 1
      BY AppendFacts
    <2> HIDE DEF u
    <2> QED
      BY <1>1, <1>4, <1>5, <2>1, <2>2, FlowAssumption DEF TryingOK, u
  <1>8. Len(Append(s, j)) <= MaxFailoverHops + TotalTimeoutBudget
    BY <1>1, <1>7, AppendFacts, FlowAssumption DEF TryingOK
  <1>9. Cardinality(Range(Append(s, j))) <= MaxFailoverHops
    BY <1>1, <1>4, <1>5, <1>7, FlowAssumption DEF TryingOK
  <1> QED
    BY <1>5, <1>6, <1>7, <1>8, <1>9 DEF Bounded

(* A silent wait that the budget allows, with hops left.                     *)
LEMMA WaitChain ==
  ASSUME NEW s \in Seq(Instances), NEW t \in Seq(Instances), s # <<>>,
         NEW n \in 0 .. TotalTimeoutBudget, NEW w \in Nat \ {0}, n + w <= TotalTimeoutBudget,
         Bounded(s), TryingOK(s, t, n), Len(Append(t, Last(s))) < MaxFailoverHops
  PROVE  WaitingOK(s, Append(t, Last(s)), n, w)
  <1> DEFINE u == Append(t, Last(s))
  <1>1. /\ Last(s) \in Instances /\ Len(t) \in Nat /\ Len(s) \in Nat \ {0}
        /\ u \in Seq(Instances) /\ Last(u) = Last(s)
        /\ Len(u) = Len(t) + 1 /\ \A y : Contains(u, y) <=> Contains(t, y) \/ y = Last(s)
    BY FrontFacts, AppendFacts
  <1>2. u # <<>> /\ ~Contains(Front(u), Last(s))
    <2>1. \A k \in 1 .. Len(t) : u[k] = t[k]
      BY <1>1, AppendFacts
    <2>2. u # <<>> /\ Len(Front(u)) = Len(t) /\ \A k \in 1 .. Len(t) : Front(u)[k] = u[k]
      <3> HIDE DEF u
      <3>1. u # <<>>
        BY <1>1
      <3>2. Len(Front(u)) = Len(u) - 1 /\ \A k \in 1 .. Len(u) - 1 : Front(u)[k] = u[k]
        BY <1>1, <3>1, FrontFacts
      <3> QED
        BY <1>1, <3>1, <3>2
    <2> HIDE DEF u
    <2> QED
      BY <2>1, <2>2 DEF Contains, TryingOK
  <1>3. Cardinality(Range(s)) \in Nat
    BY FS_CardinalityType DEF Bounded
  <1> HIDE DEF u
  <1>4. WaitingOK(s, u, n, w)
    BY <1>1, <1>2, <1>3, FlowAssumption DEF WaitingOK, TryingOK, u
  <1> QED
    BY <1>4 DEF u

(* The retry after the wait, which takes the backend off the list again and  *)
(* so does not cost a hop: it has cost at least a tick.                      *)
LEMMA RetryChain ==
  ASSUME NEW s \in Seq(Instances), NEW t \in Seq(Instances), s # <<>>,
         NEW n \in 0 .. TotalTimeoutBudget, Bounded(s), WaitingOK(s, t, n, 0)
  PROVE  Bounded(Append(s, Last(s))) /\ TryingOK(Append(s, Last(s)), Front(t), n)
  <1> DEFINE x == Last(s)
  <1>1. x \in Instances /\ Len(s) \in Nat \ {0} /\ x \in Range(s)
    BY FrontFacts DEF Last, Range
  <1>2. /\ t # <<>> /\ Len(t) \in Nat \ {0} /\ Len(Front(t)) = Len(t) - 1
        /\ \A y : Contains(t, y) <=> Contains(Front(t), y) \/ y = x
    BY FrontFacts DEF WaitingOK
  <1>3. Range(Append(s, x)) = Range(s)
    <2>1. Range(Append(s, x)) = Range(s) \cup {x}
      BY <1>1, AppendFacts
    <2> QED
      BY <1>1, <2>1
  <1>4. IsFiniteSet(Range(s)) /\ Cardinality(Range(s)) \in Nat
    BY FS_CardinalityType DEF Bounded
  <1>5. Together(Append(s, x))
    BY <1>1, TogetherAppend DEF Bounded
  <1>6. TryingOK(Append(s, x), Front(t), n)
    <2>1. \A k \in DOMAIN Append(s, x) :
            Append(s, x)[k] = x \/ Contains(Front(t), Append(s, x)[k])
      <3>1. TAKE k \in DOMAIN Append(s, x)
      <3>2. (k \in DOMAIN s /\ Append(s, x)[k] = s[k]) \/ Append(s, x)[k] = x
        BY <1>1, AppendFacts
      <3>3. \A m \in DOMAIN s : Contains(t, s[m])
        BY DEF WaitingOK
      <3> QED
        BY <1>2, <3>2, <3>3
    <2>2. Last(Append(s, x)) = x /\ Len(Append(s, x)) = Len(s) + 1
      BY <1>1, AppendFacts
    <2> QED
      BY <1>1, <1>2, <1>3, <1>4, <2>1, <2>2, FlowAssumption DEF TryingOK, WaitingOK
  <1>7. Len(Append(s, x)) <= MaxFailoverHops + TotalTimeoutBudget
    BY <1>1, <1>2, <1>6, AppendFacts, FlowAssumption DEF TryingOK
  <1> QED
    BY <1>3, <1>4, <1>5, <1>6, <1>7 DEF Bounded

---------------------------------------------------------------------------
(* What is recorded                                                         *)

(* The tables of the two state managers, without the disabled backends.      *)
ManagerType ==
    /\ breaker \in [Instances -> BreakerEntry]
    /\ instances \in [Instances -> InstanceEntry]
    /\ models \in [Instances -> ModelEntry]

(* The instances that the rate limit table has disabled, and the errors for  *)
(* which AuthErrorHandler does that.                                         *)
Revoked == {i \in Instances : InstanceStatus(instances[i]) = "DISABLED"}

Denies(e) == e.kind \in {"auth", "blocked"}

(* The tables are those of the two managers and the set of disabled          *)
(* backends.                                                                 *)
LEMMA TableParts == TableType <=> ManagerType /\ disabled \subseteq Instances
  BY DEF TableType, ManagerType, BreakerEntry, InstanceEntry, ModelEntry

(* Only DisableInstance disables: a cooldown, an eviction or a tick never    *)
(* does.                                                                     *)
LEMMA RevokedFacts ==
  ASSUME NEW e \in InstanceEntry, NEW n \in Nat
  PROVE  /\ InstanceStatus(DropExpiredInstance(e)) = "DISABLED" =>
              InstanceStatus(e) = "DISABLED"
         /\ InstanceStatus(LimitInstance(e, n)) = "DISABLED" => InstanceStatus(e) = "DISABLED"
         /\ InstanceStatus(Cool(e)) = "DISABLED" => InstanceStatus(e) = "DISABLED"
  BY NoEntryAssumption
  DEF InstanceEntry, InstanceState, DropExpiredInstance, LimitInstance, Cool, InstanceStatus

(* New, recorded and marked errors are errors; recording and marking keep    *)
(* the kind, and every error has a cooldown.                                 *)
LEMMA ErrorTypes ==
  /\ \A kind \in AllErrorKinds, hint \in Nat \cup {NoHint} :
       /\ NewError(kind, hint) \in Errors
       /\ NewError(kind, hint).kind = kind
       /\ NewError(kind, hint).handled = FALSE /\ NewError(kind, hint).recorded = FALSE
  /\ \A e \in Errors :
       /\ e # NoError
       /\ Recorded(e) \in Errors /\ MarkHandled(e) \in Errors
       /\ Recorded(e).kind = e.kind /\ MarkHandled(e).kind = e.kind
       /\ MarkHandled(e).handled = TRUE
       /\ Cooldown(e) \in Nat
  <1>1. TRUE \in BOOLEAN /\ FALSE \in BOOLEAN
    OBVIOUS
  <1>2. ASSUME NEW kind \in AllErrorKinds, NEW hint \in Nat \cup {NoHint}
        PROVE  /\ NewError(kind, hint) \in Errors
               /\ NewError(kind, hint).kind = kind
               /\ NewError(kind, hint).handled = FALSE /\ NewError(kind, hint).recorded = FALSE
    BY <1>1 DEF NewError, Errors
  <1>3. ASSUME NEW e \in Errors
        PROVE  /\ e # NoError
               /\ Recorded(e) \in Errors /\ MarkHandled(e) \in Errors
               /\ Recorded(e).kind = e.kind /\ MarkHandled(e).kind = e.kind
               /\ MarkHandled(e).handled = TRUE
               /\ Cooldown(e) \in Nat
    <2>1. e # NoError
      BY NoErrorAssumption
    <2>2. Recorded(e) \in Errors /\ Recorded(e).kind = e.kind
      BY <1>1 DEF Recorded, Errors
    <2>3. /\ MarkHandled(e) \in Errors /\ MarkHandled(e).kind = e.kind
          /\ MarkHandled(e).handled = TRUE
      <3> DEFINE x == Recorded(e)
      <3>1. x \in Errors /\ x.kind = e.kind
        BY <2>2
      <3> HIDE DEF x
      <3>2. /\ [x EXCEPT !.handled = TRUE] \in Errors
            /\ [x EXCEPT !.handled = TRUE].kind = x.kind
            /\ [x EXCEPT !.handled = TRUE].handled = TRUE
        BY <1>1, <3>1 DEF Errors
      <3> QED
        BY <3>1, <3>2 DEF MarkHandled, x
    <2>4. Cooldown(e) \in Nat
      BY FlowAssumption DEF Cooldown, Errors
    <2> QED
      BY <2>1, <2>2, <2>3, <2>4
  <1> QED
    BY <1>2, <1>3

(* The error of a request that is turned away is a new one.                  *)
LEMMA RejectionType ==
  ASSUME TableType, NEW i \in Instances, i \in disabled \/ ~Available(i)
  PROVE  Rejection(i) \in Errors /\ Rejection(i).handled = FALSE
  <1>1. /\ instances[i] \in InstanceEntry /\ models[i] \in ModelEntry
        /\ {"transient", "limit_model", "unsupported"} \subseteq AllErrorKinds
    BY DEF TableType, InstanceEntry, ModelEntry, AllErrorKinds
  <1>2. NewError("transient", NoHint) \in Errors /\ NewError("unsupported", NoHint) \in Errors
    BY <1>1, ErrorTypes
  <1>3. CASE \/ i \in disabled \/ ~Proceeds(breaker[i])
             \/ InstanceStatus(instances[i]) = "DISABLED"
    BY <1>1, <1>2, <1>3, ErrorTypes DEF Rejection
  <1>4. CASE ~(\/ i \in disabled \/ ~Proceeds(breaker[i])
               \/ InstanceStatus(instances[i]) = "DISABLED")
    <2>1. CASE InstanceStatus(instances[i]) = "RATE_LIMITED"
      <3>1. instances[i].cooldown_left \in Nat
        BY <1>1, <2>1, InstanceTypes DEF InstanceState
      <3> QED
        BY <1>1, <1>4, <2>1, <3>1, ErrorTypes DEF Rejection
    <2>2. CASE InstanceStatus(instances[i]) = "ACTIVE"
      <3>1. models[i] \in ModelState
        BY <1>1, <1>4, <2>2 DEF Available, ModelAvailable, ModelEntry
      <3>2. models[i].cooldown_left \in Nat
        BY <3>1 DEF ModelState
      <3> QED
        BY <1>1, <1>2, <1>4, <2>2, <3>2, ErrorTypes DEF Rejection
    <2> QED
      BY <1>1, <1>4, <2>1, <2>2, InstanceTypes
  <1> QED
    BY <1>3, <1>4

(* record_failure changes the entries of its instance; it disables that      *)
(* instance only for a denial: a 401, or the request to validate the account.*)
LEMMA FailureEffect ==
  ASSUME ManagerType, NEW i \in Instances, NEW e \in Errors, RecordFailure(i, e)
  PROVE  /\ ManagerType'
         /\ Revoked' \subseteq Revoked \cup {j \in {i} : Denies(e)}
  <1> DEFINE n == Cooldown(e)
  <1>1. n \in Nat
    BY ErrorTypes
  <1> HIDE DEF n
  <1>2. breaker' \in [Instances -> BreakerEntry]
    BY BreakerTypes DEF ManagerType, RecordFailure
  <1>3. /\ instances' \in [Instances -> InstanceEntry]
        /\ \A j \in Instances \ {i} : instances'[j] = instances[j]
        /\ instances'[i] \in {LimitInstance(instances[i], n), instances[i]} \/ Denies(e)
    BY <1>1, InstanceTypes DEF ManagerType, RecordFailure, Denies, n
  <1>4. models' \in [Instances -> ModelEntry]
    BY <1>1, ModelTypes DEF ManagerType, RecordFailure, n
  <1>5. Revoked' \subseteq Revoked \cup {j \in {i} : Denies(e)}
    <2>1. instances[i] \in InstanceEntry
      BY DEF ManagerType
    <2> QED
      BY <1>1, <1>3, <2>1, RevokedFacts DEF Revoked
  <1> QED
    BY <1>2, <1>3, <1>4, <1>5 DEF ManagerType

(* record_success disables nothing.                                          *)
LEMMA SuccessEffect ==
  ASSUME ManagerType, NEW i \in Instances, RecordSuccess(i)
  PROVE  ManagerType' /\ Revoked' = Revoked /\ disabled' = disabled
  <1>1. breaker' \in [Instances -> BreakerEntry]
    BY BreakerTypes DEF ManagerType, RecordSuccess
  <1>2. models' \in [Instances -> ModelEntry]
    BY ModelTypes DEF ManagerType, RecordSuccess
  <1> QED
    BY <1>1, <1>2 DEF ManagerType, RecordSuccess, Revoked

(* Nor does a look at the availability of some instances.                    *)
LEMMA LookEffect ==
  ASSUME ManagerType, NEW S, LookedAt(S)
  PROVE  ManagerType' /\ Revoked' \subseteq Revoked
  <1>1. breaker' \in [Instances -> BreakerEntry]
    BY BreakerTypes DEF ManagerType, LookedAt
  <1>2. instances' \in [Instances -> InstanceEntry] /\ Revoked' \subseteq Revoked
    BY InstanceTypes, RevokedFacts DEF ManagerType, LookedAt, Revoked
  <1>3. models' \in [Instances -> ModelEntry]
    BY ModelTypes DEF ManagerType, LookedAt
  <1> QED
    BY <1>1, <1>2, <1>3 DEF ManagerType

(* Nor time.                                                                 *)
LEMMA TickEffect ==
  ASSUME ManagerType, Tick
  PROVE  ManagerType' /\ Revoked' \subseteq Revoked
  <1>1. breaker' \in [Instances -> BreakerEntry]
    BY BreakerTypes DEF ManagerType, Tick
  <1>2. instances' \in [Instances -> InstanceEntry] /\ Revoked' \subseteq Revoked
    BY InstanceTypes, RevokedFacts DEF ManagerType, Tick, Revoked
  <1>3. models' \in [Instances -> ModelEntry]
    BY ModelTypes DEF ManagerType, Tick
  <1> QED
    BY <1>1, <1>2, <1>3 DEF ManagerType

(* Nor the check that admits a request and takes a probe slot.               *)
LEMMA AdmitEffect ==
  ASSUME ManagerType, NEW r \in Requests, Backend(r) \in Instances, Admit(r)
  PROVE  ManagerType' /\ Revoked' \subseteq Revoked
  <1> DEFINE i == Backend(r)
  <1>1. /\ breaker[i] \in BreakerEntry /\ instances[i] \in InstanceEntry
        /\ models[i] \in ModelEntry
    BY DEF ManagerType
  <1>2. AfterAcquire(AfterCheck(breaker[i])) \in BreakerEntry
    BY <1>1, BreakerTypes
  <1>3. DropExpiredInstance(instances[i]) \in InstanceEntry
        /\ (InstanceStatus(DropExpiredInstance(instances[i])) = "DISABLED"
              => InstanceStatus(instances[i]) = "DISABLED")
    BY <1>1, InstanceTypes, RevokedFacts
  <1>4. DropExpiredModel(models[i]) \in ModelEntry
    BY <1>1, ModelTypes
  <1>5. breaker' \in [Instances -> BreakerEntry] /\ models' \in [Instances -> ModelEntry]
    BY <1>2, <1>4 DEF ManagerType, Admit
  <1>6. instances' \in [Instances -> InstanceEntry] /\ Revoked' \subseteq Revoked
    BY <1>3 DEF ManagerType, Admit, Revoked
  <1> QED
    BY <1>5, <1>6 DEF ManagerType

---------------------------------------------------------------------------
(* The end of a call                                                        *)

(* Request q is where it was (output apart, of which the invariant says only *)
(* its type); all requests but r are; r is over.                             *)
Same(q) ==
    /\ pc'[q] = pc[q] /\ call'[q] = call[q] /\ stack'[q] = stack[q]
    /\ attempted'[q] = attempted[q] /\ elapsed'[q] = elapsed[q] /\ left'[q] = left[q]
    /\ error'[q] = error[q]

Others(r) == \A q \in Requests \ {r} : Same(q)

Ended(r) ==
    /\ pc'[r] = "idle" /\ stack'[r] = <<>> /\ attempted'[r] = <<>> /\ error'[r] = NoError
    /\ elapsed'[r] = 0 /\ ~call'[r].stream

(* What the end of a request leaves behind.                                  *)
LEMMA FinishEffect ==
  ASSUME RequestType, NEW r \in Requests, Finish(r)
  PROVE  RequestType' /\ Others(r) /\ Ended(r)
  <1>1. /\ FALSE \in BOOLEAN /\ "idle" \in Phases /\ 0 \in 0 .. TotalTimeoutBudget
        /\ <<>> \in Seq(Instances) /\ 0 \in Nat
    BY FlowAssumption DEF Phases
  <1>2. /\ pc' \in [Requests -> Phases] /\ pc'[r] = "idle"
        /\ \A q \in Requests \ {r} : pc'[q] = pc[q]
    BY <1>1 DEF RequestType, Finish
  <1>3. /\ call' \in [Requests -> [stream : BOOLEAN, allow_failover : BOOLEAN]]
        /\ ~call'[r].stream
        /\ \A q \in Requests \ {r} : call'[q] = call[q]
    <2>1. [stream |-> FALSE, allow_failover |-> FALSE]
            \in [stream : BOOLEAN, allow_failover : BOOLEAN]
      BY <1>1
    <2> QED
      BY <2>1 DEF RequestType, Finish
  <1>4. /\ stack' \in [Requests -> Seq(Instances)] /\ stack'[r] = <<>>
        /\ attempted' \in [Requests -> Seq(Instances)] /\ attempted'[r] = <<>>
        /\ \A q \in Requests \ {r} : stack'[q] = stack[q] /\ attempted'[q] = attempted[q]
    BY <1>1 DEF RequestType, Finish
  <1>5. /\ elapsed' \in [Requests -> 0 .. TotalTimeoutBudget] /\ elapsed'[r] = 0
        /\ left' \in [Requests -> Nat]
        /\ \A q \in Requests \ {r} : elapsed'[q] = elapsed[q] /\ left'[q] = left[q]
    BY <1>1 DEF RequestType, Finish
  <1>6. output' \in [Requests -> BOOLEAN]
    BY <1>1 DEF RequestType, Finish
  <1>7. /\ error' \in [Requests -> Errors \cup {NoError}] /\ error'[r] = NoError
        /\ \A q \in Requests \ {r} : error'[q] = error[q]
    BY DEF RequestType, Finish
  <1> QED
    BY <1>2, <1>3, <1>4, <1>5, <1>6, <1>7 DEF RequestType, Others, Same, Ended

(* A request that is not idle has a backend, and an exception while it       *)
(* handles one.                                                              *)
LEMMA OpenCall ==
  ASSUME RequestType, NEW r \in Requests, PhaseOK(r), pc[r] # "idle"
  PROVE  /\ stack[r] \in Seq(Instances) /\ stack[r] # <<>> /\ Backend(r) \in Instances
         /\ pc[r] \in Handling => error[r] \in Errors
  BY FrontFacts DEF RequestType, PhaseOK, Backend

(* An exception that leaves the innermost call ends the request, or, unless  *)
(* it is a stream, is the next outer call's to handle.                       *)
LEMMA RaiseEffect ==
  ASSUME RequestType, NEW r \in Requests, PhaseOK(r), pc[r] # "idle",
         NEW e \in Errors, Raise(r, e)
  PROVE  /\ RequestType' /\ Others(r)
         /\ \/ Ended(r)
            \/ /\ ~call[r].stream /\ call'[r] = call[r] /\ pc'[r] = "escape"
               /\ stack'[r] = Front(stack[r]) /\ stack'[r] # <<>> /\ error'[r] = e
  <1>1. CASE Unwinds(r)
    <2>1. stack[r] \in Seq(Instances) /\ stack[r] # <<>> /\ Len(stack[r]) > 1
      BY <1>1, OpenCall DEF Unwinds
    <2>2. Front(stack[r]) \in Seq(Instances) /\ Front(stack[r]) # <<>>
      BY <2>1, FrontFacts
    <2>3. /\ pc' = [pc EXCEPT ![r] = "escape"]
          /\ stack' = [stack EXCEPT ![r] = Front(stack[r])]
          /\ error' = [error EXCEPT ![r] = e]
          /\ UNCHANGED <<call, attempted, elapsed, left, output>>
      BY <1>1 DEF Raise
    <2>4. "escape" \in Phases
      BY DEF Phases
    <2>5. RequestType' /\ Others(r)
      BY <2>2, <2>3, <2>4 DEF RequestType, Others, Same
    <2> QED
      BY <1>1, <2>2, <2>3, <2>5 DEF RequestType, Unwinds
  <1>2. CASE ~Unwinds(r)
    BY <1>2, FinishEffect DEF Raise
  <1> QED
    BY <1>1, <1>2

(* A request that is over is within its bounds.                              *)
LEMMA EndedOK ==
  ASSUME NEW r \in Requests, Ended(r)
  PROVE  PhaseOK(r)' /\ HopOK(r)'
  BY EmptyChain DEF Ended, PhaseOK, HopOK, Handling, Trying

(* So is one whose innermost call has raised an exception.                   *)
LEMMA RaiseOK ==
  ASSUME RequestType, NEW r \in Requests, PhaseOK(r), HopOK(r), pc[r] # "idle",
         NEW e \in Errors, Raise(r, e)
  PROVE  RequestType' /\ Others(r) /\ PhaseOK(r)' /\ HopOK(r)'
  <1>1. RequestType' /\ Others(r)
    BY RaiseEffect
  <1>2. CASE Ended(r)
    BY <1>1, <1>2, EndedOK DEF HopOK
  <1>3. CASE /\ pc'[r] = "escape" /\ stack'[r] = Front(stack[r]) /\ stack'[r] # <<>>
             /\ error'[r] = e
    <2>1. Bounded(Front(stack[r])) /\ e # NoError
      BY OpenCall, FrontChain, ErrorTypes DEF HopOK
    <2> QED
      BY <1>1, <1>3, <2>1 DEF PhaseOK, HopOK, Handling, Trying
  <1> QED
    BY <1>1, <1>2, <1>3, RaiseEffect

---------------------------------------------------------------------------
(* Every step of a request keeps its phase and its hops                     *)

(* What a step of r has to show: the types, nobody else moved, r is in       *)
(* order.                                                                    *)
StepOK(r) == RequestType' /\ Others(r) /\ PhaseOK(r)' /\ HopOK(r)'

(* The operations of one request.                                            *)
RequestNext(r) ==
    \/ \E i \in Instances, s \in Streams, a \in BOOLEAN : Start(r, i, s, a)
    \/ Proceed(r)
    \/ Emit(r)
    \/ Cancel(r)

(* Errors of providers are errors.                                           *)
LEMMA NewErrors ==
  ASSUME NEW kind \in ErrorKinds, NEW hint \in HintsOf(kind)
  PROVE  /\ NewError(kind, hint) \in Errors /\ NewError(kind, hint) # NoError
         /\ NewError(kind, hint).kind = kind
         /\ NewError(kind, hint).handled = FALSE /\ NewError(kind, hint).recorded = FALSE
  <1>1. kind \in AllErrorKinds /\ hint \in Nat \cup {NoHint}
    BY FlowAssumption DEF HintsOf
  <1> QED
    BY <1>1, ErrorTypes

(* A step that ends the request.                                             *)
LEMMA FinishOK ==
  ASSUME RequestType, NEW r \in Requests, Finish(r)
  PROVE  StepOK(r)
  BY FinishEffect, EndedOK DEF StepOK

(* The first call of a request.                                              *)
LEMMA StartOK ==
  ASSUME RequestType, NEW r \in Requests, PhaseOK(r), HopOK(r), NEW i \in Instances,
         NEW s \in Streams, NEW a \in BOOLEAN, Start(r, i, s, a)
  PROVE  StepOK(r)
  <1>1. "check" \in Phases /\ <<i>> \in Seq(Instances) /\ <<i>> # <<>> /\ s \in BOOLEAN
    BY FlowAssumption DEF Phases
  <1>2. [stream |-> s, allow_failover |-> a] \in [stream : BOOLEAN, allow_failover : BOOLEAN]
    BY <1>1
  <1>3. /\ pc' = [pc EXCEPT ![r] = "check"] /\ stack' = [stack EXCEPT ![r] = <<i>>]
        /\ call' = [call EXCEPT ![r] = [stream |-> s, allow_failover |-> a]]
        /\ UNCHANGED <<attempted, elapsed, left, output, error>> /\ pc[r] = "idle"
        /\ attempted[r] = <<>> /\ elapsed[r] = 0
    BY DEF Start, PhaseOK
  <1>4. RequestType' /\ Others(r) /\ pc'[r] = "check" /\ stack'[r] = <<i>>
    BY <1>1, <1>2, <1>3 DEF RequestType, Others, Same
  <1>5. PhaseOK(r)'
    BY <1>1, <1>3, <1>4 DEF PhaseOK, Handling
  <1>6. Bounded(stack'[r]) /\ TryingOK(stack'[r], attempted'[r], elapsed'[r])
    BY <1>3, <1>4, StartChain
  <1> QED
    BY <1>4, <1>5, <1>6 DEF StepOK, HopOK, Trying

(* A step that goes on with the same call.                                   *)
LEMMA AdvanceOK ==
  ASSUME RequestType, NEW r \in Requests, PhaseOK(r), HopOK(r), pc[r] \in Trying,
         NEW where \in {"invoke", "failed", "recover", "escape", "opened", "streaming"},
         pc' = [pc EXCEPT ![r] = where],
         UNCHANGED <<call, stack, attempted, elapsed, left, output>>,
         NEW e \in Errors \cup {NoError}, error' = [error EXCEPT ![r] = e],
         e # NoError <=> where \in Handling
  PROVE  StepOK(r)
  <1>1. where \in Phases /\ where # "idle" /\ where # "waiting"
    BY DEF Phases
  <1>2. RequestType' /\ Others(r) /\ pc'[r] = where /\ error'[r] = e
    BY <1>1 DEF RequestType, Others, Same
  <1>3. stack[r] # <<>>
    BY DEF PhaseOK, Trying
  <1>4. PhaseOK(r)'
    BY <1>1, <1>2, <1>3 DEF PhaseOK
  <1>5. HopOK(r)'
    BY <1>1, <1>2 DEF HopOK
  <1> QED
    BY <1>2, <1>4, <1>5 DEF StepOK

(* apply_failure_recovery, one case for each action of decide.               *)
LEMMA RecoverOK ==
  ASSUME RequestType, NEW r \in Requests, PhaseOK(r), HopOK(r), Recover(r)
  PROVE  StepOK(r)
  <1> DEFINE i == Backend(r)
             t == attempted[r]
             tried == Append(t, i)
             e == error[r]
             n == elapsed[r]
  <1>1. /\ pc[r] = "recover" /\ stack[r] \in Seq(Instances) /\ stack[r] # <<>>
        /\ i \in Instances /\ i = Last(stack[r]) /\ e \in Errors /\ t \in Seq(Instances)
        /\ n \in 0 .. TotalTimeoutBudget
    <2>1. pc[r] = "recover"
      BY DEF Recover
    <2> QED
      BY <2>1, OpenCall DEF Backend, Handling, RequestType
  <1>2. Bounded(stack[r]) /\ TryingOK(stack[r], t, n) /\ ~Contains(t, i)
    BY <1>1 DEF HopOK, Trying, TryingOK
  <1>3. /\ attempted' = [attempted EXCEPT ![r] = tried]
        /\ tried \in Seq(Instances) /\ UNCHANGED <<call, elapsed, output>>
    BY <1>1, <1>2, AppendFacts DEF Recover
  <1>4. /\ attempted' \in [Requests -> Seq(Instances)] /\ attempted'[r] = tried
        /\ \A q \in Requests \ {r} : attempted'[q] = attempted[q]
    BY <1>3 DEF RequestType
  <1>5. {"waiting", "check", "escape"} \subseteq Phases
    BY DEF Phases
  <1>6. CASE /\ ~BudgetSpent(r, tried) /\ ShouldRetry(r, e)
             /\ pc' = [pc EXCEPT ![r] = "waiting"]
             /\ left' = [left EXCEPT ![r] = WaitFor(e)]
             /\ UNCHANGED <<stack, error>>
    <2>1. /\ WaitFor(e) \in Nat \ {0} /\ n + WaitFor(e) <= TotalTimeoutBudget
          /\ Len(tried) < MaxFailoverHops
      <3>1. e.hint \in Nat
        BY <1>1, <1>6 DEF ShouldRetry, Errors
      <3>2. Len(tried) \in Nat
        BY <1>3
      <3>3. ~(Len(tried) >= MaxFailoverHops) /\ WaitFor(e) <= TotalTimeoutBudget - n
        BY <1>6 DEF ShouldRetry, BudgetSpent
      <3> HIDE DEF tried, e, n
      <3>4. WaitFor(e) \in Nat \ {0}
        BY <3>1 DEF WaitFor
      <3> QED
        BY <1>1, <3>2, <3>3, <3>4, FlowAssumption
    <2>2. RequestType' /\ Others(r)
      BY <1>3, <1>4, <1>5, <1>6, <2>1 DEF RequestType, Others, Same
    <2>3. pc'[r] = "waiting" /\ left'[r] = WaitFor(e)
      BY <1>6 DEF RequestType
    <2>4. PhaseOK(r)'
      BY <1>1, <1>6, <2>3, ErrorTypes DEF PhaseOK, Handling
    <2>5. WaitingOK(stack[r], tried, n, WaitFor(e))
      BY <1>1, <1>2, <2>1, WaitChain
    <2>6. HopOK(r)'
      BY <1>2, <1>3, <1>4, <1>6, <2>3, <2>5 DEF HopOK, Trying
    <2> QED
      BY <2>2, <2>4, <2>6 DEF StepOK
  <1>7. CASE /\ ~BudgetSpent(r, tried)
             /\ \E j \in Alternatives(r, tried) : stack' = [stack EXCEPT ![r] = Append(@, j)]
             /\ pc' = [pc EXCEPT ![r] = "check"]
             /\ error' = [error EXCEPT ![r] = NoError]
             /\ UNCHANGED left
    <2>1. PICK j \in Alternatives(r, tried) : stack' = [stack EXCEPT ![r] = Append(@, j)]
      BY <1>7
    <2>2. j \in Instances /\ ~Contains(tried, j)
      BY <1>3, RangeContains DEF Alternatives, Candidates
    <2>3. Append(stack[r], j) \in Seq(Instances) /\ Append(stack[r], j) # <<>>
      BY <1>1, <2>2
    <2>4. Len(tried) < MaxFailoverHops
      <3>1. Len(tried) \in Nat
        BY <1>3
      <3> QED
        BY <1>7, <3>1, FlowAssumption DEF BudgetSpent
    <2>5. RequestType' /\ Others(r)
      BY <1>3, <1>4, <1>5, <1>7, <2>1, <2>3 DEF RequestType, Others, Same
    <2>6. pc'[r] = "check" /\ stack'[r] = Append(stack[r], j) /\ error'[r] = NoError
      BY <1>7, <2>1 DEF RequestType
    <2>7. PhaseOK(r)'
      BY <2>3, <2>6 DEF PhaseOK, Handling
    <2>8. Bounded(Append(stack[r], j)) /\ TryingOK(Append(stack[r], j), tried, n)
      BY <1>1, <1>2, <2>2, <2>4, FailoverChain
    <2>9. HopOK(r)'
      BY <1>3, <1>4, <2>6, <2>8 DEF HopOK, Trying
    <2> QED
      BY <2>5, <2>7, <2>9 DEF StepOK
  <1>8. CASE /\ pc' = [pc EXCEPT ![r] = "escape"]
             /\ error' = [error EXCEPT ![r] = Surfaced(r, tried)]
             /\ UNCHANGED <<stack, left>>
    <2>1. Surfaced(r, tried) \in Errors
      <3>1. "transient" \in AllErrorKinds
        BY DEF AllErrorKinds
      <3> QED
        BY <1>1, <3>1, ErrorTypes DEF Surfaced
    <2>2. RequestType' /\ Others(r)
      BY <1>3, <1>4, <1>5, <1>8, <2>1 DEF RequestType, Others, Same
    <2>3. pc'[r] = "escape" /\ error'[r] = Surfaced(r, tried)
      BY <1>8 DEF RequestType
    <2>4. PhaseOK(r)'
      BY <1>1, <1>8, <2>1, <2>3, ErrorTypes DEF PhaseOK, Handling
    <2>5. HopOK(r)'
      BY <1>2, <1>8, <2>3 DEF HopOK, Trying
    <2> QED
      BY <2>2, <2>4, <2>5 DEF StepOK
  <1> QED
    BY <1>2, <1>6, <1>7, <1>8 DEF Recover

(* execute_retry.                                                            *)
LEMMA RetryOK ==
  ASSUME RequestType, NEW r \in Requests, PhaseOK(r), HopOK(r), Retry(r)
  PROVE  StepOK(r)
  <1> DEFINE i == Backend(r)
             s == stack[r]
             t == attempted[r]
             n == elapsed[r]
  <1>1. /\ pc[r] = "waiting" /\ left[r] = 0
        /\ s \in Seq(Instances) /\ s # <<>> /\ i \in Instances /\ i = Last(s)
        /\ t \in Seq(Instances) /\ n \in 0 .. TotalTimeoutBudget
    <2>1. pc[r] = "waiting" /\ left[r] = 0
      BY DEF Retry
    <2> QED
      BY <2>1, OpenCall DEF Backend, RequestType
  <1>2. Bounded(s) /\ WaitingOK(s, t, n, 0)
    BY <1>1 DEF HopOK
  <1>3. /\ attempted' = [attempted EXCEPT ![r] = Front(t)]
        /\ stack' = [stack EXCEPT ![r] = Append(s, i)]
        /\ pc' = [pc EXCEPT ![r] = "check"] /\ error' = [error EXCEPT ![r] = NoError]
        /\ UNCHANGED <<call, elapsed, left, output>>
    BY <1>1, <1>2 DEF Retry, WaitingOK
  <1>4. /\ Front(t) \in Seq(Instances) /\ Append(s, i) \in Seq(Instances)
        /\ Append(s, i) # <<>> /\ "check" \in Phases
    BY <1>1, <1>2, FrontFacts DEF WaitingOK, Phases
  <1>5. RequestType' /\ Others(r)
    BY <1>3, <1>4 DEF RequestType, Others, Same
  <1>6. /\ pc'[r] = "check" /\ error'[r] = NoError /\ stack'[r] = Append(s, i)
        /\ attempted'[r] = Front(t) /\ elapsed'[r] = n
    BY <1>3 DEF RequestType
  <1>7. PhaseOK(r)'
    BY <1>4, <1>6 DEF PhaseOK, Handling
  <1>8. Bounded(Append(s, i)) /\ TryingOK(Append(s, i), Front(t), n)
    BY <1>1, <1>2, RetryChain
  <1> QED
    BY <1>5, <1>6, <1>7, <1>8 DEF StepOK, HopOK, Trying

(* All operations of a request.                                              *)
LEMMA RequestStep ==
  ASSUME TableType, RequestType, NEW r \in Requests, PhaseOK(r), HopOK(r), RequestNext(r)
  PROVE  StepOK(r)
  <1>1. ASSUME NEW i \in Instances, NEW s \in Streams, NEW a \in BOOLEAN, Start(r, i, s, a)
        PROVE  StepOK(r)
    BY <1>1, StartOK
  <1>2. CASE Admit(r)
    <2>1. pc[r] = "check" /\ error[r] = NoError
      BY <1>2 DEF Admit, PhaseOK, Handling
    <2>2. error' = [error EXCEPT ![r] = NoError]
      BY <1>2, <2>1 DEF Admit, RequestType
    <2> QED
      BY <1>2, <2>1, <2>2, AdvanceOK DEF Admit, Trying, Handling
  <1>3. CASE Reject(r)
    <2>1. pc[r] = "check" /\ Raise(r, Rejection(Backend(r)))
          /\ (Backend(r) \in disabled \/ ~Available(Backend(r)))
      BY <1>3 DEF Reject
    <2>2. Rejection(Backend(r)) \in Errors
      BY <2>1, OpenCall, RejectionType
    <2> QED
      BY <2>1, <2>2, RaiseOK DEF StepOK
  <1>4. CASE Respond(r)
    BY <1>4, FinishOK DEF Respond
  <1>5. CASE OpenStream(r)
    <2>1. pc[r] = "invoke" /\ error[r] = NoError
      BY <1>5 DEF OpenStream, PhaseOK, Handling
    <2>2. error' = [error EXCEPT ![r] = NoError]
      BY <1>5, <2>1 DEF OpenStream, RequestType
    <2> QED
      BY <1>5, <2>1, <2>2, AdvanceOK DEF OpenStream, Trying, Handling
  <1>6. ASSUME NEW kind \in ErrorKinds, NEW hint \in HintsOf(kind), Fail(r, kind, hint)
        PROVE  StepOK(r)
    <2>1. NewError(kind, hint) \in Errors /\ NewError(kind, hint) # NoError
      BY NewErrors
    <2> DEFINE e == NewError(kind, hint)
               where == IF kind = "auth" THEN "escape" ELSE "failed"
    <2>2. /\ pc[r] = "invoke" /\ pc' = [pc EXCEPT ![r] = where]
          /\ error' = [error EXCEPT ![r] = e]
          /\ UNCHANGED <<call, stack, attempted, elapsed, left, output>>
      BY <1>6 DEF Fail
    <2>3. where \in {"failed", "escape"} /\ pc[r] \in Trying
      BY <2>2 DEF Trying
    <2> HIDE DEF e, where
    <2> QED
      BY <2>1, <2>2, <2>3, AdvanceOK DEF e, Handling
  <1>7. CASE RecordAttempt(r)
    <2> DEFINE e == MarkHandled(error[r])
               where == IF call[r].allow_failover THEN "recover" ELSE "escape"
    <2>1. /\ pc[r] = "failed" /\ pc' = [pc EXCEPT ![r] = where]
          /\ error' = [error EXCEPT ![r] = e]
          /\ UNCHANGED <<call, stack, attempted, elapsed, left, output>>
      BY <1>7 DEF RecordAttempt
    <2>2. error[r] \in Errors
      BY <2>1, OpenCall DEF Handling
    <2>3. e \in Errors /\ e # NoError
      BY <2>2, ErrorTypes
    <2>4. where \in {"recover", "escape"} /\ pc[r] \in Trying
      BY <2>1 DEF Trying
    <2> HIDE DEF e, where
    <2> QED
      BY <2>1, <2>3, <2>4, AdvanceOK DEF Handling
  <1>8. CASE Escape(r)
    <2>1. pc[r] = "escape" /\ (Raise(r, error[r]) \/ Raise(r, Recorded(error[r])))
      BY <1>8 DEF Escape
    <2>2. error[r] \in Errors /\ Recorded(error[r]) \in Errors
      BY <2>1, OpenCall, ErrorTypes DEF Handling
    <2> QED
      BY <2>1, <2>2, RaiseOK DEF StepOK
  <1>9. CASE Recover(r)
    BY <1>9, RecoverOK
  <1>10. CASE Retry(r)
    BY <1>10, RetryOK
  <1>11. CASE BeginStream(r)
    <2>1. pc[r] = "opened" /\ error[r] = NoError
      BY <1>11 DEF BeginStream, PhaseOK, Handling
    <2>2. error' = [error EXCEPT ![r] = NoError]
      BY <1>11, <2>1 DEF BeginStream, RequestType
    <2> QED
      BY <1>11, <2>1, <2>2, AdvanceOK DEF BeginStream, Trying, Handling
  <1>12. CASE Emit(r)
    <2>1. TRUE \in BOOLEAN
      OBVIOUS
    <2>2. /\ output' = [output EXCEPT ![r] = TRUE]
          /\ UNCHANGED <<pc, call, stack, attempted, elapsed, left, error>>
      BY <1>12 DEF Emit
    <2>3. output' \in [Requests -> BOOLEAN]
      BY <2>1, <2>2 DEF RequestType
    <2>4. RequestType' /\ Others(r)
      BY <2>2, <2>3 DEF RequestType, Others, Same
    <2> QED
      BY <2>2, <2>4 DEF StepOK, PhaseOK, HopOK
  <1>13. CASE CompleteStream(r)
    BY <1>13, FinishOK DEF CompleteStream
  <1>14. ASSUME NEW kind \in ErrorKinds, NEW hint \in HintsOf(kind), BreakStream(r, kind, hint)
         PROVE  StepOK(r)
    BY <1>14, FinishOK DEF BreakStream
  <1>15. CASE Disconnect(r)
    BY <1>15, FinishOK DEF Disconnect
  <1>16. CASE Cancel(r)
    BY <1>16, FinishOK DEF Cancel
  <1> QED
    BY <1>1, <1>2, <1>3, <1>4, <1>5, <1>6, <1>7, <1>8, <1>9, <1>10, <1>11, <1>12, <1>13, <1>14,
       <1>15, <1>16
    DEF RequestNext, Proceed, Answer, EndStream

(* The requests that did not move are in order, too.                         *)
LEMMA OthersOK ==
  ASSUME PhaseInv, HopInv, NEW r \in Requests, StepOK(r)
  PROVE  PhaseInv' /\ HopInv'
  <1>1. ASSUME NEW q \in Requests
        PROVE  PhaseOK(q)' /\ HopOK(q)'
    <2>1. CASE q = r
      BY <2>1 DEF StepOK
    <2>2. CASE q # r
      BY <2>2 DEF StepOK, Others, Same, PhaseInv, HopInv, PhaseOK, HopOK
    <2> QED
      BY <2>1, <2>2
  <1> QED
    BY <1>1 DEF PhaseInv, HopInv

(* Time: a wait that gets shorter by a tick uses up that tick of the budget, *)
(* and the silent wait never outlasts the budget.                            *)
LEMMA TickStep ==
  ASSUME RequestType, PhaseInv, HopInv, Tick
  PROVE  RequestType' /\ PhaseInv' /\ HopInv'
  <1>1. UNCHANGED <<pc, call, stack, attempted, output, error>>
    BY DEF Tick
  <1>2. ASSUME NEW r \in Requests
        PROVE  /\ elapsed[r] \in 0 .. TotalTimeoutBudget
               /\ elapsed'[r] \in 0 .. TotalTimeoutBudget
               /\ elapsed'[r] = IF Running(r) /\ elapsed[r] < TotalTimeoutBudget
                                  THEN elapsed[r] + 1
                                  ELSE elapsed[r]
    BY FlowAssumption DEF Tick, RequestType
  <1>3. ASSUME NEW r \in Requests
        PROVE  left[r] \in Nat /\ left'[r] \in Nat /\ left'[r] = CountDown(left[r])
    BY DEF Tick, RequestType, CountDown
  <1>4. RequestType'
    BY <1>1, <1>2, <1>3 DEF Tick, RequestType
  <1>5. PhaseInv'
    BY <1>1, <1>2 DEF PhaseInv, PhaseOK, Running
  <1>6. ASSUME NEW r \in Requests
        PROVE  HopOK(r)'
    <2>1. HopOK(r) /\ stack[r] \in Seq(Instances) /\ attempted[r] \in Seq(Instances)
      BY DEF HopInv, RequestType
    <2>2. Len(stack[r]) \in Nat /\ Len(attempted[r]) \in Nat
      BY <2>1
    <2>3. elapsed[r] <= elapsed'[r]
      BY <1>2
    <2>4. ASSUME pc[r] \in Trying
          PROVE  TryingOK(stack[r], attempted[r], elapsed'[r])
      <3>1. TryingOK(stack[r], attempted[r], elapsed[r])
        BY <2>1, <2>4 DEF HopOK
      <3> QED
        BY <1>2, <2>2, <2>3, <3>1 DEF TryingOK
    <2>5. ASSUME pc[r] = "waiting"
          PROVE  WaitingOK(stack[r], attempted[r], elapsed'[r], left'[r])
      <3>1. WaitingOK(stack[r], attempted[r], elapsed[r], left[r])
        BY <2>1, <2>5 DEF HopOK
      <3>2. /\ Len(stack[r]) + 1 <= Len(attempted[r]) + elapsed'[r] + left'[r]
            /\ left'[r] = 0 \/ elapsed'[r] + left'[r] <= TotalTimeoutBudget
        <4>1. Len(stack[r]) + 1 <= Len(attempted[r]) + elapsed[r] + left[r]
              /\ (left[r] = 0 \/ elapsed[r] + left[r] <= TotalTimeoutBudget)
          BY <3>1 DEF WaitingOK
        <4>2. Running(r)
          BY <2>5 DEF Running
        <4>3. /\ elapsed[r] \in Nat /\ left[r] \in Nat /\ TotalTimeoutBudget \in Nat
              /\ elapsed'[r] = IF elapsed[r] < TotalTimeoutBudget
                                 THEN elapsed[r] + 1
                                 ELSE elapsed[r]
              /\ left'[r] = IF left[r] > 0 THEN left[r] - 1 ELSE 0
          BY <1>2, <1>3, <4>2, FlowAssumption DEF CountDown
        <4>4. CASE left[r] = 0
          BY <2>2, <4>1, <4>3, <4>4
        <4>5. CASE left[r] > 0
          <5>1. elapsed[r] < TotalTimeoutBudget
            BY <4>1, <4>3, <4>5
          <5>2. elapsed'[r] = elapsed[r] + 1 /\ left'[r] = left[r] - 1
            BY <4>3, <4>5, <5>1
          <5> QED
            BY <2>2, <4>1, <4>3, <4>5, <5>2
        <4> QED
          BY <4>3, <4>4, <4>5
      <3> QED
        BY <3>1, <3>2 DEF WaitingOK
    <2> QED
      BY <1>1, <2>1, <2>4, <2>5 DEF HopOK
  <1> QED
    BY <1>4, <1>5, <1>6 DEF HopInv

---------------------------------------------------------------------------
(* Every step of a request keeps the tables                                 *)

(* Disabled, by the lifecycle manager or in the rate limit table.            *)
Condemned == disabled \cup Revoked

(* What a step of r does to the tables and histories. If r is a stream,      *)
(* every instance that it disables has denied access by then.                *)
TableStepOK(r) ==
    /\ TableType' /\ HistoryType' /\ denied \subseteq denied'
    /\ StreamOK(r) /\ (pc[r] = "idle" \/ call[r].stream) =>
         Condemned' \subseteq Condemned \cup denied'

(* A request that leaves its backend is no probe any more.                   *)
LEMMA LeaveType ==
  ASSUME HistoryType, NEW r, LeaveBackend(r)
  PROVE  probes' \subseteq Requests \X Instances
  BY DEF HistoryType, LeaveBackend

(* Steps that leave the tables alone.                                        *)
LEMMA QuietTables ==
  ASSUME TableType, HistoryType, NEW r, UNCHANGED <<tables, denied>>,
         probes' \subseteq Requests \X Instances
  PROVE  TableStepOK(r)
  <1>1. UNCHANGED <<breaker, instances, models, disabled, denied>>
    BY DEF tables
  <1> QED
    BY <1>1 DEF TableType, HistoryType, Condemned, Revoked, TableStepOK

(* Steps that change them and disable nothing.                               *)
LEMMA NewTables ==
  ASSUME TableType, HistoryType, NEW r, ManagerType', Revoked' \subseteq Revoked,
         UNCHANGED <<disabled, denied>>, probes' \subseteq Requests \X Instances
  PROVE  TableStepOK(r)
  <1>1. TableType'
    BY DEF TableType, ManagerType, BreakerEntry, InstanceEntry, ModelEntry
  <1> QED
    BY <1>1 DEF HistoryType, Condemned, TableStepOK

(* All operations of a request; RecordAttempt, Escape and BreakStream may    *)
(* disable the backend they charge, Fail the one that has just answered.     *)
LEMMA TableStep ==
  ASSUME TableType, RequestType, HistoryType, NEW r \in Requests, PhaseOK(r), RequestNext(r)
  PROVE  TableStepOK(r)
  <1>1. ManagerType
    BY TableParts
  <1>2. ASSUME NEW i \in Instances, NEW s \in Streams, NEW a \in BOOLEAN, Start(r, i, s, a)
        PROVE  TableStepOK(r)
    BY <1>2, QuietTables DEF Start, history, HistoryType
  <1>3. CASE Admit(r)
    <2>1. Backend(r) \in Instances
      BY <1>3, OpenCall DEF Admit
    <2>2. probes' \subseteq Requests \X Instances
      BY <1>3, <2>1 DEF Admit, HistoryType
    <2>3. ManagerType' /\ Revoked' \subseteq Revoked
      BY <1>1, <1>3, <2>1, AdmitEffect
    <2> QED
      BY <1>3, <2>2, <2>3, NewTables DEF Admit
  <1>4. CASE Reject(r)
    <2>1. ManagerType' /\ Revoked' \subseteq Revoked
      <3>1. CASE UNCHANGED <<breaker, instances, models>>
        BY <1>1, <3>1 DEF ManagerType, Revoked
      <3>2. CASE LookedAt({Backend(r)})
        BY <1>1, <3>2, LookEffect
      <3> QED
        BY <1>4, <3>1, <3>2 DEF Reject
    <2> QED
      BY <1>4, <2>1, NewTables DEF Reject, history, HistoryType
  <1>5. CASE Respond(r)
    <2>1. Backend(r) \in Instances
      BY <1>5, OpenCall DEF Respond
    <2> QED
      BY <1>1, <1>5, <2>1, SuccessEffect, LeaveType, NewTables DEF Respond
  <1>6. CASE OpenStream(r)
    BY <1>6, QuietTables DEF OpenStream, history, HistoryType
  <1>7. ASSUME NEW kind \in ErrorKinds, NEW hint \in HintsOf(kind), Fail(r, kind, hint)
        PROVE  TableStepOK(r)
    <2>1. Backend(r) \in Instances
      BY <1>7, OpenCall DEF Fail
    <2>2. UNCHANGED <<breaker, instances, models>> /\ probes' \subseteq Requests \X Instances
      BY <1>7, LeaveType DEF Fail
    <2>3. denied \subseteq denied' /\ denied' \subseteq denied \cup {Backend(r)}
      BY <1>7 DEF Fail
    <2>4. disabled' \subseteq disabled \cup denied'
      BY <1>7 DEF Fail
    <2>5. disabled' \subseteq Instances /\ denied' \subseteq Instances
      BY <2>1, <2>3, <2>4 DEF TableType, HistoryType
    <2> QED
      BY <2>2, <2>3, <2>4, <2>5 DEF TableType, HistoryType, Condemned, Revoked, TableStepOK
  <1>8. CASE RecordAttempt(r)
    <2>1. /\ pc[r] = "failed" /\ Backend(r) \in Instances /\ error[r] \in Errors
      BY <1>8, OpenCall DEF RecordAttempt, Handling
    <2>2. RecordFailure(Backend(r), error[r]) /\ UNCHANGED <<disabled, probes, denied>>
      BY <1>8 DEF RecordAttempt, history
    <2>3. /\ ManagerType'
          /\ Revoked' \subseteq Revoked \cup {j \in {Backend(r)} : Denies(error[r])}
      BY <1>1, <2>1, <2>2, FailureEffect
    <2>4. StreamOK(r) /\ call[r].stream /\ Denies(error[r]) => Backend(r) \in denied
      BY <2>1 DEF StreamOK, Denies, Handling
    <2>5. TableType' /\ HistoryType'
      BY <2>2, <2>3
      DEF TableType, HistoryType, ManagerType, BreakerEntry, InstanceEntry, ModelEntry
    <2> QED
      BY <2>1, <2>2, <2>3, <2>4, <2>5 DEF Condemned, TableStepOK
  <1>9. CASE Escape(r)
    <2>1. /\ pc[r] = "escape" /\ Backend(r) \in Instances /\ error[r] \in Errors
      BY <1>9, OpenCall DEF Escape, Handling
    <2>2. UNCHANGED <<disabled, probes, denied>>
      BY <1>9 DEF Escape, history
    <2>3. /\ ManagerType'
          /\ Revoked' \subseteq Revoked \cup {j \in {Backend(r)} : Denies(error[r])}
      <3>1. CASE UNCHANGED <<breaker, instances, models>>
        BY <1>1, <3>1 DEF ManagerType, Revoked
      <3>2. CASE RecordFailure(Backend(r), error[r])
        BY <1>1, <2>1, <3>2, FailureEffect
      <3> QED
        BY <1>9, <3>1, <3>2 DEF Escape
    <2>4. StreamOK(r) /\ call[r].stream /\ Denies(error[r]) => Backend(r) \in denied
      BY <2>1 DEF StreamOK, Denies, Handling
    <2>5. TableType' /\ HistoryType'
      BY <2>2, <2>3
      DEF TableType, HistoryType, ManagerType, BreakerEntry, InstanceEntry, ModelEntry
    <2> QED
      BY <2>1, <2>2, <2>3, <2>4, <2>5 DEF Condemned, TableStepOK
  <1>10. CASE Recover(r)
    <2>1. PICK S : LookedAt(S)
      BY <1>10 DEF Recover
    <2> QED
      BY <1>1, <1>10, <2>1, LookEffect, NewTables DEF Recover, history, HistoryType
  <1>11. CASE Retry(r)
    BY <1>11, QuietTables DEF Retry, history, HistoryType
  <1>12. CASE BeginStream(r)
    BY <1>12, QuietTables DEF BeginStream, history, HistoryType
  <1>13. CASE Emit(r)
    BY <1>13, QuietTables DEF Emit, history, HistoryType
  <1>14. CASE CompleteStream(r)
    <2>1. Backend(r) \in Instances
      BY <1>14, OpenCall DEF CompleteStream
    <2> QED
      BY <1>1, <1>14, <2>1, SuccessEffect, LeaveType, NewTables DEF CompleteStream
  <1>15. ASSUME NEW kind \in ErrorKinds, NEW hint \in HintsOf(kind), BreakStream(r, kind, hint)
         PROVE  TableStepOK(r)
    <2> DEFINE e == NewError(kind, hint)
    <2>1. Backend(r) \in Instances /\ e \in Errors /\ e.kind = kind
      BY <1>15, OpenCall, NewErrors DEF BreakStream
    <2>2. /\ RecordFailure(Backend(r), e) /\ UNCHANGED disabled
          /\ probes' \subseteq Requests \X Instances
          /\ denied' = IF kind \in {"auth", "blocked"}
                         THEN denied \cup {Backend(r)}
                         ELSE denied
      BY <1>15, LeaveType DEF BreakStream
    <2> HIDE DEF e
    <2>3. ManagerType' /\ Revoked' \subseteq Revoked \cup {j \in {Backend(r)} : Denies(e)}
      BY <1>1, <2>1, <2>2, FailureEffect
    <2>4. /\ denied \subseteq denied' /\ denied' \subseteq denied \cup {Backend(r)}
          /\ Denies(e) => Backend(r) \in denied'
      BY <2>1, <2>2 DEF Denies
    <2>5. TableType' /\ HistoryType'
      BY <2>1, <2>2, <2>3, <2>4
      DEF TableType, HistoryType, ManagerType, BreakerEntry, InstanceEntry, ModelEntry
    <2> QED
      BY <2>2, <2>3, <2>4, <2>5 DEF Condemned, TableStepOK
  <1>16. CASE Disconnect(r)
    <2>1. Backend(r) \in Instances
      BY <1>16, OpenCall DEF Disconnect
    <2>2. ManagerType' /\ Revoked' \subseteq Revoked /\ disabled' = disabled
      <3>1. CASE RecordSuccess(Backend(r))
        BY <1>1, <2>1, <3>1, SuccessEffect
      <3>2. CASE /\ breaker' = [breaker EXCEPT ![Backend(r)] = AfterRelease(@)]
                 /\ UNCHANGED <<instances, models, disabled>>
        BY <1>1, <2>1, <3>2, BreakerTypes DEF ManagerType, Revoked
      <3> QED
        BY <1>16, <3>1, <3>2 DEF Disconnect, AccountDisconnect
    <2> QED
      BY <1>16, <2>2, LeaveType, NewTables DEF Disconnect
  <1>17. CASE Cancel(r)
    BY <1>17, LeaveType, QuietTables DEF Cancel
  <1> QED
    BY <1>2, <1>3, <1>4, <1>5, <1>6, <1>7, <1>8, <1>9, <1>10, <1>11, <1>12, <1>13, <1>14, <1>15,
       <1>16, <1>17
    DEF RequestNext, Proceed, Answer, EndStream

---------------------------------------------------------------------------
(* Every step of a request keeps what is known of its exception             *)

(* Outside the handlers there is no exception to speak of.                   *)
LEMMA NotHandling ==
  ASSUME NEW r \in Requests, pc'[r] \notin Handling
  PROVE  StreamOK(r)'
  BY DEF StreamOK, Handling

(* Nor after the end of a request.                                           *)
LEMMA EndedStream ==
  ASSUME NEW r \in Requests, Ended(r)
  PROVE  StreamOK(r)' /\ CallOK(r)'
  BY DEF Ended, StreamOK, CallOK

(* An exception of a stream ends the request.                                *)
LEMMA RaiseStream ==
  ASSUME RequestType, NEW r \in Requests, PhaseOK(r), CallOK(r), pc[r] # "idle",
         NEW e \in Errors, Raise(r, e)
  PROVE  StreamOK(r)' /\ CallOK(r)'
  <1>1. CASE Ended(r)
    BY <1>1, EndedStream
  <1>2. CASE ~call[r].stream /\ call'[r] = call[r]
    BY <1>2 DEF StreamOK, CallOK
  <1> QED
    BY <1>1, <1>2, RaiseEffect

(* All operations of a request; a new exception comes from Fail and from     *)
(* Recover.                                                                  *)
LEMMA StreamStep ==
  ASSUME TableType, RequestType, NEW r \in Requests, PhaseOK(r), StreamOK(r), CallOK(r),
         RequestNext(r)
  PROVE  StreamOK(r)' /\ CallOK(r)'
  <1>1. ASSUME NEW i \in Instances, NEW s \in Streams, NEW a \in BOOLEAN, Start(r, i, s, a)
        PROVE  StreamOK(r)' /\ CallOK(r)'
    <2>1. pc'[r] = "check" /\ call'[r].stream = s
      BY <1>1 DEF Start, RequestType
    <2> QED
      BY <2>1, NotHandling DEF CallOK, Handling
  <1>2. CASE Admit(r) \/ OpenStream(r) \/ BeginStream(r) \/ Emit(r) \/ Retry(r)
    <2>1. /\ pc[r] # "idle" /\ call' = call
          /\ pc'[r] \in {"check", "invoke", "opened", "streaming"}
      BY <1>2 DEF Admit, OpenStream, BeginStream, Emit, Retry, RequestType
    <2> QED
      BY <2>1, NotHandling DEF CallOK, Handling
  <1>3. CASE Reject(r)
    <2>1. pc[r] = "check" /\ Raise(r, Rejection(Backend(r)))
          /\ (Backend(r) \in disabled \/ ~Available(Backend(r)))
      BY <1>3 DEF Reject
    <2>2. Rejection(Backend(r)) \in Errors
      BY <2>1, OpenCall, RejectionType
    <2> QED
      BY <2>1, <2>2, RaiseStream
  <1>4. CASE Finish(r)
    BY <1>4, FinishEffect, EndedStream
  <1>5. ASSUME NEW kind \in ErrorKinds, NEW hint \in HintsOf(kind), Fail(r, kind, hint)
        PROVE  StreamOK(r)' /\ CallOK(r)'
    <2> DEFINE e == NewError(kind, hint)
    <2>1. e.kind = kind /\ e.handled = FALSE /\ e.recorded = FALSE
      BY NewErrors
    <2>2. pc[r] = "invoke" /\ error' = [error EXCEPT ![r] = e] /\ UNCHANGED <<call, stack>>
      BY <1>5 DEF Fail
    <2> HIDE DEF e
    <2>3. error'[r] = e /\ pc'[r] # "recover"
      BY <1>5, <2>2 DEF Fail, RequestType
    <2>4. kind \in {"auth", "blocked"} => Backend(r) \in denied'
      BY <1>5 DEF Fail
    <2>5. Backend(r)' = Backend(r)
      BY <2>2 DEF Backend
    <2> QED
      BY <2>1, <2>2, <2>3, <2>4, <2>5 DEF StreamOK, CallOK
  <1>6. CASE RecordAttempt(r)
    <2> DEFINE e == MarkHandled(error[r])
    <2>1. /\ pc[r] = "failed" /\ pc'[r] \in {"recover", "escape"} /\ error'[r] = e
          /\ UNCHANGED <<call, stack, denied>>
      BY <1>6 DEF RecordAttempt, RequestType, history
    <2>2. error[r] \in Errors
      BY <2>1, OpenCall DEF Handling
    <2>3. e.kind = error[r].kind /\ e.handled
      BY <2>2, ErrorTypes
    <2>4. Backend(r)' = Backend(r)
      BY <2>1 DEF Backend
    <2> HIDE DEF e
    <2> QED
      BY <2>1, <2>3, <2>4 DEF StreamOK, CallOK, Handling
  <1>7. CASE Escape(r)
    <2>1. pc[r] = "escape" /\ (Raise(r, error[r]) \/ Raise(r, Recorded(error[r])))
      BY <1>7 DEF Escape
    <2>2. error[r] \in Errors /\ Recorded(error[r]) \in Errors
      BY <2>1, OpenCall, ErrorTypes DEF Handling
    <2> QED
      BY <2>1, <2>2, RaiseStream
  <1>8. CASE Recover(r)
    <2>1. /\ pc[r] = "recover" /\ error[r] \in Errors /\ UNCHANGED <<call, denied>>
      BY <1>8, OpenCall DEF Recover, Handling, history
    <2>2. CASE pc' = [pc EXCEPT ![r] = "waiting"] /\ UNCHANGED <<stack, error>>
      BY <2>1, <2>2 DEF StreamOK, CallOK, RequestType, Backend, Handling
    <2>3. CASE pc' = [pc EXCEPT ![r] = "check"]
      BY <2>1, <2>3, NotHandling DEF CallOK, RequestType, Handling
    <2>4. ASSUME NEW tried, pc' = [pc EXCEPT ![r] = "escape"], UNCHANGED stack,
                 error' = [error EXCEPT ![r] = Surfaced(r, tried)]
          PROVE  StreamOK(r)' /\ CallOK(r)'
      <3>1. pc'[r] = "escape" /\ error'[r] = Surfaced(r, tried) /\ Backend(r)' = Backend(r)
        BY <2>4 DEF RequestType, Backend
      <3>2. CASE error'[r] = NewError("transient", NoHint)
        <4>1. /\ error'[r].kind = "transient" /\ error'[r].recorded = FALSE
          <5> DEFINE e == NewError("transient", NoHint)
          <5>1. "transient" \in AllErrorKinds /\ NoHint \in Nat \cup {NoHint}
            BY DEF AllErrorKinds
          <5>2. e.kind = "transient" /\ e.recorded = FALSE
            BY <5>1, ErrorTypes
          <5>3. error'[r] = e
            BY <3>2
          <5> HIDE DEF e
          <5> QED
            BY <5>2, <5>3
        <4> QED
          BY <2>1, <3>1, <4>1 DEF StreamOK, CallOK
      <3>3. CASE error'[r] = error[r]
        BY <2>1, <3>1, <3>3 DEF StreamOK, CallOK, Handling
      <3> QED
        BY <3>1, <3>2, <3>3 DEF Surfaced
    <2> QED
      BY <1>8, <2>2, <2>3, <2>4 DEF Recover
  <1> QED
    BY <1>1, <1>2, <1>3, <1>4, <1>5, <1>6, <1>7, <1>8
    DEF RequestNext, Proceed, Answer, EndStream, Respond, CompleteStream, BreakStream,
        Disconnect,
        Cancel

---------------------------------------------------------------------------
(* The theorems                                                             *)

(* The initial state.                                                        *)
LEMMA InvInit == Init => IInv
  <1> SUFFICES ASSUME Init PROVE IInv
    OBVIOUS
  <1>1. FALSE \in BOOLEAN /\ "idle" \in Phases /\ 0 \in 0 .. TotalTimeoutBudget
        /\ <<>> \in Seq(Instances) /\ 0 \in Nat
    BY FlowAssumption DEF Phases
  <1>2. [stream |-> FALSE, allow_failover |-> FALSE]
          \in [stream : BOOLEAN, allow_failover : BOOLEAN]
    BY <1>1
  <1>3. TableType /\ HistoryType
    BY DEF Init, TableType, HistoryType
  <1>4. RequestType
    BY <1>1, <1>2 DEF Init, RequestType
  <1>5. PhaseInv
    BY DEF Init, PhaseInv, PhaseOK, Handling
  <1>6. HopInv
    BY EmptyChain DEF Init, HopInv, HopOK, Trying
  <1>7. StreamInv /\ CallInv
    BY DEF Init, StreamInv, StreamOK, CallInv, CallOK
  <1> QED
    BY <1>3, <1>4, <1>5, <1>6, <1>7 DEF IInv

(* Time.                                                                     *)
LEMMA InvTick ==
  ASSUME IInv, Tick
  PROVE  IInv' /\ Condemned' \subseteq Condemned /\ denied' = denied
  <1>1. ManagerType' /\ Revoked' \subseteq Revoked
    BY TableParts, TickEffect DEF IInv
  <1>2. UNCHANGED <<disabled, probes, denied, pc, call, error, stack>>
    BY DEF Tick, history
  <1>3. TableType' /\ HistoryType'
    BY <1>1, <1>2
    DEF IInv, TableType, HistoryType, ManagerType, BreakerEntry, InstanceEntry, ModelEntry
  <1>4. StreamInv' /\ CallInv'
    BY <1>2 DEF IInv, StreamInv, StreamOK, CallInv, CallOK, Backend
  <1> QED
    BY <1>1, <1>2, <1>3, <1>4, TickStep DEF IInv, Condemned

(* A step of a request.                                                      *)
LEMMA InvRequest ==
  ASSUME IInv, NEW r \in Requests, RequestNext(r)
  PROVE  IInv'
  <1>1. PhaseOK(r) /\ HopOK(r) /\ StreamOK(r) /\ CallOK(r)
    BY DEF IInv, PhaseInv, HopInv, StreamInv, CallInv
  <1>2. StepOK(r)
    BY <1>1, RequestStep DEF IInv
  <1>3. TableStepOK(r)
    BY <1>1, TableStep DEF IInv
  <1>4. StreamOK(r)' /\ CallOK(r)'
    BY <1>1, StreamStep DEF IInv
  <1>5. ASSUME NEW q \in Requests, q # r
        PROVE  StreamOK(q)' /\ CallOK(q)'
    <2>1. Same(q) /\ StreamOK(q) /\ CallOK(q) /\ denied \subseteq denied'
      BY <1>2, <1>3, <1>5 DEF StepOK, Others, TableStepOK, IInv, StreamInv, CallInv
    <2> QED
      BY <2>1 DEF Same, StreamOK, CallOK, Backend
  <1>6. StreamInv' /\ CallInv'
    BY <1>4, <1>5 DEF StreamInv, CallInv
  <1> QED
    BY <1>2, <1>3, <1>6, OthersOK DEF IInv, StepOK, TableStepOK

(* Every step.                                                               *)
LEMMA InvNext == IInv /\ [Next]_vars => IInv'
  <1> SUFFICES ASSUME IInv, [Next]_vars PROVE IInv'
    OBVIOUS
  <1>1. CASE Tick
    BY <1>1, InvTick
  <1>2. ASSUME NEW r \in Requests, RequestNext(r)
        PROVE  IInv'
    BY <1>2, InvRequest
  <1>3. CASE UNCHANGED vars
    <2>1. UNCHANGED <<breaker, instances, models, disabled, pc, call, stack, attempted, elapsed,
                      left, output, error, probes, denied>>
      BY <1>3 DEF vars, tables, history
    <2>2. TableType' /\ RequestType' /\ HistoryType'
      BY <2>1 DEF IInv, TableType, RequestType, HistoryType
    <2>3. PhaseInv' /\ HopInv'
      BY <2>1 DEF IInv, PhaseInv, PhaseOK, HopInv, HopOK
    <2>4. StreamInv' /\ CallInv'
      BY <2>1 DEF IInv, StreamInv, StreamOK, CallInv, CallOK, Backend
    <2> QED
      BY <2>2, <2>3, <2>4 DEF IInv
  <1> QED
    BY <1>1, <1>2, <1>3 DEF Next, RequestNext

(* The inductive invariant of call_completion holds in every reachable       *)
(* state, for any number of requests and instances and any budgets.          *)
THEOREM Invariance == Spec => []IInv
  BY InvInit, InvNext, PTL DEF Spec

(* Type correctness: every variable keeps its type, a request that is not    *)
(* idle has a call open, and an error is there exactly while it is being     *)
(* handled.                                                                  *)
THEOREM TypeCorrectness == Spec => []TypeOK
  <1>1. IInv => TypeOK
    BY DEF IInv, TableType, RequestType, HistoryType, PhaseInv, PhaseOK, Handling, TypeOK
  <1> QED
    BY <1>1, Invariance, PTL

(* However retries and failovers alternate, and whatever the other requests  *)
(* do to the shared tables meanwhile, a request reaches at most              *)
(* max_failover_hops backends, never comes back to one it has given up, and  *)
(* nests at most max_failover_hops + total_timeout_budget calls (decide and  *)
(* execute_retry).                                                           *)
THEOREM AttemptsAreBounded == Spec => []AttemptsBounded
  <1>1. IInv => AttemptsBounded
    BY DEF IInv, HopInv, HopOK, Bounded, Together, AttemptsBounded
  <1> QED
    BY <1>1, Invariance, PTL

(* Where callers only stream, no exception is recorded by record_failure     *)
(* twice: the marker of the inner handler reaches the outer one ("to avoid   *)
(* double-calling record_failure for the same error", service.py). The       *)
(* hypothesis cannot be dropped: the run flow_twice shows a request that is  *)
(* not a stream and the 401 of its nested call, which the call around it     *)
(* records again.                                                            *)
THEOREM StreamFailuresRecordedOnce ==
  ASSUME Streams \subseteq {TRUE}
  PROVE  Spec => []RecordedOnce
  <1>1. IInv => RecordedOnce
    BY DEF IInv, CallInv, CallOK, StreamInv, StreamOK, RecordedOnce
  <1> QED
    BY <1>1, Invariance, PTL

(* Where callers only stream, an instance is disabled only after it denied   *)
(* access itself, with a 401 or with the request to validate the account     *)
(* (handle_auth_failure, AuthErrorHandler).  Without streams an outer call   *)
(* charges the exception of the inner one to its own backend, and the        *)
(* statement is false.                                                       *)
THEOREM StreamsDisableDeservedly ==
  ASSUME Streams \subseteq {TRUE}
  PROVE  Spec => []DisabledDeservedly
  <1> DEFINE Deserved == Condemned \subseteq denied
  <1>1. Init => Deserved
    BY NoEntryAssumption DEF Init, Condemned, Revoked, InstanceStatus
  <1>2. IInv /\ Deserved /\ [Next]_vars => Deserved'
    <2> SUFFICES ASSUME IInv, Deserved, [Next]_vars PROVE Deserved'
      OBVIOUS
    <2>1. CASE Tick
      BY <2>1, InvTick
    <2>2. ASSUME NEW r \in Requests, RequestNext(r)
          PROVE  Deserved'
      <3>1. /\ PhaseOK(r) /\ StreamOK(r) /\ (pc[r] = "idle" \/ call[r].stream)
        BY DEF IInv, PhaseInv, StreamInv, CallInv, CallOK
      <3>2. Condemned' \subseteq Condemned \cup denied' /\ denied \subseteq denied'
        BY <2>2, <3>1, TableStep DEF IInv, TableStepOK
      <3> QED
        BY <3>2
    <2>3. CASE UNCHANGED vars
      BY <2>3 DEF vars, tables, history, Condemned, Revoked
    <2> QED
      BY <2>1, <2>2, <2>3 DEF Next, RequestNext
  <1>3. Deserved => DisabledDeservedly
    BY DEF Condemned, Revoked, DisabledDeservedly
  <1> QED
    BY <1>1, <1>2, <1>3, Invariance, PTL DEF Spec

=============================================================================
