------------------------ MODULE CircuitBreakerProofs ------------------------
(***************************************************************************)
(* Proofs about CircuitBreaker for every set of instances and every value  *)
(* of the configuration that CircuitBreakerConfig admits.                  *)
(***************************************************************************)
EXTENDS CircuitBreaker, TLAPS

Entry == CircuitBreakerState \cup {NoState}

\* What the fields of one entry say about the history of the calls that made it:
\* s is the streak of failures, q the quiet time.  This is what makes the
\* invariants of CircuitBreaker inductive.
EntryMatches(e, s, q) ==
    /\ e = NoState => ~Enabled \/ s = 0
    /\ e # NoState => Enabled
    /\ e # NoState /\ e.state = "closed" =>
         /\ e.consecutive_failures = s
         /\ 0 < s /\ s < FailureThreshold
         /\ e.open_left = 0
         /\ e.half_open_inflight = 0
         /\ e.half_open_successes = 0
         /\ e.last_failure_reason # "none"
    /\ e # NoState /\ e.state = "open" =>
         /\ e.open_left + q = OpenCooldown
         /\ e.half_open_inflight = 0
         /\ e.half_open_successes = 0
    /\ e # NoState /\ e.state = "half_open" =>
         /\ e.open_left = 0
         /\ q = OpenCooldown
         /\ e.half_open_inflight <= MaxInflight
         /\ e.half_open_successes < SuccessThreshold

IInv ==
    /\ TypeOK
    /\ \A i \in Instances : EntryMatches(states[i], streak[i], quiet[i])

---------------------------------------------------------------------------
(* The operators on entries preserve types and EntryMatches.               *)

\* FreshState and the three transitions are entries; a fresh state is not NoState.
LEMMA TransitionTypes ==
    ASSUME NEW e \in CircuitBreakerState
    PROVE  /\ FreshState \in CircuitBreakerState
           /\ ToOpen(e) \in CircuitBreakerState
           /\ ToHalfOpen(e) \in CircuitBreakerState
           /\ ToClosed(e) \in CircuitBreakerState
           /\ DropProbe(e) \in CircuitBreakerState
  BY ConfigAssumption
  DEF CircuitBreakerState, FreshState, ToOpen, ToHalfOpen, ToClosed, DropProbe

\* An entry with every field at its default is the default entry.
LEMMA PristineLemma ==
    ASSUME NEW g \in CircuitBreakerState,
           g.state = "closed", g.consecutive_failures = 0, g.open_left = 0,
           g.half_open_inflight = 0, g.half_open_successes = 0,
           g.last_failure_reason = "none"
    PROVE  g = FreshState
  <1>1. g = [state |-> g.state,
             consecutive_failures |-> g.consecutive_failures,
             open_left |-> g.open_left,
             half_open_inflight |-> g.half_open_inflight,
             half_open_successes |-> g.half_open_successes,
             last_failure_reason |-> g.last_failure_reason]
    BY DEF CircuitBreakerState
  <1> QED BY <1>1, Zenon DEF FreshState

\* check: an open entry whose deadline has passed becomes a half-open one.
LEMMA CheckLemma ==
    ASSUME NEW e \in Entry, NEW s \in 0 .. FailureThreshold, NEW q \in 0 .. OpenCooldown,
           EntryMatches(e, s, q)
    PROVE  AfterCheck(e) \in Entry /\ EntryMatches(AfterCheck(e), s, q)
  BY ConfigAssumption, NoStateAssumption
  DEF Entry, CircuitBreakerState, EntryMatches, AfterCheck, ExpireOpen, OpenExpired, ToHalfOpen

\* try_acquire_half_open_probe: a slot is taken only where there is capacity.
LEMMA AcquireLemma ==
    ASSUME NEW e \in Entry, NEW s \in 0 .. FailureThreshold, NEW q \in 0 .. OpenCooldown,
           EntryMatches(e, s, q)
    PROVE  AfterAcquire(e) \in Entry /\ EntryMatches(AfterAcquire(e), s, q)
  <1>1. CASE CheckReason(e) = "half_open_probe_allowed"
    <2> DEFINE x == ExpireOpen(e)
    <2>1. Enabled /\ x # NoState /\ x.state = "half_open" /\ HasCapacity(x)
      <3>1. x \in Entry /\ EntryMatches(x, s, q)
        BY CheckLemma, <1>1 DEF CheckReason, AfterCheck
      <3>2. x = NoState \/ x.state \in {"closed", "open", "half_open"}
        BY <3>1 DEF Entry, CircuitBreakerState
      <3> QED BY <1>1, <3>2 DEF CheckReason
    <2>2. x \in CircuitBreakerState /\ EntryMatches(x, s, q)
      BY CheckLemma, <2>1 DEF AfterCheck, Entry
    <2>3. AfterAcquire(e) = [x EXCEPT !.half_open_inflight = @ + 1]
      BY <1>1 DEF AfterAcquire
    <2> QED
      BY <2>1, <2>2, <2>3, ConfigAssumption, NoStateAssumption
      DEF Entry, CircuitBreakerState, EntryMatches, HasCapacity
  <1>2. CASE CheckReason(e) # "half_open_probe_allowed"
    BY <1>2, CheckLemma DEF AfterAcquire
  <1> QED BY <1>1, <1>2

\* release_half_open_probe never takes the count below zero.
LEMMA ReleaseLemma ==
    ASSUME NEW e \in Entry, NEW s \in 0 .. FailureThreshold, NEW q \in 0 .. OpenCooldown,
           EntryMatches(e, s, q)
    PROVE  AfterRelease(e) \in Entry /\ EntryMatches(AfterRelease(e), s, q)
  BY ConfigAssumption, NoStateAssumption
  DEF Entry, CircuitBreakerState, EntryMatches, AfterRelease, DropProbe

\* The closed branch of record_failure: one more failure of the streak.
LEMMA CountFailureLemma ==
    ASSUME NEW x \in CircuitBreakerState, NEW s \in 0 .. FailureThreshold,
           Enabled, s < FailureThreshold,
           x.state = "closed", x.consecutive_failures = s, x.open_left = 0,
           x.half_open_inflight = 0, x.last_failure_reason = "error"
    PROVE  /\ CountFailure(x) \in Entry
           /\ EntryMatches(CountFailure(x), Saturate(s, FailureThreshold), 0)
  <1> DEFINE w == [x EXCEPT !.consecutive_failures = @ + 1]
             y == [x EXCEPT !.consecutive_failures = @ + 1, !.half_open_successes = 0]
  <1>a. /\ w \in CircuitBreakerState
        /\ w.state = "closed"
        /\ w.consecutive_failures = s + 1
        /\ w.open_left = 0
        /\ w.half_open_inflight = 0
        /\ w.last_failure_reason = "error"
    BY DEF CircuitBreakerState
  <1>b. y = [w EXCEPT !.half_open_successes = 0]
    OBVIOUS
  <1> HIDE DEF w
  <1>1. /\ y \in CircuitBreakerState
        /\ y.state = "closed"
        /\ y.consecutive_failures = s + 1
        /\ y.open_left = 0
        /\ y.half_open_inflight = 0
        /\ y.half_open_successes = 0
        /\ y.last_failure_reason = "error"
    <2> HIDE DEF y
    <2> QED BY <1>a, <1>b DEF CircuitBreakerState
  <1>2. CountFailure(x) = IF s + 1 >= FailureThreshold THEN ToOpen(y) ELSE y
    BY <1>1 DEF CountFailure, Tripped
  <1> HIDE DEF y
  <1>3. CASE s + 1 >= FailureThreshold
    <2>1. CountFailure(x) = ToOpen(y)
      BY <1>2, <1>3
    <2> QED BY <1>1, <2>1, ConfigAssumption, NoStateAssumption
            DEF Entry, EntryMatches, CircuitBreakerState, ToOpen
  <1>4. CASE s + 1 < FailureThreshold
    <2>1. CountFailure(x) = y /\ Saturate(s, FailureThreshold) = s + 1
      BY <1>2, <1>4, ConfigAssumption DEF Saturate
    <2> QED BY <1>1, <1>4, <2>1, ConfigAssumption, NoStateAssumption DEF Entry, EntryMatches
  <1> QED BY <1>3, <1>4, ConfigAssumption

\* record_failure: the count follows the streak, and reaching the threshold opens.
LEMMA FailureLemma ==
    ASSUME NEW e \in Entry, NEW s \in 0 .. FailureThreshold, NEW q \in 0 .. OpenCooldown,
           EntryMatches(e, s, q)
    PROVE  /\ AfterFailure(e) \in Entry
           /\ Saturate(s, FailureThreshold) \in 0 .. FailureThreshold
           /\ EntryMatches(AfterFailure(e), Saturate(s, FailureThreshold), 0)
  <1> DEFINE t == Saturate(s, FailureThreshold)
             x == [(IF e = NoState THEN FreshState ELSE e)
                     EXCEPT !.last_failure_reason = "error"]
  <1>1. t \in 0 .. FailureThreshold
    BY ConfigAssumption DEF Saturate
  <1>2. CASE ~Enabled
    BY <1>1, <1>2 DEF EntryMatches, AfterFailure
  <1>3. CASE Enabled
    <2>1. x \in CircuitBreakerState /\ x.last_failure_reason = "error"
      BY DEF Entry, CircuitBreakerState, FreshState
    <2>2. x.state = "closed" => /\ x.consecutive_failures = s
                                /\ s < FailureThreshold
                                /\ x.open_left = 0
                                /\ x.half_open_inflight = 0
      BY <1>3, ConfigAssumption DEF EntryMatches, FreshState, Entry, CircuitBreakerState
    <2>3. AfterFailure(e) = IF x.state = "half_open" THEN ToOpen(DropProbe(x))
                            ELSE IF x.state = "open" THEN ToOpen(x)
                            ELSE CountFailure(x)
      BY <1>3 DEF AfterFailure
    <2> HIDE DEF x
    <2>4. CASE x.state = "half_open"
      BY <1>1, <1>3, <2>1, <2>3, <2>4, ConfigAssumption, NoStateAssumption
      DEF Entry, CircuitBreakerState, EntryMatches, ToOpen, DropProbe
    <2>5. CASE x.state = "open"
      BY <1>1, <1>3, <2>1, <2>3, <2>5, ConfigAssumption, NoStateAssumption
      DEF Entry, CircuitBreakerState, EntryMatches, ToOpen
    <2>6. CASE x.state = "closed"
      BY <1>1, <1>3, <2>1, <2>2, <2>3, <2>6, CountFailureLemma
    <2>7. x.state \in {"closed", "open", "half_open"}
      BY <2>1 DEF CircuitBreakerState
    <2> QED BY <2>4, <2>5, <2>6, <2>7
  <1> QED BY <1>2, <1>3, ConfigAssumption

\* record_success: what is left in the closed state is evicted.
LEMMA SuccessLemma ==
    ASSUME NEW e \in Entry, NEW s \in 0 .. FailureThreshold, NEW q \in 0 .. OpenCooldown,
           EntryMatches(e, s, q)
    PROVE  AfterSuccess(e) \in Entry /\ EntryMatches(AfterSuccess(e), 0, q)
  <1>1. CASE ~Enabled \/ e = NoState
    BY <1>1 DEF EntryMatches, AfterSuccess
  <1>2. CASE Enabled /\ e # NoState
    <2>1. e \in CircuitBreakerState /\ e.state \in {"closed", "open", "half_open"}
      BY <1>2 DEF Entry, CircuitBreakerState
    <2>2. CASE e.state = "closed"
      <3>1. Forgive(e) = FreshState
        <4> DEFINE g == Forgive(e)
        <4>1. g \in CircuitBreakerState
          BY <2>1 DEF Forgive, CircuitBreakerState
        <4>2. /\ g.state = "closed"
              /\ g.consecutive_failures = 0
              /\ g.open_left = 0
              /\ g.half_open_inflight = 0
              /\ g.half_open_successes = 0
              /\ g.last_failure_reason = "none"
          BY <1>2, <2>1, <2>2 DEF EntryMatches, Forgive, CircuitBreakerState
        <4> QED BY <4>1, <4>2, PristineLemma
      <3>2. AfterSuccess(e) = NoState
        BY <1>2, <2>2, <3>1 DEF AfterSuccess, EvictIfPristine
      <3> QED BY <3>2 DEF Entry, EntryMatches
    <2>3. CASE e.state = "open"
      <3>1. AfterSuccess(e) = e
        BY <1>2, <2>3 DEF AfterSuccess
      <3> QED BY <1>2, <2>3, <3>1 DEF EntryMatches
    <2>4. CASE e.state = "half_open"
      <3> DEFINE x == [DropProbe(e) EXCEPT !.half_open_successes = @ + 1]
      <3>1. x \in CircuitBreakerState
        BY <2>1 DEF DropProbe, CircuitBreakerState
      <3>2. AfterSuccess(e) = CountSuccess(e)
        BY <1>2, <2>4 DEF AfterSuccess
      <3>3. CASE x.half_open_successes >= SuccessThreshold
        <4>1. AfterSuccess(e) = NoState
          BY <3>2, <3>3 DEF CountSuccess, EvictIfPristine, ToClosed
        <4> QED BY <4>1 DEF Entry, EntryMatches
      <3>4. CASE ~(x.half_open_successes >= SuccessThreshold)
        <4>1. AfterSuccess(e) = x
          BY <3>2, <3>4 DEF CountSuccess
        <4>2. EntryMatches(x, 0, q)
          BY <1>2, <2>1, <2>4, <3>1, <3>4, ConfigAssumption
          DEF EntryMatches, DropProbe, CircuitBreakerState
        <4> QED BY <3>1, <4>1, <4>2 DEF Entry
      <3> QED BY <3>3, <3>4
    <2> QED BY <2>1, <2>2, <2>3, <2>4
  <1> QED BY <1>1, <1>2

\* A tick moves an open entry's deadline and its quiet time together.
LEMMA TickLemma ==
    ASSUME NEW e \in Entry, NEW s \in 0 .. FailureThreshold, NEW q \in 0 .. OpenCooldown,
           EntryMatches(e, s, q)
    PROVE  /\ AfterBreakerTick(e) \in Entry
           /\ Saturate(q, OpenCooldown) \in 0 .. OpenCooldown
           /\ EntryMatches(AfterBreakerTick(e), s, Saturate(q, OpenCooldown))
  BY ConfigAssumption, NoStateAssumption
  DEF Entry, CircuitBreakerState, EntryMatches, AfterBreakerTick, Saturate

---------------------------------------------------------------------------
\* No instance has an entry at start-up.
LEMMA InitIInv == Init => IInv
  BY ConfigAssumption DEF Init, IInv, TypeOK, EntryMatches

\* Every method call and every tick preserves the inductive invariant.
LEMMA NextIInv == IInv /\ [Next]_vars => IInv'
  <1> SUFFICES ASSUME IInv, [Next]_vars PROVE IInv'
    OBVIOUS
  <1>0. \A i \in Instances : /\ states[i] \in Entry
                             /\ streak[i] \in 0 .. FailureThreshold
                             /\ quiet[i] \in 0 .. OpenCooldown
                             /\ EntryMatches(states[i], streak[i], quiet[i])
    BY DEF IInv, TypeOK, Entry
  <1>1. ASSUME NEW i \in Instances, Check(i) PROVE IInv'
    BY <1>0, <1>1, CheckLemma DEF Check, IInv, TypeOK, Entry
  <1>2. ASSUME NEW i \in Instances, TryAcquire(i) PROVE IInv'
    BY <1>0, <1>2, AcquireLemma DEF TryAcquire, IInv, TypeOK, Entry
  <1>3. ASSUME NEW i \in Instances, Release(i) PROVE IInv'
    BY <1>0, <1>3, ReleaseLemma DEF Release, IInv, TypeOK, Entry
  <1>4. ASSUME NEW i \in Instances, RecordFailure(i) PROVE IInv'
    <2>1. 0 \in 0 .. OpenCooldown
      BY ConfigAssumption
    <2> QED BY <1>0, <1>4, <2>1, FailureLemma DEF RecordFailure, IInv, TypeOK, Entry
  <1>5. ASSUME NEW i \in Instances, RecordSuccess(i) PROVE IInv'
    <2>1. 0 \in 0 .. FailureThreshold
      BY ConfigAssumption
    <2> QED BY <1>0, <1>5, <2>1, SuccessLemma DEF RecordSuccess, IInv, TypeOK, Entry
  <1>6. CASE Tick
    BY <1>0, <1>6, TickLemma DEF Tick, IInv, TypeOK, Entry
  <1>7. CASE UNCHANGED vars
    BY <1>7 DEF vars, IInv, TypeOK
  <1> QED BY <1>1, <1>2, <1>3, <1>4, <1>5, <1>6, <1>7 DEF Next

\* IInv is an invariant of the specification.
THEOREM Invariance == Spec => []IInv
  BY InitIInv, NextIInv, PTL DEF Spec

\* Type correctness of the breaker's table and of the histories.
THEOREM TypeCorrectness == Spec => []TypeOK
  <1>1. IInv => TypeOK
    BY DEF IInv
  <1> QED BY <1>1, Invariance, PTL

\* record_failure and eviction never lose count of consecutive failures.
THEOREM CountIsKept == Spec => []ClosedMeansFewFailures
  <1>1. IInv => ClosedMeansFewFailures
    BY ConfigAssumption DEF IInv, EntryMatches, ClosedMeansFewFailures, IsClosed, Is
  <1> QED BY <1>1, Invariance, PTL

\* Probes only after a whole cooldown without a reported failure.
THEOREM CooldownIsServed == Spec => []HalfOpenMeansQuiet
  <1>1. IInv => HalfOpenMeansQuiet
    BY DEF IInv, EntryMatches, HalfOpenMeansQuiet, Is
  <1> QED BY <1>1, Invariance, PTL

\* Slots and successes stay inside the half-open phase and within its limits.
THEOREM ProbesAreBounded == Spec => []ProbeAccounting
  <1>1. IInv => ProbeAccounting
    <2> SUFFICES ASSUME IInv, NEW i \in Instances, states[i] # NoState
                 PROVE  IF states[i].state = "half_open"
                          THEN /\ states[i].half_open_inflight <= MaxInflight
                               /\ states[i].half_open_successes < SuccessThreshold
                          ELSE /\ states[i].half_open_inflight = 0
                               /\ states[i].half_open_successes = 0
      BY DEF ProbeAccounting
    <2>1. states[i].state \in {"closed", "open", "half_open"}
      BY DEF IInv, TypeOK, CircuitBreakerState
    <2> QED BY <2>1 DEF IInv, EntryMatches
  <1> QED BY <1>1, Invariance, PTL

\* The table holds only instances that failed since they last succeeded.
THEOREM TableStaysSmall == Spec => []NoPristineEntry
  <1>1. IInv => NoPristineEntry
    BY DEF IInv, EntryMatches, NoPristineEntry, Is
  <1> QED BY <1>1, Invariance, PTL

\* A closed entry is opened by record_failure only, and then by the failure that
\* completes the streak.
LEMMA OnlyFailureOpens ==
    ASSUME NEW e \in Entry, NEW s \in 0 .. FailureThreshold, NEW q \in 0 .. OpenCooldown,
           EntryMatches(e, s, q), e = NoState \/ e.state = "closed"
    PROVE  /\ \A x \in {AfterCheck(e), AfterAcquire(e), AfterRelease(e), AfterSuccess(e),
                        AfterBreakerTick(e)} : x = NoState \/ x.state = "closed"
           /\ (AfterFailure(e) # NoState /\ AfterFailure(e).state = "open")
                => Saturate(s, FailureThreshold) = FailureThreshold
  <1>1. ExpireOpen(e) = e
    BY DEF ExpireOpen, OpenExpired
  <1>2. CheckReason(e) # "half_open_probe_allowed"
    BY <1>1 DEF CheckReason
  <1>3. AfterCheck(e) = e /\ AfterAcquire(e) = e
    BY <1>1, <1>2 DEF AfterCheck, AfterAcquire
  <1>4. AfterRelease(e) = e /\ AfterBreakerTick(e) = e
    BY ConfigAssumption DEF AfterRelease, AfterBreakerTick, EntryMatches
  <1>5. AfterSuccess(e) = NoState \/ AfterSuccess(e).state = "closed"
    <2>1. CASE ~Enabled \/ e = NoState
      BY <2>1 DEF AfterSuccess
    <2>2. CASE Enabled /\ e # NoState
      <3>1. Forgive(e).state = "closed"
        BY <2>2 DEF Forgive, Entry, CircuitBreakerState
      <3> QED BY <2>2, <3>1 DEF AfterSuccess, EvictIfPristine
    <2> QED BY <2>1, <2>2
  <1>6. ASSUME AfterFailure(e) # NoState, AfterFailure(e).state = "open"
        PROVE  Saturate(s, FailureThreshold) = FailureThreshold
    <2>1. Enabled
      BY <1>6 DEF AfterFailure
    <2> DEFINE x == [(IF e = NoState THEN FreshState ELSE e)
                       EXCEPT !.last_failure_reason = "error"]
               y == [x EXCEPT !.consecutive_failures = @ + 1, !.half_open_successes = 0]
    <2>2. /\ x \in CircuitBreakerState
          /\ x.state = "closed"
          /\ x.consecutive_failures = s
      BY <2>1 DEF EntryMatches, FreshState, Entry, CircuitBreakerState
    <2>3. AfterFailure(e) = CountFailure(x)
      BY <2>1, <2>2 DEF AfterFailure
    <2> HIDE DEF x
    <2>4. y.state = "closed" /\ y.consecutive_failures = s + 1
      BY <2>2 DEF CircuitBreakerState
    <2>5. s + 1 >= FailureThreshold
      BY <1>6, <2>3, <2>4 DEF CountFailure, Tripped
    <2> QED BY <2>5, ConfigAssumption DEF Saturate
  <1> QED BY <1>3, <1>4, <1>5, <1>6

\* The breaker of an instance opens only on failure_threshold failures in a row.
THEOREM NoSpuriousTrip == Spec => TripsOnlyOnStreak
  <1> DEFINE A == \A i \in Instances :
                    IsClosed(i) /\ Is(i, "open")' => streak'[i] = FailureThreshold
  <1>1. IInv /\ [Next]_vars => [A]_vars
    <2> SUFFICES ASSUME IInv, Next, NEW i \in Instances, IsClosed(i), Is(i, "open")'
                 PROVE  streak'[i] = FailureThreshold
      BY DEF vars, IsClosed, Is
    <2>1. /\ states[i] \in Entry
          /\ streak[i] \in 0 .. FailureThreshold
          /\ quiet[i] \in 0 .. OpenCooldown
          /\ EntryMatches(states[i], streak[i], quiet[i])
          /\ states \in [Instances -> Entry]
          /\ streak \in [Instances -> 0 .. FailureThreshold]
      BY DEF IInv, TypeOK, Entry
    <2>2. states[i] = NoState \/ states[i].state = "closed"
      BY DEF IsClosed, Is
    <2>3. states'[i] # NoState /\ states'[i].state = "open"
      BY DEF Is
    <2>4. ASSUME NEW j \in Instances,
                 Check(j) \/ TryAcquire(j) \/ Release(j) \/ RecordSuccess(j)
          PROVE  FALSE
      <3>1. states'[i] \in {states[i], AfterCheck(states[i]), AfterAcquire(states[i]),
                           AfterRelease(states[i]), AfterSuccess(states[i])}
        BY <2>1, <2>4 DEF Check, TryAcquire, Release, RecordSuccess
      <3> QED BY <2>1, <2>2, <2>3, <3>1, OnlyFailureOpens
    <2>5. ASSUME NEW j \in Instances, RecordFailure(j)
          PROVE  streak'[i] = FailureThreshold
      <3>1. j = i
        BY <2>1, <2>2, <2>3, <2>5 DEF RecordFailure
      <3>2. /\ states'[i] = AfterFailure(states[i])
            /\ streak'[i] = Saturate(streak[i], FailureThreshold)
        BY <2>1, <2>5, <3>1 DEF RecordFailure
      <3> QED BY <2>1, <2>2, <2>3, <3>2, OnlyFailureOpens
    <2>6. CASE Tick
      <3>1. states'[i] = AfterBreakerTick(states[i])
        BY <2>6 DEF Tick
      <3> QED BY <2>1, <2>2, <2>3, <3>1, OnlyFailureOpens
    <2> QED BY <2>4, <2>5, <2>6 DEF Next
  <1> QED BY <1>1, Invariance, PTL DEF Spec, TripsOnlyOnStreak

=============================================================================
