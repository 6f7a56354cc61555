------------------------ MODULE RateLimitStateProofs ------------------------
(***************************************************************************)
(* Proofs about RateLimitState for any instances, models, ttl and          *)
(* retry-after values.                                                     *)
(***************************************************************************)
EXTENDS RateLimitState, TLAPS

Clock == {Never} \cup 0 .. Ttl

\* What an instance entry e owes to the history: r is the age of the last
\* disabling, o the cooldown still owed.
InstanceMatches(e, r, o) ==
    /\ r \in 0 .. Ttl - 1 => /\ e # NoEntry
                             /\ e.status = "DISABLED"
                             /\ e.ttl_left + r = Ttl
    /\ o > 0 => /\ e # NoEntry
                /\ e.status = "RATE_LIMITED"
                /\ e.cooldown_left >= o
                /\ e.ttl_left >= o

\* What a model entry owes to it: f is the age of the unsupported mark.
ModelMatches(e, f) ==
    f \in 0 .. Ttl - 1 => /\ e # NoEntry
                          /\ e.unsupported = TRUE
                          /\ e.ttl_left + f = Ttl

IInv ==
    /\ TypeOK
    /\ \A i \in Instances : InstanceMatches(instances[i], revoked[i], owed[i])
    /\ \A p \in Pairs : ModelMatches(models[p], refused[p])

InstanceEntry == InstanceState \cup {NoEntry}
ModelEntry == ModelState \cup {NoEntry}

---------------------------------------------------------------------------
\* An entry of the instance table is not the absence of one, and back.
LEMMA EntriesAreNotNoEntry ==
    /\ \A e \in InstanceState : e # NoEntry
    /\ \A e \in ModelState : e # NoEntry
  BY NoEntryAssumption

\* Every method of the instance table keeps what is owed.
LEMMA InstanceLemma ==
    ASSUME NEW e \in InstanceEntry, NEW r \in Clock, NEW o \in 0 .. Ttl, NEW n \in Nat,
           InstanceMatches(e, r, o)
    PROVE  /\ DropExpiredInstance(e) \in InstanceEntry
           /\ InstanceMatches(DropExpiredInstance(e), r, o)
           /\ LimitInstance(e, n) \in InstanceEntry
           /\ LET oo == IF InstanceStatus(e) = "DISABLED" THEN o
                        ELSE IF n < Ttl THEN n ELSE Ttl
              IN  oo \in 0 .. Ttl /\ InstanceMatches(LimitInstance(e, n), r, oo)
           /\ DisableInstance(e) \in InstanceEntry
           /\ InstanceMatches(DisableInstance(e), 0, 0)
           /\ ReactivateInstance(e) \in InstanceEntry
           /\ InstanceMatches(ReactivateInstance(e), Never, 0)
           /\ ClearInstanceCooldown(e) \in InstanceEntry
           /\ InstanceMatches(ClearInstanceCooldown(e), r, 0)
  <1> USE EntriesAreNotNoEntry, TtlAssumption DEF InstanceEntry, InstanceState, Clock, Never
  <1>1. /\ DropExpiredInstance(e) \in InstanceEntry
        /\ InstanceMatches(DropExpiredInstance(e), r, o)
    BY DEF DropExpiredInstance, InstanceMatches
  <1>2. LimitInstance(e, n) \in InstanceEntry
    BY DEF LimitInstance
  <1>3. LET oo == IF InstanceStatus(e) = "DISABLED" THEN o
                  ELSE IF n < Ttl THEN n ELSE Ttl
        IN  oo \in 0 .. Ttl /\ InstanceMatches(LimitInstance(e, n), r, oo)
    BY DEF LimitInstance, InstanceMatches, InstanceStatus
  <1>4. DisableInstance(e) \in InstanceEntry /\ InstanceMatches(DisableInstance(e), 0, 0)
    BY DEF DisableInstance, InstanceMatches
  <1>5. /\ ReactivateInstance(e) \in InstanceEntry
        /\ InstanceMatches(ReactivateInstance(e), Never, 0)
    BY DEF ReactivateInstance, InstanceMatches
  <1>6. /\ ClearInstanceCooldown(e) \in InstanceEntry
        /\ InstanceMatches(ClearInstanceCooldown(e), r, 0)
    BY DEF ClearInstanceCooldown, InstanceMatches
  <1> QED BY <1>1, <1>2, <1>3, <1>4, <1>5, <1>6

\* Time shortens the entry's life and what is owed together.
LEMMA InstanceTickLemma ==
    ASSUME NEW e \in InstanceEntry, NEW r \in Clock, NEW o \in 0 .. Ttl,
           InstanceMatches(e, r, o)
    PROVE  LET oo == IF o > 0 THEN o - 1 ELSE 0
           IN  /\ Age(Cool(e)) \in InstanceEntry
               /\ Older(r) \in Clock
               /\ oo \in 0 .. Ttl
               /\ InstanceMatches(Age(Cool(e)), Older(r), oo)
  <1> DEFINE c == Cool(e)
             oo == IF o > 0 THEN o - 1 ELSE 0
  <1>1. CASE e = NoEntry
    <2>1. Age(c) = NoEntry
      BY <1>1 DEF Cool, Age
    <2> QED BY <1>1, <2>1, TtlAssumption
            DEF InstanceMatches, InstanceEntry, Older, Clock, Never
  <1>2. CASE e # NoEntry
    <2>1. /\ c \in InstanceState
          /\ c.status = e.status
          /\ c.ttl_left = e.ttl_left
          /\ o > 0 => c.cooldown_left >= o - 1
      BY <1>2, TtlAssumption DEF Cool, InstanceEntry, InstanceState, InstanceMatches
    <2>2. c # NoEntry
      BY <2>1, EntriesAreNotNoEntry
    <2> HIDE DEF c
    <2>3. CASE c.ttl_left <= 1
      <3>1. Age(c) = NoEntry
        BY <2>3 DEF Age
      <3> QED BY <1>2, <2>1, <2>3, <3>1, TtlAssumption
              DEF c, InstanceMatches, InstanceEntry, InstanceState, Older, Clock, Never
    <2>4. CASE ~(c.ttl_left <= 1)
      <3>1. /\ Age(c) \in InstanceState
            /\ Age(c).status = e.status
            /\ Age(c).ttl_left = e.ttl_left - 1
            /\ o > 0 => Age(c).cooldown_left >= o - 1
        BY <2>1, <2>2, <2>4 DEF Age, InstanceState
      <3>2. Age(c) # NoEntry
        BY <3>1, EntriesAreNotNoEntry
      <3>3. e.ttl_left \in Nat
        BY <1>2 DEF InstanceEntry, InstanceState
      <3> QED BY <1>2, <3>1, <3>2, <3>3, TtlAssumption
              DEF c, InstanceMatches, InstanceEntry, Older, Clock, Never
    <2> QED BY <2>3, <2>4
  <1> QED BY <1>1, <1>2

\* Every method of the model table keeps the mark, or clears it on request.
LEMMA ModelLemma ==
    ASSUME NEW e \in ModelEntry, NEW f \in Clock, NEW n \in Nat, ModelMatches(e, f)
    PROVE  /\ DropExpiredModel(e) \in ModelEntry
           /\ ModelMatches(DropExpiredModel(e), f)
           /\ LimitModel(e, n) \in ModelEntry
           /\ ModelMatches(LimitModel(e, n), f)
           /\ MarkUnsupported(e) \in ModelEntry
           /\ ModelMatches(MarkUnsupported(e), 0)
           /\ ClearUnsupported(e) \in ModelEntry
           /\ ModelMatches(ClearUnsupported(e), Never)
           /\ ClearModelCooldown(e) \in ModelEntry
           /\ ModelMatches(ClearModelCooldown(e), f)
  <1> USE EntriesAreNotNoEntry, TtlAssumption DEF ModelEntry, ModelState, Clock, Never
  <1>1. DropExpiredModel(e) \in ModelEntry /\ ModelMatches(DropExpiredModel(e), f)
    BY DEF DropExpiredModel, ModelMatches
  <1>2. LimitModel(e, n) \in ModelEntry /\ ModelMatches(LimitModel(e, n), f)
    BY DEF LimitModel, ModelMatches
  <1>3. MarkUnsupported(e) \in ModelEntry /\ ModelMatches(MarkUnsupported(e), 0)
    <2>1. PICK b \in BOOLEAN : b = (e # NoEntry /\ e.retried)
      BY Zenon
    <2>2. MarkUnsupported(e) = [cooling |-> FALSE, cooldown_left |-> 0, retried |-> b,
                                unsupported |-> TRUE, ttl_left |-> Ttl]
      BY <2>1, Zenon DEF MarkUnsupported
    <2> DEFINE r == [cooling |-> FALSE, cooldown_left |-> 0, retried |-> b,
                     unsupported |-> TRUE, ttl_left |-> Ttl]
    <2>3. r \in ModelState
      BY TtlAssumption
    <2>4. r.unsupported = TRUE /\ r.ttl_left = Ttl
      BY Zenon
    <2>5. r # NoEntry
      BY <2>3
    <2> HIDE DEF r
    <2>6. ModelMatches(r, 0)
      BY <2>4, <2>5, TtlAssumption DEF ModelMatches
    <2> QED BY <2>2, <2>3, <2>6, Zenon DEF r
  <1>4. ClearUnsupported(e) \in ModelEntry /\ ModelMatches(ClearUnsupported(e), Never)
    <2>1. ModelMatches(ClearUnsupported(e), Never)
      BY DEF ModelMatches
    <2>2. CASE e = NoEntry \/ ~e.unsupported
      BY <2>1, <2>2 DEF ClearUnsupported
    <2>3. CASE ~(e = NoEntry \/ ~e.unsupported)
      <3>1. CASE ~e.cooling /\ ~e.retried
        BY <2>1, <2>3, <3>1 DEF ClearUnsupported
      <3>2. CASE ~(~e.cooling /\ ~e.retried)
        <4>1. ClearUnsupported(e) =
                [cooling |-> e.cooling, cooldown_left |-> e.cooldown_left,
                 retried |-> e.retried, unsupported |-> FALSE, ttl_left |-> Ttl]
          BY <2>3, <3>2, Zenon DEF ClearUnsupported
        <4>2. e \in ModelState /\ Ttl \in Nat
          BY <2>3
        <4>3. [cooling |-> e.cooling, cooldown_left |-> e.cooldown_left,
               retried |-> e.retried, unsupported |-> FALSE, ttl_left |-> Ttl] \in ModelState
          BY <4>2
        <4> QED BY <2>1, <4>1, <4>3
      <3> QED BY <3>1, <3>2
    <2> QED BY <2>2, <2>3
  <1>5. ClearModelCooldown(e) \in ModelEntry /\ ModelMatches(ClearModelCooldown(e), f)
    BY DEF ClearModelCooldown, ModelMatches
  <1> QED BY <1>1, <1>2, <1>3, <1>4, <1>5

\* Time shortens the life of the entry and of its mark together.
LEMMA ModelTickLemma ==
    ASSUME NEW e \in ModelEntry, NEW f \in Clock, ModelMatches(e, f)
    PROVE  /\ Age(Cool(e)) \in ModelEntry
           /\ Older(f) \in Clock
           /\ ModelMatches(Age(Cool(e)), Older(f))
  <1> DEFINE c == Cool(e)
  <1>1. CASE e = NoEntry
    <2>1. Age(c) = NoEntry
      BY <1>1 DEF Cool, Age
    <2> QED BY <1>1, <2>1, TtlAssumption DEF ModelMatches, ModelEntry, Older, Clock, Never
  <1>2. CASE e # NoEntry
    <2>1. /\ c \in ModelState
          /\ c.unsupported = e.unsupported
          /\ c.ttl_left = e.ttl_left
      BY <1>2 DEF Cool, ModelEntry, ModelState
    <2>2. c # NoEntry
      BY <2>1, EntriesAreNotNoEntry
    <2> HIDE DEF c
    <2>3. CASE c.ttl_left <= 1
      <3>1. Age(c) = NoEntry
        BY <2>3 DEF Age
      <3> QED BY <1>2, <2>1, <2>3, <3>1, TtlAssumption
              DEF c, ModelMatches, ModelEntry, ModelState, Older, Clock, Never
    <2>4. CASE ~(c.ttl_left <= 1)
      <3>1. /\ Age(c) \in ModelState
            /\ Age(c).unsupported = e.unsupported
            /\ Age(c).ttl_left = e.ttl_left - 1
        BY <2>1, <2>2, <2>4 DEF Age, ModelState
      <3>2. Age(c) # NoEntry
        BY <3>1, EntriesAreNotNoEntry
      <3>3. e.ttl_left \in Nat
        BY <1>2 DEF ModelEntry, ModelState
      <3> QED BY <1>2, <3>1, <3>2, <3>3, TtlAssumption
              DEF c, ModelMatches, ModelEntry, Older, Clock, Never
    <2> QED BY <2>3, <2>4
  <1> QED BY <1>1, <1>2

---------------------------------------------------------------------------
\* Nothing is remembered and nothing is stored at start-up.
LEMMA InitIInv == Init => IInv
  BY TtlAssumption DEF Init, IInv, TypeOK, InstanceMatches, ModelMatches, Never

\* Every call and every tick preserves the inductive invariant.
LEMMA NextIInv == IInv /\ [Next]_vars => IInv'
  <1> SUFFICES ASSUME IInv, [Next]_vars PROVE IInv'
    OBVIOUS
  <1>0. /\ instances \in [Instances -> InstanceEntry]
        /\ models \in [Pairs -> ModelEntry]
        /\ revoked \in [Instances -> Clock]
        /\ owed \in [Instances -> 0 .. Ttl]
        /\ refused \in [Pairs -> Clock]
        /\ \A i \in Instances : InstanceMatches(instances[i], revoked[i], owed[i])
        /\ \A p \in Pairs : ModelMatches(models[p], refused[p])
    BY DEF IInv, TypeOK, InstanceEntry, ModelEntry, Clock
  <1> DEFINE Goal ==
        /\ instances' \in [Instances -> InstanceEntry]
        /\ models' \in [Pairs -> ModelEntry]
        /\ revoked' \in [Instances -> Clock]
        /\ owed' \in [Instances -> 0 .. Ttl]
        /\ refused' \in [Pairs -> Clock]
        /\ \A i \in Instances : InstanceMatches(instances'[i], revoked'[i], owed'[i])
        /\ \A p \in Pairs : ModelMatches(models'[p], refused'[p])
  <1> SUFFICES Goal
    BY DEF IInv, TypeOK, InstanceEntry, ModelEntry, Clock
  <1>a. 0 \in Clock /\ Never \in Clock /\ 0 \in 0 .. Ttl /\ 0 \in Nat
    BY TtlAssumption DEF Clock
  <1>b. \A i \in Instances, m \in Models : <<i, m>> \in Pairs
    BY DEF Pairs
  <1>c. \A n \in RetryAfters : n \in Nat
    BY RetryAftersAssumption
  <1>1. ASSUME NEW i \in Instances, NEW m \in Models, CheckAvailability(i, m) PROVE Goal
    BY <1>0, <1>1, <1>a, <1>b, InstanceLemma, ModelLemma DEF CheckAvailability
  <1>2. ASSUME NEW i \in Instances, NEW n \in RetryAfters, SetInstanceCooldown(i, n)
        PROVE Goal
    BY <1>0, <1>2, <1>c, InstanceLemma DEF SetInstanceCooldown
  <1>3. ASSUME NEW i \in Instances, Disable(i) PROVE Goal
    BY <1>0, <1>3, <1>a, InstanceLemma DEF Disable
  <1>4. ASSUME NEW i \in Instances, NEW c \in BOOLEAN, Reactivate(i, c) PROVE Goal
    <2>1. /\ instances' \in [Instances -> InstanceEntry]
          /\ revoked' \in [Instances -> Clock]
          /\ owed' \in [Instances -> 0 .. Ttl]
          /\ \A j \in Instances : InstanceMatches(instances'[j], revoked'[j], owed'[j])
      BY <1>0, <1>4, <1>a, InstanceLemma DEF Reactivate
    <2>2. /\ models' \in [Pairs -> ModelEntry]
          /\ refused' \in [Pairs -> Clock]
          /\ \A p \in Pairs : ModelMatches(models'[p], refused'[p])
      BY <1>0, <1>4, <1>a, ModelLemma DEF Reactivate
    <2> QED BY <2>1, <2>2
  <1>5. ASSUME NEW i \in Instances, NEW m \in Models, NEW n \in RetryAfters,
               SetModelCooldown(i, m, n)
        PROVE Goal
    BY <1>0, <1>5, <1>b, <1>c, ModelLemma DEF SetModelCooldown
  <1>6. ASSUME NEW i \in Instances, NEW m \in Models, MarkModelUnsupported(i, m) PROVE Goal
    BY <1>0, <1>6, <1>a, <1>b, ModelLemma DEF MarkModelUnsupported
  <1>7. ASSUME NEW i \in Instances, NEW m \in Models, RecordSuccess(i, m) PROVE Goal
    BY <1>0, <1>7, <1>a, <1>b, ModelLemma DEF RecordSuccess
  <1>8. ASSUME NEW i \in Instances, ClearCooldown(i) PROVE Goal
    BY <1>0, <1>8, <1>a, InstanceLemma DEF ClearCooldown
  <1>9. CASE Tick
    <2>1. /\ instances' \in [Instances -> InstanceEntry]
          /\ revoked' \in [Instances -> Clock]
          /\ owed' \in [Instances -> 0 .. Ttl]
          /\ \A j \in Instances : InstanceMatches(instances'[j], revoked'[j], owed'[j])
      BY <1>0, <1>9, InstanceTickLemma DEF Tick
    <2>2. /\ models' \in [Pairs -> ModelEntry]
          /\ refused' \in [Pairs -> Clock]
          /\ \A p \in Pairs : ModelMatches(models'[p], refused'[p])
      BY <1>0, <1>9, ModelTickLemma DEF Tick
    <2> QED BY <2>1, <2>2
  <1>10. CASE UNCHANGED vars
    BY <1>0, <1>10 DEF vars
  <1> QED
    BY <1>1, <1>2, <1>3, <1>4, <1>5, <1>6, <1>7, <1>8, <1>9, <1>10 DEF Next

\* IInv is an invariant of the specification.
THEOREM Invariance == Spec => []IInv
  BY InitIInv, NextIInv, PTL DEF Spec

\* Type correctness of both tables.
THEOREM TypeCorrectness == Spec => []TypeOK
  <1>1. IInv => TypeOK
    BY DEF IInv
  <1> QED BY <1>1, Invariance, PTL

\* Nothing but time and the operator revives a disabled instance.
THEOREM DisabledInstancesStay == Spec => []DisabledSticks
  <1>1. IInv => DisabledSticks
    BY DEF IInv, InstanceMatches, DisabledSticks, InstanceStatus
  <1> QED BY <1>1, Invariance, PTL

\* An instance-wide cooldown is served in full, up to the ttl.
THEOREM CooldownsAreServed == Spec => []CooldownServed
  <1>1. IInv => CooldownServed
    <2> SUFFICES ASSUME IInv, NEW i \in Instances, owed[i] > 0
                 PROVE  InstanceStatus(instances[i]) # "ACTIVE"
      BY DEF CooldownServed
    <2>1. owed[i] \in 0 .. Ttl /\ InstanceMatches(instances[i], revoked[i], owed[i])
      BY DEF IInv, TypeOK
    <2>2. instances[i] \in InstanceState \cup {NoEntry}
      BY DEF IInv, TypeOK
    <2> QED BY <2>1, <2>2, TtlAssumption DEF InstanceMatches, InstanceStatus, InstanceState
  <1> QED BY <1>1, Invariance, PTL

\* Nothing but time and the operator clears an unsupported mark.
THEOREM UnsupportedMarksStay == Spec => []UnsupportedSticks
  <1>1. IInv => UnsupportedSticks
    BY DEF IInv, ModelMatches, UnsupportedSticks, ModelAvailable
  <1> QED BY <1>1, Invariance, PTL

=============================================================================
