------------------------ MODULE CircuitBreakerProofs ------------------------
(***************************************************************************)
(* Proofs about CircuitBreaker, for every configuration and any number of   *)
(* concurrent callers.                                                      *)
(***************************************************************************)
EXTENDS CircuitBreaker, BreakerLemmas

\* The permits taken and the permits left of a half-open episode add up, and
\* the episode is over as soon as it has successes enough.
Accounts ==
    /\ b.st = "HALF_OPEN" => admitted + AtLeast(b.permits, 0) = Permits
    /\ b.st # "HALF_OPEN" => admitted = 0

IInv == TypeOK /\ ClosedIsBelowThreshold /\ Accounts /\ CanDecide

-----------------------------------------------------------------------------
(***************************************************************************)
(* What the methods do to the breaker.                                      *)
(***************************************************************************)

LEMMA Bounds ==
    /\ FailureThreshold \in Nat /\ FailureThreshold >= 1
    /\ Permits \in Nat /\ Permits >= 1
    /\ MaxTotal \in Nat /\ WaitTicks \in Nat /\ MinCalls \in Nat /\ MaxCalls \in Nat
  BY BreakerBounds, CallsAssumption

\* A method other than try_acquire leaves a breaker that was half open either
\* as it was in what Accounts speaks of, or not half open; and it makes one half
\* open only with all permits and no success.
Quiet(c) ==
    /\ c.st = "HALF_OPEN" /\ b.st = "HALF_OPEN" => c.permits = b.permits
    /\ c.st = "HALF_OPEN" /\ b.st # "HALF_OPEN" => c.permits = Permits /\ c.successes = 0

LEMMA QuietMethods ==
    ASSUME TypeOK
    PROVE  /\ Quiet(RecordSuccess(b)) /\ Quiet(RecordFailure(b))
           /\ Quiet(ErrorFlagSet(b)) /\ Quiet(ErrorFlagCleared(b))
           /\ \A active \in BOOLEAN : Quiet(Backpressure(b, active))
           /\ Quiet(Aged(b))
<1> USE DEF TypeOK, Breakers, Quiet, ToClosed, ToOpen, ToHalfOpen
<1>1. Quiet(RecordSuccess(b))
  BY SMT DEF RecordSuccess
<1>2. Quiet(RecordFailure(b))
  BY SMT DEF RecordFailure
<1>3. Quiet(ErrorFlagSet(b)) /\ Quiet(ErrorFlagCleared(b))
  BY SMT DEF ErrorFlagSet, ErrorFlagCleared
<1>4. (\A active \in BOOLEAN : Quiet(Backpressure(b, active))) /\ Quiet(Aged(b))
  BY SMT DEF Backpressure, Aged
<1> QED
  BY <1>1, <1>2, <1>3, <1>4

\* The successes of a half-open breaker change only by RecordSuccess, one at a
\* time.
LEMMA SuccessCount ==
    ASSUME TypeOK, b.st = "HALF_OPEN"
    PROVE  /\ RecordSuccess(b).st = "HALF_OPEN" => RecordSuccess(b).successes = b.successes + 1
           /\ RecordFailure(b).st # "HALF_OPEN"
           /\ ErrorFlagSet(b).successes = b.successes
           /\ ErrorFlagCleared(b).successes = b.successes
           /\ \A active \in BOOLEAN : Backpressure(b, active).successes = b.successes
           /\ Aged(b).successes = b.successes
<1> USE DEF TypeOK, Breakers, ToClosed, ToOpen, ToHalfOpen
<1>1. RecordSuccess(b).st = "HALF_OPEN" => RecordSuccess(b).successes = b.successes + 1
  BY SMT DEF RecordSuccess
<1>2. RecordFailure(b).st # "HALF_OPEN"
  <2>1. RecordFailure(b) = ToOpen([b EXCEPT !.total = AtMost(@ + 1, MaxTotal)])
    BY DEF RecordFailure
  <2> QED
    BY <2>1, SMT
<1>3. ErrorFlagSet(b).successes = b.successes /\ ErrorFlagCleared(b).successes = b.successes
  BY SMT DEF ErrorFlagSet, ErrorFlagCleared
<1>4. /\ \A active \in BOOLEAN : Backpressure(b, active).successes = b.successes
      /\ Aged(b).successes = b.successes
  BY SMT DEF Backpressure, Aged
<1> QED
  BY <1>1, <1>2, <1>3, <1>4

-----------------------------------------------------------------------------
(***************************************************************************)
(* Each part of the invariant.                                              *)
(***************************************************************************)

\* What the breaker becomes when it steps, without try_acquire.
Method(c) ==
    \/ c = RecordSuccess(b) \/ c = RecordFailure(b)
    \/ c = ErrorFlagSet(b) \/ c = ErrorFlagCleared(b)
    \/ \E active \in BOOLEAN : c = Backpressure(b, active)
    \/ c = Aged(b)

Ending == /\ b' = RecordSuccess(b) \/ b' = RecordFailure(b)
          /\ inflight > 0
          /\ inflight' = inflight - 1

Signalled == /\ \/ b' = ErrorFlagSet(b) \/ b' = ErrorFlagCleared(b)
                \/ \E active \in BOOLEAN : b' = Backpressure(b, active)
                \/ b' = Aged(b)
             /\ inflight' = inflight

LEMMA StepCases ==
    ASSUME Next
    PROVE  Call \/ Refused \/ (Step(b', 0) /\ (Ending \/ Signalled))
  BY DEF Next, Success, Failure, Signal, Tick, Step, Ending, Signalled

LEMMA ClosedKept ==
    ASSUME TypeOK, ClosedIsBelowThreshold,
           Method(b') \/ b' = AfterAcquire(b)
    PROVE  ClosedIsBelowThreshold'
<1> USE HalvedBound, Bounds
        DEF TypeOK, Breakers, ClosedIsBelowThreshold, ToClosed, ToOpen, ToHalfOpen
<1>1. CASE b' = RecordSuccess(b)
  BY <1>1, SMT DEF RecordSuccess, AtLeast
<1>2. CASE b' = RecordFailure(b)
  <2> DEFINE e == [b EXCEPT !.total = AtMost(@ + 1, MaxTotal)]
             d == [e EXCEPT !.failures = @ + 1]
  <2>0. e \in Breakers /\ e.errFlag = b.errFlag /\ e.failures = b.failures
    BY SMT DEF AtMost
  <2>4. b.st = "CLOSED" => b' = (IF ShouldTrip(d) THEN ToOpen(d) ELSE d)
    BY <1>2 DEF RecordFailure
  <2> HIDE DEF e
  <2>1. d \in Breakers /\ d.errFlag = b.errFlag /\ d.failures = b.failures + 1
    BY <2>0, SMT
  <2>2. ~ShouldTrip(d) => d.failures < EffectiveThreshold(d)
    <3>1. EffectiveThreshold(d) \in Int
      BY <2>1, SMT DEF EffectiveThreshold, AtLeast
    <3> QED
      BY <2>1, <3>1, SMT DEF ShouldTrip
  <2>3. ~ShouldTrip(d) =>
           d.failures < (IF b.errFlag THEN Halved ELSE FailureThreshold)
    <3>1. EffectiveThreshold(d) <= (IF d.errFlag THEN Halved ELSE FailureThreshold)
      BY <2>1, EffectiveBound
    <3>2. EffectiveThreshold(d) \in Int
      BY <2>1, SMT DEF EffectiveThreshold, AtLeast
    <3> QED
      BY <2>1, <2>2, <3>1, <3>2, SMT
  <2>5. b.st # "CLOSED" => b'.st # "CLOSED"
    BY <1>2, SMT DEF RecordFailure
  <2> HIDE DEF d
  <2>6. CASE b.st = "CLOSED" /\ ~ShouldTrip(d)
    BY <2>1, <2>3, <2>4, <2>6, SMT
  <2>7. CASE b.st = "CLOSED" /\ ShouldTrip(d)
    <3>1. b' = ToOpen(d)
      BY <2>4, <2>7
    <3>2. ToOpen(d).st = "OPEN"
      BY <2>1, SMT
    <3> QED
      BY <3>1, <3>2
  <2> QED
    BY <2>5, <2>6, <2>7
<1>3. CASE b' = ErrorFlagSet(b)
  BY <1>3, SMT DEF ErrorFlagSet
<1>6. CASE b' = ErrorFlagCleared(b)
  BY <1>6, SMT DEF ErrorFlagCleared
<1>4. CASE (\E active \in BOOLEAN : b' = Backpressure(b, active)) \/ b' = Aged(b)
  BY <1>4, SMT DEF Backpressure, Aged
<1>5. CASE b' = AfterAcquire(b)
  BY <1>5, SMT DEF AfterAcquire, Ripe
<1> QED
  BY <1>1, <1>2, <1>3, <1>4, <1>5, <1>6 DEF Method

\* try_acquire takes one permit of a half-open breaker, if one is left.
LEMMA AcquireEffect ==
    ASSUME TypeOK
    PROVE  /\ AfterAcquire(b).st = "HALF_OPEN" <=> Ripe(b).st = "HALF_OPEN"
           /\ b.st = "HALF_OPEN" => Ripe(b) = b
           /\ b.st # "HALF_OPEN" /\ Ripe(b).st = "HALF_OPEN" =>
                 Ripe(b).permits = Permits /\ Ripe(b).successes = 0
           /\ Ripe(b).st = "HALF_OPEN" =>
                 /\ AfterAcquire(b).permits = AtLeast(Ripe(b).permits - 1, -1)
                 /\ AfterAcquire(b).successes = Ripe(b).successes
  BY Bounds, SMT DEF TypeOK, Breakers, AfterAcquire, Ripe, ToHalfOpen

LEMMA AccountsKept ==
    ASSUME IInv, Next
    PROVE  Accounts' /\ CanDecide' /\ inflight' \in 0..MaxCalls /\ admitted' \in Nat
<1> USE Bounds DEF IInv
<1>0. /\ b.st \in {"CLOSED", "OPEN", "HALF_OPEN"} /\ b.successes \in Nat
      /\ b.permits \in -1..Permits /\ Ripe(b).permits \in -1..Permits
      /\ Ripe(b).successes \in Nat
      /\ inflight \in 0..MaxCalls /\ admitted \in Nat
  BY MethodTypes, SMT DEF TypeOK, Breakers
<1>1. CASE Call
  BY <1>0, <1>1, AcquireEffect, SMT
  DEF Call, Step, Admitted, Allowed, AtLeast, Accounts, CanDecide
<1>2. CASE Refused
  BY <1>0, <1>2, AcquireEffect, SMT
  DEF Refused, Step, Admitted, Allowed, AtLeast, Accounts, CanDecide
<1>3. CASE Step(b', 0) /\ (Ending \/ Signalled)
  <2>0. Method(b')
    BY <1>3 DEF Ending, Signalled, Method
  <2>1. Quiet(b')
    BY <2>0, QuietMethods DEF Method
  <2>2. b'.permits \in -1..Permits /\ b'.successes \in Nat
    BY <2>0, MethodTypes, SMT DEF Method, TypeOK, Breakers
  <2>3. b.st = "HALF_OPEN" /\ b'.st = "HALF_OPEN" =>
           \/ b'.successes = b.successes + 1 /\ inflight' = inflight - 1
           \/ b'.successes = b.successes /\ inflight' = inflight
    BY <1>3, SuccessCount DEF Ending, Signalled
  <2>4. inflight' \in 0..MaxCalls
    BY <1>0, <1>3, SMT DEF Ending, Signalled
  <2>5. Accounts' /\ admitted' \in Nat
    BY <1>0, <1>3, <2>1, SMT DEF Quiet, Step, Admitted, Accounts, AtLeast
  <2>6. CanDecide'
    BY <1>0, <2>1, <2>2, <2>3, <2>4, SMT DEF Quiet, CanDecide, AtLeast
  <2> QED
    BY <2>4, <2>5, <2>6
<1> QED
  BY <1>1, <1>2, <1>3, StepCases

LEMMA InitInv == Init => IInv
  BY Bounds, HalvedBound, SMT
  DEF Init, IInv, TypeOK, Breakers, NewBreaker, ClosedIsBelowThreshold, Accounts,
      CanDecide

LEMMA StepInv == IInv /\ [Next]_vars => IInv'
<1>1. ASSUME IInv, Next
      PROVE  IInv'
  <2>1. Method(b') \/ b' = AfterAcquire(b)
    BY <1>1, StepCases DEF Call, Refused, Step, Ending, Signalled, Method
  <2>2. b' \in Breakers
    BY <1>1, <2>1, MethodTypes DEF IInv, TypeOK, Method
  <2> QED
    BY <1>1, <2>1, <2>2, ClosedKept, AccountsKept DEF IInv, TypeOK
<1>2. ASSUME IInv, UNCHANGED vars
      PROVE  IInv'
  BY <1>2 DEF vars, IInv, TypeOK, ClosedIsBelowThreshold, Accounts, CanDecide
<1> QED
  BY <1>1, <1>2

LEMMA Invariant == Spec => []IInv
  BY InitInv, StepInv, PTL DEF Spec

\* The fields of the breaker keep their types and the counters their bounds.
THEOREM TypeCorrect == Spec => []TypeOK
<1>1. IInv => TypeOK
  BY DEF IInv
<1> QED
  BY Invariant, <1>1, PTL

\* A closed breaker is always below failure_threshold, and below half of it while the
\* remote error flag is set; backpressure's reduction is no part of the bound.
THEOREM ClosedStaysBelow == Spec => []ClosedIsBelowThreshold
<1>1. IInv => ClosedIsBelowThreshold
  BY DEF IInv
<1> QED
  BY Invariant, <1>1, PTL

\* One recovery is tested by at most permitted_calls_in_half_open calls.
THEOREM ProbesAreLimited == Spec => []ProbesLimited
<1>1. IInv => ProbesLimited
  BY Bounds, SMT DEF IInv, TypeOK, Breakers, Accounts, ProbesLimited, AtLeast
<1> QED
  BY Invariant, <1>1, PTL

\* A half-open breaker never runs out of chances to decide, as long as every
\* caller that was allowed records how its call ended.
THEOREM AlwaysDecidable == Spec => []CanDecide
<1>1. IInv => CanDecide
  BY DEF IInv
<1> QED
  BY Invariant, <1>1, PTL
=============================================================================
