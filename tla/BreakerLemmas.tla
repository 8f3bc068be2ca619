--------------------------- MODULE BreakerLemmas ---------------------------
(***************************************************************************)
(* What the methods of Breaker do to a breaker's fields, for the proofs     *)
(* about the modules that run them.                                         *)
(***************************************************************************)
EXTENDS Breaker, TLAPS

LEMMA BreakerBounds ==
    /\ FailureThreshold \in Nat /\ FailureThreshold >= 1
    /\ Permits \in Nat /\ Permits >= 1
    /\ MaxTotal \in Nat /\ WaitTicks \in Nat /\ MinCalls \in Nat
  BY BreakerAssumption, SMT

\* One field at a time.
LEMMA FieldTypes ==
    ASSUME NEW c \in Breakers
    PROVE  /\ \A s \in {"CLOSED", "OPEN", "HALF_OPEN"} : [c EXCEPT !.st = s] \in Breakers
           /\ \A n \in Nat : [c EXCEPT !.failures = n] \in Breakers
           /\ \A n \in Nat : [c EXCEPT !.successes = n] \in Breakers
           /\ [c EXCEPT !.elapsed = 0] \in Breakers
           /\ [c EXCEPT !.permits = Permits] \in Breakers
<1>1. \A s \in {"CLOSED", "OPEN", "HALF_OPEN"} : [c EXCEPT !.st = s] \in Breakers
  BY SMT DEF Breakers
<1>2. /\ \A n \in Nat : [c EXCEPT !.failures = n] \in Breakers
      /\ \A n \in Nat : [c EXCEPT !.successes = n] \in Breakers
  BY SMT DEF Breakers
<1>3. [c EXCEPT !.elapsed = 0] \in Breakers
  BY BreakerBounds, SMT DEF Breakers
<1>4. [c EXCEPT !.permits = Permits] \in Breakers
  BY BreakerBounds, SMT DEF Breakers
<1> QED
  BY <1>1, <1>2, <1>3, <1>4

\* _transition_to keeps the types.
LEMMA TransitionType ==
    ASSUME NEW c \in Breakers
    PROVE  ToClosed(c) \in Breakers /\ ToOpen(c) \in Breakers /\ ToHalfOpen(c) \in Breakers
<1> DEFINE open == [[c EXCEPT !.st = "OPEN"] EXCEPT !.elapsed = 0]
           closed == [[[[c EXCEPT !.st = "CLOSED"] EXCEPT !.elapsed = 0]
                        EXCEPT !.failures = 0] EXCEPT !.successes = 0]
           half == [[[[c EXCEPT !.st = "HALF_OPEN"] EXCEPT !.elapsed = 0]
                      EXCEPT !.successes = 0] EXCEPT !.permits = Permits]
<1>1. ToOpen(c) = open /\ ToClosed(c) = closed /\ ToHalfOpen(c) = half
  BY DEF ToOpen, ToClosed, ToHalfOpen
<1>2. open \in Breakers
  BY FieldTypes
<1>3. closed \in Breakers
  <2>1. [[c EXCEPT !.st = "CLOSED"] EXCEPT !.elapsed = 0] \in Breakers
    BY FieldTypes
  <2> QED
    BY <2>1, FieldTypes
<1>4. half \in Breakers
  <2>1. [[c EXCEPT !.st = "HALF_OPEN"] EXCEPT !.elapsed = 0] \in Breakers
    BY FieldTypes
  <2> QED
    BY <2>1, FieldTypes
<1> QED
  BY <1>1, <1>2, <1>3, <1>4

\* Half of the threshold is at least 1 and at most the threshold.
LEMMA HalvedBound == Halved \in 1..FailureThreshold
  BY BreakerBounds, SMT DEF Halved, AtLeast

\* The threshold that _should_trip uses is at most the one without backpressure.
LEMMA EffectiveBound ==
    ASSUME NEW c \in Breakers
    PROVE  EffectiveThreshold(c) <= (IF c.errFlag THEN Halved ELSE FailureThreshold)
  BY BreakerBounds, HalvedBound, SMT DEF Breakers, EffectiveThreshold, AtLeast

\* Every method maps breakers to breakers.
LEMMA MethodTypes ==
    ASSUME NEW c \in Breakers
    PROVE  /\ Ripe(c) \in Breakers /\ AfterAcquire(c) \in Breakers
           /\ RecordSuccess(c) \in Breakers /\ RecordFailure(c) \in Breakers
           /\ ErrorFlagSet(c) \in Breakers /\ ErrorFlagCleared(c) \in Breakers
           /\ \A active \in BOOLEAN : Backpressure(c, active) \in Breakers
           /\ Aged(c) \in Breakers
<1>1. Ripe(c) \in Breakers
  BY TransitionType DEF Ripe
<1>2. AfterAcquire(c) \in Breakers
  BY <1>1, BreakerBounds, SMT DEF AfterAcquire, Breakers, AtLeast
<1>3. [c EXCEPT !.total = AtMost(@ + 1, MaxTotal)] \in Breakers
  BY BreakerBounds, SMT DEF Breakers, AtMost
<1>4. RecordSuccess(c) \in Breakers
  <2> DEFINE d == [c EXCEPT !.total = AtMost(@ + 1, MaxTotal)]
  <2>1. d \in Breakers /\ d.st = c.st
    BY <1>3, SMT DEF Breakers
  <2> HIDE DEF d
  <2>2. [d EXCEPT !.successes = @ + 1] \in Breakers
    BY <2>1, SMT DEF Breakers
  <2>3. [d EXCEPT !.failures = AtLeast(@ - 1, 0)] \in Breakers
    BY <2>1, SMT DEF Breakers, AtLeast
  <2> QED
    BY <2>1, <2>2, <2>3, TransitionType DEF RecordSuccess, d
<1>5. RecordFailure(c) \in Breakers
  <2> DEFINE d == [c EXCEPT !.total = AtMost(@ + 1, MaxTotal)]
  <2>1. d \in Breakers
    BY <1>3
  <2> HIDE DEF d
  <2>2. [d EXCEPT !.failures = @ + 1] \in Breakers
    BY <2>1, SMT DEF Breakers
  <2> QED
    BY <2>1, <2>2, TransitionType DEF RecordFailure, d
<1>6. ErrorFlagSet(c) \in Breakers /\ ErrorFlagCleared(c) \in Breakers
  <2>1. \A f \in BOOLEAN : [c EXCEPT !.errFlag = f] \in Breakers
    BY SMT DEF Breakers
  <2> QED
    BY <2>1, TransitionType DEF ErrorFlagSet, ErrorFlagCleared
<1>7. (\A active \in BOOLEAN : Backpressure(c, active) \in Breakers) /\ Aged(c) \in Breakers
  BY BreakerBounds, SMT DEF Backpressure, Aged, Breakers, AtMost
<1> QED
  BY <1>1, <1>2, <1>4, <1>5, <1>6, <1>7

\* What try_acquire answers agrees with the state it leaves the breaker in: a
\* call is never allowed by a breaker that stays open, and never refused by a
\* closed one.
LEMMA AcquireState ==
    ASSUME NEW c \in Breakers
    PROVE  /\ Allowed(c) => AfterAcquire(c).st # "OPEN"
           /\ ~Allowed(c) => AfterAcquire(c).st # "CLOSED"
<1>1. Ripe(c) \in Breakers
  BY MethodTypes
<1>2. AfterAcquire(c).st = Ripe(c).st
  BY <1>1, SMT DEF AfterAcquire, Breakers
<1> QED
  BY <1>1, <1>2 DEF Allowed
=============================================================================
