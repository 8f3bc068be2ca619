------------------------------- MODULE Breaker -------------------------------
(***************************************************************************)
(* The methods of CircuitBreaker (circuit_breaker.py) as operators on the   *)
(* breaker's fields.  CircuitBreaker.tla and BreakerSelection.tla run them. *)
(* A definition without a comment of its own, placed before the one it      *)
(* alters, is a seeded mistake (README, "Seeded mistakes").                 *)
(***************************************************************************)
EXTENDS Integers

CONSTANTS
    FailureThreshold,  \* failure_threshold
    RateNum, RateDen,  \* failure_rate_threshold, as a fraction
    MinCalls,          \* minimum_calls_before_trip
    MaxTotal,          \* total_requests is counted up to this bound
    WaitTicks,         \* wait_duration_in_open_state_ms, in ticks
    Permits            \* permitted_calls_in_half_open

\* From MaxTotal on, a failure rate that reaches the threshold means that the
\* count has reached it too, so the exact total no longer matters.
ASSUME BreakerAssumption ==
    /\ {FailureThreshold, RateNum, RateDen, Permits} \subseteq Nat \ {0}
    /\ {MinCalls, MaxTotal, WaitTicks} \subseteq Nat
    /\ MinCalls <= MaxTotal
    /\ FailureThreshold * RateDen <= MaxTotal * RateNum

AtMost(n, bound) == IF n > bound THEN bound ELSE n
AtLeast(n, bound) == IF n < bound THEN bound ELSE n

\* permits is half_open_permits, which refused callers keep decrementing: every
\* negative value is -1 here.  elapsed is the time since the last transition.
Breakers ==
    [st : {"CLOSED", "OPEN", "HALF_OPEN"},
     failures : Nat, successes : Nat, total : 0..MaxTotal,
     permits : -1..Permits, elapsed : 0..WaitTicks,
     errFlag : BOOLEAN, bp : BOOLEAN]

NewBreaker ==
    [st |-> "CLOSED", failures |-> 0, successes |-> 0, total |-> 0,
     permits |-> 0, elapsed |-> 0, errFlag |-> FALSE, bp |-> FALSE]

ToClosed(b) ==
    [b EXCEPT !.st = "CLOSED", !.elapsed = 0, !.failures = 0, !.successes = 0]
ToOpen(b) == [b EXCEPT !.st = "OPEN", !.elapsed = 0]
ToHalfOpenShort(b) ==
    [b EXCEPT !.st = "HALF_OPEN", !.elapsed = 0, !.successes = 0, !.permits = Permits - 1]

\* _transition_to(HALF_OPEN); ToClosed and ToOpen are its other cases.
ToHalfOpen(b) ==
    [b EXCEPT !.st = "HALF_OPEN", !.elapsed = 0, !.successes = 0, !.permits = Permits]

\* try_acquire: the breaker the caller finds after the wait is taken into
\* account, whether the call is allowed, and the breaker it leaves.
RipeNever(b) == b
Ripe(b) == IF b.st = "OPEN" /\ b.elapsed >= WaitTicks THEN ToHalfOpen(b) ELSE b
AllowedWide(b) ==
    \/ Ripe(b).st = "CLOSED"
    \/ Ripe(b).st = "HALF_OPEN" /\ Ripe(b).permits >= 0
Allowed(b) ==
    \/ Ripe(b).st = "CLOSED"
    \/ Ripe(b).st = "HALF_OPEN" /\ Ripe(b).permits >= 1
AfterAcquire(b) ==
    IF Ripe(b).st = "HALF_OPEN"
    THEN [Ripe(b) EXCEPT !.permits = AtLeast(@ - 1, -1)]
    ELSE Ripe(b)

\* The threshold that _should_trip compares the failure count with.
Halved == AtLeast(FailureThreshold \div 2, 1)
EffectiveThreshold(b) ==
    LET flagged == IF b.errFlag THEN Halved ELSE FailureThreshold
    IN  IF b.bp THEN AtLeast((flagged * 3) \div 4, 1) ELSE flagged

ShouldTrip(b) ==
    \/ b.total >= MinCalls /\ b.failures * RateDen >= RateNum * b.total
    \/ b.failures >= EffectiveThreshold(b)

RecordSuccessNoFloor(b) ==
    LET c == [b EXCEPT !.total = AtMost(@ + 1, MaxTotal)]
    IN  CASE b.st = "HALF_OPEN" ->
               LET d == [c EXCEPT !.successes = @ + 1]
               IN  IF d.successes >= Permits THEN ToClosed(d) ELSE d
          [] b.st = "CLOSED" -> [c EXCEPT !.failures = @ - 1]
          [] OTHER -> c

\* record_success, record_failure
RecordSuccess(b) ==
    LET c == [b EXCEPT !.total = AtMost(@ + 1, MaxTotal)]
    IN  CASE b.st = "HALF_OPEN" ->
               LET d == [c EXCEPT !.successes = @ + 1]
               IN  IF d.successes >= Permits THEN ToClosed(d) ELSE d
          [] b.st = "CLOSED" -> [c EXCEPT !.failures = AtLeast(@ - 1, 0)]
          [] OTHER -> c

RecordFailure(b) ==
    LET c == [b EXCEPT !.total = AtMost(@ + 1, MaxTotal)]
    IN  CASE b.st = "HALF_OPEN" -> ToOpen(c)
          [] b.st = "CLOSED" ->
               LET d == [c EXCEPT !.failures = @ + 1]
               IN  IF ShouldTrip(d) THEN ToOpen(d) ELSE d
          [] OTHER -> c

ErrorFlagSetLazy(b) == [b EXCEPT !.errFlag = TRUE]

\* on_remote_error_flag_set, on_remote_error_flag_cleared, on_backpressure
ErrorFlagSet(b) ==
    LET c == [b EXCEPT !.errFlag = TRUE]
    IN  IF b.st = "CLOSED" /\ b.failures >= Halved THEN ToOpen(c) ELSE c

ErrorFlagCleared(b) ==
    LET c == [b EXCEPT !.errFlag = FALSE]
    IN  IF b.st = "OPEN" THEN ToHalfOpen(c) ELSE c

Backpressure(b, active) == [b EXCEPT !.bp = active]

\* The clock moves on.
Aged(b) == [b EXCEPT !.elapsed = AtMost(@ + 1, WaitTicks)]
=============================================================================
