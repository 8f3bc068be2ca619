--------------------------- MODULE CircuitBreaker ---------------------------
(***************************************************************************)
(* One CircuitBreaker used as its docstrings say: concurrent callers ask    *)
(* try_acquire before each call and record how it ended, while the server   *)
(* pushes error flags and backpressure.  A call may end long after the      *)
(* breaker has changed state.                                               *)
(***************************************************************************)
EXTENDS Breaker

CONSTANT MaxCalls  \* bound on the calls under way

ASSUME CallsAssumption == MaxCalls \in Nat

VARIABLES
    b,         \* the breaker
    inflight,  \* calls that were allowed and have not ended
    admitted   \* (history) calls allowed since the breaker became half open

vars == <<b, inflight, admitted>>

Init ==
    /\ b = NewBreaker
    /\ inflight = 0
    /\ admitted = 0

\* Calls allowed in the half-open episode that c, reached from b, belongs to.
Admitted(c, n) ==
    IF c.st # "HALF_OPEN" THEN 0
    ELSE IF b.st = "HALF_OPEN" THEN admitted + n ELSE n

Step(c, n) ==
    /\ b' = c
    /\ admitted' = Admitted(c, n)

\* A caller asks try_acquire and, if allowed, starts its call.
Call ==
    /\ Allowed(b)
    /\ inflight < MaxCalls
    /\ inflight' = inflight + 1
    /\ Step(AfterAcquire(b), 1)

Refused ==
    /\ ~Allowed(b)
    /\ UNCHANGED inflight
    /\ Step(AfterAcquire(b), 0)

Success ==
    /\ inflight > 0
    /\ inflight' = inflight - 1
    /\ Step(RecordSuccess(b), 0)

Failure ==
    /\ inflight > 0
    /\ inflight' = inflight - 1
    /\ Step(RecordFailure(b), 0)

\* What the server pushes: error flag set or cleared, backpressure on or off.
Signal ==
    /\ \/ Step(ErrorFlagSet(b), 0)
       \/ Step(ErrorFlagCleared(b), 0)
       \/ \E active \in BOOLEAN : Step(Backpressure(b, active), 0)
    /\ UNCHANGED inflight

Tick ==
    /\ Step(Aged(b), 0)
    /\ UNCHANGED inflight

Next == Call \/ Refused \/ Success \/ Failure \/ Signal \/ Tick

Spec == Init /\ [][Next]_vars

\* Callers keep coming, calls end and time passes; nothing is assumed of the
\* outcome of the calls or of the server.
FairSpec ==
    /\ Spec
    /\ WF_vars(Call) /\ WF_vars(Success \/ Failure) /\ WF_vars(Tick)

-----------------------------------------------------------------------------
\* The fields have their types and the counters their bounds.
TypeOK ==
    /\ b \in Breakers
    /\ inflight \in 0..MaxCalls
    /\ admitted \in Nat

\* A closed breaker has fewer failures than failure_threshold, and fewer than half
\* of it while the remote error flag is set: a flag that comes between two failures
\* trips it at once.  Backpressure's reduction of the threshold is no part of this
\* bound: on_backpressure "Doesn't trip the breaker", so with backpressure a closed
\* breaker may stand at or above what _should_trip compares the next failure with.
ClosedIsBelowThreshold ==
    b.st = "CLOSED" =>
        b.failures < (IF b.errFlag THEN Halved ELSE FailureThreshold)

\* At most permitted_calls_in_half_open calls test one recovery, however many
\* callers ask and however often they are refused.
ProbesLimited == admitted <= Permits

\* A half-open breaker can always still decide: the permits left, the calls
\* under way and the successes seen are enough to close it.  Late answers of
\* calls from before the episode do not use up its chances.
CanDecide ==
    b.st = "HALF_OPEN" =>
        b.successes + inflight + AtLeast(b.permits, 0) >= Permits

\* A half-open breaker does not stay half open.
HalfOpenDecides == b.st = "HALF_OPEN" ~> b.st # "HALF_OPEN"

\* A tripped breaker is tested again, with or without the server's signals.
OpenIsRetried == b.st = "OPEN" ~> b.st = "HALF_OPEN"
=============================================================================
