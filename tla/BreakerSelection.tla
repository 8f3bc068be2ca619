-------------------------- MODULE BreakerSelection --------------------------
(***************************************************************************)
(* CircuitBreakerRegistry (circuit_breaker.py) under                        *)
(* AdaptiveLoadBalancer.select_with_circuit_breaker (load_balancer.py): the *)
(* selection asks is_instance_available, which is try_acquire, of every     *)
(* candidate, and calls one of them.                                        *)
(***************************************************************************)
EXTENDS Breaker, FiniteSets, FiniteSetsExt

CONSTANTS
    Count,       \* the snapshot lists the instances 1..Count, in this order
    HealthySets, \* which of them a snapshot may report healthy
    MaxCalls     \* bound on the calls under way

Instances == 1..Count

ASSUME SelectionAssumption ==
    /\ Count \in Nat \ {0}
    /\ HealthySets \subseteq SUBSET Instances
    /\ MaxCalls \in Nat

VARIABLES
    known,     \* the instances that have a breaker in the registry
    breaker,   \* their breakers
    inflight   \* calls under way to each instance

vars == <<known, breaker, inflight>>

Init ==
    /\ known = {}
    /\ breaker = [i \in Instances |-> NewBreaker]
    /\ inflight = [i \in Instances |-> 0]

\* is_instance_available for every instance of S, from the breakers bs: which
\* are available, and the breakers it leaves.
Available(bs, S) == {i \in S : i \notin known \/ Allowed(bs[i])}
AskedAll(bs, S) ==
    [i \in Instances |-> IF i \in S \cap known THEN AfterAcquire(bs[i]) ELSE bs[i]]

PickRegardless(H, first, second) == IF H = {} THEN Instances ELSE H

\* The instances the weighted choice can fall on.  If only unhealthy ones are
\* available it is the first of them, if none is, the first of the snapshot.
Pick(H, first, second) ==
    CASE first # {} -> first
      [] first = {} /\ second # {} ->
           IF second \cap H # {} THEN second \cap H ELSE {Min(second)}
      [] OTHER -> {1}

\* select_with_circuit_breaker: the healthy instances are asked, and if none is
\* available all of them (again); then the selected instance is called.
Select ==
    \E H \in HealthySets :
        LET first == Available(breaker, H)
            asked == AskedAll(breaker, H)
            second == IF first = {} THEN Available(asked, Instances) ELSE {}
        IN  /\ breaker' = IF first = {} THEN AskedAll(asked, Instances) ELSE asked
            /\ \E i \in Pick(H, first, second) :
                  /\ inflight[i] < MaxCalls
                  /\ inflight' = [inflight EXCEPT ![i] = @ + 1]
            /\ UNCHANGED known

\* record_success and record_failure of the registry; the first failure of an
\* instance creates its breaker.
Success(i) ==
    /\ inflight[i] > 0
    /\ inflight' = [inflight EXCEPT ![i] = @ - 1]
    /\ breaker' = IF i \in known THEN [breaker EXCEPT ![i] = RecordSuccess(@)] ELSE breaker
    /\ UNCHANGED known

Failure(i) ==
    /\ inflight[i] > 0
    /\ inflight' = [inflight EXCEPT ![i] = @ - 1]
    /\ breaker' = [breaker EXCEPT ![i] = RecordFailure(@)]
    /\ known' = known \cup {i}

\* on_service_snapshot_updated, with the error flags set for the instances E.
Snapshot(E) ==
    /\ breaker' = [i \in Instances |->
                     IF i \notin known THEN breaker[i]
                     ELSE IF i \in E THEN ErrorFlagSet(breaker[i])
                     ELSE ErrorFlagCleared(breaker[i])]
    /\ UNCHANGED <<known, inflight>>

Tick ==
    /\ breaker' = [i \in Instances |-> Aged(breaker[i])]
    /\ UNCHANGED <<known, inflight>>

Next ==
    \/ Select
    \/ \E i \in Instances : Success(i) \/ Failure(i)
    \/ \E E \in SUBSET Instances : Snapshot(E)
    \/ Tick

Spec == Init /\ [][Next]_vars

\* Selections are made, every instance that can be picked again and again is
\* picked (the choice is random with positive weights), calls end, time passes.
FairSpec ==
    /\ Spec
    /\ WF_vars(Select) /\ WF_vars(Tick)
    /\ \A i \in Instances :
          /\ SF_vars(Select /\ inflight'[i] > inflight[i])
          /\ WF_vars(Success(i) \/ Failure(i))

-----------------------------------------------------------------------------
\* The registry holds well-formed breakers and the calls stay within their bound.
TypeOK ==
    /\ known \subseteq Instances
    /\ breaker \in [Instances -> Breakers]
    /\ inflight \in [Instances -> 0..MaxCalls]

\* An instance whose breaker stays open is called only as the last resort, when
\* every instance of the snapshot has a breaker that has tripped.
OpenIsLastResort ==
    [][\A i \in Instances :
         inflight'[i] > inflight[i] /\ breaker'[i].st = "OPEN" /\ i \in known
           => \A j \in Instances : j \in known /\ breaker'[j].st # "CLOSED"]_vars

\* A half-open breaker is decided one way or the other ("Testing recovery,
\* limited requests allowed"): its instance is not shut out for good.  The code
\* does not keep this (README, "Where code and documentation disagree").
HalfOpenDecides ==
    \A i \in Instances : breaker[i].st = "HALF_OPEN" ~> breaker[i].st # "HALF_OPEN"
=============================================================================
