--------------------------- MODULE SelectionProofs ---------------------------
(***************************************************************************)
(* Proofs about BreakerSelection, for every number of instances, whichever  *)
(* of them the snapshots report healthy, and every configuration of their   *)
(* breakers.                                                                *)
(***************************************************************************)
EXTENDS BreakerSelection, BreakerLemmas, WellFoundedInduction

LEMMA NewBreakerType == NewBreaker \in Breakers
  BY BreakerBounds, SMT DEF NewBreaker, Breakers

\* What the selection's last two choices rest on.
LEMMA MinIsMember ==
    ASSUME NEW S \in SUBSET Nat, S # {}
    PROVE  Min(S) \in S
<1> DEFINE R == {p \in Nat \X Nat : p[1] < p[2]}
<1>0. IsWellFoundedOn(R, Nat)
  BY NatLessThanWellFounded, Zenon DEF OpToRel
<1>1. PICK m \in S : \A y \in S : ~ (<<y, m>> \in R)
  BY <1>0, WFMin, Zenon
<1>2. ASSUME NEW y \in S PROVE m <= y
  <2>1. y \in Nat /\ m \in Nat
    OBVIOUS
  <2>2. y < m => <<y, m>> \in R
    BY <2>1, Zenon
  <2> HIDE DEF R
  <2> QED
    BY <1>1, <2>1, <2>2, SMT
<1> QED
  BY <1>1, <1>2, Zenon DEF Min

\* A candidate is counted out by its breaker, and one whose breaker is known and
\* admits it is not left with an open breaker.
LEMMA AskedStates ==
    ASSUME NEW bs \in [Instances -> Breakers], NEW S \in SUBSET Instances
    PROVE  /\ AskedAll(bs, S) \in [Instances -> Breakers]
           /\ \A i \in Available(bs, S) \cap known : AskedAll(bs, S)[i].st # "OPEN"
           /\ \A i \in S \ Available(bs, S) :
                 i \in known /\ AskedAll(bs, S)[i].st # "CLOSED"
<1>1. AskedAll(bs, S) \in [Instances -> Breakers]
  BY MethodTypes DEF AskedAll
<1>2. \A i \in S : bs[i] \in Breakers
  OBVIOUS
<1>3. \A i \in S \cap known : AskedAll(bs, S)[i] = AfterAcquire(bs[i])
  BY DEF AskedAll
<1>4. \A i \in Available(bs, S) \cap known : i \in S /\ Allowed(bs[i])
  BY DEF Available
<1>5. \A i \in S \ Available(bs, S) : i \in known /\ ~Allowed(bs[i])
  BY DEF Available
<1> QED
  BY <1>1, <1>2, <1>3, <1>4, <1>5, AcquireState

LEMMA Bounds == MaxCalls \in Nat /\ HealthySets \subseteq SUBSET Instances
  BY SelectionAssumption

-----------------------------------------------------------------------------
\* One selection, from the healthy instances H.
LEMMA SelectStep ==
    ASSUME TypeOK, Select
    PROVE  /\ breaker' \in [Instances -> Breakers]
           /\ inflight' \in [Instances -> 0..MaxCalls]
           /\ known' = known
           /\ \A i \in Instances :
                 inflight'[i] > inflight[i] /\ breaker'[i].st = "OPEN" /\ i \in known
                   => \A j \in Instances : j \in known /\ breaker'[j].st # "CLOSED"
<1> DEFINE first(H) == Available(breaker, H)
           asked(H) == AskedAll(breaker, H)
           second(H) == IF first(H) = {} THEN Available(asked(H), Instances) ELSE {}
<1>0. PICK H \in HealthySets :
        /\ breaker' = IF first(H) = {} THEN AskedAll(asked(H), Instances) ELSE asked(H)
        /\ \E i \in Pick(H, first(H), second(H)) :
              inflight[i] < MaxCalls /\ inflight' = [inflight EXCEPT ![i] = @ + 1]
        /\ known' = known
  BY DEF Select
<1>1. PICK i \in Pick(H, first(H), second(H)) :
        /\ breaker' = IF first(H) = {} THEN AskedAll(asked(H), Instances) ELSE asked(H)
        /\ inflight[i] < MaxCalls /\ inflight' = [inflight EXCEPT ![i] = @ + 1]
        /\ known' = known
  BY <1>0
<1>2. H \in SUBSET Instances
  BY Bounds
<1>3. asked(H) \in [Instances -> Breakers] /\ breaker' \in [Instances -> Breakers]
  BY <1>1, <1>2, AskedStates DEF TypeOK
<1>4. inflight' \in [Instances -> 0..MaxCalls]
  <2>1. i \in Instances => inflight[i] + 1 \in 0..MaxCalls
    BY <1>1, Bounds, SMT DEF TypeOK
  <2> QED
    BY <1>1, <2>1, Zenon DEF TypeOK
<1>5. \A j \in Instances : inflight'[j] > inflight[j] => j = i
  BY <1>1 DEF TypeOK
<1>6. CASE first(H) # {}
  <2>1. i \in first(H) /\ breaker' = asked(H)
    BY <1>1, <1>6 DEF Pick
  <2>2. ASSUME i \in known PROVE asked(H)[i].st # "OPEN"
    <3>1. i \in Available(breaker, H) \cap known
      BY <2>1, <2>2
    <3> QED
      BY <1>2, <3>1, AskedStates DEF TypeOK
  <2> QED
    BY <1>1, <1>3, <1>4, <1>5, <2>1, <2>2
<1>7. CASE first(H) = {} /\ second(H) # {}
  <2>1. second(H) = Available(asked(H), Instances) /\ breaker' = AskedAll(asked(H), Instances)
    BY <1>1, <1>7
  <2>2. second(H) \subseteq Instances /\ Instances \subseteq Nat
    BY <2>1 DEF Available, Instances
  <2>3. i \in second(H)
    <3>1. Min(second(H)) \in second(H)
      BY <1>7, <2>2, MinIsMember
    <3> QED
      BY <1>1, <1>7, <3>1 DEF Pick
  <2>4. i \in known => breaker'[i].st # "OPEN"
    BY <1>3, <2>1, <2>3, AskedStates
  <2> QED
    BY <1>1, <1>3, <1>4, <1>5, <2>4
<1>8. CASE first(H) = {} /\ second(H) = {}
  <2>1. Available(asked(H), Instances) = {} /\ breaker' = AskedAll(asked(H), Instances)
    BY <1>1, <1>8
  <2>2. \A j \in Instances : j \in known /\ breaker'[j].st # "CLOSED"
    BY <1>3, <2>1, AskedStates
  <2> QED
    BY <1>1, <1>3, <1>4, <2>2
<1> QED
  BY <1>6, <1>7, <1>8

\* The steps that are no selection start no call.
LEMMA OtherSteps ==
    ASSUME TypeOK, Next, ~Select
    PROVE  TypeOK' /\ \A i \in Instances : ~(inflight'[i] > inflight[i])
<1>1. ASSUME NEW i \in Instances, Success(i) \/ Failure(i)
      PROVE  TypeOK' /\ \A j \in Instances : ~(inflight'[j] > inflight[j])
  <2>1. breaker' \in [Instances -> Breakers]
    BY <1>1, MethodTypes DEF TypeOK, Success, Failure
  <2>2. known' \subseteq Instances
    BY <1>1 DEF TypeOK, Success, Failure
  <2>3. inflight' = [inflight EXCEPT ![i] = @ - 1] /\ inflight[i] > 0
    BY <1>1 DEF Success, Failure
  <2> QED
    BY <2>1, <2>2, <2>3, Bounds DEF TypeOK
<1>2. ASSUME NEW E \in SUBSET Instances, Snapshot(E)
      PROVE  TypeOK' /\ \A j \in Instances : ~(inflight'[j] > inflight[j])
  <2>1. breaker' \in [Instances -> Breakers]
    BY <1>2, MethodTypes DEF TypeOK, Snapshot
  <2> QED
    BY <1>2, <2>1, Bounds DEF TypeOK, Snapshot
<1>3. CASE Tick
  <2>1. breaker' \in [Instances -> Breakers]
    BY <1>3, MethodTypes DEF TypeOK, Tick
  <2> QED
    BY <1>3, <2>1, Bounds DEF TypeOK, Tick
<1> QED
  BY <1>1, <1>2, <1>3 DEF Next

LEMMA TypeKept == TypeOK /\ [Next]_vars => TypeOK'
<1>1. ASSUME TypeOK, Select PROVE TypeOK'
  BY <1>1, SelectStep DEF TypeOK
<1>2. ASSUME TypeOK, UNCHANGED vars PROVE TypeOK'
  BY <1>2 DEF TypeOK, vars
<1> QED
  BY <1>1, <1>2, OtherSteps

LEMMA InitType == Init => TypeOK
  BY NewBreakerType, Bounds DEF Init, TypeOK

-----------------------------------------------------------------------------
\* The breakers of the registry are well-formed whatever is selected, recorded and
\* pushed, and no instance has more calls under way than are made.
THEOREM TypeCorrect == Spec => []TypeOK
  BY InitType, TypeKept, PTL DEF Spec

\* select_with_circuit_breaker calls an instance whose breaker stays open only when
\* every instance of the snapshot has a breaker and none of them is closed: the
\* doubled questioning of the candidates never leaves a better choice unseen.
THEOREM LastResort == Spec => OpenIsLastResort
<1>1. TypeOK /\ [Next]_vars =>
        [\A i \in Instances :
           inflight'[i] > inflight[i] /\ breaker'[i].st = "OPEN" /\ i \in known
             => \A j \in Instances : j \in known /\ breaker'[j].st # "CLOSED"]_vars
  BY SelectStep, OtherSteps
<1> QED
  BY <1>1, TypeCorrect, PTL DEF Spec, OpenIsLastResort
=============================================================================
