----------------------------- MODULE LoadProofs -----------------------------
(***************************************************************************)
(* Theorems about Backpressure, for every set of requests, all delays and    *)
(* every recovery window, and about Load, for all loads and snapshots.       *)
(***************************************************************************)
EXTENDS Backpressure, Load, SequenceTheorems, WellFoundedInduction,
        NaturalsInduction, TLAPS

\* The constants as numbers
LEMMA Bounds ==
    /\ MIN_DELAY \in Nat /\ BASE_DELAY \in Nat /\ MAX_DELAY \in Nat /\ RECOVERY_WINDOW \in Nat
    /\ 0 < MIN_DELAY /\ MIN_DELAY <= BASE_DELAY /\ BASE_DELAY <= MAX_DELAY
BY DelayAssumption

-----------------------------------------------------------------------------
\* While the controller counts from a signal, it counts from the last one.
Counting == active /\ since <= RECOVERY_WINDOW => silence = since

LEMMA InitInv ==
    ASSUME Init
    PROVE  TypeOK /\ Rested /\ Counting /\ NoLateSleeper
<1>1. RECOVERY_WINDOW + 1 \in 0..(RECOVERY_WINDOW + 1) /\ Longest \in 0..Longest /\ 0 \in 0..MAX_DELAY
  BY Bounds DEF Longest
<1>2. BASE_DELAY \in MIN_DELAY..MAX_DELAY
  BY Bounds
<1>3. left \in [Requests -> 0..MAX_DELAY] /\ \A r \in Requests : left[r] = 0
  BY <1>1 DEF Init
<1>4. req \in [Requests -> {"idle", "asleep", "sent"}]
  BY DEF Init
<1>5. TypeOK
  BY <1>1, <1>2, <1>3, <1>4 DEF Init, TypeOK
<1>6. Rested /\ Counting
  BY DEF Init, Rested, Counting
<1>7. NoLateSleeper
  BY <1>3 DEF NoLateSleeper
<1> QED BY <1>5, <1>6, <1>7

\* What a step of the controller keeps, whatever becomes of the requests.
ControllerOK ==
    /\ active \in BOOLEAN /\ since \in 0..(RECOVERY_WINDOW + 1)
    /\ delay \in MIN_DELAY..MAX_DELAY /\ silence \in 0..Longest

LEMMA SignalStep ==
    ASSUME ControllerOK, Signal
    PROVE  ControllerOK' /\ Rested' /\ Counting' /\ silence' = 0
<1>1. active' /\ since' = 0 /\ silence' = 0
  BY DEF Signal
<1>2. active' \in BOOLEAN
  BY DEF Signal
<1>3. since' \in 0..(RECOVERY_WINDOW + 1) /\ silence' \in 0..Longest
  BY <1>1, Bounds DEF Longest
<1>4. delay' \in MIN_DELAY..MAX_DELAY
  BY Bounds DEF ControllerOK, Signal
<1>5. Rested' /\ Counting'
  BY <1>1 DEF Rested, Counting
<1> QED BY <1>1, <1>2, <1>3, <1>4, <1>5 DEF ControllerOK

LEMMA RecoverStep ==
    ASSUME ControllerOK, Recover, UNCHANGED silence
    PROVE  ControllerOK' /\ Rested' /\ Counting'
<1>1. ~active' /\ active' \in BOOLEAN
  BY DEF Recover
<1>2. delay' = BASE_DELAY /\ delay' \in MIN_DELAY..MAX_DELAY
  BY Bounds DEF Recover
<1>3. since' = since /\ silence' = silence
  BY DEF Recover
<1> QED BY <1>1, <1>2, <1>3 DEF ControllerOK, Rested, Counting, Longest

LEMMA NormalStep ==
    ASSUME ControllerOK, Rested, Counting, Normal
    PROVE  ControllerOK' /\ Rested' /\ Counting' /\ silence' = silence
<1>1. CASE ~active
  BY <1>1 DEF ControllerOK, Normal, Rested, Counting, controller
<1>2. CASE active /\ Recovering
  BY <1>2, RecoverStep DEF Normal
<1>3. CASE active /\ ~Recovering
  <2>1. delay \div 2 \in Nat /\ delay \div 2 <= delay
    BY Bounds DEF ControllerOK
  <2> QED BY <1>3, <2>1, Bounds DEF ControllerOK, Normal, Rested, Counting
<1> QED BY <1>1, <1>2, <1>3 DEF ControllerOK

-----------------------------------------------------------------------------
IInv == TypeOK /\ Rested /\ Counting /\ NoLateSleeper

LEMMA StartStep ==
    ASSUME IInv, NEW r \in Requests, Start(r)
    PROVE  IInv'
<1>1. CASE active /\ ~Recovering
  <2>1. UNCHANGED <<active, since, delay, silence>>
    BY <1>1 DEF Start, controller
  <2>2. req' = [req EXCEPT ![r] = "asleep"] /\ left' = [left EXCEPT ![r] = delay]
    BY <1>1 DEF Start
  <2>3. delay \in 0..MAX_DELAY
    BY Bounds DEF IInv, TypeOK
  <2>4. TypeOK'
    BY <2>1, <2>2, <2>3 DEF IInv, TypeOK
  <2>5. Rested' /\ Counting'
    BY <2>1 DEF IInv, Rested, Counting
  <2>6. delay + silence <= Longest
    BY <1>1, Bounds DEF IInv, TypeOK, Counting, Recovering, Longest
  <2>7. NoLateSleeper'
    BY <2>1, <2>2, <2>6 DEF IInv, TypeOK, NoLateSleeper, Longest
  <2> QED BY <2>4, <2>5, <2>7 DEF IInv
<1>2. CASE ~(active /\ ~Recovering)
  <2>1. req' = [req EXCEPT ![r] = "sent"] /\ UNCHANGED <<left, silence>>
    BY <1>2 DEF Start
  <2>2. ControllerOK' /\ Rested' /\ Counting'
    <3>1. CASE active
      BY <1>2, <3>1, RecoverStep DEF Start, IInv, TypeOK, ControllerOK
    <3>2. CASE ~active
      BY <1>2, <3>2 DEF Start, IInv, TypeOK, ControllerOK, Rested, Counting, controller
    <3> QED BY <3>1, <3>2 DEF IInv, TypeOK
  <2>3. TypeOK'
    BY <2>1, <2>2 DEF IInv, TypeOK, ControllerOK
  <2>4. NoLateSleeper'
    BY <2>1 DEF IInv, NoLateSleeper, Longest
  <2> QED BY <2>2, <2>3, <2>4 DEF IInv
<1> QED BY <1>1, <1>2

LEMMA ResponseStep ==
    ASSUME IInv, NEW r \in Requests, Response(r)
    PROVE  IInv'
<1>1. req' = [req EXCEPT ![r] = "idle"] /\ left' = left
  BY DEF Response
<1>2. ControllerOK' /\ Rested' /\ Counting' /\ silence' \in {0, silence}
  BY SignalStep, NormalStep DEF Response, IInv, TypeOK, ControllerOK
<1>3. TypeOK'
  BY <1>1, <1>2 DEF IInv, TypeOK, ControllerOK
<1>4. NoLateSleeper'
  BY <1>1, <1>2, Bounds DEF IInv, TypeOK, NoLateSleeper, Longest
<1> QED BY <1>2, <1>3, <1>4 DEF IInv

LEMMA TickStep ==
    ASSUME IInv, Tick
    PROVE  IInv'
<1>1. UNCHANGED <<active, delay, req>>
  BY DEF Tick
<1>2. since' \in 0..(RECOVERY_WINDOW + 1) /\ silence' \in 0..Longest
  BY Bounds DEF IInv, TypeOK, Tick, Recovering, Longest
<1>3. left' \in [Requests -> 0..MAX_DELAY]
  BY Bounds DEF IInv, TypeOK, Tick
<1>4. TypeOK'
  BY <1>1, <1>2, <1>3 DEF IInv, TypeOK
<1>5. Rested'
  BY <1>1 DEF IInv, Rested
<1>6. Counting'
  BY <1>1, Bounds DEF IInv, TypeOK, Counting, Tick, Recovering, Longest
<1>7. ASSUME NEW q \in Requests, left'[q] > 0
      PROVE  left'[q] + silence' <= Longest
  <2>1. left[q] \in Nat /\ left[q] > 0 /\ left'[q] = left[q] - 1
    BY <1>7, Bounds DEF IInv, TypeOK, Tick
  <2>2. silence \in Nat /\ silence' <= silence + 1
    BY Bounds DEF IInv, TypeOK, Tick, Longest
  <2>3. left[q] + silence <= Longest
    BY <1>7, <2>1 DEF IInv, NoLateSleeper
  <2> QED BY <1>2, <2>1, <2>2, <2>3, Bounds DEF Longest
<1> QED BY <1>4, <1>5, <1>6, <1>7 DEF IInv, NoLateSleeper, Longest

LEMMA NextInv ==
    ASSUME IInv, [Next]_vars
    PROVE  IInv'
<1>1. ASSUME NEW r \in Requests, Start(r) PROVE IInv'
  BY <1>1, StartStep
<1>2. ASSUME NEW r \in Requests, Response(r) PROVE IInv'
  BY <1>2, ResponseStep
<1>3. ASSUME NEW r \in Requests, Wake(r) \/ GiveUp(r) PROVE IInv'
  <2>1. UNCHANGED <<active, since, delay, left, silence>>
    BY <1>3 DEF Wake, GiveUp, controller
  <2>2. req' \in [Requests -> {"idle", "asleep", "sent"}]
    BY <1>3 DEF Wake, GiveUp, IInv, TypeOK
  <2> QED BY <2>1, <2>2 DEF IInv, TypeOK, Rested, Counting, NoLateSleeper, Longest
<1>4. CASE Reset
  <2>1. ~active' /\ active' \in BOOLEAN /\ delay' = BASE_DELAY /\ UNCHANGED <<req, left, silence>>
    BY <1>4 DEF Reset
  <2>2. since' \in 0..(RECOVERY_WINDOW + 1) /\ delay' \in MIN_DELAY..MAX_DELAY
    BY <1>4, <2>1, Bounds DEF Reset
  <2>3. TypeOK'
    BY <2>1, <2>2 DEF IInv, TypeOK, Longest
  <2> QED BY <2>1, <2>3 DEF IInv, Rested, Counting, NoLateSleeper, Longest
<1>5. CASE Tick
  BY <1>5, TickStep
<1>6. CASE UNCHANGED vars
  BY <1>6 DEF vars, IInv, TypeOK, Rested, Counting, NoLateSleeper, Longest
<1> QED BY <1>1, <1>2, <1>3, <1>4, <1>5, <1>6 DEF Next

\* The inductive invariant of the controller and its requests
LEMMA Inductive == Spec => []IInv
<1>1. Init => IInv
  BY InitInv DEF IInv
<1>2. IInv /\ [Next]_vars => IInv'
  BY NextInv
<1> QED BY <1>1, <1>2, PTL DEF Spec

-----------------------------------------------------------------------------
\* The variables of the controller and the requests keep their types and ranges:
\* above all, the delay stays between its bounds (backpressure.py 68, 79).
THEOREM TypeCorrect == Spec => []TypeOK
<1>1. IInv => TypeOK
  BY DEF IInv
<1> QED BY <1>1, Inductive, PTL

\* A controller at rest has its base delay again, however the pressure ended.
THEOREM AlwaysRested == Spec => []Rested
<1>1. IInv => Rested
  BY DEF IInv
<1> QED BY <1>1, Inductive, PTL

\* No request sleeps beyond MAX_DELAY after the recovery window of the last signal.
THEOREM NeverLate == Spec => []NoLateSleeper
<1>1. IInv => NoLateSleeper
  BY DEF IInv
<1> QED BY <1>1, Inductive, PTL
-----------------------------------------------------------------------------
\* The report and the weights.  What a consumer unpacks is what the provider
\* measured, quantized: no field reaches into the next one.
Reports == [cpu : Nat, memory : Nat, conns : Nat, ewma : Nat,
            error : BOOLEAN, preheating : BOOLEAN]

Quantized(load) ==
    [cpu |-> 322 * Smaller(31, load.cpu \div 322),
     memory |-> 322 * Smaller(31, load.memory \div 322),
     conns |-> Smaller(1023, load.conns), ewma |-> Smaller(511, load.ewma),
     error |-> load.error, preheating |-> load.preheating]

LEMMA Powers == 2^5 = 32 /\ 2^10 = 1024 /\ 2^20 = 1048576 /\ 2^29 = 536870912 /\ 2^30 = 1073741824
BY SMT

InRange(c, m, n, d) == c \in 0..31 /\ m \in 0..31 /\ n \in 0..1023 /\ d \in 0..511

Word(c, m, n, d, e, p) ==
    c + 32 * m + 1024 * n + 1048576 * d + 536870912 * e + 1073741824 * p

Fields(pack, c, m, n, d, e, p) ==
    /\ pack \in Nat
    /\ pack % 32 = c /\ (pack \div 32) % 32 = m
    /\ (pack \div 1024) % 1024 = n /\ (pack \div 1048576) % 512 = d
    /\ (pack \div 536870912) % 2 = e /\ (pack \div 1073741824) % 2 = p
    /\ pack = 0 <=> c = 0 /\ m = 0 /\ n = 0 /\ d = 0 /\ e = 0 /\ p = 0

LEMMA FieldsApart ==
    ASSUME NEW c, NEW m, NEW n, NEW d, NEW e, NEW p,
           InRange(c, m, n, d), {e, p} \subseteq {0, 1}
    PROVE  Fields(Word(c, m, n, d, e, p), c, m, n, d, e, p)
<1> DEFINE pack == Word(c, m, n, d, e, p)
<1>0. c \in 0..31 /\ m \in 0..31 /\ n \in 0..1023 /\ d \in 0..511 /\ e \in 0..1 /\ p \in 0..1
  BY DEF InRange
<1>1. pack \in Nat /\ pack % 32 = c
  BY <1>0, SMT DEF Word
<1>2. pack \div 32 = m + 32 * (n + 1024 * d + 524288 * e + 1048576 * p)
  BY <1>0, SMT DEF Word
<1>3. (pack \div 32) % 32 = m
  BY <1>0, <1>2, SMT
<1>4. pack \div 1024 = n + 1024 * (d + 512 * e + 1024 * p)
  BY <1>0, SMT DEF Word
<1>5. (pack \div 1024) % 1024 = n
  BY <1>0, <1>4, SMT
<1>6. pack \div 1048576 = d + 512 * (e + 2 * p)
  BY <1>0, SMT DEF Word
<1>7. (pack \div 1048576) % 512 = d
  BY <1>0, <1>6, SMT
<1>8. (pack \div 536870912) % 2 = e /\ (pack \div 1073741824) % 2 = p
  BY <1>0, SMT DEF Word
<1>9. pack = 0 <=> c = 0 /\ m = 0 /\ n = 0 /\ d = 0 /\ e = 0 /\ p = 0
  BY <1>0, SMT DEF Word
<1> QED BY <1>1, <1>3, <1>5, <1>7, <1>8, <1>9, SMT DEF Fields

LEMMA UnpackPack ==
    ASSUME NEW c, NEW m, NEW n, NEW d, NEW e \in BOOLEAN, NEW p \in BOOLEAN,
           InRange(c, m, n, d)
    PROVE  /\ Unpack(Pack(c, m, n, d, e, p)) =
                [cpu |-> 322 * c, memory |-> 322 * m, conns |-> n, ewma |-> d,
                 error |-> e, preheating |-> p]
           /\ Pack(c, m, n, d, e, p) = 0 <=> c = 0 /\ m = 0 /\ n = 0 /\ d = 0 /\ ~e /\ ~p
<1> DEFINE pack == Pack(c, m, n, d, e, p)
<1>1. c % 32 = c /\ m % 32 = m /\ n % 1024 = n /\ d % 512 = d
  BY SMT DEF InRange
<1>2. pack = (c % 32) + 2^5 * (m % 32) + 2^10 * (n % 1024) + 2^20 * (d % 512)
                + 2^29 * Bit(e) + 2^30 * Bit(p)
  BY SMT DEF Pack
<1>3. pack = Word(c, m, n, d, Bit(e), Bit(p))
  BY <1>1, <1>2, Powers, SMT DEF Word
<1>4. {Bit(e), Bit(p)} \subseteq {0, 1} /\ (Bit(e) = 1) = e /\ (Bit(p) = 1) = p
  BY SMT DEF Bit
<1>5. Fields(pack, c, m, n, d, Bit(e), Bit(p))
  BY <1>3, <1>4, FieldsApart
<1> HIDE DEF pack
<1>6. Unpack(pack) =
        [cpu |-> 322 * c, memory |-> 322 * m, conns |-> n, ewma |-> d,
         error |-> (Bit(e) = 1), preheating |-> (Bit(p) = 1)]
  BY <1>5, Powers, SMT DEF Fields, Unpack
<1>7. pack = 0 <=> c = 0 /\ m = 0 /\ n = 0 /\ d = 0 /\ ~e /\ ~p
  BY <1>5, SMT DEF Fields, Bit
<1> QED BY <1>4, <1>6, <1>7 DEF pack

LEMMA Clips ==
    ASSUME NEW x \in Nat, NEW y \in Nat, NEW z \in Nat, NEW w \in Nat
    PROVE  InRange(Smaller(31, x), Smaller(31, y), Smaller(1023, z), Smaller(511, w))
BY SMT DEF InRange, Smaller

LEMMA RoundTrip ==
    ASSUME NEW load \in Reports
    PROVE  /\ Unpack(Collect(load)) = Quantized(load)
           /\ Collect(load) = 0 <=>
                  /\ Smaller(31, load.cpu \div 322) = 0 /\ Smaller(31, load.memory \div 322) = 0
                  /\ load.conns = 0 /\ load.ewma = 0 /\ ~load.error /\ ~load.preheating
<1> DEFINE c == Smaller(31, load.cpu \div 322)
           m == Smaller(31, load.memory \div 322)
           n == Smaller(1023, load.conns)
           d == Smaller(511, load.ewma)
<1>1. /\ load.cpu \in Nat /\ load.memory \in Nat /\ load.conns \in Nat /\ load.ewma \in Nat
      /\ load.error \in BOOLEAN /\ load.preheating \in BOOLEAN
  BY DEF Reports
<1>2. InRange(c, m, n, d)
  <2>1. load.cpu \div 322 \in Nat /\ load.memory \div 322 \in Nat
    BY <1>1, SMT
  <2> QED BY <1>1, <2>1, Clips
<1>3. (n = 0 <=> load.conns = 0) /\ (d = 0 <=> load.ewma = 0)
  BY <1>1, SMT DEF Smaller
<1>4. Collect(load) = Pack(c, m, n, d, load.error, load.preheating)
  BY DEF Collect
<1>5. Quantized(load) =
        [cpu |-> 322 * c, memory |-> 322 * m, conns |-> n, ewma |-> d,
         error |-> load.error, preheating |-> load.preheating]
  BY DEF Quantized
<1> HIDE DEF c, m, n, d
<1>6. /\ Unpack(Collect(load)) = Quantized(load)
      /\ Collect(load) = 0 <=> c = 0 /\ m = 0 /\ n = 0 /\ d = 0 /\ ~load.error /\ ~load.preheating
  BY <1>1, <1>2, <1>3, <1>4, <1>5, UnpackPack
<1> QED BY <1>3, <1>6 DEF c, m

\* A factor never rises with its field, and lies between its bounds.
LEMMA FactorsFall ==
    ASSUME NEW x \in Nat, NEW y \in Nat, y <= x
    PROVE  /\ CpuFactor(x) <= CpuFactor(y) /\ CpuFactor(x) <= 100000
           /\ MemoryFactor(x) <= MemoryFactor(y) /\ MemoryFactor(x) <= 100000
           /\ ConnFactor(x) <= ConnFactor(y) /\ ConnFactor(x) <= 100000
           /\ LatencyFactor(x) <= LatencyFactor(y) /\ LatencyFactor(x) <= 100000
<1>1. CpuFactor(x) <= CpuFactor(y) /\ CpuFactor(x) <= 100000
  BY SMT DEF CpuFactor, Greater
<1>2. MemoryFactor(x) <= MemoryFactor(y) /\ MemoryFactor(x) <= 100000
  BY SMT DEF MemoryFactor, Greater
<1>3. ConnFactor(x) <= ConnFactor(y) /\ ConnFactor(x) <= 100000
  BY SMT DEF ConnFactor, Greater
<1>4. LatencyFactor(x) <= LatencyFactor(y) /\ LatencyFactor(x) <= 100000
  BY SMT DEF LatencyFactor, Greater
<1> QED BY <1>1, <1>2, <1>3, <1>4

\* A provider that reports no better values gets no greater weight.
LEMMA WeightsFall ==
    ASSUME NEW a \in Reports, NEW b \in Reports, Worse(a, b)
    PROVE  NoHeavier(Factors(Collect(a)), Factors(Collect(b)))
<1> DEFINE qa == Quantized(a)
           qb == Quantized(b)
           f == <<CpuFactor(qa.cpu), MemoryFactor(qa.memory), ConnFactor(qa.conns),
                  LatencyFactor(qa.ewma), IF qa.error THEN 10000 ELSE 100000,
                  IF qa.preheating THEN 30000 ELSE 100000>>
           g == <<CpuFactor(qb.cpu), MemoryFactor(qb.memory), ConnFactor(qb.conns),
                  LatencyFactor(qb.ewma), IF qb.error THEN 10000 ELSE 100000,
                  IF qb.preheating THEN 30000 ELSE 100000>>
           none == [i \in 1..6 |-> 100000]
<1>1. /\ a.cpu \in Nat /\ a.memory \in Nat /\ a.conns \in Nat /\ a.ewma \in Nat
      /\ b.cpu \in Nat /\ b.memory \in Nat /\ b.conns \in Nat /\ b.ewma \in Nat
      /\ a.error \in BOOLEAN /\ a.preheating \in BOOLEAN /\ b.error \in BOOLEAN /\ b.preheating \in BOOLEAN
  BY DEF Reports
<1>2. /\ a.cpu >= b.cpu /\ a.memory >= b.memory /\ a.conns >= b.conns /\ a.ewma >= b.ewma
      /\ b.error => a.error
      /\ b.preheating => a.preheating
  BY DEF Worse
<1>3. qa.cpu \in Nat /\ qb.cpu \in Nat /\ qb.cpu <= qa.cpu
  BY <1>1, <1>2, SMT DEF Quantized, Smaller
<1>4. qa.memory \in Nat /\ qb.memory \in Nat /\ qb.memory <= qa.memory
  BY <1>1, <1>2, SMT DEF Quantized, Smaller
<1>5. /\ qa.conns \in Nat /\ qb.conns \in Nat /\ qb.conns <= qa.conns
      /\ qa.ewma \in Nat /\ qb.ewma \in Nat /\ qb.ewma <= qa.ewma
  BY <1>1, <1>2, SMT DEF Quantized, Smaller
<1>6. /\ qb.error => qa.error
      /\ qb.preheating => qa.preheating
  BY <1>2 DEF Quantized
<1>7. Factors(Collect(a)) = IF Collect(a) = 0 THEN none ELSE f
  BY RoundTrip, SMT DEF Factors
<1>8. Factors(Collect(b)) = IF Collect(b) = 0 THEN none ELSE g
  BY RoundTrip, SMT DEF Factors
<1>9. Collect(a) = 0 => Collect(b) = 0
  <2>1. /\ Smaller(31, a.cpu \div 322) = 0 => Smaller(31, b.cpu \div 322) = 0
        /\ Smaller(31, a.memory \div 322) = 0 => Smaller(31, b.memory \div 322) = 0
        /\ a.conns = 0 => b.conns = 0
        /\ a.ewma = 0 => b.ewma = 0
    BY <1>1, <1>2, SMT DEF Smaller
  <2> QED BY <1>2, <2>1, RoundTrip
<1> HIDE DEF qa, qb
<1>10. /\ CpuFactor(qa.cpu) <= CpuFactor(qb.cpu) /\ CpuFactor(qa.cpu) <= 100000
       /\ MemoryFactor(qa.memory) <= MemoryFactor(qb.memory) /\ MemoryFactor(qa.memory) <= 100000
       /\ ConnFactor(qa.conns) <= ConnFactor(qb.conns) /\ ConnFactor(qa.conns) <= 100000
       /\ LatencyFactor(qa.ewma) <= LatencyFactor(qb.ewma) /\ LatencyFactor(qa.ewma) <= 100000
  BY <1>3, <1>4, <1>5, FactorsFall
<1>11. NoHeavier(f, g) /\ NoHeavier(f, none) /\ NoHeavier(none, none)
  BY <1>6, <1>10 DEF NoHeavier
<1> QED BY <1>7, <1>8, <1>9, <1>11

\* The counters keep their ranges, whatever the application calls and in which order.
THEOREM LoadTypeCorrect == LoadSpec => []LoadTypeOK
<1>1. LoadInit => LoadTypeOK
  BY LoadAssumption DEF LoadInit, LoadTypeOK
<1>2. LoadTypeOK /\ [LoadNext]_loadVars => LoadTypeOK'
  <2> SUFFICES ASSUME LoadTypeOK, [LoadNext]_loadVars PROVE LoadTypeOK'
    OBVIOUS
  <2> USE LoadAssumption DEF LoadTypeOK
  <2>1. CASE Begin
    BY <2>1 DEF Begin
  <2>2. CASE Complete
    BY <2>2 DEF Complete, Greater
  <2>3. ASSUME NEW l \in Latencies, RecordLatency(l)
        PROVE  LoadTypeOK'
    <3>1. l \in Nat /\ 100 * l \in Nat /\ (300 * l + 7 * ewma) \div 10 \in Nat
      OBVIOUS
    <3> QED BY <2>3, <3>1 DEF RecordLatency
  <2>4. ASSUME NEW success \in BOOLEAN, RecordRequest(success)
        PROVE  LoadTypeOK'
    BY <2>4 DEF RecordRequest
  <2>5. CASE ResetErrors
    BY <2>5 DEF ResetErrors
  <2>6. CASE SetColor
    BY <2>6 DEF SetColor
  <2>7. CASE UNCHANGED loadVars
    BY <2>7 DEF loadVars
  <2> QED BY <2>1, <2>2, <2>3, <2>4, <2>5, <2>6, <2>7 DEF LoadNext
<1> QED BY <1>1, <1>2, PTL DEF LoadSpec

\* Whatever its history, a provider that is worse off in every respect than another
\* never gets the greater weight: for all loads, not only those a report can hold.
THEOREM RanksRight == LoadSpec => []RankedRight
<1>1. LoadTypeOK => RankedRight
  <2> SUFFICES ASSUME LoadTypeOK, NEW h \in Hosts, NEW l \in Loads
               PROVE  /\ Worse(Measured(h), l) => NoHeavier(Factors(Collect(Measured(h))), Weights[l])
                      /\ Worse(l, Measured(h)) => NoHeavier(Weights[l], Factors(Collect(Measured(h))))
    BY DEF RankedRight
  <2>1. h \in Reports /\ l \in Reports
    BY LoadAssumption DEF Reports
  <2>2. conns \in Nat /\ ewma \div 100 \in Nat /\ ErrorFlag(h.error) \in BOOLEAN
    BY <2>1, LoadAssumption DEF LoadTypeOK, ErrorFlag, Reports
  <2>3. Measured(h) \in Reports
    BY <2>1, <2>2 DEF Measured, Reports
  <2>4. Weights[l] = Factors(Collect(l))
    BY DEF Weights
  <2> QED BY <2>1, <2>3, <2>4, WeightsFall
<1> QED BY <1>1, LoadTypeCorrect, PTL

-----------------------------------------------------------------------------
\* A set of positions that is not empty has a first one.
LEMMA FirstExists ==
    ASSUME NEW S \in SUBSET Nat, S # {}
    PROVE  \E i \in S : \A j \in S : i <= j
<1> DEFINE R == {p \in Nat \X Nat : p[1] < p[2]}
<1>1. IsWellFoundedOn(R, Nat)
  BY NatLessThanWellFounded, Zenon DEF OpToRel
<1>2. PICK m \in S : \A y \in S : ~ (<<y, m>> \in R)
  BY <1>1, WFMin, Zenon
<1>3. ASSUME NEW y \in S PROVE m <= y
  <2>1. y \in Nat /\ m \in Nat
    OBVIOUS
  <2>2. y < m => <<y, m>> \in R
    BY <2>1, Zenon
  <2> HIDE DEF R
  <2> QED BY <1>2, <2>1, <2>2, SMT
<1> QED BY <1>3

\* Whatever snapshot a consumer has and whatever color is set or cleared, route() returns
\* an instance if there is one, one of the color if any is, a healthy one if any is.
THEOREM RoutesRight == LoadSpec => []RouteFinds
<1>1. RouteFinds
  <2> SUFFICES ASSUME NEW snapshot \in Snapshots
               PROVE  LET tagged == {x \in Members(snapshot) : color \in x.tags}
                          candidates == IF tagged = {} THEN Members(snapshot) ELSE tagged
                          chosen == Route(snapshot, color, NoTag)
                      IN  /\ snapshot # <<>> => chosen # {}
                          /\ chosen \subseteq candidates
                          /\ (\E x \in candidates : x.healthy) => \A x \in chosen : x.healthy
    BY DEF RouteFinds
  <2> DEFINE tagged == {x \in Members(snapshot) : color \in x.tags}
             candidates == IF tagged = {} THEN Members(snapshot) ELSE tagged
             listed == Filter(snapshot, color, NoTag)
             healthy == {i \in listed : snapshot[i].healthy}
             first == {i \in listed : \A j \in listed : i <= j}
             chosen == Route(snapshot, color, NoTag)
  <2>1. /\ DOMAIN snapshot \subseteq Nat /\ (snapshot # <<>> => DOMAIN snapshot # {})
        /\ \A i \in DOMAIN snapshot : NoTag \notin snapshot[i].tags
    <3>1. /\ snapshot \in Seq([healthy : BOOLEAN, tags : SUBSET Tags]) /\ NoTag \notin Tags
      BY LoadAssumption
    <3>2. DOMAIN snapshot = 1..Len(snapshot) /\ Len(snapshot) \in Nat
      BY <3>1
    <3>3. snapshot # <<>> => Len(snapshot) # 0
      BY <3>1, EmptySeq
    <3>4. \A i \in 1..Len(snapshot) : snapshot[i] \in [healthy : BOOLEAN, tags : SUBSET Tags]
      BY <3>1, ElementOfSeq
    <3> QED BY <3>1, <3>2, <3>3, <3>4
  <2>2. listed \subseteq DOMAIN snapshot /\ (DOMAIN snapshot # {} => listed # {})
    BY DEF Filter
  <2>3. candidates = {snapshot[i] : i \in listed}
    <3>1. CASE color = NoTag
      BY <2>1, <3>1 DEF Filter, Members
    <3>2. CASE color # NoTag
      BY <3>2 DEF Filter, Members
    <3> QED BY <3>1, <3>2
  <2>4. chosen = {snapshot[i] : i \in IF healthy = {} THEN first ELSE healthy}
    BY DEF Route, Selectable
  <2>5. listed # {} => first # {}
    BY <2>1, <2>2, FirstExists
  <2> HIDE DEF listed, candidates, chosen
  <2>6. chosen \subseteq candidates
    BY <2>3, <2>4
  <2>7. snapshot # <<>> => chosen # {}
    BY <2>1, <2>2, <2>4, <2>5
  <2>8. (\E x \in candidates : x.healthy) => \A x \in chosen : x.healthy
    BY <2>3, <2>4
  <2> QED BY <2>6, <2>7, <2>8 DEF candidates, chosen
<1> QED BY <1>1, PTL
=============================================================================
