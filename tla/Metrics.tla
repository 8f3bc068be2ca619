------------------------------- MODULE Metrics -------------------------------
(***************************************************************************)
(* What a provider reports of its load, how the report is packed, and what   *)
(* weight a consumer gives to it: MetricsCollector.collect_metrics_pack      *)
(* (metrics.py), pack_metrics_pack and unpack_metrics_pack (codec.py),       *)
(* AdaptiveLoadBalancer and TrafficColorRouter (load_balancer.py).           *)
(*                                                                          *)
(* A load is a record: cpu and memory in hundredths of a percent, conns,     *)
(* ewma in milliseconds, and the flags error and preheating.                 *)
(*                                                                          *)
(* A definition without a comment of its own, placed before the one it      *)
(* alters, is a seeded mistake (README, "Seeded mistakes").                 *)
(***************************************************************************)
EXTENDS Integers, Sequences

Smaller(a, b) == IF a < b THEN a ELSE b
Greater(a, b) == IF a > b THEN a ELSE b

-----------------------------------------------------------------------------
\* The bit of a flag
Bit(b) == IF b THEN 1 ELSE 0

\* pack_metrics_pack, its delay_scale always False
Pack(cpu, memory, conns, ewma, error, preheating) ==
    (cpu % 32) + 2^5 * (memory % 32) + 2^10 * (conns % 1024) + 2^20 * (ewma % 512)
        + 2^29 * Bit(error) + 2^30 * Bit(preheating)

\* unpack_metrics_pack, percentages in hundredths
Unpack(pack) ==
    [cpu |-> 322 * (pack % 32), memory |-> 322 * ((pack \div 2^5) % 32),
     conns |-> (pack \div 2^10) % 1024, ewma |-> (pack \div 2^20) % 512,
     error |-> ((pack \div 2^29) % 2) = 1, preheating |-> ((pack \div 2^30) % 2) = 1]

CollectUnclipped(load) ==
    Pack(Smaller(31, load.cpu \div 322), Smaller(31, load.memory \div 322),
         load.conns, load.ewma, load.error, load.preheating)

\* collect_metrics_pack: quantized or clipped to what the fields hold
Collect(load) ==
    Pack(Smaller(31, load.cpu \div 322), Smaller(31, load.memory \div 322),
         Smaller(1023, load.conns), Smaller(511, load.ewma), load.error, load.preheating)

-----------------------------------------------------------------------------
\* The factors of _compute_effective_weight, in units of 1/100000
CpuFactor(c) ==
    Greater(5000, CASE c <= 6000 -> 100000
                    [] c > 6000 /\ c <= 8000 -> 100000 - 15 * (c - 6000)
                    [] c > 8000 -> 70000 - 30 * (c - 8000))
MemoryFactor(m) ==
    Greater(5000, CASE m <= 7000 -> 100000
                    [] m > 7000 /\ m <= 9000 -> 100000 - 10 * (m - 7000)
                    [] m > 9000 -> 80000 - 60 * (m - 9000))
ConnFactor(n) ==
    Greater(5000, CASE n <= 200 -> 100000
                    [] n > 200 /\ n <= 600 -> 100000 - 100 * (n - 200)
                    [] n > 600 -> 60000 - 100 * (n - 600))
LatencyFactor(d) ==
    Greater(5000, CASE d <= 50 -> 100000
                    [] d > 50 /\ d <= 200 -> 100000 - 200 * (d - 50)
                    [] d > 200 /\ d <= 1000 -> 70000 - 50 * (d - 200)
                    [] d > 1000 -> 30000 - 10 * (d - 1000))

\* The effective weight is the declared one times these factors; a pack of 0 is
\* no report, and gets no penalty.
Factors(pack) ==
    LET m == Unpack(pack)
    IN  IF pack = 0 THEN [i \in 1..6 |-> 100000]
        ELSE <<CpuFactor(m.cpu), MemoryFactor(m.memory), ConnFactor(m.conns),
               LatencyFactor(m.ewma), IF m.error THEN 10000 ELSE 100000,
               IF m.preheating THEN 30000 ELSE 100000>>

\* Each factor, and so their product, is at most the other's.
NoHeavier(f, g) == \A i \in 1..6 : f[i] <= g[i]

-----------------------------------------------------------------------------
\* A snapshot is a sequence of instances, records healthy and tags: the metadata
\* as a set of pairs "key=value".  NoTag is a color tag that is None or malformed.
Members(snapshot) == {snapshot[i] : i \in DOMAIN snapshot}

FilterStrict(snapshot, tag, NoTag) ==
    {i \in DOMAIN snapshot : tag = NoTag \/ tag \in snapshot[i].tags}

\* TrafficColorRouter.filter_instances, as the positions of the instances it lists
Filter(snapshot, tag, NoTag) ==
    LET matched == {i \in DOMAIN snapshot : tag \in snapshot[i].tags}
    IN  IF tag = NoTag \/ matched = {} THEN DOMAIN snapshot ELSE matched

\* What AdaptiveLoadBalancer.select may return of the instances listed: weights are
\* never 0, so every healthy one, or the first (the only one, or none is healthy).
Selectable(snapshot, listed) ==
    LET healthy == {i \in listed : snapshot[i].healthy}
        first == {i \in listed : \A j \in listed : i <= j}
    IN  {snapshot[i] : i \in IF healthy = {} THEN first ELSE healthy}

\* route, with the load balancer
Route(snapshot, tag, NoTag) == Selectable(snapshot, Filter(snapshot, tag, NoTag))
=============================================================================
