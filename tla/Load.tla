-------------------------------- MODULE Load --------------------------------
(***************************************************************************)
(* What weight a provider gets and which instance a consumer is routed to.   *)
(* The provider's application calls the methods of a MetricsCollector        *)
(* (metrics.py) in any order; the consumer's sets and clears the color of a  *)
(* TrafficColorRouter (load_balancer.py).  Nothing in the SDK makes these     *)
(* calls.                                                                   *)
(*                                                                          *)
(* A definition without a comment of its own, placed before the one it      *)
(* alters, is a seeded mistake (README, "Seeded mistakes").                 *)
(***************************************************************************)
EXTENDS Metrics

CONSTANTS
    Batch,        \* so many requests begin or complete in one step
    Latencies,    \* how long a request may take, in ms
    MaxConns,     \* bound on the connections counted
    MaxSamples,   \* bound on the latencies recorded: up to 3, ewma is exact
    MaxRequests,  \* bound on the requests recorded between two resets
    Hosts, Loads, \* loads of the provider's host; loads to compare the provider's with
    Snapshots,    \* what a consumer may know of a service
    Tags, NoTag   \* color tags; none, or a malformed one

ASSUME LoadAssumption ==
    /\ Batch \in Nat /\ Latencies \subseteq Nat
    /\ MaxConns \in Nat /\ MaxRequests \in Nat /\ MaxSamples \in 0..3
    /\ Hosts \cup Loads \subseteq [cpu : Nat, memory : Nat, conns : Nat, ewma : Nat,
                                  error : BOOLEAN, preheating : BOOLEAN]
    /\ NoTag \notin Tags /\ Snapshots \subseteq Seq([healthy : BOOLEAN, tags : SUBSET Tags])

VARIABLES
    color,     \* _color_tag
    conns,     \* _active_connections
    ewma,      \* _ewma_delay_ms, in 1/100 ms
    samples,   \* the latencies recorded
    total,     \* _total_requests
    failed     \* _failed_requests

loadVars == <<color, conns, ewma, samples, total, failed>>

LoadInit ==
    /\ color = NoTag
    /\ conns = 0 /\ ewma = 0 /\ samples = 0 /\ total = 0 /\ failed = 0

-----------------------------------------------------------------------------
\* increment_connections, Batch times
Begin ==
    /\ conns + Batch <= MaxConns
    /\ conns' = conns + Batch
    /\ UNCHANGED <<color, ewma, samples, total, failed>>

CompleteUnclamped ==
    /\ conns' = conns - Batch
    /\ UNCHANGED <<color, ewma, samples, total, failed>>

\* decrement_connections, Batch times, whatever was counted before
Complete ==
    /\ conns' = Greater(0, conns - Batch)
    /\ UNCHANGED <<color, ewma, samples, total, failed>>

\* record_latency
RecordLatency(l) ==
    /\ samples < MaxSamples
    /\ samples' = samples + 1
    /\ ewma' = IF ewma = 0 THEN 100 * l ELSE (300 * l + 7 * ewma) \div 10
    /\ UNCHANGED <<color, conns, total, failed>>

\* record_request
RecordRequest(success) ==
    /\ total < MaxRequests
    /\ total' = total + 1
    /\ failed' = IF success THEN failed ELSE failed + 1
    /\ UNCHANGED <<color, conns, ewma, samples>>

\* reset_error_counters
ResetErrors ==
    /\ total' = 0 /\ failed' = 0
    /\ UNCHANGED <<color, conns, ewma, samples>>

\* set_color_tag and clear_color_tag
SetColor ==
    /\ color' \in (Tags \cup {NoTag}) \ {color}
    /\ UNCHANGED <<conns, ewma, samples, total, failed>>

LoadNext ==
    \/ Begin
    \/ Complete
    \/ \E l \in Latencies : RecordLatency(l)
    \/ \E success \in BOOLEAN : RecordRequest(success)
    \/ ResetErrors
    \/ SetColor

LoadSpec == LoadInit /\ [][LoadNext]_loadVars

-----------------------------------------------------------------------------
\* _compute_error_flag: the flag set from outside, or the error rate
ErrorFlag(forced) == forced \/ (total > 0 /\ 2 * failed >= total)

\* What the provider measures on a host in state h
Measured(h) ==
    [h EXCEPT !.conns = conns, !.ewma = ewma \div 100, !.error = ErrorFlag(h.error)]

Worse(a, b) ==
    /\ a.cpu >= b.cpu /\ a.memory >= b.memory /\ a.conns >= b.conns /\ a.ewma >= b.ewma
    /\ b.error => a.error
    /\ b.preheating => a.preheating

Weights == [l \in Loads |-> Factors(Collect(l))]

(***************************************************************************)
(* Properties.                                                              *)
(***************************************************************************)

\* The counters are in their ranges: the count of connections is not negative even if
\* the application completes more requests than it began (metrics.py:128), and no more
\* requests failed than were recorded.
LoadTypeOK ==
    /\ color \in Tags \cup {NoTag}
    /\ conns \in 0..MaxConns /\ ewma \in Nat /\ samples \in 0..MaxSamples
    /\ total \in 0..MaxRequests /\ failed \in 0..total

\* Whatever its history, a provider that is worse off in every respect than
\* another never gets the greater weight, and the other way round: no field of
\* the report wraps around (codec.py:231) and no factor has a step upwards.
RankedRight ==
    \A h \in Hosts :
        LET now == Measured(h)
            weight == Factors(Collect(now))
        IN  \A l \in Loads :
                /\ Worse(now, l) => NoHeavier(weight, Weights[l])
                /\ Worse(l, now) => NoHeavier(Weights[l], weight)

\* Whatever is known of a service, an instance is found if there is one: of the
\* tag's color if any is, and then a healthy one of these if any is.
RouteFinds ==
    \A s \in Snapshots :
        LET tagged == {x \in Members(s) : color \in x.tags}
            candidates == IF tagged = {} THEN Members(s) ELSE tagged
            chosen == Route(s, color, NoTag)
        IN  /\ s # <<>> => chosen # {}
            /\ chosen \subseteq candidates
            /\ (\E x \in candidates : x.healthy) => \A x \in chosen : x.healthy
=============================================================================
