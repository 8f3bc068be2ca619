---------------------------- MODULE SnapshotCache ----------------------------
(***************************************************************************)
(* ServiceSnapshotCache (cache.py) for one service: the application fetches *)
(* a snapshot when get misses and puts both fetched and pushed snapshots.   *)
(* A snapshot is its topology_version; the server's pushes may be missed,   *)
(* and snapshots reach put in any order.  Its names differ from those of     *)
(* ConfigCache, so that one module can be about both.                       *)
(*                                                                          *)
(* A definition without a comment of its own, placed before the one it      *)
(* alters, is a seeded mistake (README, "Seeded mistakes").                 *)
(***************************************************************************)
EXTENDS Naturals

CONSTANTS
    MaxVersion,    \* bound on the topology versions of the server
    SnapshotTTL    \* ttl_ms, in ticks

ASSUME SnapshotAssumption ==
    /\ MaxVersion \in Nat \ {0}
    /\ SnapshotTTL \in Nat \ {0}

Versions == 1..MaxVersion

VARIABLES
    topology,     \* the server's topology_version
    cached,       \* version in _cache, 0 when there is none
    snapshotAge,  \* time since _fetch_time, up to SnapshotTTL
    pushed,       \* versions pushed and not yet put
    fetching      \* version in the answer to the application's fetch, 0 if none

snapshotVars == <<topology, cached, snapshotAge, pushed, fetching>>

SnapshotInit ==
    /\ topology = 1
    /\ cached = 0
    /\ snapshotAge = 0
    /\ pushed = {}
    /\ fetching = 0

\* get returns the cached snapshot.
Hit == cached # 0 /\ snapshotAge < SnapshotTTL

AcceptsAny(v) == TRUE
AcceptsNextOnly(v) == cached = 0 \/ v = cached + 1

\* The monotonic guard of put.
Accepts(v) == cached = 0 \/ v > cached

PutSnapshot(v) ==
    IF Accepts(v)
    THEN cached' = v /\ snapshotAge' = 0
    ELSE UNCHANGED <<cached, snapshotAge>>

\* The server's topology changes; the push may be lost on its way.
Change ==
    /\ topology < MaxVersion
    /\ topology' = topology + 1
    /\ pushed' \in {pushed, pushed \cup {topology + 1}}
    /\ UNCHANGED <<cached, snapshotAge, fetching>>

\* The handler of ServiceChangedNotify puts a pushed snapshot.
PutPushed(v) ==
    /\ v \in pushed
    /\ pushed' = pushed \ {v}
    /\ PutSnapshot(v)
    /\ UNCHANGED <<topology, fetching>>

\* get misses and the application calls discover_service; the server answers
\* with its current snapshot.
Fetch ==
    /\ ~Hit
    /\ fetching = 0
    /\ fetching' = topology
    /\ UNCHANGED <<topology, cached, snapshotAge, pushed>>

PutFetched ==
    /\ fetching # 0
    /\ fetching' = 0
    /\ PutSnapshot(fetching)
    /\ UNCHANGED <<topology, pushed>>

InvalidateKeepsTime ==
    /\ cached # 0
    /\ cached' = 0
    /\ UNCHANGED <<topology, snapshotAge, pushed, fetching>>

InvalidateSnapshot ==
    /\ cached # 0
    /\ cached' = 0
    /\ snapshotAge' = 0
    /\ UNCHANGED <<topology, pushed, fetching>>

SnapshotTick ==
    /\ cached # 0
    /\ snapshotAge < SnapshotTTL
    /\ snapshotAge' = snapshotAge + 1
    /\ UNCHANGED <<topology, cached, pushed, fetching>>

SnapshotNext ==
    \/ Change \/ Fetch \/ PutFetched \/ InvalidateSnapshot \/ SnapshotTick
    \/ \E v \in Versions : PutPushed(v)

SnapshotSpec == SnapshotInit /\ [][SnapshotNext]_snapshotVars

\* Time passes, a missing snapshot is fetched and the answer is put; pushes
\* may never arrive.
FairSpec ==
    /\ SnapshotSpec
    /\ WF_snapshotVars(SnapshotTick) /\ WF_snapshotVars(Fetch) /\ WF_snapshotVars(PutFetched)

-----------------------------------------------------------------------------
\* The cache holds a version of the server or none, and a fetch time exactly
\* with a snapshot (_cache and _fetch_time have the same keys).
SnapshotTypeOK ==
    /\ topology \in Versions
    /\ cached \in 0..topology
    /\ snapshotAge \in IF cached = 0 THEN {0} ELSE 0..SnapshotTTL
    /\ pushed \subseteq 1..topology
    /\ fetching \in 0..topology

\* A push or an answer that another one overtook never takes the cache back to
\* an older snapshot: only invalidate, which forgets the version, lowers it.
NeverOlder == [][cached' < cached => cached' = 0]_snapshotVars

\* However many pushes are lost, the cache reaches every version of the
\* server: the expiration makes the application fetch again.
CatchesUp == \A v \in Versions : topology = v ~> cached >= v
=============================================================================
