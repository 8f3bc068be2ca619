----------------------------- MODULE CacheProofs -----------------------------
(***************************************************************************)
(* Theorems about the two caches of cache.py: ConfigCache, for all keys,    *)
(* files and contents, and SnapshotCache, for any number of versions and    *)
(* every TTL.                                                               *)
(***************************************************************************)
EXTENDS ConfigCache, SnapshotCache, TLAPS

LEMMA StoredFacts ==
    /\ \A k \in Keys : FileOf[k] \in Files
    /\ Contents \subseteq Stored /\ Torn \in Stored /\ Absent \in Stored
    /\ TTL \in Nat /\ 0 \in 0..TTL
BY ConfigAssumption DEF Stored

LEMMA AsReadFacts ==
    /\ \A w \in Stored : AsRead(w) \in Stored
    /\ AsRead(Torn) = Torn
BY ConfigAssumption DEF Stored, AsRead

\* The memory part of a method keeps the dictionaries in step.
Agree ==
    /\ cache \in [Keys -> Stored] /\ md5 = cache
    /\ age \in [Keys -> 0..TTL]

LEMMA RememberStep ==
    ASSUME Agree, NEW k \in Keys, NEW c \in Stored, Remember(k, c)
    PROVE  Agree'
BY StoredFacts DEF Agree, Remember

LEMMA LostStep == ASSUME MemoryLost PROVE Agree'
BY StoredFacts DEF MemoryLost, Agree

\* The files hold what their histories say, and Survives says it of what is read.
Known == Contents \cup {Absent}
FilesOK ==
    /\ file \in [Files -> Stored] /\ hurt \subseteq Files
    /\ last \in [Files -> Known] /\ whole \in [Files -> Known]
Held ==
    \A f \in Files :
        /\ f \in hurt => file[f] \in {whole[f], Torn}
        /\ f \notin hurt => file[f] = last[f] /\ file[f] = whole[f]

\* The file part of a method keeps that true.
LEMMA RewriteStep ==
    ASSUME FilesOK, Held, NEW f \in Files, NEW w \in Known, NEW left,
           left \subseteq {file[f], Torn}, Rewrite(f, w, left)
    PROVE  FilesOK' /\ Held'
<1>1. w \in Stored /\ file[f] \in Stored /\ left \subseteq Stored
  BY StoredFacts DEF FilesOK, Known, Stored
<1>2. last' = [last EXCEPT ![f] = w] /\ last' \in [Files -> Known]
  BY DEF Rewrite, FilesOK
<1>3. CASE file' = [file EXCEPT ![f] = w] /\ whole' = [whole EXCEPT ![f] = w] /\ hurt' = hurt \ {f}
  <2>1. FilesOK'
    BY <1>1, <1>2, <1>3 DEF FilesOK
  <2>2. Held'
    BY <1>1, <1>2, <1>3 DEF FilesOK, Held
  <2> QED BY <2>1, <2>2
<1>4. ASSUME NEW v \in left, file' = [file EXCEPT ![f] = v], hurt' = hurt \cup {f}, whole' = whole
      PROVE  FilesOK' /\ Held'
  <2>1. FilesOK'
    BY <1>1, <1>2, <1>4 DEF FilesOK
  <2>2. v \in {whole[f], Torn}
    BY <1>4 DEF Held
  <2>3. Held'
    BY <1>1, <1>2, <1>4, <2>2 DEF FilesOK, Held
  <2> QED BY <2>1, <2>3
<1> QED BY <1>3, <1>4 DEF Rewrite

-----------------------------------------------------------------------------
ConfigInv == Agree /\ FilesOK /\ Held

LEMMA ConfigStep ==
    ASSUME ConfigInv, [Next]_vars
    PROVE  ConfigInv'
<1>1. ASSUME NEW k \in Keys, NEW c \in Contents, Put(k, c) PROVE ConfigInv'
  <2>1. Agree'
    BY <1>1, StoredFacts, RememberStep DEF Put, ConfigInv
  <2>2. Rewrite(FileOf[k], c, {file[FileOf[k]], Torn}) /\ c \in Known
    BY <1>1 DEF Put, Save, Known
  <2>3. FilesOK' /\ Held'
    BY <2>2, StoredFacts, RewriteStep DEF ConfigInv
  <2> QED BY <2>1, <2>3 DEF ConfigInv
<1>2. ASSUME NEW k \in Keys, Remove(k) PROVE ConfigInv'
  <2>1. Agree'
    BY <1>2, StoredFacts, RememberStep DEF Remove, Forget, ConfigInv
  <2>2. Rewrite(FileOf[k], Absent, {file[FileOf[k]]}) /\ Absent \in Known
    BY <1>2 DEF Remove, Delete, Known
  <2>3. FilesOK' /\ Held'
    BY <2>2, StoredFacts, RewriteStep DEF ConfigInv
  <2> QED BY <2>1, <2>3 DEF ConfigInv
<1>3. ASSUME NEW k \in Keys, Invalidate(k) PROVE ConfigInv'
  BY <1>3, StoredFacts, RememberStep DEF Invalidate, Forget, ConfigInv, FilesOK, Held
<1>4. ASSUME NEW k \in Keys, Load(k) PROVE ConfigInv'
  <2>1. AsRead(file[FileOf[k]]) \in Stored
    BY StoredFacts, AsReadFacts DEF ConfigInv, FilesOK
  <2>2. Agree'
    BY <1>4, <2>1, RememberStep DEF Load, memory, Agree, ConfigInv
  <2> QED BY <1>4, <2>2 DEF Load, ConfigInv, FilesOK, Held
<1>5. ASSUME NEW k \in Keys, Tick(k) PROVE ConfigInv'
  <2>1. Agree'
    BY <1>5, StoredFacts DEF Tick, Agree, ConfigInv
  <2> QED BY <1>5, <2>1 DEF Tick, ConfigInv, FilesOK, Held
<1>6. ASSUME NEW k \in Keys, CrashInPut(k) PROVE ConfigInv'
  <2>1. FilesOK' /\ Held'
    BY <1>6, StoredFacts DEF CrashInPut, ConfigInv, FilesOK, Held
  <2> QED BY <1>6, <2>1, LostStep DEF CrashInPut, ConfigInv
<1>7. CASE Crash
  BY <1>7, LostStep DEF Crash, ConfigInv, FilesOK, Held
<1>8. CASE UNCHANGED vars
  BY <1>8 DEF vars, ConfigInv, Agree, FilesOK, Held
<1> QED BY <1>1, <1>2, <1>3, <1>4, <1>5, <1>6, <1>7, <1>8 DEF Next

LEMMA ConfigInvariant == Spec => []ConfigInv
<1>1. Init => ConfigInv
  BY StoredFacts DEF Init, ConfigInv, Agree, FilesOK, Held, Known
<1> QED BY <1>1, ConfigStep, PTL DEF Spec

\* The three dictionaries always agree: an MD5 never describes another content
\* than the one get returns, whatever fails or is cut short.
THEOREM ConfigTypeCorrect == Spec => []TypeOK
<1>1. ConfigInv => TypeOK
  BY DEF ConfigInv, Agree, FilesOK, Known, TypeOK
<1> QED BY <1>1, ConfigInvariant, PTL

\* Whichever keys share a file name and whatever read_text makes of a content, a
\* file gives what was last put or removed for a key with its name; and if that
\* was cut short, what it last held completely, or a torn file.
THEOREM SnapshotsSurvive == Spec => []Survives
<1>1. ConfigInv => Survives
  BY StoredFacts, AsReadFacts DEF ConfigInv, Held, Survives, Loaded
<1> QED BY <1>1, ConfigInvariant, PTL

-----------------------------------------------------------------------------
\* SnapshotTypeOK with the two cases of the age apart
Typed ==
    /\ topology \in 1..MaxVersion
    /\ cached \in 0..topology
    /\ snapshotAge \in 0..SnapshotTTL /\ (cached = 0 => snapshotAge = 0)
    /\ pushed \subseteq 1..topology
    /\ fetching \in 0..topology

LEMMA TypedIsTypeOK == Typed <=> SnapshotTypeOK
BY SnapshotAssumption DEF Typed, SnapshotTypeOK, Versions

\* put keeps the types, whatever version of the server's it is given, and leaves
\* the cache at that version or a later one.
LEMMA PutStep ==
    ASSUME Typed, NEW v \in 1..topology, PutSnapshot(v)
    PROVE  /\ cached' \in 1..topology /\ snapshotAge' \in 0..SnapshotTTL
           /\ cached' >= v /\ cached' >= cached
<1>1. SnapshotTTL \in Nat /\ MaxVersion \in Nat
  BY SnapshotAssumption
<1>2. CASE Accepts(v)
  BY <1>1, <1>2 DEF Typed, PutSnapshot, Accepts
<1>3. CASE ~Accepts(v)
  BY <1>1, <1>3 DEF Typed, PutSnapshot, Accepts
<1> QED BY <1>2, <1>3

LEMMA SnapshotStep ==
    ASSUME Typed, [SnapshotNext]_snapshotVars
    PROVE  Typed' /\ (cached' < cached => cached' = 0)
<1>1. SnapshotTTL \in Nat /\ SnapshotTTL > 0 /\ MaxVersion \in Nat
  BY SnapshotAssumption
<1>2. CASE Change
  <2>1. topology' = topology + 1 /\ topology' \in 1..MaxVersion
    BY <1>1, <1>2 DEF Typed, Change
  <2>2. pushed' \subseteq 1..topology'
    BY <1>2, <2>1 DEF Typed, Change
  <2> QED BY <1>2, <2>1, <2>2 DEF Typed, Change
<1>3. ASSUME NEW v \in Versions, PutPushed(v)
      PROVE  Typed' /\ cached' >= cached
  <2>1. v \in 1..topology /\ PutSnapshot(v)
    BY <1>3 DEF Typed, PutPushed
  <2> QED BY <1>1, <1>3, <2>1, PutStep DEF Typed, PutPushed
<1>4. CASE Fetch
  BY <1>1, <1>4 DEF Typed, Fetch
<1>5. CASE PutFetched
  <2>1. fetching \in 1..topology /\ PutSnapshot(fetching)
    BY <1>5 DEF Typed, PutFetched
  <2> QED BY <1>1, <1>5, <2>1, PutStep DEF Typed, PutFetched
<1>6. CASE InvalidateSnapshot
  BY <1>1, <1>6 DEF Typed, InvalidateSnapshot
<1>7. CASE SnapshotTick
  BY <1>1, <1>7 DEF Typed, SnapshotTick
<1>8. CASE UNCHANGED snapshotVars
  BY <1>8 DEF Typed, snapshotVars
<1>9. cached \in Nat /\ (cached' >= cached /\ Typed' => ~(cached' < cached))
  BY <1>1 DEF Typed
<1> QED BY <1>2, <1>3, <1>4, <1>5, <1>6, <1>7, <1>8, <1>9 DEF SnapshotNext

LEMMA TypedAlways == SnapshotSpec => []Typed
<1>1. SnapshotInit => Typed
  BY SnapshotAssumption DEF SnapshotInit, Typed
<1>2. Typed /\ [SnapshotNext]_snapshotVars => Typed'
  BY SnapshotStep
<1> QED BY <1>1, <1>2, PTL DEF SnapshotSpec

\* The cache holds a version of the server or none, and a fetch time with it
\* (_cache and _fetch_time), whatever is pushed, fetched or invalidated when.
THEOREM SnapshotTypeCorrect == SnapshotSpec => []SnapshotTypeOK
<1>1. Typed => SnapshotTypeOK
  BY TypedIsTypeOK
<1> QED BY <1>1, TypedAlways, PTL

\* The monotonic guard of put (cache.py:96) suffices: in whatever order pushes and
\* answers reach it, only invalidate takes the cache back.
THEOREM GoesForward == SnapshotSpec => NeverOlder
<1>1. Typed /\ [SnapshotNext]_snapshotVars
        => [cached' < cached => cached' = 0]_snapshotVars
  BY SnapshotStep
<1> QED BY <1>1, TypedAlways, PTL DEF SnapshotSpec, NeverOlder
=============================================================================
