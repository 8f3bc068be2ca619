----------------------------- MODULE ConfigCache -----------------------------
(***************************************************************************)
(* ConfigCache (cache.py) with a snapshot directory: contents in memory,    *)
(* which expire and are lost in a crash, and snapshot files under sanitized  *)
(* names, which several keys may share.  Every method is synchronous, so     *)
(* only a crash can come between its memory part and its file part.  An MD5  *)
(* is the content it was computed from.                                      *)
(*                                                                          *)
(* A definition without a comment of its own, placed before the one it      *)
(* alters, is a seeded mistake (README, "Seeded mistakes").                 *)
(***************************************************************************)
EXTENDS Naturals

CONSTANTS
    Keys,          \* config keys: tenant+group+data_id, with the tag
    Files,         \* file names
    FileOf,        \* _sanitize_filename
    Contents,      \* what is put
    Newlines,      \* a content with its line ends read as read_text reads them
    Torn,          \* what is left of a content whose writing stopped halfway
    Absent,        \* no content
    TTL            \* ttl_ms, in ticks

ASSUME ConfigAssumption ==
    /\ FileOf \in [Keys -> Files]
    /\ Newlines \in [Contents -> Contents]
    /\ Absent \notin Contents \cup {Torn}
    /\ Torn \notin Contents
    /\ TTL \in Nat \ {0}

VARIABLES
    cache,  \* _cache
    md5,    \* _md5_cache, as the content it is the digest of
    age,    \* time since _fetch_time, up to TTL
    file,   \* the snapshot files
    last,   \* (history) the content last put for a key of the file and not removed
    whole,  \* (history) what the file last held completely, or Absent
    hurt    \* (history) the files whose last write or removal was cut short

memory == <<cache, md5, age>>
vars == <<cache, md5, age, file, last, whole, hurt>>

Stored == Contents \cup {Torn, Absent}

Init ==
    /\ cache = [k \in Keys |-> Absent]
    /\ md5 = [k \in Keys |-> Absent]
    /\ age = [k \in Keys |-> 0]
    /\ file = [f \in Files |-> Absent]
    /\ last = [f \in Files |-> Absent]
    /\ whole = [f \in Files |-> Absent]
    /\ hurt = {}

\* The three dictionaries of key k take content c, or lose the key.
Remember(k, c) ==
    /\ cache' = [cache EXCEPT ![k] = c]
    /\ md5' = [md5 EXCEPT ![k] = c]
    /\ age' = [age EXCEPT ![k] = 0]
Forget(k) == Remember(k, Absent)

\* What read_text makes of a file: CR and CRLF become LF.
AsRead(w) == IF w \in Contents THEN Newlines[w] ELSE w

\* File f takes w (nothing, if that is Absent), or its change is cut short and it
\* holds one of left instead.
Rewrite(f, w, left) ==
    /\ last' = [last EXCEPT ![f] = w]
    /\ \/ /\ file' = [file EXCEPT ![f] = w]
          /\ whole' = [whole EXCEPT ![f] = w]
          /\ hurt' = hurt \ {f}
       \/ /\ \E v \in left : file' = [file EXCEPT ![f] = v]
          /\ hurt' = hurt \cup {f}
          /\ UNCHANGED whole

\* _save_snapshot and _delete_snapshot either do it or swallow an OSError; a
\* write that fails may have truncated the file.
Save(k, c) == Rewrite(FileOf[k], c, {file[FileOf[k]], Torn})
Delete(k) == Rewrite(FileOf[k], Absent, {file[FileOf[k]]})

Put(k, c) ==
    /\ Remember(k, c)
    /\ Save(k, c)

RemoveMemoryOnly(k) ==
    /\ Forget(k)
    /\ last' = [last EXCEPT ![FileOf[k]] = Absent]
    /\ UNCHANGED <<file, whole, hurt>>

Remove(k) ==
    /\ Forget(k)
    /\ Delete(k)

Invalidate(k) ==
    /\ Forget(k)
    /\ UNCHANGED <<file, last, whole, hurt>>

LoadKeepsMd5(k) ==
    /\ file[FileOf[k]] # Absent
    /\ cache' = [cache EXCEPT ![k] = AsRead(file[FileOf[k]])]
    /\ age' = [age EXCEPT ![k] = 0]
    /\ UNCHANGED <<md5, file, last, whole, hurt>>

\* load_from_snapshot of a file that exists.  Reading it may fail (a torn file
\* may also not decode, which raises) and then nothing changes.
Load(k) ==
    /\ file[FileOf[k]] # Absent
    /\ \/ Remember(k, AsRead(file[FileOf[k]]))
       \/ UNCHANGED memory
    /\ UNCHANGED <<file, last, whole, hurt>>

Tick(k) ==
    /\ cache[k] # Absent
    /\ age[k] < TTL
    /\ age' = [age EXCEPT ![k] = @ + 1]
    /\ UNCHANGED <<cache, md5, file, last, whole, hurt>>

MemoryLost ==
    /\ cache' = [k \in Keys |-> Absent]
    /\ md5' = [k \in Keys |-> Absent]
    /\ age' = [k \in Keys |-> 0]

\* The process dies and starts again.
Crash ==
    /\ MemoryLost
    /\ UNCHANGED <<file, last, whole, hurt>>

\* It dies inside the write_text of a put.
CrashInPut(k) ==
    /\ MemoryLost
    /\ file' = [file EXCEPT ![FileOf[k]] = Torn]
    /\ hurt' = hurt \cup {FileOf[k]}
    /\ UNCHANGED <<last, whole>>

Next ==
    \/ \E k \in Keys :
          \/ \E c \in Contents : Put(k, c)
          \/ Remove(k) \/ Invalidate(k) \/ Load(k) \/ Tick(k) \/ CrashInPut(k)
    \/ Crash

Spec == Init /\ [][Next]_vars

-----------------------------------------------------------------------------
\* The three dictionaries have the same keys and agree on the content: an MD5
\* never describes another content than the one get returns, so that "not
\* modified" from the server is about the right one.
TypeOK ==
    /\ cache \in [Keys -> Stored]
    /\ md5 = cache
    /\ age \in [Keys -> 0..TTL]
    /\ file \in [Files -> Stored]
    /\ {last, whole} \subseteq [Files -> Contents \cup {Absent}]
    /\ hurt \subseteq Files

\* What load_from_snapshot restores for key k, if it can read.
Loaded(k) == AsRead(file[FileOf[k]])

\* "File snapshot persistence for fault tolerance": after any history of puts,
\* removals, invalidations, loads, expirations and crashes, load_from_snapshot
\* finds the content last put for a key with this file name, its line ends read
\* as LF, and nothing once such a key is removed.  Where the last write or
\* removal was cut short, it finds what the file last held completely, or a
\* torn file.
Survives ==
    \A k \in Keys :
        LET f == FileOf[k]
        IN  IF f \in hurt THEN Loaded(k) \in {AsRead(whole[f]), Torn}
            ELSE Loaded(k) = AsRead(last[f])
=============================================================================
