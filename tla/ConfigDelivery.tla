--------------------------- MODULE ConfigDelivery ---------------------------
(***************************************************************************)
(* Configurations over one session: the encryption key, get_config with its  *)
(* chunks, and ConfigChangedNotify (client.py).  All calls ask for the same   *)
(* configuration.  The link is reliable and keeps the order of frames.  A    *)
(* key is the timestamp it was derived from, and what is encrypted with one  *)
(* opens with the same one only (module Frames has the layout).  A session    *)
(* without encryption has the key Plain on both sides.                      *)
(***************************************************************************)
EXTENDS Naturals, SequencesExt

CONSTANTS
    Calls,      \* the calls of get_config, each made once
    MaxChunks,  \* bound on the chunks of an answer
    MaxTime,    \* bound on the clock
    MaxNotices  \* bound on the notifications

VARIABLES
    now,       \* the clock of client and server
    key,       \* the client's _cek, or NoKey
    peerKey,   \* the server's, or NoKey
    call,      \* what each call does, or its outcome
    link,      \* the frames on their way to the client, in order
    chunks,    \* _config_chunks of the configuration: the indices present
    expected,  \* total_chunks of the answer to each call
    failures,  \* _decryption_failures
    notices,   \* the notifications sent
    told       \* how often the change handlers were called

vars == <<now, key, peerKey, call, link, chunks, expected, failures, notices, told>>
delivery == <<call, link, chunks, expected, failures, notices, told>>

NoKey == MaxTime + 1
Plain == MaxTime + 2

Init ==
    /\ now = 0 /\ key = NoKey /\ peerKey = NoKey
    /\ call = [c \in Calls |-> "new"] /\ expected = [c \in Calls |-> 0]
    /\ link = <<>> /\ chunks = {} /\ failures = 0 /\ notices = 0 /\ told = 0

Tick == now < MaxTime /\ now' = now + 1 /\ UNCHANGED <<key, peerKey, delivery>>

-----------------------------------------------------------------------------
\* The server derives its key from the timestamp in the handshake request, sent
\* at any time before, if the two sides agree on encryption.
ServerAccepts ==
    /\ peerKey = NoKey /\ peerKey' \in (0..now) \cup {Plain}
    /\ UNCHANGED <<now, key, delivery>>

\* The client derives its own from the time at which the answer comes.
HandshakeAnswered ==
    /\ peerKey # NoKey /\ key = NoKey /\ key' = IF peerKey = Plain THEN Plain ELSE now
    /\ UNCHANGED <<now, peerKey, delivery>>

Ask(c) ==
    /\ key # NoKey /\ call[c] = "new"
    /\ call' = [call EXCEPT ![c] = "asked"]
    /\ UNCHANGED <<now, key, peerKey, link, chunks, expected, failures, notices, told>>

\* A frame with a chunk for a call, or, of index 0 and for nobody, a notification
Chunk(c, i, n) == [to |-> {c}, index |-> i, total |-> n, key |-> peerKey]
Notice == [to |-> {}, index |-> 0, total |-> 1, key |-> peerKey]

\* The server answers, in as many chunks as the content needs, each encrypted.
Serve(c) ==
    /\ call[c] = "asked"
    /\ call' = [call EXCEPT ![c] = "waiting"]
    /\ \E n \in 1..MaxChunks : link' = link \o [i \in 1..n |-> Chunk(c, i - 1, n)]
    /\ UNCHANGED <<now, key, peerKey, chunks, expected, failures, notices, told>>

Notify ==
    /\ key # NoKey /\ notices < MaxNotices
    /\ notices' = notices + 1 /\ link' = Append(link, Notice)
    /\ UNCHANGED <<now, key, peerKey, call, chunks, expected, failures, told>>

\* get_config resumes with its response: decryption, then the only chunk or
\* _assemble_config_chunks up to its first sleep.
Respond(c, f) ==
    IF f.key # key
    THEN /\ failures' = failures + 1 /\ call' = [call EXCEPT ![c] = "failed"]
         /\ UNCHANGED <<chunks, expected>>
    ELSE /\ failures' = 0
         /\ IF f.total > 1
            THEN /\ call' = [call EXCEPT ![c] = "assembling"]
                 /\ chunks' = {f.index} /\ expected' = [expected EXCEPT ![c] = f.total]
            ELSE call' = [call EXCEPT ![c] = "done"] /\ UNCHANGED <<chunks, expected>>

\* route_frame: a response goes to the call that waits for its stream id, which is
\* no longer registered afterwards; a notification that does not open is dropped.
Deliver ==
    /\ link # <<>> /\ link' = Tail(link)
    /\ LET f == Head(link)
       IN  \/ \E c \in f.to :
                 /\ call[c] = "waiting" /\ Respond(c, f)
                 /\ UNCHANGED told
           \/ /\ \A c \in f.to : call[c] # "waiting"
              /\ told' = IF f.to = {} /\ f.key = key THEN told + 1 ELSE told
              /\ UNCHANGED <<call, chunks, expected, failures>>
    /\ UNCHANGED <<now, key, peerKey, notices>>

\* The loop of _assemble_config_chunks looks again.
Assemble(c) ==
    /\ call[c] = "assembling"
    /\ Cardinality(chunks) >= expected[c]
    /\ call' = [call EXCEPT ![c] = "done"] /\ chunks' = {}
    /\ UNCHANGED <<now, key, peerKey, link, expected, failures, notices, told>>

\* ... but the entry is gone: KeyError
AssembleFails(c) ==
    /\ call[c] = "assembling" /\ chunks = {}
    /\ call' = [call EXCEPT ![c] = "failed"]
    /\ UNCHANGED <<now, key, peerKey, link, chunks, expected, failures, notices, told>>

Next ==
    \/ Tick \/ ServerAccepts \/ HandshakeAnswered \/ Notify \/ Deliver
    \/ \E c \in Calls : Ask(c) \/ Serve(c) \/ Assemble(c) \/ AssembleFails(c)

\* The server answers, frames are read, and the waiting loop goes on.
Spec ==
    /\ Init /\ [][Next]_vars
    /\ WF_vars(Deliver)
    /\ \A c \in Calls : WF_vars(Serve(c)) /\ WF_vars(Assemble(c)) /\ WF_vars(AssembleFails(c))

-----------------------------------------------------------------------------
\* "Wait for remaining chunks (they come as separate frames)" (client.py:624): a
\* get_config whose answer has several chunks, all of which arrive, ends.
ChunksAreAssembled == \A c \in Calls : call[c] = "assembling" ~> call[c] # "assembling"
=============================================================================
