------------------------------- MODULE Stream -------------------------------
(***************************************************************************)
(* Frames over a TCP stream: one side encodes messages and writes them, the  *)
(* network delivers their bytes in pieces and may fail, and the other side's *)
(* read loop (connection.py, read_frame) puts frames together again and      *)
(* decodes them.  What is in the frames is left to three operators.          *)
(***************************************************************************)
EXTENDS Framing

CONSTANTS
    Offers,             \* (bound) Offers[i] is what the i-th message may be
    Piece,              \* (bound) how many bytes the network delivers at a time
    FrameOf(_),         \* the frame a message is sent in
    Interpretation(_),  \* what becomes of a frame that was read
    MayBecome(_, _)     \* what may become of a message

ASSUME PieceAssumption == Piece \in Nat \ {0}

\* What does not fit a frame raises in encode, before anything is sent.
ASSUME OffersAssumption ==
    Len(Offers) \in Nat /\ \A i \in 1..Len(Offers) : \A m \in Offers[i] : IsFrame(FrameOf(m))

VARIABLES
    sent,     \* the messages written
    flight,   \* their bytes on the way
    buffer,   \* the bytes that have arrived and were not read
    header,   \* the header bytes of the frame being read, or none
    got,      \* the messages read
    state     \* "open", "cut" by the peer or the network, or "closed" here

vars == <<sent, flight, buffer, header, got, state>>

Init ==
    /\ sent = <<>> /\ flight = <<>> /\ buffer = <<>> /\ header = <<>> /\ got = <<>>
    /\ state = "open"

-----------------------------------------------------------------------------
Send ==
    /\ state = "open" /\ Len(sent) < Len(Offers)
    /\ \E m \in Offers[Len(sent) + 1] :
        /\ sent' = Append(sent, m)
        /\ flight' = flight \o Encode(FrameOf(m))
    /\ UNCHANGED <<buffer, header, got, state>>

\* Some more bytes arrive; read_frame awaits a number of them, whatever the pieces.
Arrive ==
    /\ flight # <<>>
    /\ LET n == IF Len(flight) < Piece THEN Len(flight) ELSE Piece
       IN  buffer' = buffer \o SubSeq(flight, 1, n) /\ flight' = SubSeq(flight, n + 1, Len(flight))
    /\ UNCHANGED <<sent, header, got, state>>

\* The peer closes, the network breaks, or nothing comes for read_timeout seconds:
\* what is on the way is lost.
Cut ==
    /\ state = "open"
    /\ state' = "cut" /\ flight' = <<>>
    /\ UNCHANGED <<sent, buffer, header, got>>

Close ==
    /\ state' = "closed" /\ flight' = <<>> /\ buffer' = <<>> /\ header' = <<>>
    /\ UNCHANGED <<sent, got>>

Awaited == IF header = <<>> THEN HEADER_SIZE ELSE ReadHeader(header).value.length

\* readexactly(HEADER_SIZE) returns; a bad header closes the connection.
ReadFrameHeader ==
    /\ state # "closed" /\ header = <<>> /\ Len(buffer) >= HEADER_SIZE
    /\ LET h == SubSeq(buffer, 1, HEADER_SIZE)
       IN  IF ~ReadHeader(h).ok THEN Close
           ELSE /\ header' = h
                /\ buffer' = SubSeq(buffer, HEADER_SIZE + 1, Len(buffer))
                /\ UNCHANGED <<sent, flight, got, state>>

\* readexactly(payload_length) returns; a bad frame closes the connection.
ReadPayload ==
    /\ state # "closed" /\ header # <<>> /\ Len(buffer) >= Awaited
    /\ LET f == Decode(header \o SubSeq(buffer, 1, Awaited))
       IN  IF ~f.ok THEN Close
           ELSE /\ got' = Append(got, Interpretation(f.value))
                /\ buffer' = SubSeq(buffer, Awaited + 1, Len(buffer)) /\ header' = <<>>
                /\ UNCHANGED <<sent, flight, state>>

\* The stream ends inside or between frames, or the timeout strikes.
ReadFails == state = "cut" /\ Len(buffer) < Awaited /\ Close

Next == Send \/ Arrive \/ Cut \/ ReadFrameHeader \/ ReadPayload \/ ReadFails

Spec == Init /\ [][Next]_vars

-----------------------------------------------------------------------------
Queue == INSTANCE FrameQueue WITH open <- (state # "closed"), broken <- (state # "open")

\* Whatever the pieces in which the bytes come and wherever the stream ends, the
\* read loop yields the messages sent, in order, each once and whole; one that
\* does not fit its length prefixes (codec.py:66) spoils itself alone, never the
\* frames behind it, and does not make the loop close the connection.
KeepsFrames == Queue!Spec

\* The read loop never waits for bytes that are not to come: when all that was
\* sent has arrived and too little of it is left to go on with, nothing is left.
AllRead ==
    state = "open" /\ flight = <<>> /\ Len(buffer) < Awaited =>
        buffer = <<>> /\ header = <<>> /\ Len(got) = Len(sent)
=============================================================================
