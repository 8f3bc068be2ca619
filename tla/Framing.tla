------------------------------- MODULE Framing -------------------------------
(***************************************************************************)
(* Frames as bytes (frame.py): a header of fixed size, then a governance    *)
(* block if a flag says so, the metadata and the body.  A frame is a record: *)
(* opcode, stream, the flags request and encrypted, the governance block,    *)
(* empty if there is none, and the body.  The metadata, a MessagePack map,   *)
(* stands for its body_type alone.                                           *)
(*                                                                          *)
(* A definition without a comment of its own, placed before the one it      *)
(* alters, is a seeded mistake (README, "Seeded mistakes").                 *)
(***************************************************************************)
EXTENDS Bytes

\* Two bytes, each of which is one value of a byte in the code.
MAGIC_NUMBER == 5 * Base + 1
PROTOCOL_VERSION == 7
HEADER_SIZE == 16

\* The Flag bits the client reads or writes, as many as a byte of the model has.
REQUEST == 1
ENCRYPTED == 2
GOVERNANCE == 4

Flags(f) ==
    (IF f.request THEN REQUEST ELSE 0) + (IF f.encrypted THEN ENCRYPTED ELSE 0)
        + (IF f.governance # <<>> THEN GOVERNANCE ELSE 0)
Has(flags, bit) == (flags \div bit) % 2 = 1

-----------------------------------------------------------------------------
\* FrameHeader.to_bytes, with its padding
Header(flags, stream, length) ==
    Digits(MAGIC_NUMBER, 2) \o Digits(PROTOCOL_VERSION, 1) \o Digits(flags, 1)
        \o Digits(stream, 4) \o Digits(length, 4) \o Digits(0, 4)

\* What follows the header: the governance block and its length if there is one,
\* the metadata after their length, the body.
Meta(f) == Digits(f.opcode, 4)
Governance(f) ==
    IF f.governance = <<>> THEN <<>> ELSE Digits(Len(f.governance), 4) \o f.governance
Payload(f) == Governance(f) \o Digits(Len(Meta(f)), 2) \o Meta(f) \o f.body

EncodeLong(f) == Header(Flags(f), f.stream, HEADER_SIZE + Len(Payload(f))) \o Payload(f)

\* FrameEncoder.encode
Encode(f) == Header(Flags(f), f.stream, Len(Payload(f))) \o Payload(f)

\* What it can encode: struct.pack raises on any other number or length.
IsFrame(f) ==
    /\ f \in [opcode : 0..(Limit(4) - 1), stream : 0..(Limit(4) - 1), request : BOOLEAN,
              encrypted : BOOLEAN, governance : Seq(Byte), body : Seq(Byte)]
    /\ Len(Payload(f)) < Limit(4)

-----------------------------------------------------------------------------
\* FrameHeader.from_bytes
ReadHeader(bytes) ==
    IF Len(bytes) < HEADER_SIZE \/ Number(SubSeq(bytes, 1, 2)) # MAGIC_NUMBER THEN EOFError
    ELSE Got([flags |-> Number(SubSeq(bytes, 4, 4)), stream |-> Number(SubSeq(bytes, 5, 8)),
              length |-> Number(SubSeq(bytes, 9, 12))],
             SubSeq(bytes, HEADER_SIZE + 1, Len(bytes)))

\* FrameDecoder.decode of a whole frame, or ProtocolError
Decode(bytes) ==
    Then(ReadHeader(bytes), LAMBDA h, payload :
    Then(IF Has(h.flags, GOVERNANCE) THEN ReadStr(payload, 4) ELSE Got(<<>>, payload), LAMBDA gov, rest :
    Then(ReadStr(rest, 2), LAMBDA meta, body :
        Got([opcode |-> Number(meta), stream |-> h.stream, request |-> Has(h.flags, REQUEST),
             encrypted |-> Has(h.flags, ENCRYPTED), governance |-> gov, body |-> body], <<>>))))
=============================================================================
