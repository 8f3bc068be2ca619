------------------------------- MODULE Frames -------------------------------
(***************************************************************************)
(* What frames carry besides plain bodies, as sequences of bytes: governance *)
(* blocks (governance.py) and encrypted bodies (crypto.py).                  *)
(*                                                                          *)
(* A definition without a comment of its own, placed before the one it      *)
(* alters, is a seeded mistake (README, "Seeded mistakes").                 *)
(***************************************************************************)
EXTENDS Messages, Framing

\* The tags of a governance block and the length of their values; 0 is any.
TRACE_CONTEXT == 1
TRAFFIC_COLORING == 2
METHOD_METRICS == 3
TENANT_QUOTA_TOKEN == 4
TagLength == <<24, 0, 8, 16>>

-----------------------------------------------------------------------------
\* data[:n].ljust(n, b"\x00")
Padded(x, n) == [i \in 1..n |-> IF i <= Len(x) THEN x[i] ELSE 0]

\* to_bytes of the value of a tag; a coloring is cut to what a u8 could count.
TagValue(tag, x) ==
    CASE tag \in {TRACE_CONTEXT, TENANT_QUOTA_TOKEN} -> Padded(x, TagLength[tag])
      [] tag = TRAFFIC_COLORING -> SubSeq(x, 1, IF Len(x) < Base THEN Len(x) ELSE Base - 1)
      [] OTHER -> x

Tlv == <<U(1), Str(2)>>

\* GovernanceBlock.to_bytes: the known tags in their order, then the others.  This is
\* what encode expects; it puts the length before it (frame.py:214).
GovernanceBytes(gov) ==
    FlattenSeq([i \in 1..Len(gov) |->
                    Write(Tlv, <<gov[i].tag, TagValue(gov[i].tag, gov[i].value)>>)])

\* build_governance_block, with to_frame_bytes: the block with its length before it,
\* which encode takes for a part of the block and puts another length before.
BuildGovernanceBlock(gov) ==
    LET content == GovernanceBytes(gov)
    IN  IF gov = <<>> THEN <<>> ELSE Digits(Len(content), 4) \o content

GovernanceReadShort(bytes) ==
    LET r == Read(Tlv, bytes) IN IF r.ok THEN <<[tag |-> r.value[1], value |-> r.value[2]]>> ELSE <<>>

\* from_bytes of the value of a tag takes the bytes it knows of.
Known(tag, x) ==
    IF tag \in {TRACE_CONTEXT, METHOD_METRICS, TENANT_QUOTA_TOKEN} THEN SubSeq(x, 1, TagLength[tag]) ELSE x

\* GovernanceBlock.from_bytes: entries until the bytes end, or end too early; a
\* known value that is too short raises, and then nothing is known of the block.
GovernanceRead(bytes) ==
    LET Next(r, i) ==
            IF r.left = <<>> THEN r
            ELSE LET e == Read(Tlv, r.left)
                 IN  IF e.ok
                     THEN Got(Append(r.value, [tag |-> e.value[1], value |-> e.value[2]]), e.left)
                     ELSE Got(r.value, <<>>)
        gov == FoldLeft(Next, Got(<<>>, bytes), bytes).value
    IN  IF \E i \in DOMAIN gov :
               gov[i].tag \in DOMAIN TagLength /\ Len(gov[i].value) < TagLength[gov[i].tag]
        THEN <<>> ELSE [i \in DOMAIN gov |-> [gov[i] EXCEPT !.value = Known(gov[i].tag, @)]]

-----------------------------------------------------------------------------
(***************************************************************************)
(* Encryption.  AES-GCM is modelled by what it promises: what is sealed with *)
(* a key and additional data opens with these and nothing else.              *)
(***************************************************************************)
Iv == [i \in 1..12 |-> 9]

\* build_aad; an opcode takes four bytes of the model.
Aad(stream, opcode) == Write(<<U(2), U(1), U(4), U(4)>>, <<MAGIC_NUMBER, PROTOCOL_VERSION, stream, opcode>>)

Seal(key, aad, plaintext) == plaintext \o Digits(key, 2) \o aad
Opens(key, aad, ciphertext) ==
    LET n == 2 + Len(aad)
        m == Len(ciphertext) - n
    IN  m >= 0 /\ SubSeq(ciphertext, m + 1, m + n) = Digits(key, 2) \o aad

\* encrypt_config_body: the layout is the length of iv, iv, the ciphertext.
Encrypt(plaintext, key, stream, opcode) ==
    Write(<<Str(1), Str(4)>>, <<Iv, Seal(key, Aad(stream, opcode), plaintext)>>)

\* decrypt_config_body: the plaintext, or DecryptionError.
Decrypt(bytes, key, stream, opcode) ==
    Then(Read(<<Str(1), Str(4)>>, bytes), LAMBDA x, left :
        IF Len(x[1]) = 12 /\ Opens(key, Aad(stream, opcode), x[2])
        THEN Got(SubSeq(x[2], 1, Len(x[2]) - 2 - Len(Aad(stream, opcode))), <<>>)
        ELSE EOFError)

=============================================================================
