-------------------------------- MODULE Wire --------------------------------
(***************************************************************************)
(* HMMP messages over a Stream.  A message is a record: opcode, stream,      *)
(* request, value (of the opcode's layout), key (0 for a plain body), gov    *)
(* (the governance entries) and built (whether build_governance_block built  *)
(* their block, or to_bytes).  For Stream, FrameOf is Frame, Interpretation  *)
(* is Interpret and MayBecome is AsSent.                                     *)
(***************************************************************************)
EXTENDS Stream, Frames

Body(m) == Write(Layout[m.opcode], m.value)

Frame(m) ==
    [opcode |-> m.opcode, stream |-> m.stream, request |-> m.request, encrypted |-> m.key # 0,
     governance |-> IF m.built THEN BuildGovernanceBlock(m.gov) ELSE GovernanceBytes(m.gov),
     body |-> IF m.key = 0 THEN Body(m) ELSE Encrypt(Body(m), m.key, m.stream, m.opcode)]

SessionKey == 3

\* What becomes of a frame, read with the session's key.
Garbled == [opcode |-> 0, stream |-> 0, request |-> FALSE, key |-> 0, gov |-> <<>>, built |-> FALSE,
            value |-> <<>>]
Interpret(f) ==
    LET body == IF f.encrypted THEN Decrypt(f.body, SessionKey, f.stream, f.opcode) ELSE Got(f.body, <<>>)
        r == Then(body, LAMBDA b, left : Read(Layout[f.opcode], b))
    IN  IF ~r.ok THEN Garbled
        ELSE [opcode |-> f.opcode, stream |-> f.stream, request |-> f.request,
              key |-> IF f.encrypted THEN SessionKey ELSE 0, gov |-> GovernanceRead(f.governance),
              built |-> FALSE, value |-> r.value]

\* A message comes out as it went in if all its lengths and numbers fit their
\* widths and the key is the session's; otherwise it may be anything.  So may the
\* entries of a block that build_governance_block built, which has two lengths before
\* it; they spoil nothing else of the message.
AsSent(m, n) ==
    \/ n = IF m.built THEN [m EXCEPT !.built = FALSE, !.gov = n.gov] ELSE m
    \/ ~Fits(Layout[m.opcode], m.value)
    \/ m.key \notin {0, SessionKey}

\* A body that is cut short is never read as a whole one, except where only the
\* optional canary context at its end is missing: then all else is right.  (This
\* is looked at once for each body, when it has just been sent.)
NoPartialBody ==
    Len(sent) = 1 /\ state = "open" /\ buffer = <<>> /\ header = <<>> /\ got = <<>> =>
        LET fs == Layout[sent[1].opcode]
            v == sent[1].value
            body == Body(sent[1])
        IN  Fits(fs, v) =>
                \A n \in 0..(Len(body) - 1) :
                    LET r == Read(fs, SubSeq(body, 1, n))
                    IN  r.ok => /\ Last(fs).kind = "trailer"
                                /\ Front(r.value) = Front(v) /\ Last(r.value) = <<>>
=============================================================================
