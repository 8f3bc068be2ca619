----------------------------- MODULE FrameQueue -----------------------------
(***************************************************************************)
(* What a connection promises about frames: those that are sent are         *)
(* delivered in their order, each once, until the connection is closed,     *)
(* which happens only after the stream broke, and for good.                 *)
(***************************************************************************)
EXTENDS Naturals, Sequences

CONSTANT MayBecome(_, _)   \* what may be delivered for what is sent

VARIABLES sent, got, open, broken

vars == <<sent, got, open, broken>>

Init == sent = <<>> /\ got = <<>> /\ open = TRUE /\ broken = FALSE

\* t is s and one more.
Extends(t, s) == Len(t) = Len(s) + 1 /\ SubSeq(t, 1, Len(s)) = s

Send == open /\ Extends(sent', sent) /\ UNCHANGED <<got, open, broken>>

Deliver ==
    /\ open /\ Len(got) < Len(sent)
    /\ Extends(got', got) /\ MayBecome(sent[Len(got')], got'[Len(got')])
    /\ UNCHANGED <<sent, open, broken>>

Break == ~broken /\ broken' /\ UNCHANGED <<sent, got, open>>

Close == open /\ broken /\ ~open' /\ UNCHANGED <<sent, got, broken>>

Next == Send \/ Deliver \/ Break \/ Close

Spec == Init /\ [][Next]_vars
=============================================================================
