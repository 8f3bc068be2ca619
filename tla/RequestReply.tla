---------------------------- MODULE RequestReply ----------------------------
(***************************************************************************)
(* What the request path of the client promises its callers, whatever the   *)
(* connections do: a call has one outcome, which is final, and a call that  *)
(* returns a reply returns its own, as long as connections have followed    *)
(* one another.                                                             *)
(***************************************************************************)
CONSTANTS Requests, None

VARIABLES
    status, \* of each call
    reply,  \* what it returned
    alone   \* no connection was opened beside another so far

vars == <<status, reply, alone>>

Init ==
    /\ status = [r \in Requests |-> "idle"]
    /\ reply = [r \in Requests |-> None]
    /\ alone = TRUE

Ask(r) ==
    /\ status[r] = "idle"
    /\ status' = [status EXCEPT ![r] = "asked"]
    /\ UNCHANGED <<reply, alone>>

Answered(r) ==
    /\ status[r] = "asked"
    /\ status' = [status EXCEPT ![r] = "answered"]
    /\ \E q \in Requests :
          /\ alone => q = r
          /\ reply' = [reply EXCEPT ![r] = q]
    /\ UNCHANGED alone

\* A call may fail before it has asked anything.
Fails(r) ==
    /\ status[r] \in {"idle", "asked"}
    /\ status' = [status EXCEPT ![r] = "failed"]
    /\ UNCHANGED <<reply, alone>>

Overlaps ==
    /\ alone' = FALSE
    /\ UNCHANGED <<status, reply>>

Next == Overlaps \/ \E r \in Requests : Ask(r) \/ Answered(r) \/ Fails(r)

Spec == Init /\ [][Next]_vars
=============================================================================
