------------------------------- MODULE MCLoad -------------------------------
(***************************************************************************)
(* Backpressure and Load for TLC, in one application.  They share no state,  *)
(* so that a step is one of either, in any order.                           *)
(***************************************************************************)
EXTENDS Backpressure, Load

BothInit == Init /\ LoadInit

BothNext == (Next /\ UNCHANGED loadVars) \/ (LoadNext /\ UNCHANGED vars)

BothSpec ==
    /\ BothInit
    /\ [][BothNext]_<<vars, loadVars>>
    /\ Fairness

Host(c, m, p) ==
    [cpu |-> c, memory |-> m, conns |-> 0, ewma |-> 0, error |-> FALSE, preheating |-> p]
MCHosts == {Host(2000, 5000, TRUE), Host(7500, 8500, FALSE), Host(10000, 10000, FALSE)}

MCLoads ==
    {[h EXCEPT !.conns = n, !.ewma = d, !.error = e] :
        h \in {Host(0, 0, FALSE), Host(7000, 8000, FALSE), Host(10000, 9900, TRUE)},
        n \in {0, 590}, d \in {30, 600}, e \in BOOLEAN}

Instance(h, t) == [healthy |-> h, tags |-> t]
MCSnapshots ==
    UNION {[1..n -> {Instance(h, t) : h \in BOOLEAN, t \in {{}, {"gray"}}}] : n \in 0..2}
=============================================================================
