----------------------------- MODULE MCMultiplex -----------------------------
(***************************************************************************)
(* Multiplex for TLC.  The requests that are not made by a handler are      *)
(* interchangeable, and so are the closers; the run that uses Symmetry      *)
(* checks no liveness.                                                      *)
(***************************************************************************)
EXTENDS Multiplex, TLC

Symmetry == Permutations(Requests \ HandlerRequests) \cup Permutations(Closers)
=============================================================================
