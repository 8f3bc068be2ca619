---------------------------- MODULE MCConfigCache ----------------------------
(***************************************************************************)
(* ConfigCache for TLC: three keys, two of which share a file name, and a    *)
(* content with two spellings of its line ends.                              *)
(***************************************************************************)
EXTENDS ConfigCache, TLC

CONSTANTS k1, k2, k3, f1, f2, lf, crlf

\* "a+b_c+d" and "a_b+c+d" differ in their separators only.
SharedFile == k1 :> f1 @@ k2 :> f1 @@ k3 :> f2

ReadText == lf :> lf @@ crlf :> lf
=============================================================================
