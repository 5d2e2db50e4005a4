----------------------------- MODULE MCSessions -----------------------------
(***************************************************************************)
(* Instances of Sessions for TLC.                                          *)
(***************************************************************************)
EXTENDS Sessions, TLC

MCSymmetry == Permutations(Families) \cup Permutations(Tokens) \cup Permutations(Requests)
=============================================================================
