--------------------------- MODULE MCCounterLock ---------------------------
(***************************************************************************)
(* Instances of CounterLock for TLC.                                       *)
(***************************************************************************)
EXTENDS CounterLock, TLC

CONSTANTS res26, res27, po26

MCKinds == {"resolution", "paymentOrder"}

MCKindOf == [c \in Counters |-> IF c = po26 THEN "paymentOrder" ELSE "resolution"]

MCSymmetry == Permutations(Requests) \cup Permutations(Jobs) \cup Permutations(Groups)
=============================================================================
