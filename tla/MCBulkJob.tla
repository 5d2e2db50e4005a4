----------------------------- MODULE MCBulkJob -----------------------------
(***************************************************************************)
(* Instances of BulkJob for TLC.                                           *)
(***************************************************************************)
EXTENDS BulkJob, TLC

MCSymmetry == Permutations(Slots) \cup Permutations(Batches)
=============================================================================
