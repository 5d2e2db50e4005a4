-------------------------- MODULE SettlementGroups --------------------------
(***************************************************************************)
(* How the searches of Liquidaciones and of the public consultation show   *)
(* the settlements of a property: one row per PDF, that is, the periods    *)
(* of a resolution, or the ones a future resolution would bring.           *)
(*                                                                         *)
(* S is what the table of settlements holds: a function from settlements   *)
(* to records with at least status, res (the resolution, or Null) and      *)
(* missing.  Amounts, names and the kind's mark are text of the row.       *)
(***************************************************************************)
EXTENDS Integers, FiniteSets

CONSTANTS
    Settlement,  \* ids of settlements
    PropertyOf,  \* the property of each
    PeriodOf,    \* and its period, a year
    RiskYear,    \* periods up to this year are at risk of prescription
    Null

IsPrescriptionRisk(s) == PeriodOf[s] <= RiskYear

\* The bucket of a settlement: its resolution, or the one it would be in.
BucketOf(S, s) ==
    <<PropertyOf[s], S[s].res, S[s].res = Null /\ IsPrescriptionRisk(s)>>

\* groupSettlementsByResolution, of the settlements listed.
Buckets(S, listed) ==
    {{s \in listed : BucketOf(S, s) = b} : b \in {BucketOf(S, s) : s \in listed}}

\* The earliest period works as the trigger of the PDF.
Trigger(members) ==
    CHOOSE s \in members : \A t \in members : PeriodOf[s] <= PeriodOf[t]

\* A period the last roll did not bring needs attention while it is VIGENTE.
IsMissing(S, s) == S[s].missing /\ S[s].status = "VIGENTE"

MissingOf(S, members) == {s \in members : IsMissing(S, s)}

\* The status a row shows: MIXED when its periods differ.
StatusOf(statuses) ==
    IF Cardinality(statuses) = 1 THEN CHOOSE x \in statuses : TRUE ELSE "MIXED"

\* groupSettlementsForResolution: what one PDF of settlement s would bring, of
\* the candidates without a resolution.
FutureGroup(candidates, s) ==
    {t \in candidates : IsPrescriptionRisk(t) <=> IsPrescriptionRisk(s)}
=============================================================================
