------------------------- MODULE SettlementsProofs -------------------------
(***************************************************************************)
(* Proofs about Settlements for every set of rows, periods and requests,   *)
(* and about the screen Liquidaciones (SettlementsScreen) for every table  *)
(* of settlements, every search and any number of requests and faults.     *)
(***************************************************************************)
EXTENDS Settlements, FiniteSetTheorems, WellFoundedInduction, TLAPS

CONSTANTS
    \* SettlementsScreen
    Ids, LandOf, PeriodOf, RiskYear, Reissued, Criteria, Finds, MaxCalls, MaxOthers,
    MaxFaults

VARIABLES
    \* SettlementsScreen
    stored, calls, sent, faults, counter, running, results, listState, searched,
    selected, sheetId, editing, saving, failed, dialog, generating, slompsim,
    effect, others, clock, readAt, wroteAt, otherAt, behind, reverted

Screen == INSTANCE SettlementsScreen WITH Settlement <- Ids, PropertyOf <- LandOf, job <- running

-----------------------------------------------------------------------------
(* What the writes do to the table *)

\* Linking or unlinking resolutions changes nothing else of a settlement.
LEMMA ResolvedIs ==
    ASSUME TypeOK, NEW R, NEW v \in {"none", "recent", "firm"}, settlement' = Resolved(R, v)
    PROVE  /\ settlement' \in [Rows -> Settlement]
           /\ \A r \in Rows :
                 /\ settlement'[r].resolution = IF r \in R THEN v ELSE settlement[r].resolution
                 /\ settlement'[r].period = settlement[r].period
                 /\ settlement'[r].status = settlement[r].status
                 /\ settlement'[r].replaced = settlement[r].replaced
                 /\ settlement'[r].order = settlement[r].order
  <1>1. ASSUME NEW r \in Rows
        PROVE  /\ [settlement[r] EXCEPT !.resolution = v] \in Settlement
               /\ [settlement[r] EXCEPT !.resolution = v].resolution = v
               /\ [settlement[r] EXCEPT !.resolution = v].period = settlement[r].period
               /\ [settlement[r] EXCEPT !.resolution = v].status = settlement[r].status
               /\ [settlement[r] EXCEPT !.resolution = v].replaced = settlement[r].replaced
               /\ [settlement[r] EXCEPT !.resolution = v].order = settlement[r].order
    BY DEF TypeOK, Settlement
  <1>2. QED
    BY <1>1 DEF Resolved, TypeOK

\* Linking or unlinking payment orders changes nothing else of a settlement.
LEMMA OrderedIs ==
    ASSUME TypeOK, NEW R, NEW v \in {"none", "recent", "old"}, settlement' = Ordered(R, v)
    PROVE  /\ settlement' \in [Rows -> Settlement]
           /\ \A r \in Rows :
                 /\ settlement'[r].order = IF r \in R THEN v ELSE settlement[r].order
                 /\ settlement'[r].period = settlement[r].period
                 /\ settlement'[r].status = settlement[r].status
                 /\ settlement'[r].replaced = settlement[r].replaced
                 /\ settlement'[r].resolution = settlement[r].resolution
  <1>1. ASSUME NEW r \in Rows
        PROVE  /\ [settlement[r] EXCEPT !.order = v] \in Settlement
               /\ [settlement[r] EXCEPT !.order = v].order = v
               /\ [settlement[r] EXCEPT !.order = v].period = settlement[r].period
               /\ [settlement[r] EXCEPT !.order = v].status = settlement[r].status
               /\ [settlement[r] EXCEPT !.order = v].replaced = settlement[r].replaced
               /\ [settlement[r] EXCEPT !.order = v].resolution = settlement[r].resolution
    BY DEF TypeOK, Settlement
  <1>2. QED
    BY <1>1 DEF Ordered, TypeOK

\* Setting statuses changes nothing else of a settlement.
LEMMA StatusIs ==
    ASSUME TypeOK, NEW R, NEW to, \A r \in Rows : r \in R => to[r] \in Status,
           settlement' = [r \in Rows |-> IF r \in R THEN [settlement[r] EXCEPT !.status = to[r]]
                                                    ELSE settlement[r]]
    PROVE  /\ settlement' \in [Rows -> Settlement]
           /\ \A r \in Rows :
                 /\ settlement'[r].status = IF r \in R THEN to[r] ELSE settlement[r].status
                 /\ settlement'[r].period = settlement[r].period
                 /\ settlement'[r].replaced = settlement[r].replaced
                 /\ settlement'[r].resolution = settlement[r].resolution
                 /\ settlement'[r].order = settlement[r].order
  <1>1. ASSUME NEW r \in Rows, NEW s \in Status
        PROVE  /\ [settlement[r] EXCEPT !.status = s] \in Settlement
               /\ [settlement[r] EXCEPT !.status = s].status = s
               /\ [settlement[r] EXCEPT !.status = s].period = settlement[r].period
               /\ [settlement[r] EXCEPT !.status = s].replaced = settlement[r].replaced
               /\ [settlement[r] EXCEPT !.status = s].resolution = settlement[r].resolution
               /\ [settlement[r] EXCEPT !.status = s].order = settlement[r].order
    BY DEF TypeOK, Settlement
  <1>2. QED
    BY <1>1 DEF TypeOK

\* The rows that an import created.
Created(q) == {r \in Rows : r \notin Existing /\ settlement'[r].period \in tx[q].create}

\* What an import writes: rows that did not exist get a period each, others are
\* replaced, and nothing else of any settlement changes.
LEMMA ImportIs ==
    ASSUME TypeOK, NEW q \in Requests, ImportCommit(q)
    PROVE  /\ settlement' \in [Rows -> Settlement]
           /\ \A r \in Rows :
                 /\ settlement'[r].status = settlement[r].status
                 /\ settlement'[r].resolution = settlement[r].resolution
                 /\ settlement'[r].order = settlement[r].order
                 /\ r \in Created(q) => settlement'[r].replaced = settlement[r].replaced
                 /\ r \notin Created(q) =>
                       /\ settlement'[r].period = settlement[r].period
                       /\ settlement'[r].replaced <=>
                             settlement[r].replaced \/ r \in tx[q].supersede
           /\ \A r, s \in Created(q) : settlement'[r].period = settlement'[s].period => r = s
           /\ \A p \in tx[q].create : \E r \in Created(q) : settlement'[r].period = p
  <1> DEFINE create == tx[q].create
             Written(r) == [settlement[r] EXCEPT !.replaced = @ \/ r \in tx[q].supersede,
                                                 !.missing = @ \/ r \in tx[q].missing]
  <1>1. create \in SUBSET Periods
    BY DEF ImportCommit, TypeOK, Transaction
  <1>2. PICK new \in [create -> Rows \ Existing] :
          /\ \A p, o \in create : new[p] = new[o] => p = o
          /\ settlement' = [r \in Rows |->
                IF \E p \in create : new[p] = r
                THEN [settlement[r] EXCEPT !.period = CHOOSE p \in create : new[p] = r]
                ELSE Written(r)]
    BY DEF ImportCommit
  <1>3. ASSUME NEW r \in Rows, NEW p \in Periods
        PROVE  LET s == [settlement[r] EXCEPT !.period = p]
               IN  /\ s \in Settlement /\ s.period = p
                   /\ s.status = settlement[r].status
                   /\ s.replaced = settlement[r].replaced
                   /\ s.resolution = settlement[r].resolution
                   /\ s.order = settlement[r].order
    BY DEF TypeOK, Settlement
  <1>4. ASSUME NEW r \in Rows
        PROVE  /\ Written(r) \in Settlement
               /\ Written(r).period = settlement[r].period
               /\ Written(r).status = settlement[r].status
               /\ Written(r).replaced <=> settlement[r].replaced \/ r \in tx[q].supersede
               /\ Written(r).resolution = settlement[r].resolution
               /\ Written(r).order = settlement[r].order
    <2>1. ASSUME NEW a \in BOOLEAN, NEW b \in BOOLEAN
          PROVE  LET s == [settlement[r] EXCEPT !.replaced = a, !.missing = b]
                 IN  /\ s \in Settlement /\ s.replaced = a
                     /\ s.period = settlement[r].period
                     /\ s.status = settlement[r].status
                     /\ s.resolution = settlement[r].resolution
                     /\ s.order = settlement[r].order
      <3>1. PICK t \in Settlement : t = settlement[r]
        BY DEF TypeOK
      <3>2. LET s == [t EXCEPT !.replaced = a]
            IN  /\ s \in Settlement /\ s.replaced = a
                /\ s.period = t.period /\ s.status = t.status
                /\ s.resolution = t.resolution /\ s.order = t.order
        BY DEF Settlement
      <3>3. PICK u \in Settlement : u = [t EXCEPT !.replaced = a]
        BY <3>2
      <3>4. LET s == [u EXCEPT !.missing = b]
            IN  /\ s \in Settlement /\ s.replaced = u.replaced
                /\ s.period = u.period /\ s.status = u.status
                /\ s.resolution = u.resolution /\ s.order = u.order
        BY DEF Settlement
      <3>5. QED
        BY <3>1, <3>2, <3>3, <3>4
    <2>2. PICK a \in BOOLEAN : a = (settlement[r].replaced \/ r \in tx[q].supersede)
      OBVIOUS
    <2>3. PICK b \in BOOLEAN : b = (settlement[r].missing \/ r \in tx[q].missing)
      OBVIOUS
    <2>4. Written(r) = [settlement[r] EXCEPT !.replaced = a, !.missing = b]
      BY <2>2, <2>3
    <2>5. QED
      BY <2>1, <2>2, <2>4
  <1> HIDE DEF Written, create
  <1>5. ASSUME NEW p \in create
        PROVE  /\ new[p] \in Rows \ Existing
               /\ settlement'[new[p]] = [settlement[new[p]] EXCEPT !.period = p]
               /\ settlement'[new[p]].period = p
               /\ new[p] \in Created(q)
    <2>1. new[p] \in Rows \ Existing /\ p \in Periods
      BY <1>1, <1>2
    <2>2. (CHOOSE o \in create : new[o] = new[p]) = p
      BY <1>2
    <2>3. settlement'[new[p]] = [settlement[new[p]] EXCEPT !.period = p]
      BY <1>2, <2>1, <2>2
    <2>4. settlement'[new[p]].period = p
      BY <1>3, <2>1, <2>3
    <2>5. QED
      BY <2>1, <2>3, <2>4 DEF Created, create
  <1>6. ASSUME NEW r \in Rows, ~\E p \in create : new[p] = r
        PROVE  settlement'[r] = Written(r) /\ r \notin Created(q)
    <2>1. settlement'[r] = Written(r)
      BY <1>2, <1>6
    <2>2. r \notin Existing => settlement'[r].period \notin create
      BY <1>1, <1>4, <2>1, SettlementsAssumption DEF Existing
    <2>3. QED
      BY <2>1, <2>2 DEF Created, create
  <1>7. settlement' \in [Rows -> Settlement]
    <2>1. ASSUME NEW r \in Rows
          PROVE  settlement'[r] \in Settlement
      <3>1. CASE \E p \in create : new[p] = r
        <4>1. PICK p \in create : new[p] = r
          BY <3>1
        <4>2. settlement'[r] = [settlement[r] EXCEPT !.period = p] /\ p \in Periods
          BY <4>1, <1>1, <1>5
        <4>3. QED
          BY <4>2, <1>3
      <3>2. CASE ~\E p \in create : new[p] = r
        BY <3>2, <1>4, <1>6
      <3>3. QED
        BY <3>1, <3>2
    <2>2. QED
      BY <1>2, <2>1
  <1>8. ASSUME NEW r \in Rows
        PROVE  /\ settlement'[r].status = settlement[r].status
               /\ settlement'[r].resolution = settlement[r].resolution
               /\ settlement'[r].order = settlement[r].order
               /\ r \in Created(q) => settlement'[r].replaced = settlement[r].replaced
               /\ r \notin Created(q) =>
                     /\ settlement'[r].period = settlement[r].period
                     /\ settlement'[r].replaced <=>
                           settlement[r].replaced \/ r \in tx[q].supersede
    <2>1. CASE \E p \in create : new[p] = r
      <3>1. PICK p \in create : new[p] = r
        BY <2>1
      <3>2. settlement'[r] = [settlement[r] EXCEPT !.period = p] /\ r \in Created(q)
        BY <3>1, <1>5
      <3>3. p \in Periods
        BY <1>1
      <3>4. QED
        BY <3>2, <3>3, <1>3
    <2>2. CASE ~\E p \in create : new[p] = r
      <3>1. settlement'[r] = Written(r) /\ r \notin Created(q)
        BY <2>2, <1>6
      <3>2. QED
        BY <3>1, <1>4
    <2>3. QED
      BY <2>1, <2>2
  <1>9. \A r \in Created(q) : \E p \in create : new[p] = r /\ settlement'[r].period = p
    <2>1. ASSUME NEW r \in Created(q)
          PROVE  \E p \in create : new[p] = r /\ settlement'[r].period = p
      <3>1. r \in Rows
        BY DEF Created
      <3>2. PICK p \in create : new[p] = r
        BY <1>6, <3>1
      <3>3. settlement'[new[p]].period = p
        BY <1>5
      <3>4. QED
        BY <3>2, <3>3
    <2>2. QED
      BY <2>1
  <1>10. \A r, s \in Created(q) : settlement'[r].period = settlement'[s].period => r = s
    BY <1>9
  <1>11. \A p \in create : \E r \in Created(q) : settlement'[r].period = p
    BY <1>5
  <1>12. QED
    BY <1>7, <1>8, <1>10, <1>11 DEF create

-----------------------------------------------------------------------------
(* Requests *)

\* The fields of a request's plan.
LEMMA PlanFields ==
    ASSUME TypeOK, NEW q \in Requests
    PROVE  /\ tx[q].op = "change" =>
                 tx[q].row \in Rows /\ tx[q].from \in Status /\ tx[q].to \in Status
           /\ tx[q].op = "resolution" => tx[q].rows \in SUBSET Rows
           /\ tx[q].op = "order" => tx[q].rows \in SUBSET Rows
           /\ tx[q].op = "import" /\ tx[q].at = "started" => tx[q].brought \in SUBSET Periods
           /\ tx[q].op = "import" /\ tx[q].at = "read" => tx[q].create \in SUBSET Periods
  BY DEF TypeOK, Transaction

\* A request that ends leaves the other requests as they were.
LEMMA EndIs ==
    ASSUME TypeOK, NEW q \in Requests, End(q)
    PROVE  /\ tx' \in [Requests -> Transaction]
           /\ tx'[q].op = "none"
           /\ \A p \in Requests \ {q} : tx'[p] = tx[p]
  BY DEF TypeOK, End, NoTransaction, Transaction

\* So does one that makes a plan.
LEMMA PlanIs ==
    ASSUME TypeOK, NEW q \in Requests, NEW t \in Transaction, Plan(q, t)
    PROVE  /\ tx' \in [Requests -> Transaction]
           /\ tx[q].op = "none" /\ tx'[q] = t
           /\ \A p \in Requests \ {q} : tx'[p] = tx[p]
  BY DEF TypeOK, Plan, NoTransaction

\* What an Administrator may set is a status.
LEMMA AllowedAreStatuses ==
    ASSUME TypeOK, NEW r \in Rows
    PROVE  AllowedStatuses(r) \subseteq Status
  BY DEF TypeOK, Settlement, AllowedStatuses, BaseStatus, Status

\* A committed change sets the status of its settlement, which is current and
\* has the status that was read.
LEMMA ChangeIs ==
    ASSUME TypeOK, NEW q \in Requests, ChangeCommit(q)
    PROVE  /\ tx[q].row \in Current /\ settlement[tx[q].row].status = tx[q].from
           /\ settlement' \in [Rows -> Settlement]
           /\ \A r \in Rows :
                 /\ settlement'[r].status = IF r = tx[q].row THEN tx[q].to ELSE settlement[r].status
                 /\ settlement'[r].period = settlement[r].period
                 /\ settlement'[r].replaced = settlement[r].replaced
                 /\ settlement'[r].resolution = settlement[r].resolution
                 /\ settlement'[r].order = settlement[r].order
  <1>1. tx[q].row \in Rows /\ tx[q].to \in Status
    BY PlanFields DEF ChangeCommit
  <1>2. PICK to : to = [r \in Rows |-> tx[q].to]
    OBVIOUS
  <1>3. PICK R : R = {tx[q].row}
    OBVIOUS
  <1>4. settlement' = [r \in Rows |-> IF r \in R THEN [settlement[r] EXCEPT !.status = to[r]]
                                                 ELSE settlement[r]]
    <2>1. settlement' = [settlement EXCEPT ![tx[q].row] =
                             [settlement[tx[q].row] EXCEPT !.status = tx[q].to]]
      BY DEF ChangeCommit
    <2>2. QED
      BY <1>1, <1>2, <1>3, <2>1 DEF TypeOK
  <1>5. \A r \in Rows : r \in R => to[r] \in Status
    BY <1>1, <1>2
  <1>6. /\ settlement' \in [Rows -> Settlement]
        /\ \A r \in Rows :
              /\ settlement'[r].status = IF r \in R THEN to[r] ELSE settlement[r].status
              /\ settlement'[r].period = settlement[r].period
              /\ settlement'[r].replaced = settlement[r].replaced
              /\ settlement'[r].resolution = settlement[r].resolution
              /\ settlement'[r].order = settlement[r].order
    BY <1>4, <1>5, StatusIs
  <1>7. tx[q].row \in Current /\ settlement[tx[q].row].status = tx[q].from
    BY DEF ChangeCommit
  <1>8. \A r \in Rows : r \in R <=> r = tx[q].row
    BY <1>3
  <1>9. \A r \in Rows : to[r] = tx[q].to
    BY <1>2
  <1>10. QED
    BY <1>6, <1>7, <1>8, <1>9

\* The sweep sets EN_FIRME, on the VIGENTE ones whose resolution is old enough.
LEMMA SweepIs ==
    ASSUME TypeOK, MarkEnFirme
    PROVE  /\ settlement' \in [Rows -> Settlement]
           /\ \A r \in Rows :
                 /\ settlement'[r].status = IF r \in Firm THEN "EN_FIRME" ELSE settlement[r].status
                 /\ settlement'[r].period = settlement[r].period
                 /\ settlement'[r].replaced = settlement[r].replaced
                 /\ settlement'[r].resolution = settlement[r].resolution
                 /\ settlement'[r].order = settlement[r].order
  <1>1. PICK to : to = [r \in Rows |-> "EN_FIRME"]
    OBVIOUS
  <1>2. \A r \in Rows : to[r] = "EN_FIRME" /\ to[r] \in Status
    BY <1>1 DEF Status
  <1>3. settlement' = [r \in Rows |-> IF r \in Firm THEN [settlement[r] EXCEPT !.status = to[r]]
                                                    ELSE settlement[r]]
    BY <1>2 DEF MarkEnFirme
  <1>4. /\ settlement' \in [Rows -> Settlement]
        /\ \A r \in Rows :
              /\ settlement'[r].status = IF r \in Firm THEN to[r] ELSE settlement[r].status
              /\ settlement'[r].period = settlement[r].period
              /\ settlement'[r].replaced = settlement[r].replaced
              /\ settlement'[r].resolution = settlement[r].resolution
              /\ settlement'[r].order = settlement[r].order
    BY <1>2, <1>3, StatusIs
  <1>5. QED
    BY <1>2, <1>4

-----------------------------------------------------------------------------
(* Type correctness *)

\* Every step keeps the variables well typed.
LEMMA TypeStep == TypeOK /\ [Next]_vars => TypeOK'
  <1> SUFFICES ASSUME TypeOK, [Next]_vars PROVE TypeOK'
    OBVIOUS
  <1>1. ASSUME NEW q \in Requests, NEW r \in Rows, NEW to \in Status, ChangeRead(q, r, to)
        PROVE  TypeOK'
    <2>1. [op |-> "change", row |-> r, from |-> settlement[r].status, to |-> to] \in Transaction
      BY DEF TypeOK, Settlement, Transaction
    <2>2. QED
      BY <1>1, <2>1, PlanIs DEF ChangeRead, TypeOK
  <1>2. ASSUME NEW q \in Requests, ChangeCommit(q)
        PROVE  TypeOK'
    <2>1. tx[q].row \in Rows /\ tx[q].to \in Status /\ End(q)
      BY <1>2, PlanFields DEF ChangeCommit
    <2>2. settlement' \in [Rows -> Settlement]
      BY <1>2, ChangeIs
    <2>3. tx' \in [Requests -> Transaction]
      BY <2>1, EndIs
    <2>4. audited' \in [Rows -> Status]
      BY <1>2, <2>1 DEF ChangeCommit, TypeOK
    <2>5. QED
      BY <1>2, <2>2, <2>3, <2>4 DEF ChangeCommit, TypeOK
  <1>3. ASSUME NEW R \in SUBSET Rows, NEW to \in [R -> Status], Confirm(R, to)
        PROVE  TypeOK'
    <2>1. settlement' \in [Rows -> Settlement]
      BY <1>3, StatusIs DEF Confirm
    <2>2. audited' \in [Rows -> Status]
      BY <1>3 DEF Confirm, TypeOK
    <2>3. QED
      BY <1>3, <2>1, <2>2 DEF Confirm, TypeOK
  <1>4. ASSUME MarkEnFirme
        PROVE  TypeOK'
    BY <1>4, SweepIs DEF MarkEnFirme, TypeOK
  <1>5. ASSUME NEW q \in Requests, NEW r \in Rows, PlanResolution(q, r)
        PROVE  TypeOK'
    <2>1. [op |-> "resolution", bulk |-> FALSE, rows |-> GroupOf(r)] \in Transaction
      BY DEF GroupOf, Pending, Current, Existing, Transaction
    <2>2. QED
      BY <1>5, <2>1, PlanIs DEF PlanResolution, TypeOK
  <1>6. ASSUME NEW q \in Requests, NEW risk \in BOOLEAN, PlanResolutions(q, risk)
        PROVE  TypeOK'
    <2> DEFINE pending == {r \in Pending : settlement[r].period \in Risk <=> risk}
    <2>1. [op |-> "resolution", bulk |-> TRUE, rows |-> pending] \in Transaction
      BY DEF Pending, Current, Existing, Transaction
    <2>2. QED
      BY <1>6, <2>1, PlanIs DEF PlanResolutions, TypeOK
  <1>7. ASSUME NEW q \in Requests, CommitResolution(q)
        PROVE  TypeOK'
    <2>1. settlement' \in [Rows -> Settlement]
      BY <1>7, ResolvedIs DEF CommitResolution
    <2>2. tx' \in [Requests -> Transaction]
      BY <1>7, EndIs DEF CommitResolution
    <2>3. job' \in Job
      BY <1>7, PlanFields DEF CommitResolution, Job, TypeOK
    <2>4. QED
      BY <1>7, <2>1, <2>2, <2>3 DEF CommitResolution, TypeOK
  <1>8. ASSUME NEW q \in Requests, NEW bulk \in BOOLEAN, NEW R \in SUBSET Rows,
               PlanOrder(q, bulk, R)
        PROVE  TypeOK'
    <2>1. [op |-> "order", bulk |-> bulk, rows |-> R] \in Transaction
      BY <1>8 DEF PlanOrder, Transaction
    <2>2. QED
      BY <1>8, <2>1, PlanIs DEF PlanOrder, TypeOK
  <1>9. ASSUME NEW q \in Requests, CommitOrder(q)
        PROVE  TypeOK'
    <2>1. settlement' \in [Rows -> Settlement]
      BY <1>9, OrderedIs DEF CommitOrder
    <2>2. tx' \in [Requests -> Transaction]
      BY <1>9, EndIs DEF CommitOrder
    <2>3. job' \in Job
      BY <1>9, PlanFields DEF CommitOrder, Job, TypeOK
    <2>4. QED
      BY <1>9, <2>1, <2>2, <2>3 DEF CommitOrder, TypeOK
  <1>10. ASSUME FinishJob
         PROVE  TypeOK'
    BY <1>10 DEF FinishJob, NoJob, Job, TypeOK
  <1>11. ASSUME RevertJob
         PROVE  TypeOK'
    <2>1. settlement' \in [Rows -> Settlement]
      BY <1>11, ResolvedIs, OrderedIs DEF RevertJob
    <2>2. QED
      BY <1>11, <2>1 DEF RevertJob, NoJob, Job, TypeOK
  <1>12. ASSUME NEW q \in Requests, NEW brought \in SUBSET Periods, NEW confirmed \in BOOLEAN,
                ImportStart(q, brought, confirmed)
         PROVE  TypeOK'
    <2>1. [op |-> "import", at |-> "started", brought |-> brought, confirmed |-> confirmed]
            \in Transaction
      BY DEF Transaction
    <2>2. QED
      BY <1>12, <2>1, PlanIs DEF ImportStart, TypeOK
  <1>13. ASSUME NEW q \in Requests, ImportRead(q)
         PROVE  TypeOK'
    <2>1. tx[q].brought \in SUBSET Periods
      BY <1>13, PlanFields DEF ImportRead
    <2>2. ASSUME NEW C \in SUBSET Periods, NEW S \in SUBSET Rows, NEW M \in SUBSET Rows
          PROVE  [op |-> "import", at |-> "read", create |-> C, supersede |-> S, missing |-> M]
                   \in Transaction
      BY DEF Transaction
    <2>3. Superseded(tx[q].brought) \in SUBSET Rows /\ Current \in SUBSET Rows
      BY DEF Superseded, Current, Existing
    <2>4. NoTransaction \in Transaction
      BY DEF NoTransaction, Transaction
    <2>5. PICK t \in Transaction : tx' = [tx EXCEPT ![q] = t]
      BY <1>13, <2>1, <2>2, <2>3, <2>4 DEF ImportRead
    <2>6. QED
      BY <1>13, <2>5 DEF ImportRead, TypeOK
  <1>14. ASSUME NEW q \in Requests, ImportCommit(q)
         PROVE  TypeOK'
    <2>1. settlement' \in [Rows -> Settlement]
      BY <1>14, ImportIs
    <2>2. tx' \in [Requests -> Transaction]
      BY <1>14, EndIs DEF ImportCommit
    <2>3. QED
      BY <1>14, <2>1, <2>2 DEF ImportCommit, TypeOK
  <1>15. ASSUME NEW q \in Requests, Abort(q)
         PROVE  TypeOK'
    BY <1>15, EndIs DEF Abort, TypeOK
  <1>16. ASSUME NEW r \in Rows, SixtyDays(r)
         PROVE  TypeOK'
    BY <1>16, ResolvedIs DEF SixtyDays, TypeOK
  <1>17. ASSUME NEW r \in Rows, FiveYears(r)
         PROVE  TypeOK'
    BY <1>17, OrderedIs DEF FiveYears, TypeOK
  <1>18. CASE UNCHANGED vars
    BY <1>18 DEF vars, TypeOK
  <1>19. QED
    BY <1>1, <1>2, <1>3, <1>4, <1>5, <1>6, <1>7, <1>8, <1>9, <1>10, <1>11, <1>12, <1>13,
       <1>14, <1>15, <1>16, <1>17, <1>18 DEF Next

-----------------------------------------------------------------------------
(* What stands on a resolution that became final *)

\* The rules allow EN_FIRME only with a resolution 60 days old and never allow
\* VIGENTE from EN_FIRME.
LEMMA AllowedRespectFirm ==
    ASSUME TypeOK, FirmStands, NEW r \in Rows
    PROVE  /\ "EN_FIRME" \in AllowedStatuses(r) => settlement[r].resolution = "firm"
           /\ settlement[r].status = "EN_FIRME" => "VIGENTE" \notin AllowedStatuses(r)
  BY SettlementsAssumption DEF FirmStands, AllowedStatuses, BaseStatus

\* A step that only ends a request keeps what the plans were checked against.
LEMMA PlansStandAtEnd ==
    ASSUME TypeOK, PlansStand, NEW q \in Requests, End(q),
           \A r \in Rows : settlement[r].resolution = "firm" => settlement'[r].resolution = "firm"
    PROVE  PlansStand'
  <1>1. tx'[q].op = "none" /\ \A p \in Requests \ {q} : tx'[p] = tx[p]
    BY EndIs
  <1>2. QED
    BY <1>1, PlanFields DEF PlansStand

\* Every step keeps the settlements, the plans and the job apart from the
\* resolutions that are not final.
LEMMA FirmStep ==
    TypeOK /\ FirmStands /\ PlansStand /\ JobIsRecent /\ [Next]_vars =>
        FirmStands' /\ PlansStand' /\ JobIsRecent'
  <1> SUFFICES ASSUME TypeOK, FirmStands, PlansStand, JobIsRecent, [Next]_vars
               PROVE  FirmStands' /\ PlansStand' /\ JobIsRecent'
    OBVIOUS
  <1>1. ASSUME NEW q \in Requests, NEW r \in Rows, NEW to \in Status, ChangeRead(q, r, to)
        PROVE  FirmStands' /\ PlansStand' /\ JobIsRecent'
    <2>1. [op |-> "change", row |-> r, from |-> settlement[r].status, to |-> to] \in Transaction
      BY DEF TypeOK, Settlement, Transaction
    <2>2. /\ tx'[q] = [op |-> "change", row |-> r, from |-> settlement[r].status, to |-> to]
          /\ \A p \in Requests \ {q} : tx'[p] = tx[p]
      BY <1>1, <2>1, PlanIs DEF ChangeRead
    <2>3. /\ to = "EN_FIRME" => settlement[r].resolution = "firm"
          /\ settlement[r].status = "EN_FIRME" => to # "VIGENTE"
      BY <1>1, AllowedRespectFirm DEF ChangeRead
    <2>4. PlansStand'
      BY <1>1, <2>2, <2>3 DEF ChangeRead, PlansStand
    <2>5. QED
      BY <1>1, <2>4 DEF ChangeRead, FirmStands, JobIsRecent
  <1>2. ASSUME NEW q \in Requests, ChangeCommit(q)
        PROVE  FirmStands' /\ PlansStand' /\ JobIsRecent'
    <2>1. /\ tx[q].row \in Rows
          /\ tx[q].to = "EN_FIRME" => settlement[tx[q].row].resolution = "firm"
          /\ End(q) /\ job' = job
      BY <1>2, PlanFields DEF ChangeCommit, PlansStand
    <2>2. \A r \in Rows :
             /\ settlement'[r].status = IF r = tx[q].row THEN tx[q].to ELSE settlement[r].status
             /\ settlement'[r].resolution = settlement[r].resolution
             /\ settlement'[r].order = settlement[r].order
      BY <1>2, ChangeIs
    <2>3. FirmStands'
      BY <2>1, <2>2 DEF FirmStands
    <2>4. PlansStand'
      BY <2>1, <2>2, PlansStandAtEnd
    <2>5. JobIsRecent'
      BY <2>1, <2>2 DEF JobIsRecent, TypeOK, Job
    <2>6. QED
      BY <2>3, <2>4, <2>5
  <1>3. ASSUME NEW R \in SUBSET Rows, NEW to \in [R -> Status], Confirm(R, to)
        PROVE  FirmStands' /\ PlansStand' /\ JobIsRecent'
    <2>1. \A r \in Rows :
             /\ settlement'[r].status = IF r \in R THEN to[r] ELSE settlement[r].status
             /\ settlement'[r].resolution = settlement[r].resolution
             /\ settlement'[r].order = settlement[r].order
      BY <1>3, StatusIs DEF Confirm
    <2>2. \A r \in R : to[r] = "EN_FIRME" => settlement[r].resolution = "firm"
      BY <1>3, AllowedRespectFirm DEF Confirm
    <2>3. FirmStands'
      BY <2>1, <2>2 DEF FirmStands
    <2>4. PlansStand'
      BY <1>3, <2>1, PlanFields DEF Confirm, PlansStand
    <2>5. JobIsRecent'
      BY <1>3, <2>1 DEF Confirm, JobIsRecent, TypeOK, Job
    <2>6. QED
      BY <2>3, <2>4, <2>5
  <1>4. ASSUME MarkEnFirme
        PROVE  FirmStands' /\ PlansStand' /\ JobIsRecent'
    <2>1. \A r \in Rows :
             /\ settlement'[r].status = IF r \in Firm THEN "EN_FIRME" ELSE settlement[r].status
             /\ settlement'[r].resolution = settlement[r].resolution
             /\ settlement'[r].order = settlement[r].order
      BY <1>4, SweepIs
    <2>2. FirmStands'
      BY <2>1 DEF FirmStands, Firm
    <2>3. PlansStand'
      BY <1>4, <2>1, PlanFields DEF MarkEnFirme, PlansStand
    <2>4. JobIsRecent'
      BY <1>4, <2>1 DEF MarkEnFirme, JobIsRecent, TypeOK, Job
    <2>5. QED
      BY <2>2, <2>3, <2>4
  <1>5. ASSUME NEW q \in Requests, NEW bulk \in BOOLEAN, NEW R \in SUBSET Rows,
               PlanOrder(q, bulk, R)
        PROVE  FirmStands' /\ PlansStand' /\ JobIsRecent'
    <2>1. [op |-> "order", bulk |-> bulk, rows |-> R] \in Transaction
      BY <1>5 DEF PlanOrder, Transaction
    <2>2. /\ tx'[q] = [op |-> "order", bulk |-> bulk, rows |-> R]
          /\ \A p \in Requests \ {q} : tx'[p] = tx[p]
      BY <1>5, <2>1, PlanIs DEF PlanOrder
    <2>3. \A r \in R : settlement[r].resolution = "firm"
      BY <1>5 DEF PlanOrder, Eligible
    <2>4. PlansStand'
      BY <1>5, <2>2, <2>3 DEF PlanOrder, PlansStand
    <2>5. QED
      BY <1>5, <2>4 DEF PlanOrder, FirmStands, JobIsRecent
  <1>6. ASSUME NEW q \in Requests, CommitResolution(q)
        PROVE  FirmStands' /\ PlansStand' /\ JobIsRecent'
    <2> DEFINE R == tx[q].rows
    <2>1. /\ \A r \in R : settlement[r].resolution = "none"
          /\ R \in SUBSET Rows /\ End(q)
          /\ job' = job \/ job' = [kind |-> "resolution", rows |-> R]
          /\ job = NoJob
      BY <1>6, PlanFields DEF CommitResolution
    <2>2. \A r \in Rows :
             /\ settlement'[r].resolution = IF r \in R THEN "recent" ELSE settlement[r].resolution
             /\ settlement'[r].status = settlement[r].status
             /\ settlement'[r].order = settlement[r].order
      BY <1>6, ResolvedIs DEF CommitResolution
    <2>3. FirmStands'
      BY <2>1, <2>2 DEF FirmStands
    <2>4. PlansStand'
      BY <2>1, <2>2, PlansStandAtEnd
    <2>5. JobIsRecent'
      BY <2>1, <2>2 DEF JobIsRecent, NoJob
    <2>6. QED
      BY <2>3, <2>4, <2>5
  <1>7. ASSUME NEW q \in Requests, CommitOrder(q)
        PROVE  FirmStands' /\ PlansStand' /\ JobIsRecent'
    <2> DEFINE R == tx[q].rows
    <2>1. /\ \A r \in R : settlement[r].resolution = "firm"
          /\ R \in SUBSET Rows /\ End(q)
          /\ job' = job \/ job' = [kind |-> "order", rows |-> R]
          /\ job = NoJob
      BY <1>7, PlanFields DEF CommitOrder, PlansStand
    <2>2. \A r \in Rows :
             /\ settlement'[r].order = IF r \in R THEN "recent" ELSE settlement[r].order
             /\ settlement'[r].status = settlement[r].status
             /\ settlement'[r].resolution = settlement[r].resolution
      BY <1>7, OrderedIs DEF CommitOrder
    <2>3. FirmStands'
      BY <2>1, <2>2 DEF FirmStands
    <2>4. PlansStand'
      BY <2>1, <2>2, PlansStandAtEnd
    <2>5. JobIsRecent'
      BY <2>1 DEF JobIsRecent, NoJob
    <2>6. QED
      BY <2>3, <2>4, <2>5
  <1>8. ASSUME RevertJob
        PROVE  FirmStands' /\ PlansStand' /\ JobIsRecent'
    <2>1. CASE job.kind = "resolution"
      <3>1. \A r \in Rows :
               /\ settlement'[r].resolution = IF r \in job.rows THEN "none"
                                                                ELSE settlement[r].resolution
               /\ settlement'[r].status = settlement[r].status
               /\ settlement'[r].order = settlement[r].order
        BY <1>8, <2>1, ResolvedIs DEF RevertJob
      <3>2. \A r \in job.rows : settlement[r].resolution = "recent"
        BY <2>1 DEF JobIsRecent
      <3>3. FirmStands'
        BY <3>1, <3>2 DEF FirmStands
      <3>4. PlansStand'
        BY <1>8, <3>1, <3>2, PlanFields DEF RevertJob, PlansStand
      <3>5. QED
        BY <1>8, <3>3, <3>4 DEF RevertJob, NoJob, JobIsRecent
    <2>2. CASE job.kind # "resolution"
      <3>1. \A r \in Rows :
               /\ settlement'[r].order = IF r \in job.rows THEN "none" ELSE settlement[r].order
               /\ settlement'[r].status = settlement[r].status
               /\ settlement'[r].resolution = settlement[r].resolution
        BY <1>8, <2>2, OrderedIs DEF RevertJob
      <3>2. FirmStands'
        BY <3>1 DEF FirmStands
      <3>3. PlansStand'
        BY <1>8, <3>1, PlanFields DEF RevertJob, PlansStand
      <3>4. QED
        BY <1>8, <3>2, <3>3 DEF RevertJob, NoJob, JobIsRecent
    <2>3. QED
      BY <2>1, <2>2
  <1>9. ASSUME NEW q \in Requests, ImportCommit(q)
        PROVE  FirmStands' /\ PlansStand' /\ JobIsRecent'
    <2>1. \A r \in Rows : /\ settlement'[r].status = settlement[r].status
                          /\ settlement'[r].resolution = settlement[r].resolution
                          /\ settlement'[r].order = settlement[r].order
      BY <1>9, ImportIs
    <2>2. End(q) /\ job' = job
      BY <1>9 DEF ImportCommit
    <2>3. QED
      BY <2>1, <2>2, PlansStandAtEnd DEF FirmStands, JobIsRecent, TypeOK, Job
  <1>10. ASSUME NEW r \in Rows, SixtyDays(r)
         PROVE  FirmStands' /\ PlansStand' /\ JobIsRecent'
    <2>1. \A s \in Rows :
             /\ settlement'[s].resolution = IF s \in {r} THEN "firm" ELSE settlement[s].resolution
             /\ settlement'[s].status = settlement[s].status
             /\ settlement'[s].order = settlement[s].order
      BY <1>10, ResolvedIs DEF SixtyDays
    <2>2. FirmStands'
      BY <2>1 DEF FirmStands
    <2>3. PlansStand'
      <3>1. \A s \in Rows :
               settlement[s].resolution = "firm" => settlement'[s].resolution = "firm"
        BY <2>1
      <3>2. tx' = tx
        BY <1>10 DEF SixtyDays
      <3>3. QED
        BY <3>1, <3>2, PlanFields DEF PlansStand
    <2>4. JobIsRecent'
      BY <1>10, <2>1 DEF SixtyDays, JobIsRecent, TypeOK, Job
    <2>5. QED
      BY <2>2, <2>3, <2>4
  <1>11. ASSUME NEW r \in Rows, FiveYears(r)
         PROVE  FirmStands' /\ PlansStand' /\ JobIsRecent'
    <2>1. \A s \in Rows :
             /\ settlement'[s].order = IF s \in {r} THEN "old" ELSE settlement[s].order
             /\ settlement'[s].status = settlement[s].status
             /\ settlement'[s].resolution = settlement[s].resolution
      BY <1>11, OrderedIs DEF FiveYears
    <2>2. FirmStands'
      BY <1>11, <2>1 DEF FirmStands, FiveYears
    <2>3. PlansStand'
      <3>1. \A s \in Rows :
               settlement[s].resolution = "firm" => settlement'[s].resolution = "firm"
        BY <2>1
      <3>2. tx' = tx
        BY <1>11 DEF FiveYears
      <3>3. QED
        BY <3>1, <3>2, PlanFields DEF PlansStand
    <2>4. JobIsRecent'
      BY <1>11, <2>1 DEF FiveYears, JobIsRecent, TypeOK, Job
    <2>5. QED
      BY <2>2, <2>3, <2>4
  <1>12. ASSUME NEW q \in Requests, NEW t \in Transaction, Plan(q, t),
                t.op \in {"resolution", "import"}, UNCHANGED <<settlement, audited, job>>
         PROVE  FirmStands' /\ PlansStand' /\ JobIsRecent'
    <2>1. tx'[q] = t /\ \A p \in Requests \ {q} : tx'[p] = tx[p]
      BY <1>12, PlanIs
    <2>2. QED
      BY <1>12, <2>1 DEF FirmStands, PlansStand, JobIsRecent
  <1>13. ASSUME NEW q \in Requests, ImportRead(q) \/ Abort(q)
         PROVE  FirmStands' /\ PlansStand' /\ JobIsRecent'
    <2>1. /\ tx'[q].op \in {"none", "import"} /\ \A p \in Requests \ {q} : tx'[p] = tx[p]
          /\ UNCHANGED <<settlement, audited, job>>
      BY <1>13 DEF ImportRead, Abort, End, NoTransaction, TypeOK
    <2>2. QED
      BY <2>1 DEF FirmStands, PlansStand, JobIsRecent
  <1>14. CASE FinishJob
    BY <1>14 DEF FinishJob, NoJob, FirmStands, PlansStand, JobIsRecent
  <1>15. CASE UNCHANGED vars
    BY <1>15 DEF vars, FirmStands, PlansStand, JobIsRecent
  <1>16. ASSUME NEW q \in Requests, NEW r \in Rows, PlanResolution(q, r)
         PROVE  FirmStands' /\ PlansStand' /\ JobIsRecent'
    <2>1. [op |-> "resolution", bulk |-> FALSE, rows |-> GroupOf(r)] \in Transaction
      BY DEF GroupOf, Pending, Current, Existing, Transaction
    <2>2. QED
      BY <1>12, <1>16, <2>1 DEF PlanResolution
  <1>17. ASSUME NEW q \in Requests, NEW risk \in BOOLEAN, PlanResolutions(q, risk)
         PROVE  FirmStands' /\ PlansStand' /\ JobIsRecent'
    <2> DEFINE pending == {r \in Pending : settlement[r].period \in Risk <=> risk}
    <2>1. [op |-> "resolution", bulk |-> TRUE, rows |-> pending] \in Transaction
      BY DEF Pending, Current, Existing, Transaction
    <2>2. QED
      BY <1>12, <1>17, <2>1 DEF PlanResolutions
  <1>18. ASSUME NEW q \in Requests, NEW brought \in SUBSET Periods, NEW confirmed \in BOOLEAN,
                ImportStart(q, brought, confirmed)
         PROVE  FirmStands' /\ PlansStand' /\ JobIsRecent'
    <2>1. [op |-> "import", at |-> "started", brought |-> brought, confirmed |-> confirmed]
            \in Transaction
      BY DEF Transaction
    <2>2. QED
      BY <1>12, <1>18, <2>1 DEF ImportStart
  <1>19. QED
    BY <1>1, <1>2, <1>3, <1>4, <1>5, <1>6, <1>7, <1>8, <1>9, <1>10, <1>11, <1>13,
       <1>14, <1>15, <1>16, <1>17, <1>18 DEF Next

-----------------------------------------------------------------------------
(* The audit trail *)

\* Only a change, a confirmation and the sweep set a status.
LEMMA WhoSetsStatus ==
    ASSUME TypeOK, [Next]_vars
    PROVE  \/ \E q \in Requests : ChangeCommit(q)
           \/ \E R \in SUBSET Rows : \E to \in [R -> Status] : Confirm(R, to)
           \/ MarkEnFirme
           \/ audited' = audited /\ \A r \in Rows : settlement'[r].status = settlement[r].status
  <1> DEFINE Same == audited' = audited /\ \A r \in Rows : settlement'[r].status = settlement[r].status
  <1>1. ASSUME NEW q \in Requests, CommitResolution(q)
        PROVE  Same
    BY <1>1, ResolvedIs DEF CommitResolution
  <1>2. ASSUME NEW q \in Requests, CommitOrder(q)
        PROVE  Same
    BY <1>2, OrderedIs DEF CommitOrder
  <1>3. ASSUME RevertJob
        PROVE  Same
    BY <1>3, ResolvedIs, OrderedIs DEF RevertJob
  <1>4. ASSUME NEW q \in Requests, ImportCommit(q)
        PROVE  Same
    BY <1>4, ImportIs DEF ImportCommit
  <1>5. ASSUME NEW r \in Rows, SixtyDays(r) \/ FiveYears(r)
        PROVE  Same
    BY <1>5, ResolvedIs, OrderedIs DEF SixtyDays, FiveYears
  <1>6. ASSUME UNCHANGED <<settlement, audited>>
        PROVE  Same
    BY <1>6
  <1>7. QED
    BY <1>1, <1>2, <1>3, <1>4, <1>5, <1>6
       DEF Next, vars, ChangeRead, PlanResolution, PlanResolutions, PlanOrder, FinishJob,
           ImportStart, ImportRead, Abort

\* Every step leaves each settlement in a status that its last event explains.
LEMMA AuditStep == TypeOK /\ Audited /\ [Next]_vars => Audited'
  <1> SUFFICES ASSUME TypeOK, Audited, [Next]_vars PROVE Audited'
    OBVIOUS
  <1>1. ASSUME NEW q \in Requests, ChangeCommit(q)
        PROVE  Audited'
    <2>1. tx[q].row \in Rows /\ audited' = [audited EXCEPT ![tx[q].row] = tx[q].to]
      BY <1>1, PlanFields DEF ChangeCommit
    <2>2. \A r \in Rows :
             settlement'[r].status = IF r = tx[q].row THEN tx[q].to ELSE settlement[r].status
      BY <1>1, ChangeIs
    <2>3. \A r \in Rows : audited'[r] = IF r = tx[q].row THEN tx[q].to ELSE audited[r]
      BY <2>1 DEF TypeOK
    <2>4. QED
      BY <2>2, <2>3 DEF Audited, LeftBy
  <1>2. ASSUME NEW R \in SUBSET Rows, NEW to \in [R -> Status], Confirm(R, to)
        PROVE  Audited'
    <2>1. \A r \in Rows : settlement'[r].status = IF r \in R THEN to[r] ELSE settlement[r].status
      BY <1>2, StatusIs DEF Confirm
    <2>2. \A r \in Rows : audited'[r] = IF r \in R /\ to[r] # settlement[r].status
                                        THEN to[r] ELSE audited[r]
      BY <1>2 DEF Confirm
    <2>3. QED
      BY <2>1, <2>2 DEF Audited, LeftBy
  <1>3. ASSUME MarkEnFirme
        PROVE  Audited'
    <2>1. \A r \in Rows :
             settlement'[r].status = IF r \in Firm THEN "EN_FIRME" ELSE settlement[r].status
      BY <1>3, SweepIs
    <2>2. \A r \in Firm : settlement[r].status = "VIGENTE"
      BY DEF Firm
    <2>3. audited' = audited
      BY <1>3 DEF MarkEnFirme
    <2>4. QED
      BY <2>1, <2>2, <2>3 DEF Audited, LeftBy
  <1>4. CASE audited' = audited /\ \A r \in Rows : settlement'[r].status = settlement[r].status
    BY <1>4 DEF Audited, LeftBy
  <1>5. QED
    BY <1>1, <1>2, <1>3, <1>4, WhoSetsStatus

-----------------------------------------------------------------------------
(* The current settlement of a period *)

\* A step that changes neither periods nor replacements, and starts no import,
\* disturbs no import.
LEMMA ImportsKept ==
    ASSUME TypeOK, CurrentUnique, ImportStands,
           \A r \in Rows : /\ settlement'[r].period = settlement[r].period
                          /\ settlement'[r].replaced = settlement[r].replaced,
           \A q \in Requests : tx'[q] = tx[q] \/ tx'[q].op # "import"
    PROVE  CurrentUnique' /\ ImportStands'
  <1>1. Existing' = Existing /\ Current' = Current
    BY DEF Existing, Current
  <1>2. CurrentUnique'
    BY <1>1 DEF CurrentUnique, Current, Existing
  <1>3. ASSUME NEW p \in Requests, NEW q \in Requests, tx'[p].op = "import", tx'[q].op = "import"
        PROVE  p = q
    BY <1>3 DEF ImportStands
  <1>4. ASSUME NEW q \in Requests, tx'[q].op = "import", tx'[q].at = "read"
        PROVE  tx'[q].supersede = {r \in Current' : settlement'[r].period \in tx'[q].create}
    <2>1. tx[q].supersede = {r \in Current : settlement[r].period \in tx[q].create}
      BY <1>4 DEF ImportStands
    <2>2. \A r \in Current : settlement'[r].period = settlement[r].period
      BY DEF Current, Existing
    <2>3. QED
      BY <1>1, <1>4, <2>1, <2>2
  <1>5. QED
    BY <1>2, <1>3, <1>4 DEF ImportStands

\* An import supersedes exactly what it has something new for.
LEMMA CommitKeepsCurrent ==
    ASSUME TypeOK, CurrentUnique, ImportStands, NEW q \in Requests, ImportCommit(q)
    PROVE  CurrentUnique' /\ ImportStands'
  <1> DEFINE S == tx[q].supersede
             N == Created(q)
  <1>1. S = {r \in Current : settlement[r].period \in tx[q].create}
    BY DEF ImportStands, ImportCommit
  <1>2. /\ \A r \in N : r \in Rows /\ r \notin Existing /\ settlement'[r].period \in tx[q].create
        /\ tx[q].create \in SUBSET Periods
    BY PlanFields DEF Created, ImportCommit
  <1>3. /\ \A r \in Rows :
              /\ r \in N => settlement'[r].replaced = settlement[r].replaced
              /\ r \notin N => /\ settlement'[r].period = settlement[r].period
                               /\ settlement'[r].replaced <=> settlement[r].replaced \/ r \in S
        /\ \A r, s \in N : settlement'[r].period = settlement'[s].period => r = s
        /\ \A p \in tx[q].create : \E r \in N : settlement'[r].period = p
    BY ImportIs
  <1> HIDE DEF N, S
  <1>4. ASSUME NEW r \in Rows
        PROVE  r \in Existing' <=> r \in Existing \/ r \in N
    BY <1>2, <1>3, SettlementsAssumption DEF Existing
  <1>5. ASSUME NEW r \in Rows
        PROVE  r \in Current' <=> (r \in Current /\ r \notin S) \/ r \in N
    <2>1. CASE r \in N
      <3>1. r \in Existing' /\ ~settlement[r].replaced
        BY <1>2, <1>4, <2>1 DEF CurrentUnique
      <3>2. settlement'[r].replaced = settlement[r].replaced
        BY <1>3, <2>1
      <3>3. QED
        BY <2>1, <3>1, <3>2 DEF Current
    <2>2. CASE r \notin N
      <3>1. r \in Existing' <=> r \in Existing
        BY <1>4, <2>2
      <3>2. settlement'[r].replaced <=> settlement[r].replaced \/ r \in S
        BY <1>3, <2>2
      <3>3. QED
        BY <2>2, <3>1, <3>2 DEF Current
    <2>3. QED
      BY <2>1, <2>2
  <1>6. ASSUME NEW c \in Current'
        PROVE  /\ c \in Rows
               /\ \/ c \in N /\ settlement'[c].period \in tx[q].create
                  \/ /\ c \in Current /\ settlement'[c].period = settlement[c].period
                     /\ settlement[c].period \notin tx[q].create
    <2>1. c \in Rows
      BY DEF Current, Existing
    <2>2. CASE c \in N
      BY <1>2, <2>1, <2>2
    <2>3. CASE c \notin N
      BY <1>1, <1>3, <1>5, <2>1, <2>3
    <2>4. QED
      BY <2>1, <2>2, <2>3
  <1>7. ASSUME NEW c \in Current', NEW d \in Current', settlement'[c].period = settlement'[d].period
        PROVE  c = d
    BY <1>3, <1>6, <1>7 DEF CurrentUnique
  <1>8. ASSUME NEW r \in Existing'
        PROVE  \E c \in Current' : settlement'[c].period = settlement'[r].period
    <2>1. r \in Rows
      BY DEF Existing
    <2>2. CASE r \in N
      BY <1>5, <2>1, <2>2
    <2>3. CASE r \notin N
      <3>1. r \in Existing /\ settlement'[r].period = settlement[r].period
        BY <1>3, <1>4, <2>1, <2>3
      <3>2. PICK c \in Current : settlement[c].period = settlement[r].period
        BY <3>1 DEF CurrentUnique
      <3>3. c \in Rows /\ c \in Existing
        BY DEF Current, Existing
      <3>4. CASE c \in S
        <4>1. settlement[c].period \in tx[q].create
          BY <1>1, <3>4
        <4>2. PICK n \in N : settlement'[n].period = settlement[c].period
          BY <1>3, <4>1
        <4>3. n \in Current'
          BY <1>2, <1>5
        <4>4. QED
          BY <3>1, <3>2, <4>2, <4>3
      <3>5. CASE c \notin S
        <4>1. c \notin N
          BY <1>2, <3>3
        <4>2. c \in Current' /\ settlement'[c].period = settlement[c].period
          BY <1>3, <1>5, <3>3, <3>5, <4>1
        <4>3. QED
          BY <3>1, <3>2, <4>2
      <3>6. QED
        BY <3>4, <3>5
    <2>4. QED
      BY <2>2, <2>3
  <1>9. ASSUME NEW r \in Rows, r \notin Existing'
        PROVE  ~settlement'[r].replaced
    <2>1. r \notin Existing /\ r \notin N
      BY <1>4, <1>9
    <2>2. ~settlement[r].replaced /\ r \notin S
      BY <1>1, <2>1 DEF CurrentUnique, Current
    <2>3. QED
      BY <1>3, <2>1, <2>2
  <1>10. \A p \in Requests : tx'[p].op # "import"
    <2>1. tx[q].op = "import" /\ End(q)
      BY DEF ImportCommit
    <2>2. QED
      BY <2>1, EndIs DEF ImportStands
  <1>11. QED
    BY <1>7, <1>8, <1>9, <1>10 DEF CurrentUnique, ImportStands

\* Every step keeps one current settlement for each period that has any.
LEMMA ImportStep ==
    TypeOK /\ CurrentUnique /\ ImportStands /\ [Next]_vars => CurrentUnique' /\ ImportStands'
  <1> SUFFICES ASSUME TypeOK, CurrentUnique, ImportStands, [Next]_vars
               PROVE  CurrentUnique' /\ ImportStands'
    OBVIOUS
  <1> DEFINE SameRows == \A r \in Rows : /\ settlement'[r].period = settlement[r].period
                                        /\ settlement'[r].replaced = settlement[r].replaced
             NoNewImport == \A q \in Requests : tx'[q] = tx[q] \/ tx'[q].op # "import"
  <1>1. SameRows /\ NoNewImport => CurrentUnique' /\ ImportStands'
    BY ImportsKept
  <1>2. ASSUME NEW q \in Requests, End(q)
        PROVE  NoNewImport
    BY <1>2, EndIs
  <1>3. tx' = tx => NoNewImport
    OBVIOUS
  <1>4. settlement' = settlement => SameRows
    OBVIOUS
  <1>5. ASSUME NEW q \in Requests, NEW t \in Transaction, Plan(q, t), t.op # "import"
        PROVE  NoNewImport
    BY <1>5, PlanIs
  <1> HIDE DEF SameRows, NoNewImport
  <1>6. ASSUME NEW q \in Requests, NEW r \in Rows, NEW to \in Status, ChangeRead(q, r, to)
        PROVE  CurrentUnique' /\ ImportStands'
    <2>1. [op |-> "change", row |-> r, from |-> settlement[r].status, to |-> to] \in Transaction
      BY DEF TypeOK, Settlement, Transaction
    <2>2. QED
      BY <1>1, <1>4, <1>5, <1>6, <2>1 DEF ChangeRead
  <1>7. ASSUME NEW q \in Requests, ChangeCommit(q)
        PROVE  CurrentUnique' /\ ImportStands'
    BY <1>1, <1>2, <1>7, ChangeIs DEF ChangeCommit, SameRows
  <1>8. ASSUME NEW R \in SUBSET Rows, NEW to \in [R -> Status], Confirm(R, to)
        PROVE  CurrentUnique' /\ ImportStands'
    BY <1>1, <1>3, <1>8, StatusIs DEF Confirm, SameRows
  <1>9. ASSUME MarkEnFirme
        PROVE  CurrentUnique' /\ ImportStands'
    BY <1>1, <1>3, <1>9, SweepIs DEF MarkEnFirme, SameRows
  <1>10. ASSUME NEW q \in Requests, NEW r \in Rows, PlanResolution(q, r)
         PROVE  CurrentUnique' /\ ImportStands'
    <2>1. [op |-> "resolution", bulk |-> FALSE, rows |-> GroupOf(r)] \in Transaction
      BY DEF GroupOf, Pending, Current, Existing, Transaction
    <2>2. QED
      BY <1>1, <1>4, <1>5, <1>10, <2>1 DEF PlanResolution
  <1>11. ASSUME NEW q \in Requests, NEW risk \in BOOLEAN, PlanResolutions(q, risk)
         PROVE  CurrentUnique' /\ ImportStands'
    <2> DEFINE pending == {r \in Pending : settlement[r].period \in Risk <=> risk}
    <2>1. [op |-> "resolution", bulk |-> TRUE, rows |-> pending] \in Transaction
      BY DEF Pending, Current, Existing, Transaction
    <2>2. QED
      BY <1>1, <1>4, <1>5, <1>11, <2>1 DEF PlanResolutions
  <1>12. ASSUME NEW q \in Requests, CommitResolution(q)
         PROVE  CurrentUnique' /\ ImportStands'
    BY <1>1, <1>2, <1>12, ResolvedIs DEF CommitResolution, SameRows
  <1>13. ASSUME NEW q \in Requests, NEW bulk \in BOOLEAN, NEW R \in SUBSET Rows,
                PlanOrder(q, bulk, R)
         PROVE  CurrentUnique' /\ ImportStands'
    <2>1. [op |-> "order", bulk |-> bulk, rows |-> R] \in Transaction
      BY <1>13 DEF PlanOrder, Transaction
    <2>2. QED
      BY <1>1, <1>4, <1>5, <1>13, <2>1 DEF PlanOrder
  <1>14. ASSUME NEW q \in Requests, CommitOrder(q)
         PROVE  CurrentUnique' /\ ImportStands'
    BY <1>1, <1>2, <1>14, OrderedIs DEF CommitOrder, SameRows
  <1>15. CASE FinishJob
    BY <1>1, <1>3, <1>4, <1>15 DEF FinishJob
  <1>16. CASE RevertJob
    BY <1>1, <1>3, <1>16, ResolvedIs, OrderedIs DEF RevertJob, SameRows
  <1>17. ASSUME NEW q \in Requests, NEW brought \in SUBSET Periods, NEW confirmed \in BOOLEAN,
                ImportStart(q, brought, confirmed)
         PROVE  CurrentUnique' /\ ImportStands'
    <2>1. [op |-> "import", at |-> "started", brought |-> brought, confirmed |-> confirmed]
            \in Transaction
      BY DEF Transaction
    <2>2. /\ tx'[q].op = "import" /\ tx'[q].at = "started"
          /\ \A p \in Requests \ {q} : tx'[p] = tx[p] /\ tx'[p].op # "import"
      BY <1>17, <2>1, PlanIs DEF ImportStart
    <2>3. ImportStands'
      BY <2>2 DEF ImportStands
    <2>4. CurrentUnique'
      BY <1>17 DEF ImportStart, CurrentUnique, Current, Existing
    <2>5. QED
      BY <2>3, <2>4
  <1>18. ASSUME NEW q \in Requests, ImportRead(q)
         PROVE  CurrentUnique' /\ ImportStands'
    <2> DEFINE brought == tx[q].brought
               locked  == {settlement[r].period :
                              r \in {c \in Current : settlement[c].status = "EN_FIRME"}}
    <2>1. settlement' = settlement /\ tx[q].op = "import"
      BY <1>18 DEF ImportRead
    <2>2. Existing' = Existing /\ Current' = Current
      BY <2>1 DEF Existing, Current
    <2>3. CurrentUnique'
      BY <2>1, <2>2 DEF CurrentUnique
    <2>4. \A p \in Requests \ {q} : tx'[p] = tx[p] /\ tx'[p].op # "import"
      BY <1>18 DEF ImportRead, ImportStands, TypeOK
    <2>5. Superseded(brought) = {r \in Current : settlement[r].period \in brought \ locked}
      <3>1. ASSUME NEW r \in Current
            PROVE  settlement[r].period \in locked <=> settlement[r].status = "EN_FIRME"
        BY DEF CurrentUnique
      <3>2. QED
        BY <3>1 DEF Superseded
    <2>6. \/ tx'[q].op = "none"
          \/ tx'[q].create = brought \ locked /\ tx'[q].supersede = Superseded(brought)
      BY <1>18 DEF ImportRead, NoTransaction, TypeOK
    <2>7. ImportStands'
      BY <2>1, <2>2, <2>4, <2>5, <2>6 DEF ImportStands
    <2>8. QED
      BY <2>3, <2>7
  <1>19. ASSUME NEW q \in Requests, ImportCommit(q)
         PROVE  CurrentUnique' /\ ImportStands'
    BY <1>19, CommitKeepsCurrent
  <1>20. ASSUME NEW q \in Requests, Abort(q)
         PROVE  CurrentUnique' /\ ImportStands'
    BY <1>1, <1>2, <1>4, <1>20 DEF Abort
  <1>21. ASSUME NEW r \in Rows, SixtyDays(r) \/ FiveYears(r)
         PROVE  CurrentUnique' /\ ImportStands'
    BY <1>1, <1>3, <1>21, ResolvedIs, OrderedIs DEF SixtyDays, FiveYears, SameRows
  <1>22. CASE UNCHANGED vars
    BY <1>1, <1>3, <1>4, <1>22 DEF vars
  <1>23. QED
    BY <1>6, <1>7, <1>8, <1>9, <1>10, <1>11, <1>12, <1>13, <1>14, <1>15, <1>16, <1>17,
       <1>18, <1>19, <1>20, <1>21, <1>22 DEF Next

-----------------------------------------------------------------------------
(* Theorems *)

\* The invariant holds of a municipality without settlements.
LEMMA InitIInv == Init => IInv
  <1> SUFFICES ASSUME Init PROVE IInv
    OBVIOUS
  <1> USE DEF Init
  <1>1. TypeOK
    BY DEF TypeOK, Settlement, Status, Job, NoJob, Transaction, NoTransaction
  <1>2. FirmStands /\ PlansStand /\ JobIsRecent
    BY DEF FirmStands, PlansStand, JobIsRecent, NoJob, NoTransaction
  <1>3. Audited
    BY DEF Audited, LeftBy
  <1>4. Existing = {} /\ Current = {}
    BY DEF Existing, Current
  <1>5. CurrentUnique
    BY <1>4 DEF CurrentUnique
  <1>6. ImportStands
    BY DEF ImportStands, NoTransaction
  <1>7. QED
    BY <1>1, <1>2, <1>3, <1>5, <1>6 DEF IInv

\* Every step keeps it.
LEMMA StepIInv == IInv /\ [Next]_vars => IInv'
  BY TypeStep, FirmStep, AuditStep, ImportStep DEF IInv

\* What the settlements, the requests in flight and the bulk job know of each
\* other stays true in every reachable state.
THEOREM InductiveInvariant == Spec => []IInv
  BY InitIInv, StepIInv, PTL DEF Spec

\* The variables have their types in every reachable state.
THEOREM TypeCorrect == Spec => []TypeOK
  <1>1. IInv => TypeOK
    BY DEF IInv
  <1>2. QED
    BY <1>1, InductiveInvariant, PTL

\* No settlement is EN_FIRME or in a payment order without a final resolution,
\* in every reachable state.
THEOREM FirmAlwaysStands == Spec => []FirmStands
  <1>1. IInv => FirmStands
    BY DEF IInv
  <1>2. QED
    BY <1>1, InductiveInvariant, PTL

\* Each period that was ever imported has exactly one current settlement, in
\* every reachable state.
THEOREM AlwaysOneCurrentEach == Spec => []OneCurrentEach
  <1>1. ASSUME IInv
        PROVE  OneCurrentEach
    <2>1. SUFFICES ASSUME NEW r \in Existing
                   PROVE  Cardinality({c \in Current :
                              settlement[c].period = settlement[r].period}) = 1
      BY DEF OneCurrentEach
    <2>2. PICK d \in Current : settlement[d].period = settlement[r].period
      BY <1>1 DEF IInv, CurrentUnique
    <2>3. {c \in Current : settlement[c].period = settlement[r].period} = {d}
      BY <1>1, <2>2 DEF IInv, CurrentUnique
    <2>4. QED
      BY <2>3, FS_Singleton
  <1>2. QED
    BY <1>1, InductiveInvariant, PTL

\* No step brings a settlement back from EN_FIRME to VIGENTE.
THEOREM FirmIsNeverBack == Spec => FirmNeverBack
  <1>1. ASSUME IInv, [Next]_vars, NEW r \in Rows, settlement[r].status = "EN_FIRME"
        PROVE  settlement'[r].status # "VIGENTE"
    <2>1. ASSUME NEW q \in Requests, ChangeCommit(q)
          PROVE  settlement'[r].status # "VIGENTE"
      <3>1. /\ settlement[tx[q].row].status = tx[q].from
            /\ settlement'[r].status = IF r = tx[q].row THEN tx[q].to ELSE settlement[r].status
        BY <1>1, <2>1, ChangeIs DEF IInv
      <3>2. tx[q].from = "EN_FIRME" => tx[q].to # "VIGENTE"
        BY <1>1, <2>1 DEF IInv, PlansStand, ChangeCommit
      <3>3. QED
        BY <1>1, <3>1, <3>2
    <2>2. ASSUME NEW R \in SUBSET Rows, NEW to \in [R -> Status], Confirm(R, to)
          PROVE  settlement'[r].status # "VIGENTE"
      <3>1. settlement'[r].status = IF r \in R THEN to[r] ELSE settlement[r].status
        BY <1>1, <2>2, StatusIs DEF IInv, Confirm
      <3>2. r \in R => to[r] # "VIGENTE"
        BY <1>1, <2>2, AllowedRespectFirm DEF IInv, Confirm
      <3>3. QED
        BY <1>1, <3>1, <3>2
    <2>3. ASSUME MarkEnFirme
          PROVE  settlement'[r].status # "VIGENTE"
      BY <1>1, <2>3, SweepIs DEF IInv
    <2>4. QED
      BY <1>1, <2>1, <2>2, <2>3, WhoSetsStatus DEF IInv
  <1>2. IInv /\ [Next]_vars =>
           \A r \in Rows : settlement[r].status = "EN_FIRME" => settlement'[r].status # "VIGENTE"
    BY <1>1
  <1>3. QED
    BY <1>2, InductiveInvariant, PTL DEF Spec, FirmNeverBack

\* The trail of events accounts for every status.
THEOREM AuditTrailHasNoHoles == Spec => AuditTrail
  <1>1. ASSUME IInv, [Next]_vars, NEW r \in Rows
        PROVE  settlement'[r].status \in LeftBy(r)'
    BY <1>1, AuditStep DEF IInv, Audited
  <1>2. ASSUME IInv, [Next]_vars, NEW q \in Requests,
               tx[q].op = "change", tx'[q].op = "none", audited' # audited
        PROVE  tx[q].from \in LeftBy(tx[q].row)
    <2>1. ASSUME NEW p \in Requests, ChangeCommit(p)
          PROVE  tx[q].from \in LeftBy(tx[q].row)
      <3>1. End(p) /\ tx[q].row \in Rows
        BY <1>2, <2>1, PlanFields DEF IInv, ChangeCommit
      <3>2. p = q
        BY <1>2, <3>1, EndIs DEF IInv
      <3>3. settlement[tx[q].row].status = tx[q].from
        BY <1>2, <2>1, <3>2, ChangeIs DEF IInv
      <3>4. QED
        BY <1>2, <3>1, <3>3 DEF IInv, Audited
    <2>2. ASSUME NEW R \in SUBSET Rows, NEW to \in [R -> Status], Confirm(R, to)
          PROVE  FALSE
      BY <1>2, <2>2 DEF Confirm
    <2>3. ASSUME MarkEnFirme
          PROVE  FALSE
      BY <1>2, <2>3 DEF MarkEnFirme
    <2>4. QED
      BY <1>2, <2>1, <2>2, <2>3, WhoSetsStatus DEF IInv
  <1> DEFINE Explained ==
          /\ \A r \in Rows : settlement'[r].status \in LeftBy(r)'
          /\ \A q \in Requests :
                tx[q].op = "change" /\ tx'[q].op = "none" /\ audited' # audited =>
                    tx[q].from \in LeftBy(tx[q].row)
  <1>3. IInv /\ [Next]_vars => Explained
    BY <1>1, <1>2
  <1>4. QED
    BY <1>3, InductiveInvariant, PTL DEF Spec, AuditTrail

\* No step brings a replaced settlement back, changes its status or gives it a
\* payment order.
THEOREM HistoryStays == Spec => ReplacedIsHistory
  <1>1. ASSUME IInv, [Next]_vars, NEW r \in Rows, settlement[r].replaced
        PROVE  /\ settlement'[r].replaced
               /\ settlement'[r].status = settlement[r].status
               /\ settlement[r].order = "none" => settlement'[r].order = "none"
    <2> DEFINE Stays == /\ settlement'[r].replaced
                        /\ settlement'[r].status = settlement[r].status
                        /\ settlement[r].order = "none" => settlement'[r].order = "none"
    <2>1. r \notin Current /\ TypeOK
      BY <1>1 DEF Current, IInv
    <2>2. ASSUME NEW q \in Requests, ChangeCommit(q)
          PROVE  Stays
      BY <1>1, <2>1, <2>2, ChangeIs
    <2>3. ASSUME NEW R \in SUBSET Rows, NEW to \in [R -> Status], Confirm(R, to)
          PROVE  Stays
      BY <1>1, <2>1, <2>3, StatusIs DEF Confirm
    <2>4. ASSUME MarkEnFirme
          PROVE  Stays
      BY <1>1, <2>1, <2>4, SweepIs DEF Firm
    <2>5. ASSUME NEW q \in Requests, CommitResolution(q)
          PROVE  Stays
      BY <1>1, <2>1, <2>5, ResolvedIs DEF CommitResolution
    <2>6. ASSUME NEW q \in Requests, CommitOrder(q)
          PROVE  Stays
      BY <1>1, <2>1, <2>6, OrderedIs DEF CommitOrder
    <2>7. ASSUME RevertJob
          PROVE  Stays
      BY <1>1, <2>1, <2>7, ResolvedIs, OrderedIs DEF RevertJob
    <2>8. ASSUME NEW q \in Requests, ImportCommit(q)
          PROVE  Stays
      BY <1>1, <2>1, <2>8, ImportIs
    <2>9. ASSUME NEW s \in Rows, SixtyDays(s)
          PROVE  Stays
      BY <1>1, <2>1, <2>9, ResolvedIs DEF SixtyDays
    <2>10. ASSUME NEW s \in Rows, FiveYears(s)
           PROVE  Stays
      <3>1. /\ settlement'[r].order = IF r \in {s} THEN "old" ELSE settlement[r].order
            /\ settlement'[r].replaced = settlement[r].replaced
            /\ settlement'[r].status = settlement[r].status
        BY <2>1, <2>10, OrderedIs DEF FiveYears
      <3>2. settlement[s].order = "recent"
        BY <2>10 DEF FiveYears
      <3>3. QED
        BY <1>1, <3>1, <3>2
    <2>11. ASSUME settlement' = settlement
           PROVE  Stays
      BY <1>1, <2>11
    <2>12. QED
      BY <1>1, <2>2, <2>3, <2>4, <2>5, <2>6, <2>7, <2>8, <2>9, <2>10, <2>11
         DEF Next, vars, ChangeRead, PlanResolution, PlanResolutions, PlanOrder, FinishJob,
             ImportStart, ImportRead, Abort
  <1> DEFINE History ==
          \A r \in Rows : settlement[r].replaced =>
              /\ settlement'[r].replaced
              /\ settlement'[r].status = settlement[r].status
              /\ settlement[r].order = "none" => settlement'[r].order = "none"
  <1>2. IInv /\ [Next]_vars => History
    BY <1>1
  <1>3. QED
    BY <1>2, InductiveInvariant, PTL DEF Spec, ReplacedIsHistory

\* Neither: what was decided of a settlement stands.
THEOREM DecidedStays == Spec => DecidedStands
  BY FirmIsNeverBack, HistoryStays, PTL DEF DecidedStands

-----------------------------------------------------------------------------
(* SettlementsScreen: what the list shows, and when a number is issued *)

ListedIn(S, criteria) ==
    {s \in Ids : LandOf[s] \in Finds[criteria] /\ S[s].current}

\* A row of a search of the table S.
GroupIn(S, m) ==
    [id |-> Screen!Trigger(m), res |-> S[Screen!Trigger(m)].res,
     missing |-> Screen!MissingOf(S, m),
     status |-> Screen!StatusOf({S[s].status : s \in m}),
     settlements |-> [s \in m |-> [status |-> S[s].status,
                                   allowed |-> Screen!Allowed(S[s])]]]

\* What a search finds.
FoundIn(S, criteria) ==
    {GroupIn(S, m) : m \in Screen!Buckets(S, ListedIn(S, criteria))}

\* The settlements of the bucket of s.
MembersIn(S, s) ==
    {t \in Ids : S[t].current /\ Screen!BucketOf(S, t) = Screen!BucketOf(S, s)}

\* A row of a list: its state is that of its periods.
RowIs(g) ==
    /\ g = [id |-> g.id, res |-> g.res, missing |-> g.missing, status |-> g.status,
            settlements |-> [t \in DOMAIN g.settlements |-> g.settlements[t]]]
    /\ g.id \in DOMAIN g.settlements /\ DOMAIN g.settlements \subseteq Ids
    /\ g.status = Screen!StatusOf({g.settlements[t].status : t \in DOMAIN g.settlements})

\* A list read of table S or before: a row that shows its resolution has it, unless
\* a job took numbers back.
ListIs(S, took, rows) ==
    /\ \A g \in rows : RowIs(g) /\ (g.res # Null => S[g.id].res # Null \/ took)
    /\ \A g, h \in rows : g.id = h.id => g = h

\* A request of the tab, whatever the backend holds.
CallIs(c) ==
    /\ c = [id |-> c.id, kind |-> c.kind, of |-> c.of, to |-> c.to, sheet |-> c.sheet,
            first |-> c.first, asked |-> c.asked, state |-> c.state, said |-> c.said,
            at |-> c.at]
    /\ c.id \in Nat \ {0} /\ c.at \in Nat
    /\ c.kind \in Screen!Searches \cup {"status", "pdf", "confirm"}
    /\ c.state \in {"sent", "done", "refused", "lost"}
    /\ c.state \in {"done", "refused"} => c.at # 0
    /\ c.kind \in Screen!Searches => c.of \in Criteria /\ c.state # "refused"
    /\ c.kind \in {"status", "confirm"} => c.of \in Ids /\ c.to \in Screen!Statuses
    /\ c.kind = "pdf" =>
          /\ c.of \in Ids /\ c.first \in BOOLEAN /\ c.asked \in BOOLEAN
          /\ c.state = "done" => c.said \in BOOLEAN

\* When it was answered, of n requests sent, with now events and the last write at w.
CallWas(n, now, w, c) ==
    /\ c.id <= n /\ c.at <= now
    /\ c.kind = "status" /\ c.state = "done" => c.at <= w
    /\ c.kind \in Screen!Searches /\ c.state = "done" => c.at # w

\* What it knows of resolutions: a PDF asked without a dialog is of a row that has its
\* resolution, so it issues none, unless a job took numbers back.
CallKnows(S, took, c) ==
    /\ c.kind \in Screen!Searches /\ c.state = "done" => ListIs(S, took, c.said)
    /\ c.kind = "pdf" /\ ~c.asked =>
          \/ S[c.of].res # Null /\ ~(c.state = "done" /\ c.said)
          \/ took

\* A search answered since the last change says what it would say now.
CallFresh(c) ==
    c.kind \in Screen!Searches /\ c.state = "done" /\ c.at >= wroteAt /\ c.at >= otherAt =>
        c.said = FoundIn(stored, c.of)

CallOK(c) ==
    /\ CallIs(c) /\ CallWas(sent, clock, wroteAt, c)
    /\ CallKnows(stored, reverted, c) /\ CallFresh(c)

\* Changes answered after the list was read, and not shown yet.
Unshown(all, from) ==
    {d \in all : d.kind = "status" /\ d.state = "done" /\ d.at >= from}

IsLast(D, d) == d \in D /\ \A e \in D : e.at <= d.at

OfPeriod(D, t) == {d \in D : d.of = t}

OfRow(D, f) == {d \in D : d.of \in DOMAIN f.settlements}

\* The row g of the list is the true row f but for the changes D: what the last of
\* them said of a period, and of the row's missing periods, is so.
Matches(D, g, f) ==
    /\ g.id = f.id /\ g.res = f.res /\ DOMAIN g.settlements = DOMAIN f.settlements
    /\ \A t \in DOMAIN f.settlements :
          /\ OfPeriod(D, t) = {} => g.settlements[t] = f.settlements[t]
          /\ \A d \in D : IsLast(OfPeriod(D, t), d) =>
                f.settlements[t] = [status |-> d.said.status, allowed |-> d.said.allowed]
    /\ OfRow(D, f) = {} => g.missing = f.missing
    /\ \A d \in D : IsLast(OfRow(D, f), d) => f.missing = d.said.missing

Explained(D, rows, found) ==
    /\ \A f \in found : \E g \in rows : Matches(D, g, f)
    /\ \A g \in rows : \E f \in found : Matches(D, g, f)

\* A request whose answer reads the list again, or leaves it known to be behind.
Renews(c, e) ==
    \/ c.kind = "pdf" /\ c.state = "done" /\ c.said
    \/ c.kind = "confirm" /\ c.state = "done"
    \/ c.kind = "refresh"
    \/ c.kind = "applied" /\ c.id = e

ListExplained ==
    listState = "results" /\ ~behind /\ otherAt < readAt =>
        \/ \E c \in calls : Renews(c, effect)
        \/ Explained(Unshown(calls, readAt), results, FoundIn(stored, searched))

TimesOK ==
    /\ clock \in Nat /\ sent \in Nat
    /\ readAt \in Nat /\ wroteAt \in Nat /\ otherAt \in Nat
    /\ readAt <= clock /\ wroteAt <= clock /\ otherAt <= clock

TableT == [current : BOOLEAN, status : Screen!Statuses, res : Nat \cup {Null},
           aged : BOOLEAN, missing : BOOLEAN]

\* A job that runs has the last number.
TableOK ==
    /\ stored \in [Ids -> TableT]
    /\ counter \in Nat /\ running \in Nat \cup {Null} /\ reverted \in BOOLEAN
    /\ running # Null => running = counter /\ counter # 0

FieldsOK ==
    /\ searched \in Criteria \cup {Null}
    /\ listState \in {"idle", "loading", "results", "empty", "invalid", "error"}
    /\ listState = "results" => searched # Null
    /\ selected \in Ids \cup {Null} /\ sheetId \in Ids \cup {Null}
    /\ editing \in Ids \cup {Null} /\ saving \in Ids \cup {Null}
    /\ failed \in [row : Ids, to : Screen!Statuses] \cup {Null}
    /\ dialog \in BOOLEAN /\ generating \in BOOLEAN /\ slompsim \in BOOLEAN
    /\ behind \in BOOLEAN
    /\ effect \in Nat /\ effect <= sent

CallsOK == \A c \in calls : CallOK(c)

\* The inductive invariant of the screen.
ScreenInv ==
    /\ TableOK /\ FieldsOK /\ TimesOK /\ Screen!NothingHangs
    /\ ListIs(stored, reverted, results)
    /\ CallsOK /\ ListExplained

LEMMA ScreenTyped ==
    ASSUME Screen!SettlementsScreenAssumption, ScreenInv
    PROVE  Screen!TypeOK
  <1>1. \A g \in results : /\ g.id \in DOMAIN g.settlements
                           /\ DOMAIN g.settlements \subseteq Ids
                           /\ \A h \in results : h.id = g.id => h = g
    BY DEF ScreenInv, ListIs, RowIs
  <1>2. ASSUME NEW c \in calls
        PROVE  /\ c.id \in 1 .. sent
               /\ c.kind \in Screen!Searches \cup {"status", "pdf", "confirm"}
               /\ c.state \in {"sent", "done", "refused", "lost"}
    <2>1. CallIs(c) /\ CallWas(sent, clock, wroteAt, c) /\ sent \in Nat
      BY DEF ScreenInv, CallsOK, CallOK, TimesOK
    <2>2. QED
      BY <2>1 DEF CallIs, CallWas
  <1>3. effect \in 0 .. sent
    BY DEF ScreenInv, FieldsOK, TimesOK
  <1>4. QED
    BY <1>1, <1>2, <1>3 DEF ScreenInv, TableOK, TableT, FieldsOK, Screen!TypeOK

\* The trigger of some settlements is one of them.
LEMMA TriggerIs ==
    ASSUME Screen!SettlementsScreenAssumption, NEW m, m # {}, m \subseteq Ids
    PROVE  Screen!Trigger(m) \in m
  <1> DEFINE periods == {PeriodOf[s] : s \in m}
  <1>1. periods \subseteq Nat /\ periods # {}
    <2>1. \A s \in m : PeriodOf[s] \in Nat
      BY DEF Screen!SettlementsScreenAssumption
    <2>2. PICK s \in m : TRUE
      OBVIOUS
    <2>3. PeriodOf[s] \in periods
      BY <2>2
    <2>4. QED
      BY <2>1, <2>3
  <1>2. PICK n \in periods : \A k \in periods : ~(<<k, n>> \in OpToRel(<, Nat))
    BY <1>1, NatLessThanWellFounded, WFMin
  <1>3. \A k \in periods : n <= k
    <2> HIDE DEF periods
    <2>1. \A k \in periods : ~(k < n)
      BY <1>1, <1>2 DEF OpToRel
    <2>2. QED
      BY <1>1, <2>1
  <1>4. \E s \in m : \A t \in m : PeriodOf[s] <= PeriodOf[t]
    BY <1>3
  <1>5. QED
    BY <1>4 DEF Screen!Trigger

\* The rows of a search of the table S are made of buckets, which share no settlement.
LEMMA BucketsAre ==
    ASSUME Screen!SettlementsScreenAssumption, NEW S, NEW criteria
    PROVE  LET listed == ListedIn(S, criteria)
               all == Screen!Buckets(S, listed)
           IN  /\ \A m \in all :
                     m \subseteq Ids /\ m # {} /\ Screen!Trigger(m) \in m
               /\ \A m, k \in all : \A s \in m : s \in k => m = k
               /\ \A m \in all : \A s \in m :
                     /\ s \in listed
                     /\ m = {t \in listed : Screen!BucketOf(S, t) = Screen!BucketOf(S, s)}
  <1> DEFINE listed == ListedIn(S, criteria)
             all == Screen!Buckets(S, listed)
  <1>1. \A m \in all : \A s \in m :
           /\ s \in listed
           /\ m = {t \in listed : Screen!BucketOf(S, t) = Screen!BucketOf(S, s)}
    <2> HIDE DEF listed
    <2>1. ASSUME NEW m \in all, NEW s \in m
          PROVE  /\ s \in listed
                 /\ m = {t \in listed : Screen!BucketOf(S, t) = Screen!BucketOf(S, s)}
      <3>1. PICK b : m = {t \in listed : Screen!BucketOf(S, t) = b}
        BY DEF Screen!Buckets
      <3>2. QED
        BY <3>1
    <2>2. QED
      BY <2>1
  <1>2. \A m \in all : m # {}
    BY DEF Screen!Buckets
  <1>3. listed \subseteq Ids
    BY DEF ListedIn
  <1> HIDE DEF all, listed
  <1>4. \A m \in all : m \subseteq Ids /\ Screen!Trigger(m) \in m
    BY <1>1, <1>2, <1>3, TriggerIs
  <1>5. QED
    BY <1>1, <1>2, <1>4 DEF all, listed

LEMMA GroupIs ==
    ASSUME NEW S, NEW m, m \subseteq Ids, Screen!Trigger(m) \in m
    PROVE  LET g == GroupIn(S, m)
           IN  /\ RowIs(g) /\ g.id = Screen!Trigger(m) /\ g.res = S[Screen!Trigger(m)].res
               /\ g.missing = Screen!MissingOf(S, m)
               /\ DOMAIN g.settlements = m
               /\ \A t \in m : g.settlements[t] = [status |-> S[t].status,
                                                   allowed |-> Screen!Allowed(S[t])]
  <1> DEFINE g == GroupIn(S, m)
             i == Screen!Trigger(m)
             r == S[Screen!Trigger(m)].res
             k == Screen!MissingOf(S, m)
             st == Screen!StatusOf({S[s].status : s \in m})
             f == [s \in m |-> [status |-> S[s].status, allowed |-> Screen!Allowed(S[s])]]
  <1>1. g = [id |-> i, res |-> r, missing |-> k, status |-> st, settlements |-> f]
    BY DEF GroupIn
  <1>2. i \in m
    OBVIOUS
  <1>3. /\ f = [t \in DOMAIN f |-> f[t]] /\ DOMAIN f = m
        /\ \A t \in m : f[t] = [status |-> S[t].status, allowed |-> Screen!Allowed(S[t])]
    OBVIOUS
  <1>4. st = Screen!StatusOf({f[t].status : t \in DOMAIN f})
    <2>1. {f[t].status : t \in DOMAIN f} = {S[s].status : s \in m}
      OBVIOUS
    <2>2. QED
      BY <2>1
  <1> HIDE DEF g, i, r, k, st, f
  <1>5. g.id = i /\ g.res = r /\ g.missing = k /\ g.status = st /\ g.settlements = f
    BY <1>1
  <1>6. RowIs(g)
    BY <1>1, <1>2, <1>3, <1>4, <1>5 DEF RowIs
  <1>7. QED
    BY <1>3, <1>5, <1>6 DEF g, i, r, k

LEMMA SearchFinds ==
    ASSUME NEW criteria
    PROVE  /\ Screen!Found(criteria) = FoundIn(stored, criteria)
           /\ Screen!Found(criteria)' = FoundIn(stored', criteria)
  BY DEF Screen!Found, FoundIn, Screen!Group, GroupIn, Screen!Current, ListedIn

\* It is a list of rows that share no settlement.
LEMMA FoundIs ==
    ASSUME Screen!SettlementsScreenAssumption, NEW S, NEW took, NEW criteria
    PROVE  LET found == FoundIn(S, criteria)
           IN  /\ ListIs(S, took, found)
               /\ \A f, g \in found : \A t \in DOMAIN f.settlements :
                     t \in DOMAIN g.settlements => f = g
  <1> DEFINE all == Screen!Buckets(S, ListedIn(S, criteria))
             found == FoundIn(S, criteria)
  <1>1. /\ \A m \in all : m \subseteq Ids /\ m # {} /\ Screen!Trigger(m) \in m
        /\ \A m, k \in all : \A s \in m : s \in k => m = k
    BY BucketsAre
  <1>2. found = {GroupIn(S, m) : m \in all}
    BY DEF FoundIn
  <1> HIDE DEF all, found
  <1>3. \A m \in all :
           LET g == GroupIn(S, m)
           IN  /\ RowIs(g) /\ (g.res # Null => S[g.id].res # Null)
               /\ DOMAIN g.settlements = m /\ g.id \in m
    BY <1>1, GroupIs
  <1>4. QED
    BY <1>1, <1>2, <1>3 DEF ListIs, found

-----------------------------------------------------------------------------
(* The answer of a change and the search compute the row apart, and agree *)

Moved(f, s, said) ==
    IF s \in DOMAIN f.settlements THEN Screen!WithPeriodChanged(f, s, said) ELSE f

LEMMA WithIs ==
    ASSUME NEW g, RowIs(g), NEW s, NEW said
    PROVE  LET h == Screen!WithPeriodChanged(g, s, said)
           IN  /\ RowIs(h) /\ h.id = g.id /\ h.res = g.res
               /\ DOMAIN h.settlements = DOMAIN g.settlements
               /\ \A t \in DOMAIN g.settlements :
                     h.settlements[t] =
                       IF t = s THEN [status |-> said.status, allowed |-> said.allowed]
                                ELSE g.settlements[t]
               /\ h.missing = said.missing
  <1> DEFINE periods == [t \in DOMAIN g.settlements |->
                           IF t = s THEN [status |-> said.status, allowed |-> said.allowed]
                                    ELSE g.settlements[t]]
             h == Screen!WithPeriodChanged(g, s, said)
             i == g.id
             r == g.res
             k == g.missing
             st == g.status
             f == [t \in DOMAIN g.settlements |-> g.settlements[t]]
             now == Screen!StatusOf({periods[t].status : t \in DOMAIN periods})
  <1>1. g = [id |-> i, res |-> r, missing |-> k, status |-> st, settlements |-> f]
    BY DEF RowIs
  <1>2. h = [g EXCEPT !.settlements = periods, !.status = now, !.missing = said.missing]
    BY DEF Screen!WithPeriodChanged
  <1>3. DOMAIN periods = DOMAIN g.settlements /\ periods = [t \in DOMAIN periods |-> periods[t]]
    OBVIOUS
  <1>4. i \in DOMAIN g.settlements /\ DOMAIN g.settlements \subseteq Ids
    BY DEF RowIs
  <1> HIDE DEF periods, now, h, i, r, k, st, f
  <1>5. h = [id |-> i, res |-> r, missing |-> said.missing, status |-> now,
             settlements |-> periods]
    BY <1>1, <1>2
  <1>6. h.id = i /\ h.res = r /\ h.missing = said.missing /\ h.status = now
        /\ h.settlements = periods
    BY <1>5
  <1>7. RowIs(h)
    BY <1>3, <1>4, <1>5, <1>6 DEF RowIs, now
  <1>8. \A t \in DOMAIN g.settlements :
           periods[t] = IF t = s THEN [status |-> said.status, allowed |-> said.allowed]
                                 ELSE g.settlements[t]
    BY DEF periods
  <1>9. QED
    BY <1>3, <1>6, <1>7, <1>8 DEF h, i, r

LEMMA WithKeepsTheRow ==
    ASSUME NEW g, RowIs(g), NEW s, NEW said
    PROVE  LET h == Screen!WithPeriodChanged(g, s, said)
           IN  RowIs(h) /\ h.id = g.id /\ h.res = g.res
  <1>1. RowIs(Screen!WithPeriodChanged(g, s, said))
    BY WithIs
  <1> DEFINE periods == [t \in DOMAIN g.settlements |->
                           IF t = s THEN [status |-> said.status, allowed |-> said.allowed]
                                    ELSE g.settlements[t]]
             now == Screen!StatusOf({periods[t].status : t \in DOMAIN periods})
  <1>2. Screen!WithPeriodChanged(g, s, said)
        = [g EXCEPT !.settlements = periods, !.status = now, !.missing = said.missing]
    BY DEF Screen!WithPeriodChanged
  <1> HIDE DEF periods, now
  <1>3. g = [id |-> g.id, res |-> g.res, missing |-> g.missing, status |-> g.status,
             settlements |-> g.settlements]
    BY DEF RowIs
  <1>4. QED
    BY <1>1, <1>2, <1>3

\* Two rows that say the same are one.
LEMMA SameRow ==
    ASSUME NEW g, NEW h, RowIs(g), RowIs(h),
           g.id = h.id, g.res = h.res, g.missing = h.missing,
           DOMAIN g.settlements = DOMAIN h.settlements,
           \A t \in DOMAIN g.settlements : g.settlements[t] = h.settlements[t]
    PROVE  g = h
  <1>1. g.settlements = h.settlements
    BY DEF RowIs
  <1>2. g.status = h.status
    BY <1>1 DEF RowIs
  <1>3. QED
    BY <1>1, <1>2 DEF RowIs

LEMMA MovedIs ==
    ASSUME NEW g, RowIs(g), NEW s, NEW said
    PROVE  LET h == Moved(g, s, said)
           IN  /\ RowIs(h) /\ h.id = g.id /\ h.res = g.res
               /\ DOMAIN h.settlements = DOMAIN g.settlements
               /\ \A t \in DOMAIN g.settlements :
                     h.settlements[t] =
                       IF t = s THEN [status |-> said.status, allowed |-> said.allowed]
                                ELSE g.settlements[t]
               /\ h.missing = IF s \in DOMAIN g.settlements THEN said.missing ELSE g.missing
  <1>1. CASE s \in DOMAIN g.settlements
    BY <1>1, WithIs DEF Moved
  <1>2. CASE s \notin DOMAIN g.settlements
    BY <1>2 DEF Moved
  <1>3. QED
    BY <1>1, <1>2

\* missingPeriodsOfGroup reads them.
LEMMA MembersAre ==
    ASSUME NEW s \in Ids
    PROVE  Screen!GroupMembers(s) = MembersIn(stored, s)
  <1>1. \A t : Screen!BucketOf(stored, t) = Screen!BucketOf(stored, s) <=>
                 /\ LandOf[t] = LandOf[s] /\ stored[t].res = stored[s].res
                 /\ stored[s].res = Null =>
                       (Screen!IsPrescriptionRisk(t) <=> Screen!IsPrescriptionRisk(s))
    BY DEF Screen!BucketOf, Screen!IsPrescriptionRisk
  <1>2. CASE stored[s].res # Null
    BY <1>1, <1>2 DEF Screen!GroupMembers, Screen!Current, MembersIn
  <1>3. CASE stored[s].res = Null
    BY <1>1, <1>3 DEF Screen!GroupMembers, Screen!Current, Screen!FutureGroup,
       Screen!Pending, MembersIn
  <1>4. QED
    BY <1>2, <1>3

\* The table S2 is S but for the status of s.
StatusSet(S, S2, s, to) ==
    \A t \in Ids : /\ S2[t].current = S[t].current
                   /\ S2[t].res = S[t].res
                   /\ S2[t].missing = S[t].missing
                   /\ S2[t].status = IF t = s THEN to ELSE S[t].status
                   /\ t # s => S2[t] = S[t]

LEMMA BucketsStay ==
    ASSUME NEW S, NEW S2, NEW s, NEW to, StatusSet(S, S2, s, to), NEW criteria
    PROVE  Screen!Buckets(S2, ListedIn(S2, criteria)) = Screen!Buckets(S, ListedIn(S, criteria))
  <1> DEFINE L == ListedIn(S, criteria)
  <1>1. ListedIn(S2, criteria) = L
    BY DEF ListedIn, StatusSet
  <1>2. \A t \in L : Screen!BucketOf(S2, t) = Screen!BucketOf(S, t)
    BY DEF ListedIn, StatusSet, Screen!BucketOf
  <1> HIDE DEF L
  <1> DEFINE Was(u) == {t \in L : Screen!BucketOf(S, t) = Screen!BucketOf(S, u)}
             Is(u) == {t \in L : Screen!BucketOf(S2, t) = Screen!BucketOf(S2, u)}
  <1>3. \A u \in L : Is(u) = Was(u)
    BY <1>2
  <1>4. Screen!Buckets(S2, L) = {Is(u) : u \in L}
    BY DEF Screen!Buckets
  <1>5. Screen!Buckets(S, L) = {Was(u) : u \in L}
    BY DEF Screen!Buckets
  <1> HIDE DEF Is, Was
  <1>6. {Is(u) : u \in L} = {Was(u) : u \in L}
    BY <1>3
  <1>7. QED
    BY <1>1, <1>4, <1>5, <1>6 DEF L

\* The rows of a search after a change are those before it, each changed by what the
\* answer of the change says.
LEMMA AnswerAgrees ==
    ASSUME Screen!SettlementsScreenAssumption,
           NEW S, NEW S2, NEW s \in Ids, NEW to, S[s].current, StatusSet(S, S2, s, to),
           NEW said, said.status = to, said.allowed = Screen!Allowed(S2[s]),
           said.missing = Screen!MissingOf(S2, MembersIn(S, s)), NEW criteria
    PROVE  FoundIn(S2, criteria) = {Moved(f, s, said) : f \in FoundIn(S, criteria)}
  <1> DEFINE all == Screen!Buckets(S, ListedIn(S, criteria))
  <1>1. \A m \in all : m \subseteq Ids /\ m # {} /\ Screen!Trigger(m) \in m
    BY BucketsAre
  <1>2. \A m \in all : s \in m => m = MembersIn(S, s)
    <2>1. ASSUME NEW m \in all, s \in m
          PROVE  m = MembersIn(S, s)
      <3>1. /\ s \in ListedIn(S, criteria)
            /\ m = {t \in ListedIn(S, criteria) :
                      Screen!BucketOf(S, t) = Screen!BucketOf(S, s)}
        BY <2>1, BucketsAre
      <3>2. \A t : Screen!BucketOf(S, t) = Screen!BucketOf(S, s) => LandOf[t] = LandOf[s]
        BY DEF Screen!BucketOf
      <3>3. QED
        BY <3>1, <3>2 DEF ListedIn, MembersIn
    <2>2. QED
      BY <2>1
  <1>3. FoundIn(S, criteria) = {GroupIn(S, m) : m \in all}
    BY DEF FoundIn
  <1>4. FoundIn(S2, criteria) = {GroupIn(S2, m) : m \in all}
    <2>1. Screen!Buckets(S2, ListedIn(S2, criteria)) = all
      BY BucketsStay
    <2> HIDE DEF all
    <2>2. QED
      BY <2>1 DEF FoundIn
  <1> HIDE DEF all
  <1>5. ASSUME NEW m \in all
        PROVE  GroupIn(S2, m) = Moved(GroupIn(S, m), s, said)
    <2> DEFINE f == GroupIn(S, m)
               h == GroupIn(S2, m)
               g == Moved(f, s, said)
    <2>1. m \subseteq Ids /\ Screen!Trigger(m) \in m /\ Screen!Trigger(m) \in Ids
      BY <1>1
    <2>2. /\ RowIs(f) /\ f.id = Screen!Trigger(m) /\ f.res = S[Screen!Trigger(m)].res
          /\ f.missing = Screen!MissingOf(S, m)
          /\ DOMAIN f.settlements = m
          /\ \A t \in m : f.settlements[t] = [status |-> S[t].status,
                                              allowed |-> Screen!Allowed(S[t])]
      BY <2>1, GroupIs
    <2>3. /\ RowIs(h) /\ h.id = Screen!Trigger(m) /\ h.res = S2[Screen!Trigger(m)].res
          /\ h.missing = Screen!MissingOf(S2, m)
          /\ DOMAIN h.settlements = m
          /\ \A t \in m : h.settlements[t] = [status |-> S2[t].status,
                                              allowed |-> Screen!Allowed(S2[t])]
      BY <2>1, GroupIs
    <2> HIDE DEF f, h
    <2>4. /\ RowIs(g) /\ g.id = f.id /\ g.res = f.res
          /\ DOMAIN g.settlements = DOMAIN f.settlements
          /\ \A t \in DOMAIN f.settlements :
                g.settlements[t] =
                  IF t = s THEN [status |-> said.status, allowed |-> said.allowed]
                           ELSE f.settlements[t]
          /\ g.missing = IF s \in DOMAIN f.settlements THEN said.missing ELSE f.missing
      BY <2>2, MovedIs
    <2>5. s \notin m => Screen!MissingOf(S2, m) = Screen!MissingOf(S, m)
      BY <2>1 DEF Screen!MissingOf, Screen!IsMissing, StatusSet
    <2>6. s \in m => said.missing = Screen!MissingOf(S2, m)
      BY <1>2
    <2> HIDE DEF g
    <2>7. h.id = g.id /\ h.res = g.res /\ h.missing = g.missing
          /\ DOMAIN h.settlements = DOMAIN g.settlements
      BY <2>1, <2>2, <2>3, <2>4, <2>5, <2>6 DEF StatusSet
    <2>8. ASSUME NEW t \in m
          PROVE  h.settlements[t] = g.settlements[t]
      <3>1. h.settlements[t] = [status |-> S2[t].status, allowed |-> Screen!Allowed(S2[t])]
        BY <2>3
      <3>2. CASE t = s
        <4>1. g.settlements[t] = [status |-> said.status, allowed |-> said.allowed]
          BY <2>2, <2>4, <3>2
        <4>2. S2[t].status = to
          BY <3>2 DEF StatusSet
        <4>3. QED
          BY <3>1, <3>2, <4>1, <4>2
      <3>3. CASE t # s
        <4>1. g.settlements[t] = f.settlements[t] /\ S2[t] = S[t]
          BY <2>1, <2>2, <2>4, <3>3 DEF StatusSet
        <4>2. QED
          BY <2>2, <3>1, <4>1
      <3>4. QED
        BY <3>2, <3>3
    <2>9. h = g
      BY <2>3, <2>4, <2>7, <2>8, SameRow
    <2>10. QED
      BY <2>9 DEF f, g, h
  <1>6. QED
    BY <1>3, <1>4, <1>5

-----------------------------------------------------------------------------
(* Changes that the list does not show yet *)

\* A change is handled after those that wait to be shown.
LEMMA HandledMatches ==
    ASSUME NEW D, NEW d, \A e \in D : e.at \in Int /\ e.at < d.at, d.at \in Int,
           NEW g, NEW f, RowIs(f), Matches(D, g, f)
    PROVE  Matches(D \cup {d}, g, Moved(f, d.of, d.said))
  <1> DEFINE h == Moved(f, d.of, d.said)
             E == D \cup {d}
  <1>1. /\ h.id = f.id /\ h.res = f.res /\ DOMAIN h.settlements = DOMAIN f.settlements
        /\ \A t \in DOMAIN f.settlements :
              h.settlements[t] =
                IF t = d.of THEN [status |-> d.said.status, allowed |-> d.said.allowed]
                            ELSE f.settlements[t]
        /\ h.missing = IF d.of \in DOMAIN f.settlements THEN d.said.missing ELSE f.missing
    BY MovedIs
  <1> HIDE DEF h
  <1>2. ASSUME NEW S, NEW e, S \subseteq E, d \in S, IsLast(S, e)
        PROVE  e = d
    <2>1. e \in E /\ d.at <= e.at
      BY <1>2 DEF IsLast
    <2>2. QED
      BY <2>1
  <1>3. ASSUME NEW t \in DOMAIN f.settlements
        PROVE  /\ OfPeriod(E, t) = {} => g.settlements[t] = h.settlements[t]
               /\ \A e \in E : IsLast(OfPeriod(E, t), e) =>
                     h.settlements[t] = [status |-> e.said.status, allowed |-> e.said.allowed]
    <2>1. CASE t = d.of
      <3>1. d \in OfPeriod(E, t) /\ OfPeriod(E, t) \subseteq E
        BY <2>1 DEF OfPeriod
      <3>2. QED
        BY <1>1, <1>2, <2>1, <3>1
    <2>2. CASE t # d.of
      <3>1. OfPeriod(E, t) = OfPeriod(D, t)
        BY <2>2 DEF OfPeriod
      <3>2. \A e : IsLast(OfPeriod(D, t), e) => e \in D
        BY DEF IsLast, OfPeriod
      <3>3. QED
        BY <1>1, <2>2, <3>1, <3>2 DEF Matches
    <2>3. QED
      BY <2>1, <2>2
  <1>4. /\ OfRow(E, h) = {} => g.missing = h.missing
        /\ \A e \in E : IsLast(OfRow(E, h), e) => h.missing = e.said.missing
    <2>1. CASE d.of \in DOMAIN f.settlements
      <3>1. d \in OfRow(E, h) /\ OfRow(E, h) \subseteq E
        BY <1>1, <2>1 DEF OfRow
      <3>2. QED
        BY <1>1, <1>2, <2>1, <3>1
    <2>2. CASE d.of \notin DOMAIN f.settlements
      <3>1. OfRow(E, h) = OfRow(D, f)
        BY <1>1, <2>2 DEF OfRow
      <3>2. \A e : IsLast(OfRow(D, f), e) => e \in D
        BY DEF IsLast, OfRow
      <3>3. QED
        BY <1>1, <2>2, <3>1, <3>2 DEF Matches
    <2>3. QED
      BY <2>1, <2>2
  <1>5. QED
    BY <1>1, <1>3, <1>4 DEF Matches, h

\* The first of them is shown.
LEMMA LandedMatches ==
    ASSUME NEW D, NEW d \in D, \A e \in D : e.at \in Int /\ d.at <= e.at,
           NEW g, NEW f, RowIs(g), Matches(D, g, f)
    PROVE  Matches(D \ {d}, Moved(g, d.of, d.said), f)
  <1> DEFINE h == Moved(g, d.of, d.said)
             E == D \ {d}
  <1>1. /\ h.id = g.id /\ h.res = g.res /\ DOMAIN h.settlements = DOMAIN g.settlements
        /\ \A t \in DOMAIN g.settlements :
              h.settlements[t] =
                IF t = d.of THEN [status |-> d.said.status, allowed |-> d.said.allowed]
                            ELSE g.settlements[t]
        /\ h.missing = IF d.of \in DOMAIN g.settlements THEN d.said.missing ELSE g.missing
    BY MovedIs
  <1> HIDE DEF h
  <1>2. g.id = f.id /\ g.res = f.res /\ DOMAIN g.settlements = DOMAIN f.settlements
    BY DEF Matches
  <1>3. ASSUME NEW S, S \subseteq D
        PROVE  /\ \A e : IsLast(S \ {d}, e) => IsLast(S, e) /\ e \in E
               /\ S \ {d} = {} /\ d \in S => IsLast(S, d)
               /\ d \notin S => S \ {d} = S
    BY <1>3 DEF IsLast
  <1>4. ASSUME NEW t \in DOMAIN f.settlements
        PROVE  /\ OfPeriod(E, t) = {} => h.settlements[t] = f.settlements[t]
               /\ \A e \in E : IsLast(OfPeriod(E, t), e) =>
                     f.settlements[t] = [status |-> e.said.status, allowed |-> e.said.allowed]
    <2>1. OfPeriod(E, t) = OfPeriod(D, t) \ {d} /\ OfPeriod(D, t) \subseteq D
      BY DEF OfPeriod
    <2>2. d \in OfPeriod(D, t) <=> t = d.of
      BY DEF OfPeriod
    <2>3. /\ OfPeriod(D, t) = {} => g.settlements[t] = f.settlements[t]
          /\ \A e \in D : IsLast(OfPeriod(D, t), e) =>
                f.settlements[t] = [status |-> e.said.status, allowed |-> e.said.allowed]
      BY DEF Matches
    <2>4. ASSUME OfPeriod(E, t) = {}
          PROVE  h.settlements[t] = f.settlements[t]
      <3>1. CASE t = d.of
        BY <1>1, <1>2, <1>3, <2>1, <2>2, <2>3, <2>4, <3>1
      <3>2. CASE t # d.of
        BY <1>1, <1>2, <1>3, <2>1, <2>2, <2>3, <2>4, <3>2
      <3>3. QED
        BY <3>1, <3>2
    <2>5. \A e : IsLast(OfPeriod(E, t), e) => IsLast(OfPeriod(D, t), e)
      BY <1>3, <2>1
    <2>6. QED
      BY <2>3, <2>4, <2>5
  <1>5. /\ OfRow(E, f) = {} => h.missing = f.missing
        /\ \A e \in E : IsLast(OfRow(E, f), e) => f.missing = e.said.missing
    <2>1. OfRow(E, f) = OfRow(D, f) \ {d} /\ OfRow(D, f) \subseteq D
      BY DEF OfRow
    <2>2. d \in OfRow(D, f) <=> d.of \in DOMAIN f.settlements
      BY DEF OfRow
    <2>3. /\ OfRow(D, f) = {} => g.missing = f.missing
          /\ \A e \in D : IsLast(OfRow(D, f), e) => f.missing = e.said.missing
      BY DEF Matches
    <2>4. ASSUME OfRow(E, f) = {}
          PROVE  h.missing = f.missing
      <3>1. CASE d.of \in DOMAIN f.settlements
        BY <1>1, <1>2, <1>3, <2>1, <2>2, <2>3, <2>4, <3>1
      <3>2. CASE d.of \notin DOMAIN f.settlements
        BY <1>1, <1>2, <1>3, <2>1, <2>2, <2>3, <2>4, <3>2
      <3>3. QED
        BY <3>1, <3>2
    <2>5. \A e : IsLast(OfRow(E, f), e) => IsLast(OfRow(D, f), e)
      BY <1>3, <2>1
    <2>6. QED
      BY <2>3, <2>4, <2>5
  <1>6. QED
    BY <1>1, <1>2, <1>4, <1>5 DEF Matches, h

\* A list that shows every change is what the search finds, and what it finds is so.
LEMMA NothingUnshown ==
    ASSUME NEW rows, NEW found, \A g \in rows : RowIs(g), \A f \in found : RowIs(f)
    PROVE  Explained({}, rows, found) <=> rows = found
  <1>1. ASSUME NEW g, NEW f, RowIs(g), RowIs(f)
        PROVE  Matches({}, g, f) <=> g = f
    <2>1. /\ \A t : OfPeriod({}, t) = {}
          /\ OfRow({}, f) = {}
      BY DEF OfPeriod, OfRow
    <2>2. ASSUME Matches({}, g, f)
          PROVE  g = f
      BY <1>1, <2>1, <2>2, SameRow DEF Matches
    <2>3. ASSUME g = f
          PROVE  Matches({}, g, f)
      BY <2>1, <2>3 DEF Matches
    <2>4. QED
      BY <2>2, <2>3
  <1>2. QED
    BY <1>1 DEF Explained

-----------------------------------------------------------------------------
(* What a step leaves true of the requests on their way *)

\* Resolutions stay unless a job takes numbers back; a change is an event of its own.
TableMoves ==
    /\ \A s \in Ids : stored[s].res # Null => stored'[s].res # Null \/ reverted'
    /\ reverted => reverted'
    /\ clock' \in Nat /\ clock <= clock' /\ sent' \in Nat /\ sent <= sent'
    /\ \/ UNCHANGED <<stored, wroteAt, otherAt>>
       \/ wroteAt' = clock + 1 /\ clock' = clock + 1 /\ UNCHANGED otherAt
       \/ otherAt' = clock + 1 /\ clock' = clock + 1 /\ UNCHANGED wroteAt

LEMMA ListStays ==
    ASSUME TableMoves, NEW rows, ListIs(stored, reverted, rows)
    PROVE  ListIs(stored', reverted', rows)
  <1>1. ASSUME NEW g \in rows
        PROVE  RowIs(g) /\ (g.res # Null => stored'[g.id].res # Null \/ reverted')
    <2>1. RowIs(g) /\ (g.res # Null => stored[g.id].res # Null \/ reverted)
      BY DEF ListIs
    <2>2. g.id \in Ids
      BY <2>1 DEF RowIs
    <2>3. QED
      BY <2>1, <2>2 DEF TableMoves
  <1>2. QED
    BY <1>1 DEF ListIs

LEMMA CallStays ==
    ASSUME TimesOK, TableMoves, NEW c, CallOK(c)
    PROVE  CallOK(c)'
  <1>1. c.at \in Nat /\ c.id \in Nat
    BY DEF CallOK, CallIs
  <1>2. CallWas(sent, clock, wroteAt, c)'
    BY <1>1 DEF CallOK, CallWas, TableMoves, TimesOK
  <1>3. CallKnows(stored, reverted, c)'
    <2>1. c.kind \in Screen!Searches /\ c.state = "done" => ListIs(stored', reverted', c.said)
      BY ListStays DEF CallOK, CallKnows
    <2>2. c.kind = "pdf" => c.of \in Ids
      BY DEF CallOK, CallIs
    <2>3. ASSUME c.kind = "pdf", ~c.asked
          PROVE  \/ stored'[c.of].res # Null /\ ~(c.state = "done" /\ c.said)
                 \/ reverted'
      BY <2>2, <2>3 DEF CallOK, CallKnows, TableMoves
    <2>4. QED
      BY <2>1, <2>3 DEF CallKnows
  <1>4. CallFresh(c)'
    <2>1. CASE UNCHANGED <<stored, wroteAt, otherAt>>
      BY <2>1 DEF CallOK, CallFresh
    <2>2. CASE wroteAt' = clock + 1 \/ otherAt' = clock + 1
      BY <1>1, <2>2 DEF CallOK, CallWas, CallFresh, TimesOK
    <2>3. QED
      BY <2>1, <2>2 DEF TableMoves
  <1>5. QED
    BY <1>2, <1>3, <1>4 DEF CallOK

\* A step that only takes requests away, or brings sound ones.
LEMMA CallsStay ==
    ASSUME TimesOK, CallsOK, TableMoves, NEW new,
           \A c \in new : CallOK(c)', calls' \subseteq calls \cup new
    PROVE  CallsOK'
  BY CallStays DEF CallsOK

\* A step of the tab that changes nothing of the backend.
LEMMA TabMoves ==
    ASSUME TimesOK, UNCHANGED <<stored, reverted, clock, wroteAt, otherAt>>,
           sent' \in {sent, sent + 1}
    PROVE  TableMoves
  BY DEF TableMoves, TimesOK

\* What waits to be shown, and what renews the list, of the requests left.
LEMMA LeftOver ==
    ASSUME NEW all, NEW c, NEW from, c.kind # "status" \/ c.state # "done"
    PROVE  Unshown(all \ {c}, from) = Unshown(all, from)
  BY DEF Unshown

\* The list stays explained when nothing that it depends on changes.
LEMMA ExplainedStays ==
    ASSUME ListExplained, UNCHANGED <<listState, otherAt, readAt, stored, searched, results>>,
           behind => behind',
           \/ behind'
           \/ /\ Unshown(calls, readAt)' = Unshown(calls, readAt)
              /\ (\E c \in calls : Renews(c, effect)) => \E c \in calls' : Renews(c, effect')
    PROVE  ListExplained'
  BY DEF ListExplained

-----------------------------------------------------------------------------
(* The backend *)

\* The request c in a new state, with what it was told and when.
Told(c, state, said, at) ==
    [id |-> c.id, kind |-> c.kind, of |-> c.of, to |-> c.to, sheet |-> c.sheet,
     first |-> c.first, asked |-> c.asked, state |-> state, said |-> said, at |-> at]

LEMMA ToldSays ==
    ASSUME NEW c, NEW state, NEW said, NEW at
    PROVE  LET d == Told(c, state, said, at)
           IN  /\ d = [id |-> d.id, kind |-> d.kind, of |-> d.of, to |-> d.to,
                       sheet |-> d.sheet, first |-> d.first, asked |-> d.asked,
                       state |-> d.state, said |-> d.said, at |-> d.at]
               /\ d.id = c.id /\ d.kind = c.kind /\ d.of = c.of /\ d.to = c.to
               /\ d.sheet = c.sheet /\ d.first = c.first /\ d.asked = c.asked
               /\ d.state = state /\ d.said = said /\ d.at = at
  BY DEF Told

LEMMA AnswerSays ==
    ASSUME NEW c, CallIs(c), NEW state, NEW said
    PROVE  Screen!Answer(c, state, said)
              => calls' = (calls \ {c}) \cup {Told(c, state, said, clock + 1)}
  <1> DEFINE i == c.id
             k == c.kind
             o == c.of
             t == c.to
             s == c.sheet
             f == c.first
             a == c.asked
             x == c.state
             y == c.said
             z == c.at
  <1>1. c = [id |-> i, kind |-> k, of |-> o, to |-> t, sheet |-> s, first |-> f,
             asked |-> a, state |-> x, said |-> y, at |-> z]
    BY DEF CallIs
  <1>2. Told(c, state, said, clock + 1)
          = [id |-> i, kind |-> k, of |-> o, to |-> t, sheet |-> s, first |-> f,
             asked |-> a, state |-> state, said |-> said, at |-> clock + 1]
    BY DEF Told
  <1>3. PICK d : d = [c EXCEPT !.state = state, !.said = said, !.at = clock + 1]
    OBVIOUS
  <1> HIDE DEF i, k, o, t, s, f, a, x, y, z
  <1>4. d = [id |-> i, kind |-> k, of |-> o, to |-> t, sheet |-> s, first |-> f,
             asked |-> a, state |-> state, said |-> said, at |-> clock + 1]
    BY <1>1, <1>3
  <1>5. d = Told(c, state, said, clock + 1)
    BY <1>2, <1>4
  <1>6. Screen!Answer(c, state, said) => calls' = (calls \ {c}) \cup {d}
    BY <1>3 DEF Screen!Answer
  <1>7. QED
    BY <1>5, <1>6

\* It is a request still.
LEMMA AnswerIs ==
    ASSUME NEW c, CallIs(c), NEW state, NEW said, NEW at \in Nat,
           state \in {"done", "refused", "lost"},
           state \in {"done", "refused"} => at # 0,
           c.kind \in Screen!Searches => state # "refused",
           c.kind = "pdf" /\ state = "done" => said \in BOOLEAN
    PROVE  CallIs(Told(c, state, said, at))
  <1> DEFINE d == Told(c, state, said, at)
  <1>1. /\ d = [id |-> d.id, kind |-> d.kind, of |-> d.of, to |-> d.to,
                sheet |-> d.sheet, first |-> d.first, asked |-> d.asked,
                state |-> d.state, said |-> d.said, at |-> d.at]
        /\ d.id = c.id /\ d.kind = c.kind /\ d.of = c.of /\ d.to = c.to
        /\ d.sheet = c.sheet /\ d.first = c.first /\ d.asked = c.asked
        /\ d.state = state /\ d.said = said /\ d.at = at
    BY ToldSays
  <1> HIDE DEF d
  <1>2. CallIs(d)
    BY <1>1 DEF CallIs
  <1>3. QED
    BY <1>2 DEF d

\* A request is answered or lost, and nothing else of the screen changes.
LEMMA Answered ==
    ASSUME ScreenInv, NEW c \in calls, NEW d, d.id = c.id, d.kind = c.kind, d.of = c.of,
           CallOK(d)', calls' = (calls \ {c}) \cup {d}, TableMoves, TableOK', TimesOK',
           UNCHANGED <<results, listState, searched, selected, sheetId, editing, saving,
                       failed, dialog, generating, slompsim, effect, sent>>,
           behind' \in BOOLEAN, ListExplained'
    PROVE  ScreenInv'
  <1>1. CallsOK'
    <2>1. TimesOK /\ CallsOK
      BY DEF ScreenInv
    <2>2. PICK new : new = {d}
      OBVIOUS
    <2>3. calls' \subseteq calls \cup new /\ \A e \in new : CallOK(e)'
      BY <2>2
    <2>4. QED
      BY <2>1, <2>3, CallsStay
  <1>2. ListIs(stored', reverted', results')
    BY ListStays DEF ScreenInv
  <1>3. Screen!NothingHangs'
    <2>1. \A e \in calls : \E h \in calls' : h.kind = e.kind /\ h.of = e.of
      OBVIOUS
    <2>2. QED
      BY <2>1 DEF ScreenInv, Screen!NothingHangs
  <1>4. FieldsOK'
    BY DEF ScreenInv, FieldsOK
  <1>5. QED
    BY <1>1, <1>2, <1>3, <1>4 DEF ScreenInv

\* An answer that changes nothing the list shows.
LEMMA AnsweredQuietly ==
    ASSUME ScreenInv, NEW c \in calls, NEW d, d.id = c.id, d.kind = c.kind, d.of = c.of,
           ~(d.kind = "status" /\ d.state = "done"), behind => behind',
           \/ behind'
           \/ c.state = "sent"
           \/ c.kind \in Screen!Searches,
           calls' = (calls \ {c}) \cup {d},
           UNCHANGED <<stored, results, listState, searched, effect, readAt, otherAt>>
    PROVE  ListExplained'
  <1>1. CASE behind'
    BY <1>1 DEF ListExplained
  <1>2. CASE c.state = "sent" \/ c.kind \in Screen!Searches
    <2>1. ~(c.kind = "status" /\ c.state = "done")
      BY <1>2 DEF Screen!Searches
    <2>2. Unshown(calls, readAt)' = Unshown(calls, readAt)
      BY <2>1 DEF Unshown
    <2>3. Renews(c, effect) => Renews(d, effect)
      BY <1>2 DEF Renews, Screen!Searches
    <2>4. (\E e \in calls : Renews(e, effect)) => \E e \in calls' : Renews(e, effect')
      BY <2>3
    <2>5. QED
      BY <2>2, <2>4, ExplainedStays DEF ScreenInv
  <1>3. QED
    BY <1>1, <1>2

\* Once a search or a change is answered, the list is renewed or known to be behind.
LEMMA AnsweredRenews ==
    ASSUME NEW d \in calls', Renews(d, effect')
    PROVE  ListExplained'
  BY DEF ListExplained

\* The backend answers, and the tab waits.
TabWaits ==
    UNCHANGED <<results, listState, searched, selected, sheetId, editing, saving,
                failed, dialog, generating, slompsim, effect, sent>>

LEMMA HandleSearchKeeps ==
    ASSUME Screen!SettlementsScreenAssumption, ScreenInv, NEW c \in calls,
           Screen!HandleSearch(c), TabWaits
    PROVE  ScreenInv'
  <1>1. PICK said : said = Screen!Found(c.of)
    OBVIOUS
  <1>2. PICK d : d = Told(c, "done", said, clock + 1)
    OBVIOUS
  <1>3. CallOK(c) /\ CallIs(c) /\ TimesOK
    BY DEF ScreenInv, CallsOK, CallOK
  <1>4. /\ c.kind \in Screen!Searches /\ c.state = "sent" /\ clock' = clock + 1
        /\ calls' = (calls \ {c}) \cup {d}
        /\ UNCHANGED <<stored, counter, running, readAt, wroteAt, otherAt, behind, reverted>>
        /\ UNCHANGED <<results, listState, searched, selected, sheetId, editing, saving,
                       failed, dialog, generating, slompsim, effect, sent>>
    <2>1. Screen!Answer(c, "done", said)
      BY <1>1 DEF Screen!HandleSearch
    <2>2. calls' = (calls \ {c}) \cup {d}
      BY <1>2, <1>3, <2>1, AnswerSays
    <2>3. QED
      BY <2>2 DEF Screen!HandleSearch, Screen!table, TabWaits
  <1>5. /\ CallIs(d) /\ d.id = c.id /\ d.kind = c.kind /\ d.of = c.of
        /\ d.state = "done" /\ d.said = said /\ d.at = clock + 1
    <2>1. c.kind # "pdf" /\ clock + 1 \in Nat /\ clock + 1 # 0
      BY <1>3, <1>4 DEF Screen!Searches, TimesOK
    <2>2. CallIs(d)
      BY <1>2, <1>3, <2>1, AnswerIs
    <2>3. QED
      BY <1>2, <2>2, ToldSays
  <1>6. said = FoundIn(stored, c.of) /\ stored' = stored
    BY <1>1, <1>4, SearchFinds
  <1>7. TableMoves /\ TimesOK' /\ TableOK'
    BY <1>3, <1>4 DEF TableMoves, TimesOK, ScreenInv, TableOK
  <1>8. CallOK(d)'
    <2>1. CallWas(sent, clock, wroteAt, d)'
      BY <1>3, <1>4, <1>5 DEF CallOK, CallWas, TimesOK, Screen!Searches
    <2>2. ListIs(stored', reverted', said)
      BY <1>6, FoundIs
    <2>3. CallKnows(stored, reverted, d)'
      BY <1>4, <1>5, <2>2 DEF CallKnows, Screen!Searches
    <2>4. CallFresh(d)'
      BY <1>4, <1>5, <1>6 DEF CallFresh
    <2>5. QED
      BY <1>5, <2>1, <2>3, <2>4 DEF CallOK
  <1>9. ListExplained'
    <2>1. ~(d.kind = "status" /\ d.state = "done")
      BY <1>4, <1>5 DEF Screen!Searches
    <2>2. QED
      BY <1>4, <1>5, <2>1, AnsweredQuietly
  <1>10. behind' \in BOOLEAN
    BY <1>4 DEF ScreenInv, FieldsOK
  <1>11. QED
    BY <1>4, <1>5, <1>7, <1>8, <1>9, <1>10, Answered

\* What the table is after the status of a settlement is written.
LEMMA StatusWritten ==
    ASSUME TableOK, NEW s \in Ids, NEW to \in Screen!Statuses,
           stored' = [stored EXCEPT ![s].status = to]
    PROVE  StatusSet(stored, stored', s, to) /\ stored' \in [Ids -> TableT]
  <1>1. stored \in [Ids -> TableT]
    BY DEF TableOK
  <1>2. ASSUME NEW r \in TableT
        PROVE  LET n == [r EXCEPT !.status = to]
               IN  /\ n \in TableT /\ n.status = to /\ n.current = r.current
                   /\ n.res = r.res /\ n.missing = r.missing
    BY DEF TableT
  <1>3. \A t \in Ids : stored'[t] = IF t = s THEN [stored[s] EXCEPT !.status = to]
                                             ELSE stored[t]
    BY <1>1
  <1>4. stored[s] \in TableT
    BY <1>1
  <1>5. StatusSet(stored, stored', s, to)
    <2>1. ASSUME NEW t \in Ids, t # s
          PROVE  stored'[t] = stored[t]
      BY <1>3, <2>1
    <2>2. PICK r \in TableT : r = stored[s]
      BY <1>4
    <2>3. PICK n : n = [r EXCEPT !.status = to]
      OBVIOUS
    <2>4. stored'[s] = n
      BY <1>3, <2>2, <2>3
    <2>5. /\ n.status = to /\ n.current = r.current
          /\ n.res = r.res /\ n.missing = r.missing
      BY <1>2, <2>3
    <2>6. QED
      BY <2>1, <2>2, <2>4, <2>5 DEF StatusSet
  <1>6. \A t \in Ids : stored'[t] \in TableT
    BY <1>1, <1>2, <1>3, <1>4
  <1>7. stored' \in [Ids -> TableT]
    <2>1. stored' = [t \in Ids |-> stored'[t]]
      BY <1>1
    <2>2. QED
      BY <1>6, <2>1
  <1>8. QED
    BY <1>5, <1>7

\* And after a resolution is linked to some, or unlinked from them.
LEMMA NumberWritten ==
    ASSUME TableOK, NEW G, NEW n \in Nat \cup {Null},
           stored' = [t \in Ids |-> IF t \in G THEN [stored[t] EXCEPT !.res = n] ELSE stored[t]]
    PROVE  /\ stored' \in [Ids -> TableT]
           /\ \A t \in Ids : stored'[t].res = IF t \in G THEN n ELSE stored[t].res
  <1>1. stored \in [Ids -> TableT]
    BY DEF TableOK
  <1>2. ASSUME NEW r \in TableT
        PROVE  [r EXCEPT !.res = n] \in TableT /\ [r EXCEPT !.res = n].res = n
    BY DEF TableT
  <1>3. \A t \in Ids : stored[t] \in TableT
    BY <1>1
  <1>4. QED
    BY <1>2, <1>3

\* An answer that says that nothing changed.
SaysNothing(c, state, said) ==
    \/ state = "refused"
    \/ c.kind = "pdf" /\ state = "done" /\ said = FALSE

LEMMA NothingWritten ==
    ASSUME ScreenInv, NEW c \in calls, c.state = "sent", NEW state, NEW said,
           c.kind \in {"status", "pdf", "confirm"}, SaysNothing(c, state, said),
           Screen!Answer(c, state, said), clock' = clock + 1,
           UNCHANGED <<stored, counter, running, readAt, wroteAt, otherAt, behind, reverted>>,
           TabWaits
    PROVE  ScreenInv'
  <1>1. PICK d : d = Told(c, state, said, clock + 1)
    OBVIOUS
  <1>2. CallOK(c) /\ CallIs(c) /\ TimesOK
    BY DEF ScreenInv, CallsOK, CallOK
  <1>3. calls' = (calls \ {c}) \cup {d}
    BY <1>1, <1>2, AnswerSays
  <1>4. /\ CallIs(d) /\ d.id = c.id /\ d.kind = c.kind /\ d.of = c.of /\ d.asked = c.asked
        /\ d.state = state /\ d.said = said /\ d.at = clock + 1
    <2>1. c.kind \notin Screen!Searches /\ clock + 1 \in Nat /\ clock + 1 # 0
      BY <1>2 DEF Screen!Searches, TimesOK
    <2>2. CallIs(d)
      BY <1>1, <1>2, <2>1, AnswerIs DEF SaysNothing
    <2>3. QED
      BY <1>1, <2>2, ToldSays
  <1>5. TableMoves /\ TimesOK' /\ TableOK'
    BY <1>2 DEF TableMoves, TimesOK, ScreenInv, TableOK, TabWaits
  <1>6. CallOK(d)'
    <2>1. CallWas(sent, clock, wroteAt, d)'
      BY <1>2, <1>4 DEF SaysNothing, CallOK, CallWas, TimesOK, Screen!Searches, TabWaits
    <2>2. CallKnows(stored, reverted, d)'
      BY <1>2, <1>4 DEF SaysNothing, CallOK, CallKnows, Screen!Searches
    <2>3. CallFresh(d)'
      BY <1>4 DEF CallFresh, Screen!Searches
    <2>4. QED
      BY <1>4, <2>1, <2>2, <2>3 DEF CallOK
  <1>7. ListExplained'
    BY <1>3, <1>4, AnsweredQuietly DEF SaysNothing, TabWaits
  <1>8. behind' \in BOOLEAN
    BY DEF ScreenInv, FieldsOK
  <1>9. QED
    BY <1>3, <1>4, <1>5, <1>6, <1>7, <1>8, Answered DEF TabWaits

\* A change of a period is said as the search would say it now.
LEMMA ChangeExplained ==
    ASSUME Screen!SettlementsScreenAssumption, TimesOK, ListExplained, CallsOK,
           NEW c \in calls, c.kind = "status", c.state = "sent",
           c.of \in Ids, stored[c.of].current, StatusSet(stored, stored', c.of, c.to),
           NEW d, d.kind = "status", d.state = "done", d.of = c.of, d.at = clock + 1,
           d.said.status = c.to, d.said.allowed = Screen!Allowed(stored'[c.of]),
           d.said.missing = Screen!MissingOf(stored', MembersIn(stored, c.of)),
           calls' = (calls \ {c}) \cup {d},
           UNCHANGED <<results, listState, searched, effect, readAt, otherAt, behind>>
    PROVE  ListExplained'
  <1> DEFINE D == Unshown(calls, readAt)
             found == FoundIn(stored, searched)
  <1>1. ASSUME NEW e \in calls, Renews(e, effect)
        PROVE  ListExplained'
    <2>1. e \in calls' /\ Renews(e, effect')
      BY <1>1 DEF Renews
    <2>2. QED
      BY <2>1, AnsweredRenews
  <1>2. ASSUME Explained(D, results, found)
        PROVE  Explained(Unshown(calls', readAt), results', FoundIn(stored', searched'))
    <2>1. Unshown(calls', readAt) = D \cup {d}
      BY DEF Unshown, TimesOK
    <2>2. \A e \in D : e.at \in Int /\ e.at < d.at
      BY DEF Unshown, CallsOK, CallOK, CallIs, CallWas, TimesOK
    <2>3. PICK said : said = d.said
      OBVIOUS
    <2>4. FoundIn(stored', searched) = {Moved(f, c.of, said) : f \in found}
      BY <2>3, AnswerAgrees
    <2>5. \A f \in found : RowIs(f)
      BY FoundIs DEF ListIs
    <2> HIDE DEF D, found
    <2>6. ASSUME NEW g, NEW f \in found, Matches(D, g, f)
          PROVE  Matches(D \cup {d}, g, Moved(f, c.of, said))
      <3>1. d.at \in Int
        BY DEF TimesOK
      <3>2. QED
        BY <2>2, <2>3, <2>5, <2>6, <3>1, HandledMatches
    <2>7. PICK E, now : E = D \cup {d} /\ now = {Moved(f, c.of, said) : f \in found}
      OBVIOUS
    <2>8. \A f \in now : \E g \in results : Matches(E, g, f)
      <3>1. \A f \in found : \E g \in results : Matches(D, g, f)
        BY <1>2 DEF Explained
      <3>2. QED
        BY <3>1, <2>6, <2>7
    <2>9. \A g \in results : \E f \in now : Matches(E, g, f)
      <3>1. \A g \in results : \E f \in found : Matches(D, g, f)
        BY <1>2 DEF Explained
      <3>2. QED
        BY <3>1, <2>6, <2>7
    <2>10. Explained(E, results', now)
      BY <2>8, <2>9 DEF Explained
    <2>11. QED
      BY <2>1, <2>4, <2>7, <2>10
  <1> HIDE DEF D, found
  <1>3. QED
    BY <1>1, <1>2 DEF ListExplained, D, found

LEMMA HandleStatusKeeps ==
    ASSUME Screen!SettlementsScreenAssumption, ScreenInv, NEW c \in calls,
           Screen!HandleStatus(c), TabWaits
    PROVE  ScreenInv'
  <1>1. /\ c.kind = "status" /\ c.state = "sent" /\ clock' = clock + 1
        /\ UNCHANGED <<counter, running, readAt, otherAt, behind, reverted>>
    BY DEF Screen!HandleStatus
  <1>2. CallOK(c) /\ CallIs(c) /\ TimesOK
    BY DEF ScreenInv, CallsOK, CallOK
  <1>3. CASE ~stored[c.of].current \/ c.to \notin Screen!Allowed(stored[c.of])
    <2>1. PICK state, said : state = "refused" /\ said = Null
      OBVIOUS
    <2>2. Screen!Answer(c, state, said)
      BY <1>3, <2>1 DEF Screen!HandleStatus
    <2>3. UNCHANGED <<stored, counter, running, readAt, wroteAt, otherAt, behind, reverted>>
      BY <1>1, <1>3 DEF Screen!HandleStatus
    <2>4. c.kind \in {"status", "pdf", "confirm"} /\ SaysNothing(c, state, said)
      BY <1>1, <2>1 DEF SaysNothing
    <2>5. c.state = "sent" /\ clock' = clock + 1
      BY <1>1
    <2>6. QED
      BY <2>2, <2>3, <2>4, <2>5, NothingWritten
  <1>4. CASE stored[c.of].current /\ c.to \in Screen!Allowed(stored[c.of])
    <2>1. /\ c.of \in Ids /\ c.to \in Screen!Statuses
          /\ c.kind \notin Screen!Searches
      BY <1>1, <1>2 DEF CallIs, Screen!Searches
    <2>2. stored' = [stored EXCEPT ![c.of].status = c.to] /\ wroteAt' = clock + 1
      BY <1>4 DEF Screen!HandleStatus
    <2>3. StatusSet(stored, stored', c.of, c.to) /\ stored' \in [Ids -> TableT]
      BY <2>1, <2>2, StatusWritten DEF ScreenInv
    <2>4. PICK said : said = [status |-> c.to, allowed |-> Screen!Allowed(stored'[c.of]),
                              missing |-> Screen!MissingOf(stored', MembersIn(stored, c.of))]
      OBVIOUS
    <2>5. Screen!Answer(c, "done", said)
      <3>1. Screen!MissingOfGroup(c.of, stored')
              = Screen!MissingOf(stored', MembersIn(stored, c.of))
        BY <2>1, MembersAre DEF Screen!MissingOfGroup
      <3>2. Screen!Answer(c, "done",
                          [status |-> c.to, allowed |-> Screen!Allowed(stored'[c.of]),
                           missing |-> Screen!MissingOfGroup(c.of, stored')])
        BY <1>4 DEF Screen!HandleStatus
      <3>3. QED
        BY <2>4, <3>1, <3>2
    <2>6. PICK d : d = Told(c, "done", said, clock + 1)
      OBVIOUS
    <2>7. calls' = (calls \ {c}) \cup {d}
      BY <1>2, <2>5, <2>6, AnswerSays
    <2>8. /\ CallIs(d) /\ d.id = c.id /\ d.kind = c.kind /\ d.of = c.of
          /\ d.state = "done" /\ d.said = said /\ d.at = clock + 1
      <3>1. clock + 1 \in Nat /\ clock + 1 # 0
        BY <1>2 DEF TimesOK
      <3>2. CallIs(d)
        BY <1>1, <1>2, <2>1, <2>6, <3>1, AnswerIs
      <3>3. QED
        BY <2>6, <3>2, ToldSays
    <2>9. TableMoves /\ TimesOK' /\ TableOK'
      BY <1>1, <1>2, <2>2, <2>3, <2>1 DEF TableMoves, TimesOK, ScreenInv, TableOK, TabWaits,
         StatusSet
    <2>10. CallOK(d)'
      BY <1>1, <1>2, <2>1, <2>2, <2>8 DEF CallOK, CallWas, CallKnows, CallFresh, TimesOK,
         TabWaits
    <2>11. /\ said.status = c.to /\ said.allowed = Screen!Allowed(stored'[c.of])
           /\ said.missing = Screen!MissingOf(stored', MembersIn(stored, c.of))
      BY <2>4
    <2>12. ListExplained'
      BY <1>1, <1>2, <1>4, <2>1, <2>3, <2>7, <2>8, <2>11, ChangeExplained
         DEF ScreenInv, TabWaits
    <2>13. behind' \in BOOLEAN
      BY <1>1 DEF ScreenInv, FieldsOK
    <2>14. QED
      BY <2>7, <2>8, <2>9, <2>10, <2>12, <2>13, Answered DEF TabWaits
  <1>5. QED
    BY <1>3, <1>4

\* A PDF that issues a number, or what Slompsim applies: the list is read again.
LEMMA WrittenRenews ==
    ASSUME ScreenInv, NEW c \in calls, c.state = "sent", NEW said,
           \/ c.kind = "confirm"
           \/ c.kind = "pdf" /\ said = TRUE /\ (~c.asked => reverted),
           Screen!Answer(c, "done", said), TabWaits,
           clock' = clock + 1, wroteAt' = clock + 1,
           UNCHANGED <<running, readAt, otherAt, behind, reverted>>,
           TableOK', \A s \in Ids : stored[s].res # Null => stored'[s].res # Null
    PROVE  ScreenInv'
  <1>1. PICK d : d = Told(c, "done", said, clock + 1)
    OBVIOUS
  <1>2. CallOK(c) /\ CallIs(c) /\ TimesOK
    BY DEF ScreenInv, CallsOK, CallOK
  <1>3. calls' = (calls \ {c}) \cup {d}
    BY <1>1, <1>2, AnswerSays
  <1>4. /\ CallIs(d) /\ d.id = c.id /\ d.kind = c.kind /\ d.of = c.of /\ d.asked = c.asked
        /\ d.state = "done" /\ d.said = said /\ d.at = clock + 1
    <2>1. c.kind \notin Screen!Searches /\ clock + 1 \in Nat /\ clock + 1 # 0
      BY <1>2 DEF Screen!Searches, TimesOK
    <2>2. CallIs(d)
      BY <1>1, <1>2, <2>1, AnswerIs
    <2>3. QED
      BY <1>1, <2>2, ToldSays
  <1>5. TableMoves /\ TimesOK'
    BY <1>2 DEF TableMoves, TimesOK, TabWaits
  <1>6. CallOK(d)'
    <2>1. CallWas(sent, clock, wroteAt, d)'
      BY <1>2, <1>4 DEF CallOK, CallWas, TimesOK, TabWaits, Screen!Searches
    <2>2. CallKnows(stored, reverted, d)'
      BY <1>4 DEF CallKnows, Screen!Searches
    <2>3. CallFresh(d)'
      BY <1>4 DEF CallFresh, Screen!Searches
    <2>4. QED
      BY <1>4, <2>1, <2>2, <2>3 DEF CallOK
  <1>7. ListExplained'
    <2>1. Renews(d, effect') /\ d \in calls'
      BY <1>3, <1>4 DEF Renews
    <2>2. QED
      BY <2>1, AnsweredRenews
  <1>8. behind' \in BOOLEAN
    BY DEF ScreenInv, FieldsOK
  <1>9. QED
    BY <1>3, <1>4, <1>5, <1>6, <1>7, <1>8, Answered DEF TabWaits

LEMMA HandlePdfKeeps ==
    ASSUME Screen!SettlementsScreenAssumption, ScreenInv, NEW c \in calls,
           Screen!HandlePdf(c), TabWaits
    PROVE  ScreenInv'
  <1>1. /\ c.kind = "pdf" /\ c.state = "sent" /\ clock' = clock + 1
        /\ UNCHANGED <<running, readAt, otherAt, behind, reverted>>
    BY DEF Screen!HandlePdf
  <1>2. CallOK(c) /\ CallIs(c) /\ c.of \in Ids
    BY <1>1 DEF ScreenInv, CallsOK, CallOK, CallIs
  <1>3. CASE Screen!Answer(c, "refused", Null) /\ UNCHANGED <<stored, counter, wroteAt>>
    <2>1. PICK state, said : state = "refused" /\ said = Null
      OBVIOUS
    <2>2. Screen!Answer(c, state, said)
      BY <1>3, <2>1
    <2>3. UNCHANGED <<stored, counter, running, readAt, wroteAt, otherAt, behind, reverted>>
      BY <1>1, <1>3
    <2>4. c.kind \in {"status", "pdf", "confirm"} /\ SaysNothing(c, state, said)
      BY <1>1, <2>1 DEF SaysNothing
    <2>5. c.state = "sent" /\ clock' = clock + 1
      BY <1>1
    <2>6. QED
      BY <2>2, <2>3, <2>4, <2>5, NothingWritten
  <1>4. CASE Screen!Answer(c, "done", FALSE) /\ UNCHANGED <<stored, counter, wroteAt>>
    <2>1. PICK state, said : state = "done" /\ said = FALSE
      OBVIOUS
    <2>2. Screen!Answer(c, state, said)
      BY <1>4, <2>1
    <2>3. UNCHANGED <<stored, counter, running, readAt, wroteAt, otherAt, behind, reverted>>
      BY <1>1, <1>4
    <2>4. c.kind \in {"status", "pdf", "confirm"} /\ SaysNothing(c, state, said)
      BY <1>1, <2>1 DEF SaysNothing
    <2>5. c.state = "sent" /\ clock' = clock + 1
      BY <1>1
    <2>6. QED
      BY <2>2, <2>3, <2>4, <2>5, NothingWritten
  <1>5. CASE /\ stored[c.of].res = Null /\ running = Null
             /\ counter' = counter + 1
             /\ stored' = [s \in Ids |->
                             IF s \in Screen!FutureGroup(Screen!Pending(LandOf[c.of]), c.of)
                             THEN [stored[s] EXCEPT !.res = counter + 1]
                             ELSE stored[s]]
             /\ Screen!Answer(c, "done", TRUE)
             /\ wroteAt' = clock + 1
    <2>1. TableOK /\ counter + 1 \in Nat /\ Null \notin Nat
      BY DEF ScreenInv, TableOK, Screen!SettlementsScreenAssumption
    <2>2. /\ stored' \in [Ids -> TableT]
          /\ \A t \in Ids : stored[t].res # Null => stored'[t].res # Null
      <3>1. PICK G : G = Screen!FutureGroup(Screen!Pending(LandOf[c.of]), c.of)
        OBVIOUS
      <3>2. stored' = [s \in Ids |-> IF s \in G THEN [stored[s] EXCEPT !.res = counter + 1]
                                               ELSE stored[s]]
        BY <1>5, <3>1
      <3>3. PICK n \in Nat : n = counter + 1
        BY <2>1
      <3>4. /\ stored' \in [Ids -> TableT]
            /\ \A t \in Ids : stored'[t].res = IF t \in G THEN n ELSE stored[t].res
        BY <2>1, <3>2, <3>3, NumberWritten
      <3>5. QED
        BY <2>1, <3>4
    <2>3. TableOK'
      BY <1>1, <1>5, <2>1, <2>2 DEF TableOK
    <2>4. ~c.asked => reverted
      BY <1>1, <1>2, <1>5 DEF CallOK, CallKnows
    <2>5. QED
      BY <1>1, <1>5, <2>2, <2>3, <2>4, WrittenRenews
  <1>6. QED
    BY <1>3, <1>4, <1>5 DEF Screen!HandlePdf

LEMMA HandleConfirmKeeps ==
    ASSUME Screen!SettlementsScreenAssumption, ScreenInv, NEW c \in calls,
           Screen!HandleConfirm(c), TabWaits
    PROVE  ScreenInv'
  <1>1. /\ c.kind = "confirm" /\ c.state = "sent" /\ clock' = clock + 1
        /\ UNCHANGED <<counter, running, readAt, otherAt, behind, reverted>>
    BY DEF Screen!HandleConfirm
  <1>2. CallIs(c) /\ c.of \in Ids /\ c.to \in Screen!Statuses
    BY <1>1 DEF ScreenInv, CallsOK, CallOK, CallIs
  <1>3. CASE ~stored[c.of].current \/ c.to \notin Screen!Allowed(stored[c.of])
    <2>1. PICK state, said : state = "refused" /\ said = Null
      OBVIOUS
    <2>2. Screen!Answer(c, state, said)
      BY <1>3, <2>1 DEF Screen!HandleConfirm
    <2>3. UNCHANGED <<stored, counter, running, readAt, wroteAt, otherAt, behind, reverted>>
      BY <1>1, <1>3 DEF Screen!HandleConfirm
    <2>4. c.kind \in {"status", "pdf", "confirm"} /\ SaysNothing(c, state, said)
      BY <1>1, <2>1 DEF SaysNothing
    <2>5. c.state = "sent" /\ clock' = clock + 1
      BY <1>1
    <2>6. QED
      BY <2>2, <2>3, <2>4, <2>5, NothingWritten
  <1>4. CASE stored[c.of].current /\ c.to \in Screen!Allowed(stored[c.of])
    <2>1. /\ stored' = [stored EXCEPT ![c.of].status = c.to] /\ wroteAt' = clock + 1
          /\ Screen!Answer(c, "done", Null)
      BY <1>4 DEF Screen!HandleConfirm
    <2>2. StatusSet(stored, stored', c.of, c.to) /\ stored' \in [Ids -> TableT]
      BY <1>2, <2>1, StatusWritten DEF ScreenInv
    <2>3. TableOK'
      BY <1>1, <2>2 DEF ScreenInv, TableOK
    <2>4. \A t \in Ids : stored[t].res # Null => stored'[t].res # Null
      BY <2>2 DEF StatusSet
    <2>5. QED
      BY <1>1, <2>1, <2>3, <2>4, WrittenRenews
  <1>5. QED
    BY <1>3, <1>4

LEMMA LostSays ==
    ASSUME NEW c, CallIs(c)
    PROVE  Screen!Lose(c) => calls' = (calls \ {c}) \cup {Told(c, "lost", c.said, c.at)}
  <1> DEFINE i == c.id
             k == c.kind
             o == c.of
             t == c.to
             s == c.sheet
             f == c.first
             a == c.asked
             x == c.state
             y == c.said
             z == c.at
  <1>1. c = [id |-> i, kind |-> k, of |-> o, to |-> t, sheet |-> s, first |-> f,
             asked |-> a, state |-> x, said |-> y, at |-> z]
    BY DEF CallIs
  <1>2. Told(c, "lost", c.said, c.at)
          = [id |-> i, kind |-> k, of |-> o, to |-> t, sheet |-> s, first |-> f,
             asked |-> a, state |-> "lost", said |-> y, at |-> z]
    BY DEF Told
  <1>3. PICK d : d = [c EXCEPT !.state = "lost"]
    OBVIOUS
  <1> HIDE DEF i, k, o, t, s, f, a, x, y, z
  <1>4. d = [id |-> i, kind |-> k, of |-> o, to |-> t, sheet |-> s, first |-> f,
             asked |-> a, state |-> "lost", said |-> y, at |-> z]
    BY <1>1, <1>3
  <1>5. d = Told(c, "lost", c.said, c.at)
    BY <1>2, <1>4
  <1>6. Screen!Lose(c) => calls' = (calls \ {c}) \cup {d}
    BY <1>3 DEF Screen!Lose
  <1>7. QED
    BY <1>5, <1>6

LEMMA LoseKeeps ==
    ASSUME ScreenInv, NEW c \in calls, Screen!Lose(c)
    PROVE  ScreenInv'
  <1>1. /\ c.state \in {"sent", "done"}
        /\ behind' = (behind \/ (c.state = "done" /\ c.kind \notin Screen!Searches))
        /\ UNCHANGED <<stored, counter, running, results, listState, searched, selected,
                       sheetId, editing, saving, failed, dialog, generating, slompsim,
                       effect, sent, clock, readAt, wroteAt, otherAt, reverted>>
    BY DEF Screen!Lose, Screen!table, Screen!list, Screen!sheet, Screen!pdf, Screen!panel
  <1>2. CallOK(c) /\ CallIs(c) /\ TimesOK
    BY DEF ScreenInv, CallsOK, CallOK
  <1>3. PICK said, at : said = c.said /\ at = c.at
    OBVIOUS
  <1>4. PICK d : d = Told(c, "lost", said, at)
    OBVIOUS
  <1>5. calls' = (calls \ {c}) \cup {d}
    BY <1>2, <1>3, <1>4, LostSays
  <1>6. /\ CallIs(d) /\ d.id = c.id /\ d.kind = c.kind /\ d.of = c.of /\ d.asked = c.asked
        /\ d.state = "lost" /\ d.at = c.at
    <2>1. at \in Nat
      BY <1>2, <1>3 DEF CallIs
    <2>2. CallIs(d)
      BY <1>2, <1>4, <2>1, AnswerIs
    <2>3. QED
      BY <1>3, <1>4, <2>2, ToldSays
  <1>7. TableMoves /\ TimesOK' /\ TableOK'
    BY <1>1, <1>2 DEF TableMoves, TimesOK, ScreenInv, TableOK
  <1>8. CallOK(d)'
    BY <1>1, <1>2, <1>6 DEF CallOK, CallWas, CallKnows, CallFresh
  <1>9. behind' \in BOOLEAN /\ (behind => behind')
    BY <1>1 DEF ScreenInv, FieldsOK
  <1>10. ListExplained'
    BY <1>1, <1>5, <1>6, <1>9, AnsweredQuietly
  <1>11. QED
    BY <1>1, <1>5, <1>6, <1>7, <1>8, <1>9, <1>10, Answered

-----------------------------------------------------------------------------
(* Other actors *)

\* Another actor writes the table: the list is not said to be true any more.
LEMMA OtherKeeps ==
    ASSUME ScreenInv, TableOK', Screen!Other,
           \A s \in Ids : stored[s].res # Null => stored'[s].res # Null \/ reverted',
           reverted => reverted'
    PROVE  ScreenInv'
  <1>1. /\ clock' = clock + 1 /\ otherAt' = clock + 1
        /\ UNCHANGED <<results, listState, searched, selected, sheetId, editing, saving,
                       failed, dialog, generating, slompsim, effect, sent, calls, readAt,
                       wroteAt, behind>>
    BY DEF Screen!Other, Screen!list, Screen!sheet, Screen!pdf, Screen!panel
  <1>2. TimesOK /\ CallsOK
    BY DEF ScreenInv
  <1>3. TableMoves /\ TimesOK'
    BY <1>1, <1>2 DEF TableMoves, TimesOK
  <1>4. CallsOK'
    <2>1. \A c \in calls : CallOK(c)'
      BY <1>2, <1>3, CallStays DEF CallsOK
    <2>2. QED
      BY <1>1, <2>1 DEF CallsOK
  <1>5. ListIs(stored', reverted', results')
    BY <1>1, <1>3, ListStays DEF ScreenInv
  <1>6. ListExplained'
    BY <1>1, <1>2 DEF ListExplained, TimesOK
  <1>7. FieldsOK' /\ Screen!NothingHangs'
    BY <1>1 DEF ScreenInv, FieldsOK, Screen!NothingHangs
  <1>8. QED
    BY <1>3, <1>4, <1>5, <1>6, <1>7 DEF ScreenInv

LEMMA OtherChangesKeeps ==
    ASSUME ScreenInv, NEW s \in Ids, NEW to \in Screen!Statuses, Screen!OtherChanges(s, to)
    PROVE  ScreenInv'
  <1>1. /\ Screen!Other /\ stored' = [stored EXCEPT ![s].status = to]
        /\ UNCHANGED <<counter, running, reverted>> /\ TableOK
    BY DEF Screen!OtherChanges, ScreenInv
  <1>2. StatusSet(stored, stored', s, to) /\ stored' \in [Ids -> TableT]
    BY <1>1, StatusWritten
  <1>3. TableOK'
    BY <1>1, <1>2 DEF TableOK
  <1>4. QED
    BY <1>1, <1>2, <1>3, OtherKeeps DEF StatusSet

LEMMA SixtyDaysKeeps ==
    ASSUME ScreenInv, Screen!SixtyDays
    PROVE  ScreenInv'
  <1> DEFINE Aged(r) == [r EXCEPT !.aged = TRUE,
                                  !.status = IF @ = "VIGENTE" THEN "EN_FIRME" ELSE @]
  <1>1. /\ Screen!Other /\ UNCHANGED <<counter, running, reverted>> /\ TableOK
        /\ stored' = [s \in Ids |-> IF stored[s].res = Null THEN stored[s] ELSE Aged(stored[s])]
    BY DEF Screen!SixtyDays, ScreenInv
  <1>2. ASSUME NEW r \in TableT
        PROVE  Aged(r) \in TableT /\ Aged(r).res = r.res
    BY DEF TableT, Screen!Statuses
  <1>3. \A s \in Ids : stored[s] \in TableT
    BY <1>1 DEF TableOK
  <1> HIDE DEF Aged
  <1>4. stored' \in [Ids -> TableT] /\ \A s \in Ids : stored'[s].res = stored[s].res
    BY <1>1, <1>2, <1>3
  <1>5. TableOK'
    BY <1>1, <1>4 DEF TableOK
  <1>6. QED
    BY <1>1, <1>4, <1>5, OtherKeeps

LEMMA ImportKeeps ==
    ASSUME Screen!SettlementsScreenAssumption, ScreenInv, NEW s \in Ids, Screen!Import(s)
    PROVE  ScreenInv'
  <1>1. Screen!Other /\ UNCHANGED <<counter, running, reverted>> /\ TableOK
    BY DEF Screen!Import, ScreenInv
  <1>2. stored \in [Ids -> TableT] /\ Reissued[s] \in Ids
    BY <1>1 DEF TableOK, Screen!SettlementsScreenAssumption
  <1>3. ASSUME NEW r \in TableT, NEW b \in BOOLEAN
        PROVE  /\ [r EXCEPT !.current = b] \in TableT /\ [r EXCEPT !.current = b].res = r.res
               /\ [r EXCEPT !.missing = b] \in TableT /\ [r EXCEPT !.missing = b].res = r.res
    BY DEF TableT
  <1>4. CASE stored' = [stored EXCEPT ![s].missing = TRUE]
    <2>1. stored' = [t \in Ids |-> IF t = s THEN [stored[s] EXCEPT !.missing = TRUE] ELSE stored[t]]
      BY <1>2, <1>4
    <2>2. stored' \in [Ids -> TableT] /\ \A t \in Ids : stored'[t].res = stored[t].res
      BY <1>2, <1>3, <2>1
    <2>3. TableOK'
      BY <1>1, <2>2 DEF TableOK
    <2>4. QED
      BY <1>1, <2>2, <2>3, OtherKeeps
  <1>5. CASE /\ Reissued[s] # s
             /\ stored' = [stored EXCEPT ![s].current = FALSE, ![Reissued[s]].current = TRUE]
    <2>1. stored' = [t \in Ids |-> IF t = Reissued[s] THEN [stored[t] EXCEPT !.current = TRUE]
                                   ELSE IF t = s THEN [stored[t] EXCEPT !.current = FALSE]
                                   ELSE stored[t]]
      BY <1>2, <1>5
    <2>2. stored' \in [Ids -> TableT] /\ \A t \in Ids : stored'[t].res = stored[t].res
      BY <1>2, <1>3, <2>1
    <2>3. TableOK'
      BY <1>1, <2>2 DEF TableOK
    <2>4. QED
      BY <1>1, <2>2, <2>3, OtherKeeps
  <1>6. QED
    BY <1>4, <1>5 DEF Screen!Import

LEMMA JobIssuesKeeps ==
    ASSUME Screen!SettlementsScreenAssumption, ScreenInv, NEW s \in Ids, Screen!JobIssues(s)
    PROVE  ScreenInv'
  <1>1. PICK G : G = Screen!FutureGroup(Screen!Pending(LandOf[s]), s)
    OBVIOUS
  <1>2. /\ Screen!Other /\ UNCHANGED reverted /\ TableOK
        /\ counter' = counter + 1 /\ running' = counter + 1
        /\ stored' = [t \in Ids |-> IF t \in G THEN [stored[t] EXCEPT !.res = counter + 1]
                                               ELSE stored[t]]
    BY <1>1 DEF Screen!JobIssues, ScreenInv
  <1>3. PICK n \in Nat : n = counter + 1
    BY <1>2 DEF TableOK
  <1>4. /\ stored' \in [Ids -> TableT]
        /\ \A t \in Ids : stored'[t].res = IF t \in G THEN n ELSE stored[t].res
    BY <1>2, <1>3, NumberWritten
  <1>5. Null \notin Nat
    BY DEF Screen!SettlementsScreenAssumption
  <1>6. TableOK'
    BY <1>2, <1>3, <1>4 DEF TableOK
  <1>7. QED
    BY <1>2, <1>4, <1>5, <1>6, OtherKeeps

LEMMA JobEndsKeeps ==
    ASSUME Screen!SettlementsScreenAssumption, ScreenInv, Screen!JobEnds
    PROVE  ScreenInv'
  <1>1. Screen!Other /\ running # Null /\ running' = Null /\ TableOK
    BY DEF Screen!JobEnds, ScreenInv
  <1>2. CASE UNCHANGED <<stored, counter, reverted>>
    <2>1. TableOK'
      BY <1>1, <1>2 DEF TableOK
    <2>2. QED
      BY <1>1, <1>2, <2>1, OtherKeeps
  <1>3. CASE /\ counter' = counter - 1
             /\ stored' = [s \in Ids |-> IF stored[s].res = running
                                         THEN [stored[s] EXCEPT !.res = Null] ELSE stored[s]]
             /\ reverted' = TRUE
    <2>1. PICK G : G = {s \in Ids : stored[s].res = running}
      OBVIOUS
    <2>2. stored' = [t \in Ids |-> IF t \in G THEN [stored[t] EXCEPT !.res = Null]
                                              ELSE stored[t]]
      BY <1>3, <2>1
    <2>3. stored' \in [Ids -> TableT]
      <3>1. PICK n \in Nat \cup {Null} : n = Null
        OBVIOUS
      <3>2. QED
        BY <1>1, <2>2, <3>1, NumberWritten
    <2>4. TableOK'
      BY <1>1, <1>3, <2>3 DEF TableOK
    <2>5. QED
      BY <1>1, <1>3, <2>4, OtherKeeps
  <1>4. QED
    BY <1>2, <1>3 DEF Screen!JobEnds

-----------------------------------------------------------------------------
(* The clicks *)

\* The screen changes, and neither the backend nor the list.
TabOnly ==
    UNCHANGED <<stored, counter, running, clock, readAt, wroteAt, otherAt, behind,
                reverted, results, searched, effect>>

\* A sound request leaves.
Sends(d) ==
    /\ sent' = sent + 1 /\ calls' = calls \cup {d}
    /\ CallOK(d)' /\ d.state = "sent"

LEMMA ClickKeeps ==
    ASSUME ScreenInv, TabOnly, FieldsOK', Screen!NothingHangs',
           UNCHANGED <<calls, sent>> \/ \E d : Sends(d),
           listState' = "results" => listState = "results"
    PROVE  ScreenInv'
  <1>1. /\ UNCHANGED <<stored, counter, running, clock, readAt, wroteAt, otherAt, behind,
                       reverted, results, searched, effect>>
        /\ TimesOK /\ CallsOK
    BY DEF TabOnly, ScreenInv
  <1>2. sent' \in {sent, sent + 1}
    BY DEF Sends
  <1>3. TableMoves /\ TimesOK'
    <2>1. TableMoves
      BY <1>1, <1>2 DEF TableMoves, TimesOK
    <2>2. QED
      BY <1>1, <1>2, <2>1 DEF TimesOK
  <1>4. CallsOK'
    <2>1. \A c \in calls : CallOK(c)'
      BY <1>1, <1>3, CallStays DEF CallsOK
    <2>2. \A c \in calls' : c \in calls \/ CallOK(c)'
      BY DEF Sends
    <2>3. QED
      BY <2>1, <2>2 DEF CallsOK
  <1>5. ListIs(stored', reverted', results')
    BY <1>1, <1>3, ListStays DEF ScreenInv
  <1>6. ListExplained'
    <2>1. Unshown(calls', readAt') = Unshown(calls, readAt)
      BY <1>1 DEF Sends, Unshown
    <2>2. calls \subseteq calls'
      BY DEF Sends
    <2>3. ASSUME NEW c \in calls, Renews(c, effect)
          PROVE  ListExplained'
      <3>1. c \in calls' /\ Renews(c, effect')
        BY <1>1, <2>2, <2>3
      <3>2. QED
        BY <3>1, AnsweredRenews
    <2>4. QED
      BY <1>1, <2>1, <2>3 DEF ListExplained, ScreenInv
  <1>7. TableOK'
    BY <1>1 DEF ScreenInv, TableOK
  <1>8. QED
    BY <1>3, <1>4, <1>5, <1>6, <1>7 DEF ScreenInv

LEMMA RequestSays ==
    ASSUME NEW k, NEW o, NEW t, NEW s, NEW f, NEW a
    PROVE  LET d == Screen!Request(k, o, t, s, f, a)
           IN  /\ d = [id |-> d.id, kind |-> d.kind, of |-> d.of, to |-> d.to,
                       sheet |-> d.sheet, first |-> d.first, asked |-> d.asked,
                       state |-> d.state, said |-> d.said, at |-> d.at]
               /\ d.id = sent + 1 /\ d.kind = k /\ d.of = o /\ d.to = t
               /\ d.sheet = s /\ d.first = f /\ d.asked = a
               /\ d.state = "sent" /\ d.said = Null /\ d.at = 0
  BY DEF Screen!Request

\* What a click may ask.
MayAsk(k, o, t, f, a) ==
    /\ k \in Screen!Searches \cup {"status", "pdf", "confirm"}
    /\ k \in Screen!Searches => o \in Criteria
    /\ k \in {"status", "confirm"} => o \in Ids /\ t \in Screen!Statuses
    /\ k = "pdf" => /\ o \in Ids /\ f \in BOOLEAN /\ a \in BOOLEAN
                    /\ ~a => stored[o].res # Null \/ reverted

LEMMA RequestIs ==
    ASSUME TimesOK, UNCHANGED <<stored, reverted, clock, wroteAt, otherAt>>, sent' = sent + 1,
           NEW k, NEW o, NEW t, NEW s, NEW f, NEW a, MayAsk(k, o, t, f, a),
           NEW d, d = Screen!Request(k, o, t, s, f, a)
    PROVE  CallOK(d)' /\ d.state = "sent" /\ d.kind = k /\ d.of = o
  <1>1. /\ d = [id |-> d.id, kind |-> d.kind, of |-> d.of, to |-> d.to,
                sheet |-> d.sheet, first |-> d.first, asked |-> d.asked,
                state |-> d.state, said |-> d.said, at |-> d.at]
        /\ d.id = sent + 1 /\ d.kind = k /\ d.of = o /\ d.to = t
        /\ d.sheet = s /\ d.first = f /\ d.asked = a
        /\ d.state = "sent" /\ d.said = Null /\ d.at = 0
    BY RequestSays
  <1>2. CallIs(d)
    <2>1. d.id \in Nat \ {0}
      BY <1>1 DEF TimesOK
    <2>2. QED
      BY <1>1, <2>1 DEF CallIs, MayAsk
  <1>3. CallWas(sent, clock, wroteAt, d)'
    BY <1>1 DEF CallWas, TimesOK
  <1>4. CallKnows(stored, reverted, d)'
    BY <1>1 DEF CallKnows, MayAsk
  <1>5. CallFresh(d)'
    BY <1>1 DEF CallFresh
  <1>6. QED
    BY <1>1, <1>2, <1>3, <1>4, <1>5 DEF CallOK

\* What a click leaves of the backend and of the list.
LEMMA ClickLeaves ==
    ASSUME Screen!Click
    PROVE  UNCHANGED <<stored, counter, running, clock, readAt, wroteAt, otherAt, behind,
                       reverted>>
  BY DEF Screen!Click, Screen!table

\* A request that leaves keeps what waits for another.
LEMMA StillWaits ==
    ASSUME Screen!NothingHangs, calls \subseteq calls',
           listState' = "loading" => listState = "loading",
           saving' # Null => saving' = saving, generating' => generating,
           ~(slompsim' /\ selected' # Null), editing' # Null => selected' # Null
    PROVE  Screen!NothingHangs'
  BY DEF Screen!NothingHangs

LEMMA SearchKeeps ==
    ASSUME ScreenInv, NEW criteria \in Criteria \cup {Null}, Screen!Search(criteria)
    PROVE  ScreenInv'
  <1>1. /\ UNCHANGED <<stored, counter, running, clock, readAt, wroteAt, otherAt, behind,
                       reverted, results, searched, saving, dialog, generating, slompsim,
                       effect>>
        /\ failed' = Null /\ selected' = Null /\ sheetId' = Null /\ editing' = Null
    BY ClickLeaves DEF Screen!Search, Screen!pdf, Screen!panel
  <1>2. TabOnly
    BY <1>1 DEF TabOnly
  <1>3. FieldsOK /\ TimesOK /\ Screen!NothingHangs
    BY DEF ScreenInv
  <1>4. CASE criteria = Null
    <2>1. listState' = "invalid" /\ UNCHANGED <<calls, sent>>
      BY <1>4 DEF Screen!Search
    <2>2. FieldsOK' /\ Screen!NothingHangs'
      BY <1>1, <1>3, <2>1 DEF FieldsOK, Screen!NothingHangs
    <2>3. QED
      BY <1>2, <2>1, <2>2, ClickKeeps
  <1>5. CASE criteria # Null
    <2>1. PICK k, no, d : /\ k = "search" /\ no = FALSE
                          /\ d = Screen!Request(k, criteria, Null, Null, no, no)
      OBVIOUS
    <2>2. listState' = "loading" /\ sent' = sent + 1 /\ calls' = calls \cup {d}
      BY <1>5, <2>1 DEF Screen!Search, Screen!Send, Screen!Read
    <2>3. MayAsk(k, criteria, Null, no, no)
      BY <1>5, <2>1 DEF MayAsk, Screen!Searches
    <2>4. CallOK(d)' /\ d.state = "sent" /\ d.kind = "search"
      BY <1>1, <1>3, <2>1, <2>2, <2>3, RequestIs
    <2>5. Sends(d)
      BY <2>2, <2>4 DEF Sends
    <2>6. FieldsOK' /\ Screen!NothingHangs'
      BY <1>1, <1>3, <2>2, <2>4 DEF FieldsOK, Screen!NothingHangs, TimesOK
    <2>7. QED
      BY <1>2, <2>2, <2>5, <2>6, ClickKeeps
  <1>6. QED
    BY <1>4, <1>5

\* The sheet and the panel of Slompsim.
LEMMA SheetKeeps ==
    ASSUME ScreenInv,
           \/ Screen!CloseSheet \/ Screen!OpenSlompsim \/ Screen!CancelEdit
           \/ Screen!CancelDialog
           \/ \E g \in results : Screen!Open(g.id)
           \/ \E s \in Ids : Screen!Edit(s)
    PROVE  ScreenInv'
  <1>1. /\ UNCHANGED <<stored, counter, running, clock, readAt, wroteAt, otherAt, behind,
                       reverted, results, searched, effect, calls, sent, listState, saving,
                       generating>>
        /\ selected' \in {selected, Null} \cup {g.id : g \in results}
        /\ sheetId' \in {sheetId} \cup {g.id : g \in results}
        /\ editing' \in {editing, Null} \cup Ids
        /\ failed' \in {failed, Null}
        /\ dialog' \in {dialog, FALSE}
        /\ slompsim' \in BOOLEAN \cup {slompsim}
        /\ ~(slompsim' /\ selected' # Null)
        /\ editing' # Null => selected' # Null
    <2>1. CASE Screen!CloseSheet
      BY <2>1, ClickLeaves DEF Screen!CloseSheet, Screen!list, Screen!pdf, Screen!panel
    <2>2. CASE Screen!OpenSlompsim
      BY <2>2, ClickLeaves DEF Screen!OpenSlompsim, Screen!list, Screen!pdf
    <2>3. CASE Screen!CancelEdit
      BY <2>3, ClickLeaves DEF Screen!CancelEdit, Screen!list, Screen!pdf, Screen!panel,
         ScreenInv, Screen!NothingHangs
    <2>4. CASE Screen!CancelDialog
      BY <2>4 DEF Screen!CancelDialog, Screen!table, Screen!list, Screen!sheet, Screen!panel,
         Screen!bounds, Screen!history, ScreenInv, Screen!NothingHangs
    <2>5. CASE \E g \in results : Screen!Open(g.id)
      BY <2>5, ClickLeaves DEF Screen!Open, Screen!list, Screen!pdf
    <2>6. CASE \E s \in Ids : Screen!Edit(s)
      BY <2>6, ClickLeaves DEF Screen!Edit, Screen!list, Screen!pdf, Screen!panel,
         ScreenInv, Screen!NothingHangs
    <2>7. QED
      BY <2>1, <2>2, <2>3, <2>4, <2>5, <2>6
  <1>2. TabOnly
    BY <1>1 DEF TabOnly
  <1>3. FieldsOK /\ Screen!NothingHangs /\ \A g \in results : g.id \in Ids
    BY DEF ScreenInv, ListIs, RowIs
  <1>4. FieldsOK'
    <2>1. /\ selected' \in Ids \cup {Null} /\ sheetId' \in Ids \cup {Null}
          /\ editing' \in Ids \cup {Null}
          /\ dialog' \in BOOLEAN /\ slompsim' \in BOOLEAN
      BY <1>1, <1>3 DEF FieldsOK
    <2>2. failed' \in [row : Ids, to : Screen!Statuses] \cup {Null}
      BY <1>1, <1>3 DEF FieldsOK
    <2>3. QED
      BY <1>1, <1>3, <2>1, <2>2 DEF FieldsOK
  <1>5. Screen!NothingHangs'
    BY <1>1, <1>3, StillWaits
  <1>6. QED
    BY <1>1, <1>2, <1>4, <1>5, ClickKeeps

\* The row that the sheet shows is one of the list.
LEMMA EntryIs ==
    ASSUME ScreenInv, Screen!HasEntry
    PROVE  /\ Screen!SheetEntry \in results /\ Screen!SheetEntry.id = sheetId
           /\ sheetId \in Ids /\ DOMAIN Screen!SheetEntry.settlements \subseteq Ids
           /\ Screen!SheetEntry.res # Null => stored[sheetId].res # Null \/ reverted
  <1>1. Screen!SheetEntry \in results /\ Screen!SheetEntry.id = sheetId
    BY DEF Screen!HasEntry, Screen!Entry, Screen!SheetEntry
  <1>2. PICK g \in results : g = Screen!SheetEntry /\ g.id = sheetId
    BY <1>1
  <1>3. RowIs(g) /\ (g.res # Null => stored[g.id].res # Null \/ reverted)
    BY DEF ScreenInv, ListIs
  <1>4. QED
    BY <1>1, <1>2, <1>3 DEF RowIs

LEMMA ConfirmKeeps ==
    ASSUME ScreenInv, NEW s \in Ids, NEW to \in Screen!Statuses, Screen!Confirm(s, to)
    PROVE  ScreenInv'
  <1>1. PICK k, no, d : /\ k = "confirm" /\ no = FALSE
                        /\ d = Screen!Request(k, s, to, Null, no, no)
    OBVIOUS
  <1>2. /\ UNCHANGED <<stored, counter, running, clock, readAt, wroteAt, otherAt, behind,
                       reverted, results, searched, listState, selected, sheetId, editing,
                       saving, failed, dialog, generating, slompsim, effect>>
        /\ sent' = sent + 1 /\ calls' = calls \cup {d}
    BY <1>1, ClickLeaves DEF Screen!Confirm, Screen!Send, Screen!list, Screen!sheet,
       Screen!pdf, Screen!panel
  <1>3. FieldsOK /\ TimesOK /\ Screen!NothingHangs
    BY DEF ScreenInv
  <1>4. MayAsk(k, s, to, no, no)
    BY <1>1 DEF MayAsk, Screen!Searches
  <1>5. CallOK(d)' /\ d.state = "sent"
    BY <1>1, <1>2, <1>3, <1>4, RequestIs
  <1>6. Sends(d) /\ TabOnly
    BY <1>2, <1>5 DEF Sends, TabOnly
  <1>7. FieldsOK' /\ Screen!NothingHangs'
    BY <1>2, <1>3 DEF FieldsOK, TimesOK, Screen!NothingHangs
  <1>8. QED
    BY <1>2, <1>6, <1>7, ClickKeeps

\* A change of a period leaves, and its row waits.
LEMMA ChangeSent ==
    ASSUME ScreenInv, NEW row \in Ids, NEW to \in Screen!Statuses,
           sent' = sent + 1, saving' = row, failed' = Null,
           NEW k, NEW no, k = "status", no = FALSE,
           calls' = calls \cup {Screen!Request(k, row, to, sheetId, no, no)},
           UNCHANGED <<stored, counter, running, clock, readAt, wroteAt, otherAt, behind,
                       reverted, results, searched, listState, selected, sheetId, editing,
                       dialog, generating, slompsim, effect>>
    PROVE  ScreenInv'
  <1>1. PICK from, d : from = sheetId /\ d = Screen!Request(k, row, to, from, no, no)
    OBVIOUS
  <1>2. FieldsOK /\ TimesOK /\ Screen!NothingHangs
    BY DEF ScreenInv
  <1>3. MayAsk(k, row, to, no, no)
    BY DEF MayAsk, Screen!Searches
  <1>4. CallOK(d)' /\ d.state = "sent" /\ d.kind = "status" /\ d.of = row
    BY <1>1, <1>2, <1>3, RequestIs
  <1>5. Sends(d) /\ TabOnly
    BY <1>1, <1>4 DEF Sends, TabOnly
  <1>6. FieldsOK' /\ Screen!NothingHangs'
    BY <1>1, <1>2, <1>4 DEF FieldsOK, TimesOK, Screen!NothingHangs
  <1>7. QED
    BY <1>5, <1>6, ClickKeeps

LEMMA SaveKeeps ==
    ASSUME ScreenInv, NEW to \in Screen!Statuses, Screen!Save(to)
    PROVE  ScreenInv'
  <1>1. /\ UNCHANGED <<stored, counter, running, clock, readAt, wroteAt, otherAt, behind,
                       reverted, results, searched, listState, selected, sheetId,
                       dialog, generating, slompsim, effect>>
        /\ selected # Null /\ editing \in DOMAIN Screen!SheetEntry.settlements
    BY ClickLeaves DEF Screen!Save, Screen!list, Screen!pdf, Screen!panel
  <1>2. editing \in Ids
    BY <1>1, EntryIs DEF Screen!Save
  <1>3. CASE to = Screen!SheetEntry.settlements[editing].status
    <2>1. editing' = Null /\ UNCHANGED <<saving, failed, calls, sent>>
      BY <1>3 DEF Screen!Save
    <2>2. TabOnly
      BY <1>1 DEF TabOnly
    <2>3. FieldsOK' /\ Screen!NothingHangs'
      BY <1>1, <2>1 DEF ScreenInv, FieldsOK, Screen!NothingHangs
    <2>4. QED
      BY <1>1, <2>1, <2>2, <2>3, ClickKeeps
  <1>4. CASE to # Screen!SheetEntry.settlements[editing].status
    <2>1. PICK k, no : k = "status" /\ no = FALSE
      OBVIOUS
    <2>2. /\ saving' = editing /\ failed' = Null /\ UNCHANGED editing /\ sent' = sent + 1
          /\ calls' = calls \cup {Screen!Request(k, editing, to, sheetId, no, no)}
      BY <1>4, <2>1 DEF Screen!Save, Screen!Send
    <2>3. PICK row : row = editing
      OBVIOUS
    <2>4. QED
      BY <1>1, <1>2, <2>1, <2>2, <2>3, ChangeSent
  <1>5. QED
    BY <1>3, <1>4

LEMMA RetrySaveKeeps ==
    ASSUME ScreenInv, Screen!RetrySave
    PROVE  ScreenInv'
  <1>1. PICK k, no, row, to : k = "status" /\ no = FALSE /\ row = failed.row /\ to = failed.to
    OBVIOUS
  <1>2. row \in Ids /\ to \in Screen!Statuses
    BY <1>1 DEF ScreenInv, FieldsOK, Screen!RetrySave
  <1>3. /\ UNCHANGED <<stored, counter, running, clock, readAt, wroteAt, otherAt, behind,
                       reverted, results, searched, listState, selected, sheetId, editing,
                       dialog, generating, slompsim, effect>>
        /\ saving' = row /\ failed' = Null /\ sent' = sent + 1
        /\ calls' = calls \cup {Screen!Request(k, row, to, sheetId, no, no)}
    BY <1>1, ClickLeaves DEF Screen!RetrySave, Screen!Send, Screen!list, Screen!pdf,
       Screen!panel
  <1>4. QED
    BY <1>1, <1>2, <1>3, ChangeSent

\* A PDF of the row of the sheet: without the dialog, of one that has its resolution.
LEMMA PdfSent ==
    ASSUME ScreenInv, Screen!HasEntry, NEW asked \in BOOLEAN,
           ~asked => Screen!SheetEntry.res # Null,
           sent' = sent + 1, generating' = TRUE, calls' = calls \cup {Screen!Pdf(asked)},
           UNCHANGED <<stored, counter, running, clock, readAt, wroteAt, otherAt, behind,
                       reverted, results, searched, listState, selected, sheetId, editing,
                       saving, failed, dialog, slompsim, effect>>
    PROVE  ScreenInv'
  <1>1. PICK first \in BOOLEAN : first <=> Screen!SheetEntry.res = Null
    OBVIOUS
  <1>2. PICK k, row, d : /\ k = "pdf" /\ row = sheetId
                         /\ d = Screen!Request(k, row, Null, Null, first, asked)
    OBVIOUS
  <1>3. d = Screen!Pdf(asked)
    BY <1>1, <1>2 DEF Screen!Pdf
  <1>4. FieldsOK /\ TimesOK /\ Screen!NothingHangs
    BY DEF ScreenInv
  <1>5. MayAsk(k, row, Null, first, asked)
    BY <1>2, EntryIs DEF MayAsk, Screen!Searches
  <1>6. CallOK(d)' /\ d.state = "sent" /\ d.kind = "pdf"
    BY <1>2, <1>4, <1>5, RequestIs
  <1>7. Sends(d) /\ TabOnly
    BY <1>3, <1>6 DEF Sends, TabOnly
  <1>8. FieldsOK' /\ Screen!NothingHangs'
    BY <1>3, <1>4, <1>6 DEF FieldsOK, TimesOK, Screen!NothingHangs
  <1>9. QED
    BY <1>7, <1>8, ClickKeeps

LEMMA GenerateKeeps ==
    ASSUME ScreenInv, Screen!Generate
    PROVE  ScreenInv'
  <1>1. /\ UNCHANGED <<stored, counter, running, clock, readAt, wroteAt, otherAt, behind,
                       reverted, results, searched, listState, selected, sheetId, editing,
                       saving, failed, slompsim, effect>>
        /\ Screen!HasEntry
    BY ClickLeaves DEF Screen!Generate, Screen!list, Screen!sheet, Screen!panel
  <1>2. CASE Screen!AsksFirst
    <2>1. dialog' = TRUE /\ UNCHANGED <<generating, calls, sent>>
      BY <1>2 DEF Screen!Generate
    <2>2. TabOnly
      BY <1>1 DEF TabOnly
    <2>3. FieldsOK' /\ Screen!NothingHangs'
      BY <1>1, <2>1 DEF ScreenInv, FieldsOK, Screen!NothingHangs
    <2>4. QED
      BY <1>1, <2>1, <2>2, <2>3, ClickKeeps
  <1>3. CASE ~Screen!AsksFirst
    <2>1. PICK asked \in BOOLEAN : asked = FALSE
      OBVIOUS
    <2>2. /\ generating' = TRUE /\ UNCHANGED dialog /\ sent' = sent + 1
          /\ calls' = calls \cup {Screen!Pdf(asked)}
      BY <1>3, <2>1 DEF Screen!Generate, Screen!Send
    <2>3. ~asked => Screen!SheetEntry.res # Null
      BY <1>3 DEF Screen!AsksFirst
    <2>4. QED
      BY <1>1, <2>2, <2>3, PdfSent
  <1>4. QED
    BY <1>2, <1>3

LEMMA GenerateAskedKeeps ==
    ASSUME ScreenInv, Screen!GenerateAsked
    PROVE  ScreenInv'
  <1>1. PICK asked \in BOOLEAN : asked = TRUE
    OBVIOUS
  <1>2. /\ UNCHANGED <<stored, counter, running, clock, readAt, wroteAt, otherAt, behind,
                       reverted, results, searched, listState, selected, sheetId, editing,
                       saving, failed, dialog, slompsim, effect>>
        /\ Screen!HasEntry /\ generating' = TRUE /\ sent' = sent + 1
        /\ calls' = calls \cup {Screen!Pdf(asked)}
    BY <1>1 DEF Screen!GenerateAsked, Screen!Send, Screen!table, Screen!list, Screen!sheet,
       Screen!panel, Screen!history
  <1>3. QED
    BY <1>1, <1>2, PdfSent

-----------------------------------------------------------------------------
(* The answers *)

LEMMA Landed ==
    ASSUME ScreenInv, UNCHANGED <<stored, counter, running, clock, wroteAt, otherAt, reverted>>,
           readAt' \in Nat, readAt' <= clock, FieldsOK', Screen!NothingHangs',
           ListIs(stored', reverted', results'), ListExplained',
           \/ sent' = sent /\ calls' \subseteq calls
           \/ sent' = sent + 1 /\ \E d : CallOK(d)' /\ calls' \subseteq calls \cup {d}
    PROVE  ScreenInv'
  <1>1. TimesOK /\ CallsOK /\ sent' \in {sent, sent + 1}
    BY DEF ScreenInv
  <1>2. TableMoves
    BY <1>1 DEF TableMoves, TimesOK
  <1>3. TimesOK'
    BY <1>1 DEF TimesOK
  <1>4. CallsOK'
    <2>1. \A c \in calls : CallOK(c)'
      BY <1>1, <1>2, CallStays DEF CallsOK
    <2>2. \A c \in calls' : c \in calls \/ CallOK(c)'
      OBVIOUS
    <2>3. QED
      BY <2>1, <2>2 DEF CallsOK
  <1>5. TableOK'
    BY DEF ScreenInv, TableOK
  <1>6. QED
    BY <1>3, <1>4, <1>5 DEF ScreenInv

\* A request that the page sends by itself: its answer is to come.
LEMMA AfterIs ==
    ASSUME ScreenInv, UNCHANGED <<stored, reverted, clock, wroteAt, otherAt>>,
           searched # Null, NEW c, NEW kind \in {"refresh", "applied"},
           Screen!SendAfter(c, kind)
    PROVE  \E d : /\ CallOK(d)' /\ sent' = sent + 1 /\ calls' = (calls \ {c}) \cup {d}
                  /\ d.id = sent + 1 /\ d.kind = kind
  <1>1. PICK no, of, d : /\ no = FALSE /\ of = searched
                         /\ d = Screen!Request(kind, of, Null, Null, no, no)
    OBVIOUS
  <1>2. sent' = sent + 1 /\ calls' = (calls \ {c}) \cup {d}
    BY <1>1 DEF Screen!SendAfter, Screen!Read
  <1>3. MayAsk(kind, of, Null, no, no)
    BY <1>1 DEF MayAsk, Screen!Searches, ScreenInv, FieldsOK
  <1>4. TimesOK
    BY DEF ScreenInv
  <1>5. CallOK(d)'
    BY <1>1, <1>2, <1>3, <1>4, RequestIs
  <1>6. d.id = sent + 1 /\ d.kind = kind
    BY <1>1, RequestSays
  <1>7. QED
    BY <1>2, <1>5, <1>6

\* A request that did not change the list, nor will, goes.
LEMMA TakenExplained ==
    ASSUME ListExplained, NEW c \in calls, calls' = calls \ {c},
           UNCHANGED <<listState, otherAt, readAt, stored, searched, results, effect>>,
           behind => behind', ~Renews(c, effect), c.kind # "status" \/ c.state # "done"
    PROVE  ListExplained'
  <1>1. Unshown(calls', readAt') = Unshown(calls, readAt)
    BY LeftOver
  <1>2. (\E e \in calls : Renews(e, effect)) => \E e \in calls' : Renews(e, effect')
    OBVIOUS
  <1>3. QED
    BY <1>1, <1>2, ExplainedStays

\* A list just read is what the search finds.
LEMMA JustRead ==
    ASSUME Screen!SettlementsScreenAssumption, TimesOK, CallsOK, NEW c \in calls,
           c.kind \in Screen!Searches, c.state = "done", c.at >= wroteAt, otherAt < c.at
    PROVE  Explained(Unshown(calls \ {c}, c.at), c.said, FoundIn(stored, c.of))
  <1>1. CallIs(c) /\ CallWas(sent, clock, wroteAt, c) /\ CallFresh(c)
    BY DEF CallsOK, CallOK
  <1>2. c.said = FoundIn(stored, c.of)
    BY <1>1 DEF CallFresh, CallIs, TimesOK
  <1>3. Unshown(calls \ {c}, c.at) = {}
    <2>1. \A e \in calls : e.kind = "status" /\ e.state = "done" => e.at \in Nat /\ e.at <= wroteAt
      BY DEF CallsOK, CallOK, CallIs, CallWas
    <2>2. c.at # wroteAt /\ c.at \in Nat
      BY <1>1 DEF CallWas, CallIs
    <2>3. QED
      BY <2>1, <2>2 DEF Unshown, TimesOK
  <1>4. PICK rows : rows = FoundIn(stored, c.of)
    OBVIOUS
  <1>5. \A g \in rows : RowIs(g)
    BY <1>4, FoundIs DEF ListIs
  <1>6. Explained({}, rows, rows)
    BY <1>5, NothingUnshown
  <1>7. QED
    BY <1>2, <1>3, <1>4, <1>6

LEMMA LandSearchKeeps ==
    ASSUME Screen!SettlementsScreenAssumption, ScreenInv, NEW c \in calls,
           Screen!LandSearch(c)
    PROVE  ScreenInv'
  <1>1. /\ UNCHANGED <<stored, counter, running, clock, wroteAt, otherAt, reverted>>
        /\ UNCHANGED <<selected, sheetId, editing, saving, failed, dialog, generating,
                       slompsim, effect, sent>>
        /\ c.kind = "search" /\ calls' = calls \ {c}
    BY DEF Screen!LandSearch, Screen!table, Screen!sheet, Screen!pdf, Screen!panel,
       Screen!bounds
  <1>2. FieldsOK /\ TimesOK /\ CallsOK /\ Screen!NothingHangs
    BY DEF ScreenInv
  <1>3. CallIs(c) /\ CallWas(sent, clock, wroteAt, c) /\ CallKnows(stored, reverted, c)
    BY <1>2 DEF CallsOK, CallOK
  <1>4. CASE c.state = "done"
    <2>1. /\ results' = c.said /\ searched' = c.of /\ readAt' = c.at
          /\ listState' \in {"empty", "results"}
          /\ behind' = (c.at < wroteAt)
      BY <1>4 DEF Screen!LandSearch
    <2>2. c.of \in Criteria /\ c.at \in Nat /\ c.at <= clock
      BY <1>1, <1>3 DEF CallIs, CallWas, Screen!Searches
    <2>3. ListIs(stored', reverted', results')
      BY <1>1, <1>3, <1>4, <2>1 DEF CallKnows, Screen!Searches
    <2>4. FieldsOK'
      <3>1. searched' # Null
        BY <2>1, <2>2 DEF Screen!SettlementsScreenAssumption
      <3>2. QED
        BY <1>1, <1>2, <2>1, <2>2, <3>1 DEF FieldsOK
    <2>5. Screen!NothingHangs'
      BY <1>1, <1>2, <2>1 DEF Screen!NothingHangs
    <2>6. ListExplained'
      <3>1. ASSUME ~behind', otherAt' < readAt'
            PROVE  Explained(Unshown(calls', readAt'), results', FoundIn(stored', searched'))
        <4>1. ~(c.at < wroteAt)
          BY <2>1, <3>1, Zenon
        <4>2. c.at >= wroteAt /\ otherAt < c.at
          BY <1>1, <1>2, <2>1, <2>2, <3>1, <4>1 DEF TimesOK
        <4>3. Explained(Unshown(calls \ {c}, c.at), c.said, FoundIn(stored, c.of))
          BY <1>1, <1>2, <1>4, <4>2, JustRead DEF Screen!Searches
        <4>4. QED
          BY <1>1, <2>1, <4>3
      <3>2. QED
        BY <3>1 DEF ListExplained
    <2>7. QED
      BY <1>1, <2>1, <2>2, <2>3, <2>4, <2>5, <2>6, Landed
  <1>5. CASE c.state # "done"
    <2>1. listState' = "error" /\ UNCHANGED <<results, searched, readAt, behind>>
      BY <1>5 DEF Screen!LandSearch
    <2>2. FieldsOK' /\ Screen!NothingHangs'
      BY <1>1, <1>2, <2>1 DEF FieldsOK, Screen!NothingHangs
    <2>3. ListIs(stored', reverted', results') /\ ListExplained'
      BY <1>1, <2>1 DEF ScreenInv, ListExplained
    <2>4. readAt' \in Nat /\ readAt' <= clock
      BY <1>2, <2>1 DEF TimesOK
    <2>5. QED
      BY <1>1, <2>2, <2>3, <2>4, Landed
  <1>6. QED
    BY <1>4, <1>5

LEMMA LandAgainKeeps ==
    ASSUME Screen!SettlementsScreenAssumption, ScreenInv, NEW c \in calls,
           Screen!LandAgain(c)
    PROVE  ScreenInv'
  <1>1. /\ UNCHANGED <<stored, counter, running, clock, wroteAt, otherAt, reverted>>
        /\ UNCHANGED <<searched, selected, sheetId, editing, saving, failed, dialog,
                       generating, slompsim, effect, sent>>
        /\ c.kind \in {"refresh", "applied"} /\ calls' = calls \ {c}
    BY DEF Screen!LandAgain, Screen!table, Screen!sheet, Screen!pdf, Screen!panel,
       Screen!bounds
  <1>2. FieldsOK /\ TimesOK /\ CallsOK /\ Screen!NothingHangs /\ ListExplained
        /\ ListIs(stored, reverted, results)
    BY DEF ScreenInv
  <1>3. CallIs(c) /\ CallWas(sent, clock, wroteAt, c) /\ CallKnows(stored, reverted, c)
    BY <1>2 DEF CallsOK, CallOK
  <1>4. CASE /\ c.kind = "applied" /\ c.id # effect
             /\ UNCHANGED <<results, listState, readAt, behind>>
    <2>1. FieldsOK' /\ Screen!NothingHangs'
      BY <1>1, <1>2, <1>4 DEF FieldsOK, Screen!NothingHangs
    <2>2. ~Renews(c, effect)
      BY <1>4 DEF Renews
    <2>3. ListExplained'
      BY <1>1, <1>2, <1>4, <2>2, TakenExplained
    <2>4. readAt' \in Nat /\ readAt' <= clock /\ ListIs(stored', reverted', results')
      BY <1>1, <1>2, <1>4 DEF TimesOK
    <2>5. QED
      BY <1>1, <2>1, <2>3, <2>4, Landed
  <1>5. CASE /\ c.state = "done"
             /\ results' = c.said /\ readAt' = c.at
             /\ behind' = (c.at < wroteAt \/ c.of # searched)
             /\ UNCHANGED listState
    <2>1. c.at \in Nat /\ c.at <= clock /\ c.kind \in Screen!Searches
      BY <1>1, <1>3 DEF CallIs, CallWas, Screen!Searches
    <2>2. ListIs(stored', reverted', results')
      BY <1>1, <1>3, <1>5, <2>1 DEF CallKnows
    <2>3. FieldsOK' /\ Screen!NothingHangs'
      BY <1>1, <1>2, <1>5 DEF FieldsOK, Screen!NothingHangs
    <2>4. ListExplained'
      <3>1. ASSUME ~behind', otherAt' < readAt'
            PROVE  Explained(Unshown(calls', readAt'), results', FoundIn(stored', searched'))
        <4>1. ~(c.at < wroteAt) /\ c.of = searched
          BY <1>5, <3>1, Zenon
        <4>2. c.at >= wroteAt /\ otherAt < c.at
          BY <1>1, <1>2, <1>5, <2>1, <3>1, <4>1 DEF TimesOK
        <4>3. Explained(Unshown(calls \ {c}, c.at), c.said, FoundIn(stored, c.of))
          BY <1>2, <1>5, <2>1, <4>2, JustRead
        <4>4. QED
          BY <1>1, <1>5, <4>1, <4>3
      <3>2. QED
        BY <3>1 DEF ListExplained
    <2>5. QED
      BY <1>1, <1>5, <2>1, <2>2, <2>3, <2>4, Landed
  <1>6. CASE /\ listState' = IF c.kind = "applied" THEN "error" ELSE listState
             /\ behind' = TRUE
             /\ UNCHANGED <<results, readAt>>
    <2>1. FieldsOK' /\ Screen!NothingHangs'
      BY <1>1, <1>2, <1>6 DEF FieldsOK, Screen!NothingHangs
    <2>2. ListExplained' /\ ListIs(stored', reverted', results')
      BY <1>1, <1>2, <1>6 DEF ListExplained
    <2>3. readAt' \in Nat /\ readAt' <= clock
      BY <1>2, <1>6 DEF TimesOK
    <2>4. QED
      BY <1>1, <2>1, <2>2, <2>3, Landed
  <1>7. QED
    BY <1>4, <1>5, <1>6 DEF Screen!LandAgain

LEMMA LandConfirmKeeps ==
    ASSUME ScreenInv, NEW c \in calls, Screen!LandConfirm(c)
    PROVE  ScreenInv'
  <1>1. /\ UNCHANGED <<stored, counter, running, clock, readAt, wroteAt, otherAt, reverted,
                       behind>>
        /\ UNCHANGED <<results, listState, searched, selected, sheetId, editing, saving,
                       failed, dialog, generating, slompsim>>
        /\ c.kind = "confirm"
    BY DEF Screen!LandConfirm, Screen!table, Screen!list, Screen!sheet, Screen!pdf,
       Screen!history
  <1>2. FieldsOK /\ TimesOK /\ Screen!NothingHangs /\ ListExplained
        /\ ListIs(stored, reverted, results)
    BY DEF ScreenInv
  <1>3. readAt' \in Nat /\ readAt' <= clock /\ ListIs(stored', reverted', results')
    BY <1>1, <1>2 DEF TimesOK
  <1>4. CASE c.state = "done" /\ searched # Null
    <2>1. Screen!SendAfter(c, "applied") /\ effect' = sent + 1
      BY <1>4 DEF Screen!LandConfirm
    <2>2. PICK d : /\ CallOK(d)' /\ sent' = sent + 1 /\ calls' = (calls \ {c}) \cup {d}
                   /\ d.id = sent + 1 /\ d.kind = "applied"
      BY <1>1, <1>4, <2>1, AfterIs
    <2>3. ListExplained'
      <3>1. d \in calls' /\ Renews(d, effect')
        BY <2>1, <2>2 DEF Renews
      <3>2. QED
        BY <3>1, AnsweredRenews
    <2>4. FieldsOK'
      BY <1>1, <1>2, <2>1, <2>2 DEF FieldsOK, TimesOK
    <2>5. Screen!NothingHangs'
      BY <1>1, <1>2, <2>2 DEF Screen!NothingHangs
    <2>6. calls' \subseteq calls \cup {d}
      BY <2>2
    <2>7. QED
      BY <1>1, <1>3, <2>2, <2>3, <2>4, <2>5, <2>6, Landed
  <1>5. CASE ~(c.state = "done" /\ searched # Null)
    <2>1. calls' = calls \ {c} /\ UNCHANGED <<sent, effect>>
      BY <1>5 DEF Screen!LandConfirm
    <2>2. FieldsOK' /\ Screen!NothingHangs'
      BY <1>1, <1>2, <2>1 DEF FieldsOK, Screen!NothingHangs
    <2>3. ListExplained'
      <3>1. CASE c.state # "done"
        <4>1. ~Renews(c, effect)
          BY <1>1, <3>1 DEF Renews
        <4>2. QED
          BY <1>1, <1>2, <2>1, <3>1, <4>1, TakenExplained
      <3>2. CASE searched = Null
        BY <1>1, <1>2, <3>2 DEF FieldsOK, ListExplained
      <3>3. QED
        BY <1>5, <3>1, <3>2
    <2>4. QED
      BY <1>1, <1>3, <2>1, <2>2, <2>3, Landed
  <1>6. QED
    BY <1>4, <1>5

LEMMA LandPdfKeeps ==
    ASSUME ScreenInv, NEW c \in calls, Screen!LandPdf(c)
    PROVE  ScreenInv'
  <1>1. /\ UNCHANGED <<stored, counter, running, clock, readAt, wroteAt, otherAt, reverted>>
        /\ UNCHANGED <<results, listState, searched, selected, sheetId, editing, saving,
                       failed, slompsim, effect>>
        /\ c.kind = "pdf" /\ generating' = FALSE
    BY DEF Screen!LandPdf, Screen!table, Screen!list, Screen!sheet, Screen!panel
  <1>2. FieldsOK /\ TimesOK /\ Screen!NothingHangs /\ ListExplained
        /\ ListIs(stored, reverted, results)
    BY DEF ScreenInv
  <1>3. readAt' \in Nat /\ readAt' <= clock /\ ListIs(stored', reverted', results')
    BY <1>1, <1>2 DEF TimesOK
  <1>4. CASE c.state # "done"
    <2>1. calls' = calls \ {c} /\ UNCHANGED <<dialog, sent, behind>>
      BY <1>4 DEF Screen!LandPdf
    <2>2. FieldsOK' /\ Screen!NothingHangs'
      BY <1>1, <1>2, <2>1 DEF FieldsOK, Screen!NothingHangs
    <2>3. ListExplained'
      <3>1. ~Renews(c, effect)
        BY <1>1, <1>4 DEF Renews
      <3>2. QED
        BY <1>1, <1>2, <1>4, <2>1, <3>1, TakenExplained
    <2>4. QED
      BY <1>1, <1>3, <2>1, <2>2, <2>3, Landed
  <1>5. CASE c.state = "done"
    <2>1. /\ dialog' = FALSE /\ behind' = (behind \/ (c.said /\ ~c.first))
          /\ c.said \in BOOLEAN /\ c.first \in BOOLEAN
      BY <1>1, <1>5 DEF Screen!LandPdf, ScreenInv, CallsOK, CallOK, CallIs
    <2>2. /\ behind' \in BOOLEAN /\ (behind => behind')
          /\ c.said /\ ~c.first => behind'
      BY <1>2, <2>1 DEF FieldsOK
    <2>3. CASE c.first /\ searched # Null
      <3>1. Screen!SendAfter(c, "refresh")
        BY <1>5, <2>3 DEF Screen!LandPdf
      <3>2. PICK d : /\ CallOK(d)' /\ sent' = sent + 1 /\ calls' = (calls \ {c}) \cup {d}
                     /\ d.id = sent + 1 /\ d.kind = "refresh"
        BY <1>1, <2>3, <3>1, AfterIs
      <3>3. ListExplained'
        <4>1. d \in calls' /\ Renews(d, effect')
          BY <3>2 DEF Renews
        <4>2. QED
          BY <4>1, AnsweredRenews
      <3>4. FieldsOK'
        <4>1. dialog' = FALSE /\ behind' \in BOOLEAN /\ sent' = sent + 1
          BY <2>1, <2>2, <3>2
        <4>2. effect' <= sent'
          BY <1>1, <1>2, <4>1 DEF FieldsOK, TimesOK
        <4>3. QED
          BY <1>1, <1>2, <4>1, <4>2 DEF FieldsOK
      <3>5. Screen!NothingHangs'
        BY <1>1, <1>2, <3>2 DEF Screen!NothingHangs
      <3>6. calls' \subseteq calls \cup {d}
        BY <3>2
      <3>7. QED
        BY <1>1, <1>3, <3>2, <3>3, <3>4, <3>5, <3>6, Landed
    <2>4. CASE ~(c.first /\ searched # Null)
      <3>1. calls' = calls \ {c} /\ UNCHANGED sent
        BY <1>5, <2>4 DEF Screen!LandPdf
      <3>2. FieldsOK' /\ Screen!NothingHangs'
        BY <1>1, <1>2, <2>1, <2>2, <3>1 DEF FieldsOK, Screen!NothingHangs
      <3>3. ListExplained'
        <4>1. CASE behind'
          BY <4>1 DEF ListExplained
        <4>2. CASE searched = Null
          BY <1>1, <1>2, <4>2 DEF FieldsOK, ListExplained
        <4>3. CASE ~behind' /\ searched # Null
          <5>1. ~Renews(c, effect)
            BY <1>1, <2>2, <2>4, <4>3 DEF Renews
          <5>2. QED
            BY <1>1, <1>2, <2>2, <3>1, <5>1, TakenExplained
        <4>4. QED
          BY <4>1, <4>2, <4>3
      <3>4. QED
        BY <1>1, <1>3, <3>1, <3>2, <3>3, Landed
    <2>5. QED
      BY <2>3, <2>4
  <1>6. QED
    BY <1>4, <1>5

\* The answer of a change that crosses nothing moves the row of the period, and
\* no other.
LEMMA RowsMove ==
    ASSUME NEW D, NEW d \in D, NEW rows, NEW found, Explained(D, rows, found),
           \A g, h \in rows : g.id = h.id => g = h,
           \A f, h \in found : \A t \in DOMAIN f.settlements :
              t \in DOMAIN h.settlements => f = h,
           NEW g0 \in rows, g0.id = d.sheet, d.of \in DOMAIN g0.settlements
    PROVE  {IF g.id = d.sheet THEN Screen!WithPeriodChanged(g, d.of, d.said) ELSE g : g \in rows}
             = {Moved(g, d.of, d.said) : g \in rows}
  <1>1. ASSUME NEW g \in rows
        PROVE  d.of \in DOMAIN g.settlements <=> g.id = d.sheet
    <2>1. PICK f \in found : Matches(D, g, f)
      BY DEF Explained
    <2>2. PICK f0 \in found : Matches(D, g0, f0)
      BY DEF Explained
    <2>3. /\ DOMAIN g.settlements = DOMAIN f.settlements /\ g.id = f.id
          /\ DOMAIN g0.settlements = DOMAIN f0.settlements /\ g0.id = f0.id
      BY <2>1, <2>2 DEF Matches
    <2>4. ASSUME d.of \in DOMAIN g.settlements
          PROVE  g.id = d.sheet
      <3>1. f = f0
        BY <2>3, <2>4
      <3>2. QED
        BY <2>3, <3>1
    <2>5. ASSUME g.id = d.sheet
          PROVE  d.of \in DOMAIN g.settlements
      BY <2>5
    <2>6. QED
      BY <2>4, <2>5
  <1>2. QED
    BY <1>1 DEF Moved

LEMMA LandStatusKeeps ==
    ASSUME Screen!SettlementsScreenAssumption, ScreenInv, NEW c \in calls,
           Screen!LandStatus(c)
    PROVE  ScreenInv'
  <1>1. /\ UNCHANGED <<stored, counter, running, clock, readAt, wroteAt, otherAt, reverted>>
        /\ UNCHANGED <<listState, searched, selected, sheetId, dialog, generating,
                       slompsim, effect, sent>>
        /\ c.kind = "status" /\ calls' = calls \ {c} /\ saving' = Null
    BY DEF Screen!LandStatus, Screen!table, Screen!pdf, Screen!panel, Screen!bounds
  <1>2. FieldsOK /\ TimesOK /\ CallsOK /\ Screen!NothingHangs /\ ListExplained
        /\ ListIs(stored, reverted, results)
    BY DEF ScreenInv
  <1>3. readAt' \in Nat /\ readAt' <= clock
    BY <1>1, <1>2 DEF TimesOK
  <1>4. CallIs(c) /\ c.kind \notin Screen!Searches /\ c.of \in Ids /\ c.to \in Screen!Statuses
    BY <1>1, <1>2 DEF CallsOK, CallOK, CallIs, Screen!Searches
  <1>5. CASE c.state # "done"
    <2>1. /\ UNCHANGED <<results, editing, behind>>
          /\ failed' \in {[row |-> c.of, to |-> c.to], Null}
      BY <1>5 DEF Screen!LandStatus
    <2>2. FieldsOK' /\ Screen!NothingHangs'
      BY <1>1, <1>2, <1>4, <2>1 DEF FieldsOK, Screen!NothingHangs
    <2>3. ListExplained' /\ ListIs(stored', reverted', results')
      <3>1. ~Renews(c, effect)
        BY <1>1 DEF Renews
      <3>2. ListExplained'
        BY <1>1, <1>2, <1>5, <2>1, <3>1, TakenExplained
      <3>3. QED
        BY <1>1, <1>2, <2>1, <3>2
    <2>4. QED
      BY <1>1, <1>3, <2>2, <2>3, Landed
  <1>6. CASE c.state = "done"
    <2>1. /\ editing' = Null /\ UNCHANGED failed
          /\ results' = {IF g.id = c.sheet THEN Screen!WithPeriodChanged(g, c.of, c.said)
                                           ELSE g : g \in results}
          /\ behind' = (behind \/ Screen!Crosses(c))
      BY <1>6 DEF Screen!LandStatus, Screen!ChangedIn
    <2>2. /\ behind' \in BOOLEAN
          /\ ~behind' => ~behind /\ ~Screen!Crosses(c)
      <3>1. Screen!Crosses(c) \in BOOLEAN
        BY DEF Screen!Crosses
      <3>2. QED
        BY <1>2, <2>1, <3>1 DEF FieldsOK
    <2>3. FieldsOK' /\ Screen!NothingHangs'
      BY <1>1, <1>2, <2>1, <2>2 DEF FieldsOK, Screen!NothingHangs
    <2>4. ListIs(stored', reverted', results')
      <3>1. \A g \in results : RowIs(g) /\ (g.res # Null => stored[g.id].res # Null \/ reverted)
        BY <1>2 DEF ListIs
      <3>2. ASSUME NEW g \in results
            PROVE  LET h == Screen!WithPeriodChanged(g, c.of, c.said)
                   IN  RowIs(h) /\ h.id = g.id /\ h.res = g.res
        <4>1. PICK s, said : s = c.of /\ said = c.said
          OBVIOUS
        <4>2. RowIs(g)
          BY <3>1
        <4>3. LET h == Screen!WithPeriodChanged(g, s, said)
              IN  RowIs(h) /\ h.id = g.id /\ h.res = g.res
          BY <4>2, WithKeepsTheRow
        <4>4. QED
          BY <4>1, <4>3
      <3>3. \A g, h \in results : g.id = h.id => g = h
        BY <1>2 DEF ListIs
      <3>4. \A h \in results' : \E g \in results :
               /\ RowIs(h) /\ h.id = g.id /\ h.res = g.res
               /\ h = IF g.id = c.sheet THEN Screen!WithPeriodChanged(g, c.of, c.said) ELSE g
        BY <2>1, <3>1, <3>2
      <3>5. QED
        BY <1>1, <3>1, <3>3, <3>4 DEF ListIs
    <2>5. ASSUME listState = "results", ~behind', otherAt < readAt
          PROVE  \/ \E e \in calls' : Renews(e, effect')
                 \/ Explained(Unshown(calls', readAt), results', FoundIn(stored, searched))
      <3> DEFINE D == Unshown(calls, readAt)
                 found == FoundIn(stored, searched)
      <3>1. CASE \E e \in calls : Renews(e, effect)
        <4>1. ~Renews(c, effect)
          BY <1>1 DEF Renews
        <4>2. QED
          BY <1>1, <3>1, <4>1
      <3>2. CASE Explained(D, results, found)
        <4>1. ~Screen!Crosses(c)
          BY <2>2, <2>5
        <4>2. c \in D /\ \A e \in D : e.at \in Int /\ c.at <= e.at
          <5>1. ASSUME NEW e \in calls, e.kind = "status", e.state = "done"
                PROVE  e.at \in Nat \ {0}
            BY <1>2, <5>1 DEF CallsOK, CallOK, CallIs
          <5>2. c.at \in Nat \ {0}
            BY <1>1, <1>6, <5>1
          <5>3. readAt <= c.at
            BY <1>2, <4>1, <5>2 DEF Screen!Crosses, TimesOK
          <5>4. \A e \in calls : e.kind = "status" => ~(e.at \in 1 .. c.at - 1)
            BY <4>1 DEF Screen!Crosses
          <5>5. QED
            BY <1>1, <1>6, <5>1, <5>2, <5>3, <5>4 DEF Unshown
        <4>3. PICK g0 \in results : g0.id = c.sheet /\ c.of \in DOMAIN g0.settlements
          BY <4>1 DEF Screen!Crosses, Screen!Entry
        <4>4. Unshown(calls', readAt) = D \ {c}
          BY <1>1 DEF Unshown
        <4>5. /\ \A f \in found : RowIs(f)
              /\ \A f, h \in found : \A t \in DOMAIN f.settlements :
                    t \in DOMAIN h.settlements => f = h
          BY FoundIs DEF ListIs
        <4>6. /\ \A g \in results : RowIs(g)
              /\ \A g, h \in results : g.id = h.id => g = h
          BY <1>2 DEF ListIs
        <4> HIDE DEF D, found
        <4>7. results' = {Moved(g, c.of, c.said) : g \in results}
          BY <2>1, <3>2, <4>2, <4>3, <4>5, <4>6, RowsMove
        <4>8. ASSUME NEW g \in results, NEW f, Matches(D, g, f)
              PROVE  Matches(D \ {c}, Moved(g, c.of, c.said), f)
          BY <4>2, <4>6, <4>8, LandedMatches
        <4>9. PICK E : E = D \ {c}
          OBVIOUS
        <4>10. \A f \in found : \E g \in results' : Matches(E, g, f)
          <5>1. \A f \in found : \E g \in results : Matches(D, g, f)
            BY <3>2 DEF Explained
          <5>2. QED
            BY <4>7, <4>8, <4>9, <5>1
        <4>11. \A g \in results' : \E f \in found : Matches(E, g, f)
          <5>1. \A g \in results : \E f \in found : Matches(D, g, f)
            BY <3>2 DEF Explained
          <5>2. QED
            BY <4>7, <4>8, <4>9, <5>1
        <4>12. Explained(E, results', found)
          BY <4>10, <4>11 DEF Explained
        <4>13. QED
          BY <4>4, <4>9, <4>12 DEF found
      <3>3. QED
        BY <1>2, <2>2, <2>5, <3>1, <3>2 DEF ListExplained
    <2>6. ListExplained'
      BY <1>1, <2>5 DEF ListExplained
    <2>7. QED
      BY <1>1, <1>3, <2>3, <2>4, <2>6, Landed
  <1>7. QED
    BY <1>5, <1>6

-----------------------------------------------------------------------------
(* The screen *)

LEMMA ScreenInit ==
    ASSUME Screen!SettlementsScreenAssumption, Screen!Init
    PROVE  ScreenInv
  <1>1. TableOK
    <2>1. \A s \in Ids : stored[s] \in TableT
      BY DEF Screen!Init, TableT, Screen!Statuses
    <2>2. stored \in [Ids -> TableT]
      BY <2>1 DEF Screen!Init
    <2>3. QED
      BY <2>2 DEF Screen!Init, TableOK
  <1>2. FieldsOK
    <2>1. /\ searched = Null /\ listState = "idle" /\ selected = Null /\ sheetId = Null
          /\ editing = Null /\ saving = Null /\ failed = Null
          /\ dialog = FALSE /\ generating = FALSE /\ slompsim = FALSE /\ behind = FALSE
          /\ effect = 0 /\ sent = 0
      BY DEF Screen!Init
    <2>2. failed \in [row : Ids, to : Screen!Statuses] \cup {Null}
      BY <2>1
    <2>3. listState = "results" => searched # Null
      BY <2>1
    <2>4. effect \in Nat /\ effect <= sent
      BY <2>1
    <2>5. QED
      BY <2>1, <2>2, <2>3, <2>4 DEF FieldsOK
  <1>3. TimesOK /\ Screen!NothingHangs
    BY DEF Screen!Init, TimesOK, Screen!NothingHangs
  <1>4. ListIs(stored, reverted, results) /\ CallsOK /\ ListExplained
    BY DEF Screen!Init, ListIs, CallsOK, ListExplained
  <1>5. QED
    BY <1>1, <1>2, <1>3, <1>4 DEF ScreenInv

LEMMA HandleKeeps ==
    ASSUME Screen!SettlementsScreenAssumption, ScreenInv, NEW c \in calls, Screen!Handle(c)
    PROVE  ScreenInv'
  <1>1. TabWaits
    BY DEF Screen!Handle, TabWaits, Screen!list, Screen!sheet, Screen!pdf, Screen!panel,
       Screen!bounds
  <1>2. CASE Screen!HandleSearch(c)
    BY <1>1, <1>2, HandleSearchKeeps
  <1>3. CASE Screen!HandleStatus(c)
    BY <1>1, <1>3, HandleStatusKeeps
  <1>4. CASE Screen!HandlePdf(c)
    BY <1>1, <1>4, HandlePdfKeeps
  <1>5. CASE Screen!HandleConfirm(c)
    BY <1>1, <1>5, HandleConfirmKeeps
  <1>6. QED
    BY <1>2, <1>3, <1>4, <1>5 DEF Screen!Handle

LEMMA ScreenIdle ==
    ASSUME ScreenInv, UNCHANGED Screen!vars
    PROVE  ScreenInv'
  <1>1. UNCHANGED <<stored, counter, running, results, listState, searched, selected, sheetId,
                    editing, saving, failed, dialog, generating, slompsim, effect, calls, sent,
                    others, faults, clock, readAt, wroteAt, otherAt, behind, reverted>>
    BY DEF Screen!vars, Screen!table, Screen!list, Screen!sheet, Screen!pdf, Screen!panel,
       Screen!bounds, Screen!history
  <1>2. TabOnly
    BY <1>1 DEF TabOnly
  <1>3. FieldsOK' /\ Screen!NothingHangs'
    BY <1>1 DEF ScreenInv, FieldsOK, Screen!NothingHangs
  <1>4. QED
    BY <1>1, <1>2, <1>3, ClickKeeps

LEMMA ScreenStep ==
    ASSUME Screen!SettlementsScreenAssumption, ScreenInv, [Screen!Next]_Screen!vars
    PROVE  ScreenInv'
  <1>1. ASSUME NEW c \in calls,
               \/ Screen!Handle(c) \/ Screen!Lose(c)
               \/ Screen!LandSearch(c) \/ Screen!LandAgain(c) \/ Screen!LandConfirm(c)
               \/ Screen!LandStatus(c) \/ Screen!LandPdf(c)
        PROVE  ScreenInv'
    <2>1. CASE Screen!Handle(c)
      BY <2>1, HandleKeeps
    <2>2. CASE Screen!Lose(c)
      BY <2>2, LoseKeeps
    <2>3. CASE Screen!LandSearch(c)
      BY <2>3, LandSearchKeeps
    <2>4. CASE Screen!LandAgain(c)
      BY <2>4, LandAgainKeeps
    <2>5. CASE Screen!LandConfirm(c)
      BY <2>5, LandConfirmKeeps
    <2>6. CASE Screen!LandStatus(c)
      BY <2>6, LandStatusKeeps
    <2>7. CASE Screen!LandPdf(c)
      BY <2>7, LandPdfKeeps
    <2>8. QED
      BY <1>1, <2>1, <2>2, <2>3, <2>4, <2>5, <2>6, <2>7
  <1>2. ASSUME NEW criteria \in Criteria \cup {Null}, Screen!Search(criteria)
        PROVE  ScreenInv'
    BY <1>2, SearchKeeps
  <1>3. ASSUME NEW s \in Ids,
               \/ Screen!Import(s) \/ Screen!JobIssues(s)
               \/ \E to \in Screen!Statuses : Screen!OtherChanges(s, to) \/ Screen!Confirm(s, to)
        PROVE  ScreenInv'
    <2>1. CASE Screen!Import(s)
      BY <2>1, ImportKeeps
    <2>2. CASE Screen!JobIssues(s)
      BY <2>2, JobIssuesKeeps
    <2>3. ASSUME NEW to \in Screen!Statuses, Screen!OtherChanges(s, to)
          PROVE  ScreenInv'
      BY <2>3, OtherChangesKeeps
    <2>4. ASSUME NEW to \in Screen!Statuses, Screen!Confirm(s, to)
          PROVE  ScreenInv'
      BY <2>4, ConfirmKeeps
    <2>5. QED
      BY <1>3, <2>1, <2>2, <2>3, <2>4
  <1>4. CASE \/ Screen!CloseSheet \/ Screen!OpenSlompsim \/ Screen!CancelEdit
             \/ Screen!CancelDialog
             \/ \E g \in results : Screen!Open(g.id)
             \/ \E s \in Ids : Screen!Edit(s)
    BY <1>4, SheetKeeps
  <1>5. ASSUME NEW to \in Screen!Statuses, Screen!Save(to)
        PROVE  ScreenInv'
    BY <1>5, SaveKeeps
  <1>6. CASE Screen!SixtyDays
    BY <1>6, SixtyDaysKeeps
  <1>7. CASE Screen!JobEnds
    BY <1>7, JobEndsKeeps
  <1>8. CASE Screen!RetrySave
    BY <1>8, RetrySaveKeeps
  <1>9. CASE Screen!Generate
    BY <1>9, GenerateKeeps
  <1>10. CASE Screen!GenerateAsked
    BY <1>10, GenerateAskedKeeps
  <1>11. CASE UNCHANGED Screen!vars
    BY <1>11, ScreenIdle
  <1>12. ASSUME Screen!Next
         PROVE  ScreenInv'
    BY <1>12, <1>1, <1>2, <1>3, <1>4, <1>5, <1>6, <1>7, <1>8, <1>9, <1>10 DEF Screen!Next
  <1>13. QED
    BY <1>11, <1>12

\* The list that shows is the search's own, unless the tab knows it is behind.
LEMMA ScreenSays ==
    ASSUME Screen!SettlementsScreenAssumption, ScreenInv
    PROVE  Screen!ScreenIsTrue
  <1>1. Screen!ListIsTrue
    <2>1. SUFFICES ASSUME calls = {}, ~behind, otherAt < readAt, listState = "results"
                   PROVE  results = Screen!Found(searched)
      BY DEF Screen!ListIsTrue
    <2>2. Explained({}, results, FoundIn(stored, searched))
      <3>1. Unshown(calls, readAt) = {}
        BY <2>1 DEF Unshown
      <3>2. QED
        BY <2>1, <3>1 DEF ScreenInv, ListExplained
    <2>3. PICK found : found = FoundIn(stored, searched)
      OBVIOUS
    <2>4. \A g \in results : RowIs(g)
      BY DEF ScreenInv, ListIs
    <2>5. \A f \in found : RowIs(f)
      BY <2>3, FoundIs DEF ListIs
    <2>6. results = found
      BY <2>2, <2>3, <2>4, <2>5, NothingUnshown
    <2>7. QED
      BY <2>3, <2>6, SearchFinds
  <1>2. Screen!IssuedAfterAsking
    BY DEF ScreenInv, CallsOK, CallOK, CallKnows, Screen!IssuedAfterAsking
  <1>3. Screen!NothingHangs
    BY DEF ScreenInv
  <1>4. QED
    BY <1>1, <1>2, <1>3 DEF Screen!ScreenIsTrue

\* The screen Liquidaciones, for every table of settlements, any searches and any
\* number of requests in any order: with nothing on its way, no change of others
\* since it was read and none of its own missed, its list is what its search would
\* find, each row with its state and missing periods; a number is issued only after
\* the dialog asked; what waits has a request that ends it.
THEOREM SettlementsScreenIsTrue ==
    ASSUME Screen!SettlementsScreenAssumption
    PROVE  Screen!Spec => [](Screen!TypeOK /\ Screen!ScreenIsTrue)
  <1>1. Screen!Init => ScreenInv
    BY ScreenInit
  <1>2. ScreenInv /\ [Screen!Next]_Screen!vars => ScreenInv'
    BY ScreenStep
  <1>3. ScreenInv => Screen!TypeOK /\ Screen!ScreenIsTrue
    BY ScreenTyped, ScreenSays
  <1>4. QED
    BY <1>1, <1>2, <1>3, PTL DEF Screen!Spec
=============================================================================
