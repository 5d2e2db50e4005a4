---------------------------- MODULE Settlements ----------------------------
(***************************************************************************)
(* The settlements of one municipality: what the tax roll imports bring,   *)
(* the resolutions and payment orders that cover them, and their status.   *)
(*                                                                         *)
(* Every operation reads the settlements first and writes them later, in a *)
(* transaction at READ COMMITTED whose guards repeat some of what was read. *)
(* Each request is therefore a read, which becomes its plan, and a commit. *)
(* The assistant's confirmation locks its rows before it reads them and the *)
(* EN_FIRME sweep is one UPDATE, so these two are one step each.           *)
(*                                                                         *)
(* Dates are reduced to what the rules ask of them: whether a resolution is *)
(* 60 days old and a payment order 5 years.  Each settlement's documents   *)
(* age on their own.  The consecutive numbers are in module CounterLock.   *)
(***************************************************************************)
EXTENDS Integers, FiniteSets

CONSTANTS
    Rows,        \* settlement ids; bounds the rows ever created
    Periods,     \* a property and a year
    PropertyOf,  \* the property of each period
    Risk,        \* the periods at risk of prescription (isPrescriptionRisk)
    Requests,    \* requests that may be in flight at the same time
    Settled,     \* "PAGADA" and "ACUERDO_DE_PAGO": no rule tells them apart
    Null

ASSUME SettlementsAssumption ==
    /\ Risk \subseteq Periods
    /\ Settled \cap {"VIGENTE", "EN_FIRME", "PRESCRITA"} = {}
    /\ Null \notin Periods

VARIABLES
    settlement,  \* the rows of the table
    audited,     \* toStatus of each settlement's last event; VIGENTE before any
    job,         \* the active bulk job and the settlements it linked
    tx           \* what each request is doing

vars == <<settlement, audited, job, tx>>

-----------------------------------------------------------------------------
(* Types *)

Status == {"VIGENTE", "EN_FIRME", "PRESCRITA"} \cup Settled

\* A null period is a row that does not exist yet.  A resolution is "firm"
\* 60 days after it was issued and an order is "old" after 5 years.
Settlement == [period : Periods \cup {Null}, status : Status,
               replaced : BOOLEAN, missing : BOOLEAN,
               resolution : {"none", "recent", "firm"}, order : {"none", "recent", "old"}]

Job == [kind : {"none", "resolution", "order"}, rows : SUBSET Rows]

Transaction ==
    [op : {"none"}] \cup
    [op : {"change"}, row : Rows, from : Status, to : Status] \cup
    [op : {"resolution"}, bulk : BOOLEAN, rows : SUBSET Rows] \cup
    [op : {"order"}, bulk : BOOLEAN, rows : (SUBSET Rows) \ {{}}] \cup
    [op : {"import"}, at : {"started"}, brought : SUBSET Periods, confirmed : BOOLEAN] \cup
    [op : {"import"}, at : {"read"}, create : SUBSET Periods,
     supersede : SUBSET Rows, missing : SUBSET Rows]

TypeOK ==
    /\ settlement \in [Rows -> Settlement]
    /\ audited \in [Rows -> Status]
    /\ job \in Job
    /\ tx \in [Requests -> Transaction]

-----------------------------------------------------------------------------
(* Helpers *)

NoTransaction == [op |-> "none"]

NoJob == [kind |-> "none", rows |-> {}]

Existing == {r \in Rows : settlement[r].period # Null}

Current == {r \in Existing : ~settlement[r].replaced}

\* Current settlements that no resolution covers yet.
Pending == {r \in Current : settlement[r].resolution = "none"}

SameGroup(p, q) == PropertyOf[p] = PropertyOf[q] /\ (p \in Risk <=> q \in Risk)

\* The rows a resolution for row r would cover.
GroupOf(r) == {q \in Pending : SameGroup(settlement[q].period, settlement[r].period)}

\* The state a settlement sits in when nothing else applies to it.
BaseStatus(r) == IF settlement[r].resolution = "firm" THEN "EN_FIRME" ELSE "VIGENTE"

\* What an Administrator may set a settlement to.
AllowedStatuses(r) ==
    {settlement[r].status, BaseStatus(r)} \cup Settled \cup
    (IF settlement[r].order # "recent" THEN {"PRESCRITA"} ELSE {})

\* A mutant of Eligible that leaves the 60 days to the hourly sweep.
EligibleBeforeFirm(r) ==
    /\ r \in Current
    /\ settlement[r].order = "none"
    /\ settlement[r].resolution # "none"
    /\ settlement[r].status \in {"VIGENTE", "EN_FIRME"}

\* evaluatePaymentOrderEligibility.
Eligible(r) ==
    /\ r \in Current
    /\ settlement[r].order = "none"
    /\ settlement[r].resolution = "firm"
    /\ settlement[r].status \in {"VIGENTE", "EN_FIRME"}

\* The rows of R with f changed to v.
Resolved(R, v) == [r \in Rows |-> IF r \in R THEN [settlement[r] EXCEPT !.resolution = v]
                                             ELSE settlement[r]]

Ordered(R, v) == [r \in Rows |-> IF r \in R THEN [settlement[r] EXCEPT !.order = v]
                                            ELSE settlement[r]]

Plan(q, t) == tx[q] = NoTransaction /\ tx' = [tx EXCEPT ![q] = t]

End(q) == tx' = [tx EXCEPT ![q] = NoTransaction]

-----------------------------------------------------------------------------
(* Changes of status *)

\* The read of changeStatus: a change that is allowed and changes something.
ChangeRead(q, r, to) ==
    /\ r \in Current
    /\ to \in AllowedStatuses(r) \ {settlement[r].status}
    /\ Plan(q, [op |-> "change", row |-> r, from |-> settlement[r].status, to |-> to])
    /\ UNCHANGED <<settlement, audited, job>>

\* A mutant of ChangeCommit without the guard on the status.
ChangeCommitUnchecked(q) ==
    LET r == tx[q].row
    IN  /\ tx[q].op = "change"
        /\ r \in Current
        /\ settlement' = [settlement EXCEPT ![r].status = tx[q].to]
        /\ audited' = [audited EXCEPT ![r] = tx[q].to]
        /\ End(q)
        /\ UNCHANGED job

\* The status and its event, if the settlement is still current and has the
\* status that was read.
ChangeCommit(q) ==
    LET r == tx[q].row
    IN  /\ tx[q].op = "change"
        /\ r \in Current /\ settlement[r].status = tx[q].from
        /\ settlement' = [settlement EXCEPT ![r].status = tx[q].to]
        /\ audited' = [audited EXCEPT ![r] = tx[q].to]
        /\ End(q)
        /\ UNCHANGED job

\* The assistant's confirmed proposal: all of its changes or none, and no
\* event for a settlement that has the state already.
Confirm(R, to) ==
    /\ R \subseteq Current /\ R # {}
    /\ \A r \in R : to[r] \in AllowedStatuses(r)
    /\ settlement' = [r \in Rows |-> IF r \in R THEN [settlement[r] EXCEPT !.status = to[r]]
                                               ELSE settlement[r]]
    /\ audited' = [r \in Rows |-> IF r \in R /\ to[r] # settlement[r].status
                                  THEN to[r] ELSE audited[r]]
    /\ UNCHANGED <<job, tx>>

Firm == {r \in Current : settlement[r].status = "VIGENTE" /\ settlement[r].resolution = "firm"}

\* A mutant of MarkEnFirme that leaves out what is in a payment order.
MarkEnFirmeWithoutOrder ==
    LET firm == {r \in Firm : settlement[r].order = "none"}
    IN  /\ firm # {}
        /\ settlement' = [r \in Rows |-> IF r \in firm
                                         THEN [settlement[r] EXCEPT !.status = "EN_FIRME"]
                                         ELSE settlement[r]]
        /\ UNCHANGED <<audited, job, tx>>

\* The hourly sweep.  It records no event.
MarkEnFirme ==
    /\ Firm # {}
    /\ settlement' = [r \in Rows |-> IF r \in Firm
                                     THEN [settlement[r] EXCEPT !.status = "EN_FIRME"]
                                     ELSE settlement[r]]
    /\ UNCHANGED <<audited, job, tx>>

-----------------------------------------------------------------------------
(* Resolutions and payment orders *)

\* The reads of the individual generation: the pending group of a settlement.
PlanResolution(q, r) ==
    /\ r \in Pending
    /\ Plan(q, [op |-> "resolution", bulk |-> FALSE, rows |-> GroupOf(r)])
    /\ UNCHANGED <<settlement, audited, job>>

\* The reads of a bulk job of resolutions of one kind: every pending group of
\* that kind, or none when there are only resolutions to render again.
PlanResolutions(q, risk) ==
    LET pending == {r \in Pending : settlement[r].period \in Risk <=> risk}
    IN  /\ job = NoJob
        /\ \/ pending # {}
           \/ \E r \in Current : settlement[r].resolution # "none"
                                 /\ (settlement[r].period \in Risk <=> risk)
        /\ Plan(q, [op |-> "resolution", bulk |-> TRUE, rows |-> pending])
        /\ UNCHANGED <<settlement, audited, job>>

\* Both transactions link the group if no other resolution did, while no bulk
\* job is active; only that of the bulk job asks that it is current still.
CommitResolution(q) ==
    LET R == tx[q].rows
    IN  /\ tx[q].op = "resolution" /\ job = NoJob
        /\ \A r \in R : settlement[r].resolution = "none"
        /\ tx[q].bulk => R \subseteq Current
        /\ settlement' = Resolved(R, "recent")
        /\ job' = IF tx[q].bulk THEN [kind |-> "resolution", rows |-> R] ELSE job
        /\ End(q)
        /\ UNCHANGED audited

\* The reads of the payment orders' generation, one by one or as a bulk job:
\* the settlements asked for that are eligible.
PlanOrder(q, bulk, R) ==
    /\ R # {} /\ \A r \in R : Eligible(r)
    /\ bulk => job = NoJob
    /\ Plan(q, [op |-> "order", bulk |-> bulk, rows |-> R])
    /\ UNCHANGED <<settlement, audited, job>>

\* A mutant of CommitOrder whose UPDATE does not look at replacedAt.
CommitOrderReplaced(q) ==
    LET R == tx[q].rows
    IN  /\ tx[q].op = "order" /\ job = NoJob
        /\ \A r \in R : settlement[r].order = "none"
        /\ settlement' = Ordered(R, "recent")
        /\ job' = IF tx[q].bulk THEN [kind |-> "order", rows |-> R] ELSE job
        /\ End(q)
        /\ UNCHANGED audited

\* issuePaymentOrders, in both transactions, while no bulk job is active.
CommitOrder(q) ==
    LET R == tx[q].rows
    IN  /\ tx[q].op = "order" /\ job = NoJob
        /\ \A r \in R : settlement[r].order = "none"
        /\ R \subseteq Current
        /\ settlement' = Ordered(R, "recent")
        /\ job' = IF tx[q].bulk THEN [kind |-> "order", rows |-> R] ELSE job
        /\ End(q)
        /\ UNCHANGED audited

FinishJob ==
    /\ job # NoJob
    /\ job' = NoJob
    /\ UNCHANGED <<settlement, audited, tx>>

\* A failed job takes its documents back.
RevertJob ==
    /\ job # NoJob
    /\ settlement' = IF job.kind = "resolution" THEN Resolved(job.rows, "none")
                                                ELSE Ordered(job.rows, "none")
    /\ job' = NoJob
    /\ UNCHANGED <<audited, tx>>

-----------------------------------------------------------------------------
(* Tax roll imports *)

\* One import of the municipality at a time (advisory lock), and not while it
\* has an active job.  The bound: rows left for what the file brings.
ImportStart(q, brought, confirmed) ==
    /\ \A p \in Requests : tx[p].op # "import"
    /\ job = NoJob
    /\ brought # {} /\ Cardinality(brought) <= Cardinality(Rows \ Existing)
    /\ Plan(q, [op |-> "import", at |-> "started", brought |-> brought, confirmed |-> confirmed])
    /\ UNCHANGED <<settlement, audited, job>>

\* A mutant of the operator below: what is in firm is superseded as well.
SupersededOrLocked(brought) == {r \in Current : settlement[r].period \in brought}

\* The current settlements that the file replaces: a final one is skipped.
Superseded(brought) ==
    {r \in Current : settlement[r].period \in brought /\ settlement[r].status # "EN_FIRME"}

\* The import reads the current settlements.  With conflicts that nobody
\* confirmed it ends without writing any.
ImportRead(q) ==
    LET brought    == tx[q].brought
        locked     == {settlement[r].period :
                          r \in {c \in Current : settlement[c].status = "EN_FIRME"}}
        properties == {PropertyOf[p] : p \in brought}
    IN  /\ tx[q].op = "import" /\ tx[q].at = "started"
        /\ tx' = [tx EXCEPT ![q] =
              IF ~tx[q].confirmed /\ Superseded(brought) # {} THEN NoTransaction
              ELSE [op |-> "import", at |-> "read",
                    create |-> brought \ locked,
                    supersede |-> Superseded(brought),
                    missing |-> {r \in Current : /\ PropertyOf[settlement[r].period] \in properties
                                                 /\ settlement[r].period \notin brought
                                                 /\ ~settlement[r].missing}]]
        /\ UNCHANGED <<settlement, audited, job>>

\* Its writes, by id, and the new settlements.  The partial unique index allows
\* one current settlement per period.
ImportCommit(q) ==
    /\ tx[q].op = "import" /\ tx[q].at = "read"
    /\ \A r \in Current \ tx[q].supersede : settlement[r].period \notin tx[q].create
    /\ \E new \in [tx[q].create -> Rows \ Existing] :
          /\ \A p, o \in tx[q].create : new[p] = new[o] => p = o
          /\ settlement' = [r \in Rows |->
                IF \E p \in tx[q].create : new[p] = r
                THEN [settlement[r] EXCEPT !.period = CHOOSE p \in tx[q].create : new[p] = r]
                ELSE [settlement[r] EXCEPT !.replaced = @ \/ r \in tx[q].supersede,
                                           !.missing = @ \/ r \in tx[q].missing]]
    /\ End(q)
    /\ UNCHANGED <<audited, job>>

-----------------------------------------------------------------------------
(* The other ways a request ends, and the passing of time *)

\* A guard that does not hold, a failed statement or a stop of the backend:
\* the transaction rolls back.
Abort(q) ==
    /\ tx[q] # NoTransaction
    /\ End(q)
    /\ UNCHANGED <<settlement, audited, job>>

\* 60 days after the resolution was issued: long after its job ended.
SixtyDays(r) ==
    /\ settlement[r].resolution = "recent"
    /\ ~(job.kind = "resolution" /\ r \in job.rows)
    /\ settlement' = Resolved({r}, "firm")
    /\ UNCHANGED <<audited, job, tx>>

\* 5 years after the payment order was issued.
FiveYears(r) ==
    /\ settlement[r].order = "recent"
    /\ ~(job.kind = "order" /\ r \in job.rows)
    /\ settlement' = Ordered({r}, "old")
    /\ UNCHANGED <<audited, job, tx>>

Init ==
    /\ settlement = [r \in Rows |-> [period |-> Null, status |-> "VIGENTE",
                                     replaced |-> FALSE, missing |-> FALSE,
                                     resolution |-> "none", order |-> "none"]]
    /\ audited = [r \in Rows |-> "VIGENTE"]
    /\ job = NoJob
    /\ tx = [q \in Requests |-> NoTransaction]

Next ==
    \/ \E q \in Requests, r \in Rows, to \in Status : ChangeRead(q, r, to)
    \/ \E q \in Requests : ChangeCommit(q)
    \/ \E R \in SUBSET Rows : \E to \in [R -> Status] : Confirm(R, to)
    \/ MarkEnFirme
    \/ \E q \in Requests, r \in Rows : PlanResolution(q, r)
    \/ \E q \in Requests, risk \in BOOLEAN : PlanResolutions(q, risk)
    \/ \E q \in Requests : CommitResolution(q)
    \/ \E q \in Requests, bulk \in BOOLEAN, R \in SUBSET Rows : PlanOrder(q, bulk, R)
    \/ \E q \in Requests : CommitOrder(q)
    \/ FinishJob
    \/ RevertJob
    \/ \E q \in Requests, brought \in SUBSET Periods, confirmed \in BOOLEAN :
          ImportStart(q, brought, confirmed)
    \/ \E q \in Requests : ImportRead(q)
    \/ \E q \in Requests : ImportCommit(q)
    \/ \E q \in Requests : Abort(q)
    \/ \E r \in Rows : SixtyDays(r) \/ FiveYears(r)

Spec == Init /\ [][Next]_vars

\* The sweep runs every hour.  Nothing else has to happen.
Fairness == WF_vars(MarkEnFirme)

FairSpec == Spec /\ Fairness

-----------------------------------------------------------------------------
(* Properties *)

\* A period that was ever imported has exactly one current settlement, however
\* imports interleave with everything else: "a confirmed replacement never
\* leaves a period without its current settlement" (tax-roll.service.ts).
OneCurrentEach ==
    \A r \in Existing :
        Cardinality({c \in Current : settlement[c].period = settlement[r].period}) = 1

\* What was built on a resolution that became final stands: no settlement is
\* EN_FIRME or in a payment order without a resolution 60 days old.
FirmStands ==
    \A r \in Rows :
        settlement[r].status = "EN_FIRME" \/ settlement[r].order # "none" =>
            settlement[r].resolution = "firm"

\* "EN_FIRME never returns to VIGENTE" (settlement-status-rules.ts), not even
\* by a change checked before the settlement became EN_FIRME.
FirmNeverBack ==
    [][\A r \in Rows : settlement[r].status = "EN_FIRME" =>
          settlement'[r].status # "VIGENTE"]_vars

\* A replaced settlement is history: a request that read it before keeps it
\* from neither staying replaced nor its status, and gives it no payment order.
ReplacedIsHistory ==
    [][\A r \in Rows : settlement[r].replaced =>
          /\ settlement'[r].replaced
          /\ settlement'[r].status = settlement[r].status
          /\ settlement[r].order = "none" => settlement'[r].order = "none"]_vars

\* What was decided stands: both of the above.
DecidedStands == FirmNeverBack /\ ReplacedIsHistory

\* What a settlement can be after its last event: what the event says, or
\* EN_FIRME by the sweep.
LeftBy(r) == {audited[r]} \cup (IF audited[r] = "VIGENTE" THEN {"EN_FIRME"} ELSE {})

\* The audit trail has no holes: a settlement's status is always one its last
\* event left it in, and the event of a change starts from such a status too.
AuditTrail ==
    [][/\ \A r \in Rows : settlement'[r].status \in LeftBy(r)'
       /\ \A q \in Requests :
             tx[q].op = "change" /\ tx'[q].op = "none" /\ audited' # audited =>
                 tx[q].from \in LeftBy(tx[q].row)]_vars

\* A settlement does not stay VIGENTE for ever once its resolution is 60 days
\* old.
FirmEventually ==
    \A r \in Rows : r \in Firm ~> r \notin Firm

-----------------------------------------------------------------------------
(* The inductive invariant of the proofs *)

\* What a plan was checked against still holds: the settlements of a payment
\* order, or of a change to EN_FIRME, have a resolution 60 days old, and no
\* change leads from EN_FIRME to VIGENTE.
PlansStand ==
    \A q \in Requests :
        /\ tx[q].op = "order" => \A r \in tx[q].rows : settlement[r].resolution = "firm"
        /\ tx[q].op = "change" =>
              /\ tx[q].to = "EN_FIRME" => settlement[tx[q].row].resolution = "firm"
              /\ tx[q].from = "EN_FIRME" => tx[q].to # "VIGENTE"

\* What a revert would take back is less than 60 days old.
JobIsRecent ==
    job.kind = "resolution" => \A r \in job.rows : settlement[r].resolution = "recent"

\* The status of a settlement is one that its last event left it in.
Audited == \A r \in Rows : settlement[r].status \in LeftBy(r)

\* OneCurrentEach without cardinalities, and no row is replaced before it exists.
CurrentUnique ==
    /\ \A r \in Existing : \E c \in Current : settlement[c].period = settlement[r].period
    /\ \A c, d \in Current : settlement[c].period = settlement[d].period => c = d
    /\ \A r \in Rows \ Existing : ~settlement[r].replaced

\* One import at a time, and what it read is still what its file replaces.
ImportStands ==
    /\ \A p, q \in Requests : tx[p].op = "import" /\ tx[q].op = "import" => p = q
    /\ \A q \in Requests : tx[q].op = "import" /\ tx[q].at = "read" =>
          tx[q].supersede = {r \in Current : settlement[r].period \in tx[q].create}

\* The inductive invariant: what was read and is about to be written, together
\* with the properties it keeps.
IInv ==
    /\ TypeOK /\ FirmStands /\ PlansStand /\ JobIsRecent
    /\ Audited /\ CurrentUnique /\ ImportStands

-----------------------------------------------------------------------------
(* What the comments say and the code does not keep. *)

\* "A final liquidation is never replaced from a tax roll" (persist-tax-roll.ts).
FinalNeverReplaced ==
    [][\A r \in Current : settlement[r].status = "EN_FIRME" => ~settlement'[r].replaced]_vars
=============================================================================
