---------------------------- MODULE CounterLock ----------------------------
(***************************************************************************)
(* The consecutive numbers of one municipality's documents.                *)
(*                                                                         *)
(* Three kinds of transaction take numbers from a counter row or give them *)
(* back: the individual generation of the panel (a resolution or a payment *)
(* order), the creation of a bulk job, which takes a whole range, and the  *)
(* revert of a bulk job, which gives its range back.  All of them start by *)
(* locking the counter row of their year and kind (lockCounter).  Postgres *)
(* runs them at READ COMMITTED, so each step below is one statement, or a  *)
(* run of statements no other transaction can tell apart, and the writes   *)
(* of a transaction become visible when it commits.                        *)
(*                                                                         *)
(* A group is the unit one document covers: the pending periods of one     *)
(* property and kind.  Which periods those are is left out.                *)
(***************************************************************************)
EXTENDS Integers, FiniteSets

CONSTANTS
    Requests,   \* transactions that may be in flight at the same time
    Jobs,       \* bulk jobs, each created at most once (pdf_jobs.id)
    Counters,   \* counter rows: a kind of document and a year
    Kinds,      \* "resolution" and "paymentOrder", the two link columns
    KindOf,     \* the kind of each counter row
    Groups,     \* groups of settlements that one document covers
    Null

ASSUME CounterLockAssumption ==
    /\ KindOf \in [Counters -> Kinds]
    /\ IsFiniteSet(Groups)
    /\ Null \notin Requests
    /\ Null \notin Jobs
    /\ Null \notin Counters
    /\ Null \notin Counters \X Nat

VARIABLES
    lastSequence,  \* the committed value of each counter row
    docs,          \* committed resolutions and payment orders
    link,          \* settlements.resolutionId / paymentOrderId of each group
    job,           \* committed pdf_jobs rows
    counterLock,   \* the transaction holding each counter row, or Null
    jobLock,       \* the transaction holding each job row, or Null
    tx             \* what each request is doing

vars == <<lastSequence, docs, link, job, counterLock, jobLock, tx>>

-----------------------------------------------------------------------------
(* Types *)

\* A resolution or payment order: its number, and the bulk job that issued
\* it (Null when the panel issued it one by one).
Document == [counter : Counters, sequence : Nat, job : Jobs \cup {Null}]

Number == Counters \X Nat

\* firstSequence = 0 stands for the null range of a job that only re-renders.
JobRow == [status : {"none", "active", "done", "failed"},
           counter : Counters \cup {Null}, firstSequence : Nat, lastSequence : Nat]

Transaction ==
    [op : {"none", "issue", "reserve", "revert"},
     at : {"idle", "planned", "counterLocked", "checked", "jobLocked"},
     counter : Counters \cup {Null}, job : Jobs \cup {Null}, plan : SUBSET Groups]

TypeOK ==
    /\ lastSequence \in [Counters -> Nat]
    /\ docs \in SUBSET Document
    /\ link \in [Kinds -> [Groups -> Number \cup {Null}]]
    /\ job \in [Jobs -> JobRow]
    /\ counterLock \in [Counters -> Requests \cup {Null}]
    /\ jobLock \in [Jobs -> Requests \cup {Null}]
    /\ tx \in [Requests -> Transaction]

-----------------------------------------------------------------------------
(* Helpers *)

ActiveJobs == {j \in Jobs : job[j].status = "active"}

HasRange(j) == job[j].firstSequence # 0

Unlinked(kind) == {g \in Groups : link[kind][g] = Null}

TakenIn(c) == {d.sequence : d \in {e \in docs : e.counter = c}}

\* A mutant of CounterAfterRevert: a wrong test.
CounterAfterRevertNever(counter, first, last) ==
    IF counter < last THEN first - 1 ELSE counter

\* The value a counter goes back to when a failed job returns its range, or
\* the counter as it is when numbers were taken after the job's.
CounterAfterRevert(counter, first, last) ==
    IF counter = last THEN first - 1 ELSE counter

\* pdf_jobs_one_active: the partial unique index over active jobs, the
\* database's own word against a second one.
ActiveJobIndexFree == ActiveJobs = {}

\* A mutant of Unlink: the groups stay linked.
UnlinkNothing(numbers) == link' = link

\* settlements.updateMany of a revert: the groups of these numbers are pending again.
Unlink(numbers) ==
    link' = [k \in Kinds |-> [g \in Groups |->
                IF link[k][g] \in numbers THEN Null ELSE link[k][g]]]

NoTransaction ==
    [op |-> "none", at |-> "idle", counter |-> Null, job |-> Null, plan |-> {}]

\* The end of a transaction: the request is idle and its row locks are free.
Release(r) ==
    /\ tx' = [tx EXCEPT ![r] = NoTransaction]
    /\ counterLock' = [c \in Counters |->
                          IF counterLock[c] = r THEN Null ELSE counterLock[c]]
    /\ jobLock' = [j \in Jobs |->
                      IF jobLock[j] = r THEN Null ELSE jobLock[j]]

\* The documents of the groups of P, one each, with the next numbers of c,
\* unless another request linked one of the groups meanwhile or a number is in
\* use (unique constraint).  The owner is the bulk job, or Null.
IssueDocuments(c, P, owner) ==
    LET first == lastSequence[c] + 1
        last  == lastSequence[c] + Cardinality(P)
    IN  /\ P \subseteq Unlinked(KindOf[c])
        /\ (first..last) \cap TakenIn(c) = {}
        /\ lastSequence' = [lastSequence EXCEPT ![c] = last]
        /\ docs' = docs \cup {[counter |-> c, sequence |-> n, job |-> owner] : n \in first..last}
        /\ \E number \in [P -> first..last] :
              /\ \A g, h \in P : number[g] = number[h] => g = h
              /\ link' = [link EXCEPT ![KindOf[c]] =
                             [g \in Groups |-> IF g \in P THEN <<c, number[g]>> ELSE @[g]]]

-----------------------------------------------------------------------------
(* Individual generation *)

\* The panel's request reads the groups before its transaction starts: the
\* group of one liquidation, or those of the chosen payment orders.
PlanIssue(r, c, P) ==
    /\ tx[r].at = "idle"
    /\ P \subseteq Unlinked(KindOf[c]) /\ P # {}
    /\ KindOf[c] = "resolution" => Cardinality(P) = 1
    /\ tx' = [tx EXCEPT ![r] = [op |-> "issue", at |-> "planned", counter |-> c,
                                job |-> Null, plan |-> P]]
    /\ UNCHANGED <<lastSequence, docs, link, job, counterLock, jobLock>>

\* A mutant of IssueCheck that does not look for a job.
IssueCheckBesideJob(r) ==
    /\ tx[r].op = "issue" /\ tx[r].at = "counterLocked"
    /\ tx' = [tx EXCEPT ![r].at = "checked"]
    /\ UNCHANGED <<lastSequence, docs, link, job, counterLock, jobLock>>

\* Under the lock: refused while the municipality has an active job.
IssueCheck(r) ==
    /\ tx[r].op = "issue" /\ tx[r].at = "counterLocked"
    /\ ActiveJobs = {}
    /\ tx' = [tx EXCEPT ![r].at = "checked"]
    /\ UNCHANGED <<lastSequence, docs, link, job, counterLock, jobLock>>

IssueCommit(r) ==
    /\ tx[r].op = "issue" /\ tx[r].at = "checked"
    /\ IssueDocuments(tx[r].counter, tx[r].plan, Null)
    /\ Release(r)
    /\ UNCHANGED job

-----------------------------------------------------------------------------
(* Creation of a bulk job: one document for each group of the plan *)

\* The active job check and the plan, read before the transaction: any set of
\* pending groups (which kind of resolution, or the listed settlements, is
\* left out).  A job with no pending group re-renders documents issued before.
\* The job's fresh id is chosen here; the row is inserted by ReserveCommit.
PlanReserve(r, j, c, P) ==
    /\ tx[r].at = "idle"
    /\ job[j].status = "none" /\ \A q \in Requests : tx[q].job # j
    /\ ActiveJobs = {}
    /\ P \subseteq Unlinked(KindOf[c])
    /\ \/ P # {}
       \/ KindOf[c] = "resolution" /\ \E d \in docs : KindOf[d.counter] = KindOf[c]
    /\ tx' = [tx EXCEPT ![r] = [op |-> "reserve", at |-> "planned", counter |-> c,
                                job |-> j, plan |-> P]]
    /\ UNCHANGED <<lastSequence, docs, link, job, counterLock, jobLock>>

\* Inserts the job (the partial unique index refuses a second active one) with
\* its range and issues the documents.
ReserveCommit(r) ==
    LET j     == tx[r].job
        c     == tx[r].counter
        P     == tx[r].plan
        first == lastSequence[c] + 1
        last  == lastSequence[c] + Cardinality(P)
    IN  /\ tx[r].op = "reserve" /\ tx[r].at = "counterLocked"
        /\ ActiveJobIndexFree
        /\ IssueDocuments(c, P, j)
        /\ job' = [job EXCEPT ![j] =
                      [status |-> "active", counter |-> c,
                       firstSequence |-> IF P = {} THEN 0 ELSE first,
                       lastSequence |-> IF P = {} THEN 0 ELSE last]]
        /\ Release(r)

-----------------------------------------------------------------------------
(* Locking the counter row, the same in every transaction *)

LockCounter(r) ==
    LET c == tx[r].counter
    IN  /\ \/ tx[r].op \in {"issue", "reserve"} /\ tx[r].at = "planned"
           \/ tx[r].op = "revert" /\ tx[r].at = "jobLocked" /\ HasRange(tx[r].job)
        /\ counterLock[c] = Null
        /\ counterLock' = [counterLock EXCEPT ![c] = r]
        /\ tx' = [tx EXCEPT ![r].at = "counterLocked"]
        /\ UNCHANGED <<lastSequence, docs, link, job, jobLock>>

-----------------------------------------------------------------------------
(* Revert of a job *)

\* A mutant of LockJob that does not read the status again.
LockJobOfAnyStatus(r, j) ==
    /\ tx[r].at = "idle"
    /\ jobLock[j] = Null
    /\ job[j].status \in {"active", "done"}
    /\ jobLock' = [jobLock EXCEPT ![j] = r]
    /\ tx' = [tx EXCEPT ![r] = [op |-> "revert", at |-> "jobLocked",
                                counter |-> job[j].counter, job |-> j, plan |-> {}]]
    /\ UNCHANGED <<lastSequence, docs, link, job, counterLock>>

\* Locks the job row and reads its status; a job that is no longer active is
\* left alone.
LockJob(r, j) ==
    /\ tx[r].at = "idle"
    /\ jobLock[j] = Null
    /\ job[j].status = "active"
    /\ jobLock' = [jobLock EXCEPT ![j] = r]
    /\ tx' = [tx EXCEPT ![r] = [op |-> "revert", at |-> "jobLocked",
                                counter |-> job[j].counter, job |-> j, plan |-> {}]]
    /\ UNCHANGED <<lastSequence, docs, link, job, counterLock>>

\* Hands the range back, unlinks the groups, deletes the job's documents and
\* marks the job failed.
RevertCommit(r) ==
    LET c == tx[r].counter
        j == tx[r].job
        mine == {d \in docs : d.job = j}
        numbers == {<<d.counter, d.sequence>> : d \in mine}
    IN  /\ tx[r].op = "revert"
        /\ tx[r].at = IF HasRange(j) THEN "counterLocked" ELSE "jobLocked"
        /\ lastSequence' =
              IF HasRange(j)
              THEN [lastSequence EXCEPT ![c] =
                       CounterAfterRevert(@, job[j].firstSequence, job[j].lastSequence)]
              ELSE lastSequence
        /\ docs' = docs \ mine
        /\ Unlink(numbers)
        /\ job' = [job EXCEPT ![j].status = "failed"]
        /\ Release(r)

-----------------------------------------------------------------------------
(* The other ways a transaction ends *)

\* A mutant of Refuse whose check of the active job waits for the job row.
RefuseAfterJobRow(r) ==
    /\ tx[r].op \in {"issue", "reserve"}
    /\ \/ /\ tx[r].at = "counterLocked" /\ ActiveJobs # {}
          /\ \A j \in ActiveJobs : jobLock[j] = Null
       \/ /\ tx[r].at \in {"counterLocked", "checked"}
          /\ ~ tx[r].plan \subseteq Unlinked(KindOf[tx[r].counter])
    /\ Release(r)
    /\ UNCHANGED <<lastSequence, docs, link, job>>

\* The code gives up under the counter lock: the individual generation and
\* the job creation when the municipality has an active job, and both when a
\* group of the plan was linked meanwhile.
Refuse(r) ==
    /\ tx[r].op \in {"issue", "reserve"}
    /\ \/ tx[r].at = "counterLocked" /\ ActiveJobs # {}
       \/ /\ tx[r].at \in {"counterLocked", "checked"}
          /\ ~ tx[r].plan \subseteq Unlinked(KindOf[tx[r].counter])
    /\ Release(r)
    /\ UNCHANGED <<lastSequence, docs, link, job>>

\* Any statement may fail, and the backend may stop, at any point: the
\* transaction rolls back and its locks are free.
Abort(r) ==
    /\ tx[r].at # "idle"
    /\ Release(r)
    /\ UNCHANGED <<lastSequence, docs, link, job>>

\* The job's ZIP is ready.  The update waits for the job row.
FinishJob(j) ==
    /\ job[j].status = "active"
    /\ jobLock[j] = Null
    /\ job' = [job EXCEPT ![j].status = "done"]
    /\ UNCHANGED <<lastSequence, docs, link, counterLock, jobLock, tx>>

Init ==
    /\ lastSequence = [c \in Counters |-> 0]
    /\ docs = {}
    /\ link = [k \in Kinds |-> [g \in Groups |-> Null]]
    /\ job = [j \in Jobs |-> [status |-> "none", counter |-> Null,
                              firstSequence |-> 0, lastSequence |-> 0]]
    /\ counterLock = [c \in Counters |-> Null]
    /\ jobLock = [j \in Jobs |-> Null]
    /\ tx = [r \in Requests |-> NoTransaction]

Next ==
    \/ \E r \in Requests, c \in Counters, P \in SUBSET Groups : PlanIssue(r, c, P)
    \/ \E r \in Requests, j \in Jobs, c \in Counters, P \in SUBSET Groups : PlanReserve(r, j, c, P)
    \/ \E r \in Requests : LockCounter(r)
    \/ \E r \in Requests : IssueCheck(r)
    \/ \E r \in Requests : IssueCommit(r)
    \/ \E r \in Requests : ReserveCommit(r)
    \/ \E r \in Requests, j \in Jobs : LockJob(r, j)
    \/ \E r \in Requests : RevertCommit(r)
    \/ \E r \in Requests : Refuse(r)
    \/ \E r \in Requests : Abort(r)
    \/ \E j \in Jobs : FinishJob(j)

Spec == Init /\ [][Next]_vars

\* A transaction that has its locks runs to its end, and Postgres grants a
\* row lock to those waiting for it in turn.
Fairness ==
    \A r \in Requests :
        /\ WF_vars(IssueCheck(r))
        /\ WF_vars(IssueCommit(r))
        /\ WF_vars(ReserveCommit(r))
        /\ WF_vars(RevertCommit(r))
        /\ WF_vars(Refuse(r))
        /\ SF_vars(LockCounter(r))

FairSpec == Spec /\ Fairness

-----------------------------------------------------------------------------
(* Properties *)

\* Every number up to a counter's value names exactly one document and no
\* number past it is in use: no gaps and no duplicates, whatever requests,
\* bulk jobs and reverts interleave (comments of lockCounter and revert).
NoGaps ==
    \A c \in Counters :
        /\ TakenIn(c) = 1..lastSequence[c]
        /\ \A d, e \in docs :
              d.counter = c /\ e.counter = c /\ d.sequence = e.sequence => d = e

\* The range of an active job is the top of its counter and is all its own,
\* so counterAfterRevert always hands the range back: the case its comment
\* says "should not happen" does not.
RangeOnTop ==
    \A j \in ActiveJobs : HasRange(j) =>
        /\ job[j].lastSequence = lastSequence[job[j].counter]
        /\ {d \in docs : d.job = j} =
              {[counter |-> job[j].counter, sequence |-> n, job |-> j] :
                  n \in job[j].firstSequence..job[j].lastSequence}

\* Both: the numbers are contiguous and a job's range can be handed back.
Contiguous == NoGaps /\ RangeOnTop

\* The partial unique index and the checks leave at most one active job.
OneActiveJob == \A i, j \in ActiveJobs : i = j

\* Documents and linked groups are the same thing seen from either side: a
\* linked group points at a document of that kind that exists, no two groups
\* share one, and no document is left without its group.
LinksMatchDocuments ==
    \A k \in Kinds :
        LET linked == {g \in Groups : link[k][g] # Null}
        IN  /\ {link[k][g] : g \in linked} =
                  {<<d.counter, d.sequence>> : d \in {e \in docs : KindOf[e.counter] = k}}
            /\ \A g, h \in linked : link[k][g] = link[k][h] => g = h

\* A revert takes its own job back and nothing else: the counter returns to
\* the value it had before the job and every other counter, document and
\* link stays as it was.
RevertUndoesOnlyItsJob ==
    [][\A j \in Jobs : job[j].status = "active" /\ job'[j].status = "failed" =>
          /\ docs' = {d \in docs : d.job # j}
          /\ \A c \in Counters :
                lastSequence'[c] = IF HasRange(j) /\ c = job[j].counter
                                   THEN job[j].firstSequence - 1
                                   ELSE lastSequence[c]
          /\ \A k \in Kinds, g \in Groups :
                link'[k][g] # link[k][g] =>
                    \E d \in docs : d.job = j /\ link[k][g] = <<d.counter, d.sequence>>]_vars

\* A document the panel issued, or one of a finished job, is never deleted:
\* only the documents of a job still active can be taken back.
IssuedForGood ==
    [][\A d \in docs \ docs' : d.job # Null /\ job[d.job].status = "active"]_vars

\* No two transactions wait for each other's rows: a revert locks its job and
\* then the counter, and nobody who holds a counter waits for a job row.
TransactionsEnd ==
    \A r \in Requests : tx[r].at # "idle" ~> tx[r].at = "idle"

-----------------------------------------------------------------------------
(* The inductive invariant behind NoGaps and RangeOnTop *)

\* What each transaction holds while it runs.
TransactionShape ==
    \A r \in Requests :
        /\ tx[r].op = "none" <=> tx[r].at = "idle"
        /\ tx[r].op = "issue" => tx[r].at \in {"planned", "counterLocked", "checked"}
        /\ tx[r].op = "reserve" =>
              /\ tx[r].at \in {"planned", "counterLocked"}
              /\ tx[r].job \in Jobs /\ job[tx[r].job].status = "none"
              /\ \A q \in Requests \ {r} : tx[q].job # tx[r].job
        /\ tx[r].op = "revert" =>
              /\ tx[r].at \in {"jobLocked", "counterLocked"}
              /\ tx[r].job \in ActiveJobs /\ tx[r].counter = job[tx[r].job].counter
        /\ tx[r].at # "idle" => tx[r].counter \in Counters

\* A row lock is held exactly by the transaction that took it.
LocksHeld ==
    \A r \in Requests :
        /\ \A c \in Counters :
              counterLock[c] = r <=>
                  tx[r].at \in {"counterLocked", "checked"} /\ tx[r].counter = c
        /\ \A j \in Jobs :
              jobLock[j] = r <=> tx[r].op = "revert" /\ tx[r].job = j

\* After its check, an individual generation cannot see a job appear on its
\* own counter before it commits (one may on another counter).
CheckStillTrue ==
    \A r \in Requests : tx[r].at = "checked" =>
        \A j \in ActiveJobs : job[j].counter # tx[r].counter

\* Documents belong to the panel or to a job that is active or done, and a
\* job that only re-renders has none.
DocumentsOfJobs ==
    /\ \A d \in docs : d.job # Null => job[d.job].status \in {"active", "done"}
    /\ \A j \in ActiveJobs :
          /\ job[j].counter \in Counters
          /\ IF HasRange(j) THEN job[j].firstSequence <= job[j].lastSequence
                            ELSE \A d \in docs : d.job # j

\* The invariant of the proofs: what the transactions hold, what that makes
\* true between a check and its commit, and the numbers themselves.
IInv ==
    /\ TypeOK
    /\ TransactionShape
    /\ LocksHeld
    /\ CheckStillTrue
    /\ DocumentsOfJobs
    /\ OneActiveJob
    /\ NoGaps
    /\ RangeOnTop

-----------------------------------------------------------------------------
(* Refinement of NumberBook *)

OwnerOf(c, n) == (CHOOSE d \in docs : d.counter = c /\ d.sequence = n).job

OpenRange(j) ==
    IF job[j].status = "active"
    THEN [counter |-> job[j].counter,
          size |-> IF HasRange(j)
                   THEN job[j].lastSequence - job[j].firstSequence + 1 ELSE 0]
    ELSE [counter |-> Null, size |-> 0]

Book == INSTANCE NumberBook WITH
            Sizes <- 0..Cardinality(Groups),
            size  <- lastSequence,
            by    <- [c \in Counters |-> [n \in 1..lastSequence[c] |-> OwnerOf(c, n)]],
            open  <- [j \in Jobs |-> OpenRange(j)]

\* The committed transactions are steps of the book: a number is issued on
\* top of it, a job opens a range only while no other is open, and a failed
\* job takes off exactly the last entries.
ImplementsNumberBook == Book!Spec
=============================================================================
