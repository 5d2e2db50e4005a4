------------------------------ MODULE BulkJob ------------------------------
(***************************************************************************)
(* The life of a bulk PDF job, from its creation to its ZIP.               *)
(*                                                                         *)
(* The backend creates the job, uploads the input of each batch and queues *)
(* one message per batch (dispatch); the PDF service renders each batch and *)
(* answers through a second queue; the backend counts the answers          *)
(* (applyResult), queues the assembly of the ZIP after the last one and    *)
(* marks the job DONE when it is ready.  A failure anywhere reverts the    *)
(* job.  Both queues deliver at least once and in any order, either side   *)
(* may stop between any two steps, and three more actors may end a job:    *)
(* the recovery after a restart, the watchdog and the expiry of the ZIP.   *)
(*                                                                         *)
(* A revert also returns the numbers of the job; module CounterLock covers *)
(* that part.  One batch stands for its documents.                         *)
(***************************************************************************)
EXTENDS Integers, FiniteSets

CONSTANTS
    Jobs,         \* pdf_jobs ids of one municipality
    Batches,      \* the batches of every job
    Slots,        \* conversions the PDF service runs at the same time
    MaxAttempts,  \* deliveries of a work message before it is given up
    MaxFaults,    \* bound: failures of any kind in one behaviour
    RevertsFail,  \* whether the database may refuse a revert
    Zip,          \* the task that assembles the ZIP
    Null

ASSUME BulkJobAssumption ==
    /\ IsFiniteSet(Batches) /\ Batches # {}
    /\ MaxAttempts \in Nat \ {0}
    /\ MaxFaults \in Nat
    /\ RevertsFail \in BOOLEAN
    /\ Zip \notin Batches
    /\ Null \notin Slots

VARIABLES
    (* Postgres *)
    status,     \* pdf_jobs.status
    batch,      \* pdf_job_batches.status, "absent" when there is no row
    completed,  \* pdf_jobs.completedDocuments, in batches
    stale,      \* pdf_jobs.updatedAt is older than the watchdog allows
    (* Blob storage *)
    inputs,     \* <<job, batch>> whose input is stored
    pdfs,       \* <<job, batch>> whose PDFs are stored
    zips,       \* jobs with a result.zip
    (* Queues *)
    work,       \* pdf-work
    results,    \* pdf-results
    (* Memory of the PDF service *)
    slot,       \* the message each slot works on
    workerUp,
    (* Memory of the backend *)
    dispatch,   \* the request that creates each job
    consumer,   \* the loop over pdf-results
    purging,    \* jobs reverted or expired whose blobs are about to be deleted
    recovery,   \* recoverInterrupted
    sweeping,   \* stalled jobs the watchdog has read
    faults

database == <<status, batch, completed, stale>>
blobs    == <<inputs, pdfs, zips>>
queues   == <<work, results>>
service  == <<slot, workerUp>>
backend  == <<dispatch, consumer, purging, recovery, sweeping>>
vars     == <<database, blobs, queues, service, backend, faults>>

-----------------------------------------------------------------------------
(* Types *)

Tasks == Batches \cup {Zip}

ActiveStatuses == {"PREPARING", "RUNNING", "ASSEMBLING"}

\* A mutant of the definition below: PREPARING left out.
BatchPhaseWithoutPreparing == {"RUNNING"}

\* Batch results count while the job is PREPARING: the worker may finish the
\* first batches before the last one is queued.
BatchPhaseStatuses == {"PREPARING", "RUNNING"}

\* A job sends its ZIP message once, and once more for each send that was
\* rolled back: copy tells those messages apart.
WorkMessage == [job : Jobs, task : Tasks, copy : 1..(MaxFaults + 1),
                seen : 0..(MaxAttempts + 1), holder : Slots \cup {Null}]

\* "missing" is a failure because a blob of the job was not there.
Outcome == {"done", "error", "missing"}

Result == [job : Jobs, task : Tasks, outcome : Outcome]

Free == [at |-> "free"]

Idle == [at |-> "idle"]

TypeOK ==
    /\ status \in [Jobs -> ActiveStatuses \cup {"none", "DONE", "FAILED", "EXPIRED"}]
    /\ batch \in [Jobs -> [Batches -> {"absent", "PENDING", "DONE"}]]
    /\ completed \in [Jobs -> 0..Cardinality(Batches)]
    /\ stale \in [Jobs -> BOOLEAN]
    /\ inputs \subseteq Jobs \X Batches
    /\ pdfs \subseteq Jobs \X Batches
    /\ zips \subseteq Jobs
    /\ work \subseteq WorkMessage
    /\ results \subseteq Result
    /\ slot \in [Slots -> {Free} \cup
                    [at : {"received", "working", "report"}, job : Jobs, task : Tasks,
                     last : BOOLEAN, outcome : Outcome]]
    /\ workerUp \in BOOLEAN
    /\ dispatch \in [Jobs -> [at : {"off", "rows", "sending", "failing"},
                              left : SUBSET Batches]]
    /\ consumer \in {Idle} \cup [at : {"rows", "inputs", "pdfs"}, result : Result]
    /\ purging \subseteq Jobs
    /\ recovery \in [read : BOOLEAN, jobs : SUBSET Jobs]
    /\ sweeping \subseteq Jobs
    /\ faults \in 0..MaxFaults

-----------------------------------------------------------------------------
(* Helpers *)

\* A step that something had to go wrong for, and one that nothing did.
Fault == faults < MaxFaults /\ faults' = faults + 1
NoFault == UNCHANGED faults

NoRows == [b \in Batches |-> "absent"]

BlobsOf(j) == {j} \X Batches

Ended(j) == status[j] \in {"DONE", "FAILED", "EXPIRED"}

\* The message slot s works on, while its pop receipt is valid.
HeldBy(s) == {m \in work : m.holder = s}

Release(held) == (work \ held) \cup {[m EXCEPT !.holder = Null] : m \in held}

\* The assemble-zip message, once more.
ZipMessage(j) ==
    LET copies == {m.copy : m \in {w \in work : w.job = j /\ w.task = Zip}}
    IN  [job |-> j, task |-> Zip, seen |-> 0, holder |-> Null,
         copy |-> CHOOSE n \in 1..(MaxFaults + 1) :
                     n \notin copies /\ \A k \in 1..(n - 1) : k \in copies]

\* A mutant of Revert that deletes the blobs of a job it did not revert.
RevertAlwaysPurging(j, from) ==
    /\ purging' = purging \cup {j}
    /\ IF status[j] \in from
       THEN /\ status' = [status EXCEPT ![j] = "FAILED"]
            /\ batch' = [batch EXCEPT ![j] = NoRows]
            /\ stale' = [stale EXCEPT ![j] = FALSE]
            /\ UNCHANGED completed
       ELSE UNCHANGED database

\* The job is failed and its batch rows and (later) its blobs are deleted,
\* unless its status is no longer one of from.
Revert(j, from) ==
    IF status[j] \in from
    THEN /\ status' = [status EXCEPT ![j] = "FAILED"]
         /\ batch' = [batch EXCEPT ![j] = NoRows]
         /\ stale' = [stale EXCEPT ![j] = FALSE]
         /\ purging' = purging \cup {j}
         /\ UNCHANGED completed
    ELSE UNCHANGED <<database, purging>>

-----------------------------------------------------------------------------
(* Creation and dispatch *)

\* The reserve transaction: one active job per municipality.  The server
\* listens as soon as the recovery is started, without waiting for it; a job
\* created before the recovery reads the table counts as a fault.
Create(j) ==
    /\ status[j] = "none"
    /\ \A i \in Jobs : status[i] \notin ActiveStatuses
    /\ status' = [status EXCEPT ![j] = "PREPARING"]
    /\ IF recovery.read THEN NoFault ELSE Fault
    /\ dispatch' = [dispatch EXCEPT ![j] = [at |-> "rows", left |-> Batches]]
    /\ UNCHANGED <<batch, completed, stale, blobs, queues, service,
                   consumer, purging, recovery, sweeping>>

\* The batch rows, whatever became of the job since.
CreateRows(j) ==
    /\ dispatch[j].at = "rows"
    /\ batch' = [batch EXCEPT ![j] = [b \in Batches |-> "PENDING"]]
    /\ dispatch' = [dispatch EXCEPT ![j].at = "sending"]
    /\ UNCHANGED <<status, completed, stale, blobs, queues, service,
                   consumer, purging, recovery, sweeping, faults>>

\* One of the concurrent uploads of a chunk, and its message.
SendBatch(j, b) ==
    /\ dispatch[j].at # "rows" /\ b \in dispatch[j].left
    /\ inputs' = inputs \cup {<<j, b>>}
    /\ work' = work \cup {[job |-> j, task |-> b, copy |-> 1, seen |-> 0, holder |-> Null]}
    /\ dispatch' = [dispatch EXCEPT ![j].left = @ \ {b}]
    /\ UNCHANGED <<database, pdfs, zips, results, service,
                   consumer, purging, recovery, sweeping, faults>>

\* A mutant of MarkRunning that does not look at the status.
MarkRunningAlways(j) ==
    /\ dispatch[j] = [at |-> "sending", left |-> {}]
    /\ status' = [status EXCEPT ![j] = "RUNNING"]
    /\ dispatch' = [dispatch EXCEPT ![j].at = "off"]
    /\ UNCHANGED <<batch, completed, stale, blobs, queues, service,
                   consumer, purging, recovery, sweeping, faults>>

\* Every message is out.  The last batch may be done already (ASSEMBLING) or
\* the job reverted: only PREPARING moves.
MarkRunning(j) ==
    /\ dispatch[j] = [at |-> "sending", left |-> {}]
    /\ status' = [status EXCEPT ![j] = IF @ = "PREPARING" THEN "RUNNING" ELSE @]
    /\ dispatch' = [dispatch EXCEPT ![j].at = "off"]
    /\ UNCHANGED <<batch, completed, stale, blobs, queues, service,
                   consumer, purging, recovery, sweeping, faults>>

\* A database or storage call of the dispatch fails: before the first upload,
\* in one upload of the chunk, whose others go on, or with an answer lost
\* after the call had its effect (the last update of the job included).
DispatchFails(j) ==
    /\ Fault
    /\ \E failing \in SUBSET Batches :
          /\ \/ dispatch[j].at = "rows" /\ failing = {}
             \/ dispatch[j].at = "sending" /\ dispatch[j].left = Batches /\ failing = {}
             \/ dispatch[j].at = "sending" /\ dispatch[j].left # Batches /\ failing = dispatch[j].left
             \/ /\ dispatch[j].at = "sending"
                /\ \E b \in dispatch[j].left : failing = dispatch[j].left \ {b}
          /\ dispatch' = [dispatch EXCEPT ![j] = [at |-> "failing", left |-> failing]]
    /\ UNCHANGED <<database, blobs, queues, service, consumer, purging, recovery, sweeping>>

\* The catch of the request: the job is reverted, or the database fails too
\* and the request ends with an error.
DispatchReverts(j) ==
    /\ dispatch[j].at = "failing"
    /\ dispatch' = [dispatch EXCEPT ![j].at = "off"]
    /\ \/ Revert(j, ActiveStatuses) /\ NoFault
       \/ RevertsFail /\ Fault /\ UNCHANGED <<database, purging>>
    /\ UNCHANGED <<blobs, queues, service, consumer, recovery, sweeping>>

-----------------------------------------------------------------------------
(* The PDF service *)

\* A slot that becomes free; its message, if its receipt is still valid, is
\* deleted or left in the queue.
Leave(s) == slot' = [slot EXCEPT ![s] = Free] /\ work' = Release(HeldBy(s))

ToReport(s, outcome) == slot' = [slot EXCEPT ![s].at = "report", ![s].outcome = outcome]

\* A message of the work queue; one that another slot still works on comes
\* back when its visibility timeout ends.  A message delivered too often is
\* reported as failed without being processed.
Receive(s, m) ==
    /\ workerUp /\ slot[s] = Free
    /\ IF m.holder = Null THEN NoFault ELSE Fault
    /\ LET attempt == m.seen + 1
           next    == IF attempt > MaxAttempts THEN MaxAttempts + 1 ELSE attempt
       IN  /\ work' = (work \ {m}) \cup {[m EXCEPT !.seen = next, !.holder = s]}
           /\ slot' = [slot EXCEPT ![s] =
                          [at |-> IF attempt > MaxAttempts THEN "report" ELSE "received",
                           job |-> m.job, task |-> m.task,
                           last |-> attempt >= MaxAttempts,
                           outcome |-> IF attempt > MaxAttempts THEN "error" ELSE "done"]]
    /\ UNCHANGED <<database, blobs, results, workerUp, backend>>

\* What the task starts from: the input of its batch, or every PDF of the job.
SourcesPresent(s) ==
    IF slot[s].task = Zip THEN BlobsOf(slot[s].job) \subseteq pdfs
                          ELSE <<slot[s].job, slot[s].task>> \in inputs

Load(s) ==
    /\ slot[s].at = "received"
    /\ IF SourcesPresent(s) THEN slot' = [slot EXCEPT ![s].at = "working"]
                            ELSE ToReport(s, "missing")
    /\ UNCHANGED <<database, blobs, queues, workerUp, backend, faults>>

\* The PDFs of the batch are uploaded under names of their own: a second run
\* overwrites the same blobs.
Render(s) ==
    /\ slot[s].at = "working" /\ slot[s].task # Zip
    /\ pdfs' = pdfs \cup {<<slot[s].job, slot[s].task>>}
    /\ ToReport(s, "done")
    /\ UNCHANGED <<database, inputs, zips, queues, workerUp, backend, faults>>

\* The ZIP is streamed from every PDF, one after the other.
Assemble(s) ==
    /\ slot[s].at = "working" /\ slot[s].task = Zip
    /\ SourcesPresent(s)
    /\ zips' = zips \cup {slot[s].job}
    /\ ToReport(s, "done")
    /\ UNCHANGED <<database, inputs, pdfs, queues, workerUp, backend, faults>>

\* A transient error: the last attempt is reported as failed, any other left
\* in the queue.  For the ZIP, also a PDF that is not there when its turn comes.
TaskFails(s) ==
    /\ slot[s].at \in {"received", "working"}
    /\ IF slot[s].at = "working" /\ slot[s].task = Zip /\ ~SourcesPresent(s)
       THEN NoFault ELSE Fault
    /\ IF slot[s].last THEN ToReport(s, "error") /\ UNCHANGED work ELSE Leave(s)
    /\ UNCHANGED <<database, blobs, results, workerUp, backend>>

\* A permanent error: the template or the data of a document.
TaskRefused(s) ==
    /\ slot[s].at = "working" /\ slot[s].task # Zip
    /\ Fault
    /\ ToReport(s, "error")
    /\ UNCHANGED <<database, blobs, queues, workerUp, backend>>

\* A mutant of Report that deletes the message before it sends the result.
ReportAfterDelete(s) ==
    /\ slot[s].at = "report"
    /\ work' = work \ HeldBy(s)
    /\ slot' = [slot EXCEPT ![s] = Free]
    /\ \/ /\ results' = results \cup {[job |-> slot[s].job, task |-> slot[s].task,
                                        outcome |-> slot[s].outcome]}
          /\ NoFault
       \/ results' = results /\ Fault
    /\ UNCHANGED <<database, blobs, workerUp, backend>>

\* The result is sent and then the message deleted, which fails when another
\* slot received it meanwhile.
Report(s) ==
    /\ slot[s].at = "report"
    /\ results' = results \cup {[job |-> slot[s].job, task |-> slot[s].task,
                                 outcome |-> slot[s].outcome]}
    /\ slot' = [slot EXCEPT ![s] = Free]
    /\ \/ work' = work \ HeldBy(s) /\ NoFault
       \/ work' = Release(HeldBy(s)) /\ Fault
    /\ UNCHANGED <<database, blobs, workerUp, backend>>

\* The storage fails while a result is being reported.
ReportFails(s) ==
    /\ slot[s].at = "report" /\ Fault
    /\ Leave(s)
    /\ UNCHANGED <<database, blobs, results, workerUp, backend>>

\* The service stops with everything it was doing; its messages come back.
WorkerStops ==
    /\ workerUp /\ Fault
    /\ workerUp' = FALSE
    /\ slot' = [s \in Slots |-> Free]
    /\ work' = Release({m \in work : m.holder # Null})
    /\ UNCHANGED <<database, blobs, results, backend>>

WorkerStarts ==
    /\ ~workerUp
    /\ workerUp' = TRUE
    /\ UNCHANGED <<database, blobs, queues, slot, backend, faults>>

-----------------------------------------------------------------------------
(* The results queue *)

\* A result that was applied is deleted, or comes back: the delete fails or
\* is late.
Settle(r) ==
    \/ results' = results \ {r} /\ NoFault
    \/ results' = results /\ Fault

\* Mutants of the two tests below: a result counted each time it arrives, and
\* the remaining batches not counted.
CountsEachTime(r) == status[r.job] \in BatchPhaseStatuses

AnyBatchIsLast(r) == TRUE

\* The result of a batch not counted yet, of a job in its batch phase.
Counts(r) == status[r.job] \in BatchPhaseStatuses /\ batch[r.job][r.task] = "PENDING"

\* No other batch is left.
LastBatch(r) == \A b \in Batches \ {r.task} : batch[r.job][b] # "PENDING"

\* One transaction under the lock of the job row: the batch is marked and
\* counted and, when it was the last one, the job starts assembling.
ApplyBatch(r) ==
    LET j == r.job
    IN  /\ consumer = Idle /\ r \in results
        /\ r.outcome = "done" /\ r.task # Zip
        /\ IF Counts(r)
           THEN /\ batch' = [batch EXCEPT ![j][r.task] = "DONE"]
                /\ completed' = [completed EXCEPT ![j] = @ + 1]
                /\ stale' = [stale EXCEPT ![j] = FALSE]
                /\ IF LastBatch(r)
                   THEN /\ status' = [status EXCEPT ![j] = "ASSEMBLING"]
                        /\ work' = work \cup {ZipMessage(j)}
                   ELSE UNCHANGED <<status, work>>
           ELSE UNCHANGED <<database, work>>
        /\ Settle(r)
        /\ UNCHANGED <<blobs, service, backend>>

\* The transaction rolls back after it sent the ZIP message.
ApplyBatchRollsBack(r) ==
    /\ consumer = Idle /\ r \in results
    /\ r.outcome = "done" /\ r.task # Zip
    /\ Counts(r) /\ LastBatch(r)
    /\ Fault
    /\ work' = work \cup {ZipMessage(r.job)}
    /\ UNCHANGED <<database, blobs, results, service, backend>>

\* A failed batch counts in the batch phase only, a failed ZIP while the job
\* is ASSEMBLING: a late one changes nothing.
ApplyFailure(r) ==
    /\ consumer = Idle /\ r \in results
    /\ r.outcome # "done"
    /\ Revert(r.job, IF r.task = Zip THEN {"ASSEMBLING"} ELSE BatchPhaseStatuses)
    /\ Settle(r)
    /\ UNCHANGED <<blobs, work, service, dispatch, consumer, recovery, sweeping>>

\* The ZIP is ready; the batch rows, the inputs and the PDFs are deleted next.
ApplyZip(r) ==
    /\ consumer = Idle /\ r \in results
    /\ r.outcome = "done" /\ r.task = Zip
    /\ IF status[r.job] = "ASSEMBLING"
       THEN /\ status' = [status EXCEPT ![r.job] = "DONE"]
            /\ stale' = [stale EXCEPT ![r.job] = FALSE]
            /\ consumer' = [at |-> "rows", result |-> r]
            /\ UNCHANGED <<batch, completed, results, faults>>
       ELSE Settle(r) /\ UNCHANGED <<database, consumer>>
    /\ UNCHANGED <<blobs, work, service, dispatch, purging, recovery, sweeping>>

CleanRows ==
    /\ consumer.at = "rows"
    /\ batch' = [batch EXCEPT ![consumer.result.job] = NoRows]
    /\ consumer' = [consumer EXCEPT !.at = "inputs"]
    /\ UNCHANGED <<status, completed, stale, blobs, queues, service,
                   dispatch, purging, recovery, sweeping, faults>>

\* The database refuses: the loop goes on with the result still queued.
CleanRowsFails ==
    /\ consumer.at = "rows" /\ Fault
    /\ consumer' = Idle
    /\ UNCHANGED <<database, blobs, queues, service, dispatch, purging, recovery, sweeping>>

\* Deleting blobs may fail; that is only logged.
CleanInputs ==
    /\ consumer.at = "inputs"
    /\ \/ inputs' = inputs \ BlobsOf(consumer.result.job) /\ NoFault
       \/ inputs' = inputs /\ Fault
    /\ consumer' = [consumer EXCEPT !.at = "pdfs"]
    /\ UNCHANGED <<database, pdfs, zips, queues, service, dispatch, purging, recovery, sweeping>>

CleanPdfs ==
    /\ consumer.at = "pdfs"
    /\ \/ pdfs' = pdfs \ BlobsOf(consumer.result.job) /\ NoFault
       \/ pdfs' = pdfs /\ Fault
    /\ results' = results \ {consumer.result}
    /\ consumer' = Idle
    /\ UNCHANGED <<database, inputs, zips, work, service, dispatch, purging, recovery, sweeping>>

-----------------------------------------------------------------------------
(* The blobs of a job that was reverted or expired *)

Purge(j) ==
    /\ j \in purging
    /\ purging' = purging \ {j}
    /\ \/ /\ inputs' = inputs \ BlobsOf(j)
          /\ pdfs' = pdfs \ BlobsOf(j)
          /\ zips' = zips \ {j}
          /\ NoFault
       \/ Fault /\ UNCHANGED blobs
    /\ UNCHANGED <<database, queues, service, dispatch, consumer, recovery, sweeping>>

-----------------------------------------------------------------------------
(* Recovery after a restart *)

RecoverRead ==
    /\ ~recovery.read
    /\ recovery' = [read |-> TRUE, jobs |-> {j \in Jobs : status[j] = "PREPARING"}]
    /\ UNCHANGED <<database, blobs, queues, service, dispatch, consumer, purging, sweeping, faults>>

\* The status is read again, but any active job is taken back.
RecoverRevert(j) ==
    /\ j \in recovery.jobs
    /\ Revert(j, ActiveStatuses)
    /\ recovery' = [recovery EXCEPT !.jobs = @ \ {j}]
    /\ UNCHANGED <<blobs, queues, service, dispatch, consumer, sweeping, faults>>

\* The database refuses; the rest of the list is given up.
RecoverFails ==
    /\ recovery.jobs # {} /\ RevertsFail /\ Fault
    /\ recovery' = [recovery EXCEPT !.jobs = {}]
    /\ UNCHANGED <<database, blobs, queues, service, dispatch, consumer, purging, sweeping>>

-----------------------------------------------------------------------------
(* The periodic sweep *)

\* Nothing is in flight for the job, so its row can only grow old.
Quiet(j) ==
    /\ \A r \in results : r.job # j
    /\ workerUp => \A m \in work : m.job # j
    /\ \A s \in Slots : slot[s] = Free \/ slot[s].job # j

\* Time passes without progress: for good when nothing is in flight, and
\* otherwise because something took longer than the watchdog waits.
Stall(j) ==
    /\ status[j] \in {"RUNNING", "ASSEMBLING"} /\ ~stale[j]
    /\ IF Quiet(j) THEN NoFault ELSE Fault
    /\ stale' = [stale EXCEPT ![j] = TRUE]
    /\ UNCHANGED <<status, batch, completed, blobs, queues, service, backend>>

\* A mutant of SweepRead that leaves ASSEMBLING jobs to themselves.
SweepReadRunning ==
    LET stalled == {j \in Jobs : status[j] = "RUNNING" /\ stale[j]}
    IN  /\ sweeping = {} /\ stalled # {}
        /\ sweeping' = stalled
        /\ UNCHANGED <<database, blobs, queues, service,
                       dispatch, consumer, purging, recovery, faults>>

SweepRead ==
    LET stalled == {j \in Jobs : status[j] \in {"RUNNING", "ASSEMBLING"} /\ stale[j]}
    IN  /\ sweeping = {} /\ stalled # {}
        /\ sweeping' = stalled
        /\ UNCHANGED <<database, blobs, queues, service,
                       dispatch, consumer, purging, recovery, faults>>

\* The status is read again, but not how old the row is.
SweepRevert(j) ==
    /\ j \in sweeping
    /\ Revert(j, {"RUNNING", "ASSEMBLING"})
    /\ sweeping' = sweeping \ {j}
    /\ UNCHANGED <<blobs, queues, service, dispatch, consumer, recovery, faults>>

\* The database refuses; the next sweep tries again.
SweepFails ==
    /\ sweeping # {} /\ RevertsFail /\ Fault
    /\ sweeping' = {}
    /\ UNCHANGED <<database, blobs, queues, service, dispatch, consumer, purging, recovery>>

\* The ZIP outlived its time.
Expire(j) ==
    /\ status[j] = "DONE"
    /\ status' = [status EXCEPT ![j] = "EXPIRED"]
    /\ purging' = purging \cup {j}
    /\ UNCHANGED <<batch, completed, stale, blobs, queues, service,
                   dispatch, consumer, recovery, sweeping, faults>>

\* The backend stops and starts again with nothing in memory.
Restart ==
    /\ Fault
    /\ dispatch' = [j \in Jobs |-> [at |-> "off", left |-> {}]]
    /\ consumer' = Idle
    /\ purging' = {}
    /\ recovery' = [read |-> FALSE, jobs |-> {}]
    /\ sweeping' = {}
    /\ UNCHANGED <<database, blobs, queues, service>>

-----------------------------------------------------------------------------
Init ==
    /\ status = [j \in Jobs |-> "none"]
    /\ batch = [j \in Jobs |-> NoRows]
    /\ completed = [j \in Jobs |-> 0]
    /\ stale = [j \in Jobs |-> FALSE]
    /\ inputs = {} /\ pdfs = {} /\ zips = {}
    /\ work = {} /\ results = {}
    /\ slot = [s \in Slots |-> Free]
    /\ workerUp = TRUE
    /\ dispatch = [j \in Jobs |-> [at |-> "off", left |-> {}]]
    /\ consumer = Idle
    /\ purging = {}
    /\ recovery = [read |-> FALSE, jobs |-> {}]
    /\ sweeping = {}
    /\ faults = 0

Dispatch(j) ==
    \/ Create(j) \/ CreateRows(j) \/ MarkRunning(j)
    \/ \E b \in Batches : SendBatch(j, b)
    \/ DispatchFails(j) \/ DispatchReverts(j)

Serve(s) ==
    \/ \E m \in work : Receive(s, m)
    \/ Load(s) \/ Render(s) \/ Assemble(s)
    \/ TaskFails(s) \/ TaskRefused(s)
    \/ Report(s) \/ ReportFails(s)

Apply(r) == ApplyBatch(r) \/ ApplyBatchRollsBack(r) \/ ApplyFailure(r) \/ ApplyZip(r)

Consume ==
    \/ \E r \in results : Apply(r)
    \/ CleanRows \/ CleanRowsFails \/ CleanInputs \/ CleanPdfs

Recover == RecoverRead \/ RecoverFails \/ \E j \in Jobs : RecoverRevert(j)

Sweep == SweepRead \/ SweepFails \/ \E j \in Jobs : SweepRevert(j)

Next ==
    \/ \E j \in Jobs : Dispatch(j) \/ Purge(j) \/ Stall(j) \/ Expire(j)
    \/ \E s \in Slots : Serve(s)
    \/ Consume \/ Recover \/ Sweep
    \/ WorkerStops \/ WorkerStarts \/ Restart

Spec == Init /\ [][Next]_vars

\* Every loop and request of the backend goes on while it runs, the service
\* serves its queue while it is up, and the clock advances.  Nothing makes a
\* user create a job, a stopped service start, or a ZIP expire.
Fairness ==
    /\ \A j \in Jobs :
          /\ WF_vars(CreateRows(j) \/ MarkRunning(j))
          /\ WF_vars(DispatchReverts(j) /\ NoFault)
          /\ WF_vars(\E b \in Batches : SendBatch(j, b))
          /\ WF_vars(Purge(j) /\ NoFault)
          /\ WF_vars(Stall(j) /\ NoFault)
    /\ \A s \in Slots : WF_vars(Serve(s) /\ NoFault)
    /\ WF_vars(Consume /\ NoFault)
    /\ WF_vars(Recover /\ NoFault)
    /\ WF_vars(Sweep /\ NoFault)

FairSpec == Spec /\ Fairness

-----------------------------------------------------------------------------
(* Properties *)

\* Progress counts every batch once, however often its result arrives, and a
\* job assembles its ZIP only with every batch counted and every PDF stored.
ProgressCounts ==
    \A j \in Jobs :
        /\ status[j] \in ActiveStatuses =>
              completed[j] = Cardinality({b \in Batches : batch[j][b] = "DONE"})
        /\ status[j] = "ASSEMBLING" =>
              completed[j] = Cardinality(Batches) /\ BlobsOf(j) \subseteq pdfs

\* The types, and what the counters say.
Inv == TypeOK /\ ProgressCounts

\* A job that waits always has what it waits for in a queue: the message or
\* the result of each batch still pending, and then those of the ZIP.  No
\* crash, lost delete or rolled back answer leaves a job with nobody to end it.
NothingForgotten ==
    \A j \in Jobs :
        LET Queued(t) == \E q \in work \cup results : q.job = j /\ q.task = t
        IN  /\ status[j] = "RUNNING" =>
                  \A b \in Batches : batch[j][b] = "PENDING" => Queued(b)
            /\ status[j] = "ASSEMBLING" => Queued(Zip)

\* A task finds a blob missing only when its job is over: the cleanups that
\* run after the commits never pull a blob from under a job still active, and
\* a second ZIP message never turns a good job into BULK_ZIP_INCOMPLETE.
MissingMeansEnded ==
    \A r \in results : r.outcome = "missing" => status[r.job] \notin ActiveStatuses

\* What download offers is there: a DONE job has its ZIP, whatever duplicates
\* of its messages are still being worked on.
Downloadable == \A j \in Jobs : status[j] = "DONE" => j \in zips

\* A blob somebody will ask for is there: the inputs of a job's batches while
\* the job is active, and its ZIP once it is done (pdf-jobs.service.ts:954).
NeededBlobsExist == MissingMeansEnded /\ Downloadable

\* Every job ends, however the backend and the service fail: the recovery
\* covers PREPARING and the watchdog the rest ("jobs without progress for
\* JOB_WATCHDOG_MINUTES are failed and reverted").
JobsEnd ==
    \A j \in Jobs : status[j] \in ActiveStatuses ~> status[j] \notin ActiveStatuses

\* When nothing fails a job delivers its ZIP: no race between the dispatch,
\* the worker and the results loses a batch.
FaultlessJobsDeliver ==
    \A j \in Jobs : status[j] = "PREPARING" /\ faults = 0 ~> status[j] = "DONE" \/ faults > 0

-----------------------------------------------------------------------------
(* Refinement of JobLifecycle *)

Lifecycle == INSTANCE JobLifecycle WITH
    Total     <- Cardinality(Batches),
    phase     <- [j \in Jobs |->
                     CASE status[j] = "none"       -> "none"
                       [] status[j] \in BatchPhaseStatuses -> "generating"
                       [] status[j] = "ASSEMBLING" -> "assembling"
                       [] status[j] = "DONE"       -> "delivered"
                       [] status[j] = "FAILED"     -> "failed"
                       [] status[j] = "EXPIRED"    -> "expired"],
    progress  <- completed,
    available <- {j \in Jobs : status[j] = "DONE" /\ j \in zips}

\* Through every retry, duplicate and restart a job goes through its life once:
\* it never comes back from FAILED, DONE or EXPIRED, and a ZIP once delivered
\* stays until it expires.
ImplementsJobLifecycle == Lifecycle!Spec
=============================================================================
