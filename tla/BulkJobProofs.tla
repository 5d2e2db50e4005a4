--------------------------- MODULE BulkJobProofs ---------------------------
(***************************************************************************)
(* Proofs about BulkJob for every number of jobs, batches, slots,          *)
(* deliveries and failures; about the render service its batches share the *)
(* template cache with (RenderService, instance Service); and about one    *)
(* batch and its deliveries (BatchConversion, instance Batch).             *)
(***************************************************************************)
EXTENDS BulkJob, FiniteSetTheorems, SequenceTheorems, WellFoundedInduction, TLAPS

-----------------------------------------------------------------------------
(* The inductive invariant *)

Active(j) == status[j] \in ActiveStatuses

Busy == {s \in Slots : slot[s] # Free}

\* The task a message or a slot stands for.
OfTask(q, j, t) == q.job = j /\ q.task = t

\* A message or a slot has this task in hand.
InHand(j, t) ==
    \/ \E m \in work : OfTask(m, j, t)
    \/ \E s \in Busy : OfTask(slot[s], j, t)

\* A result says this of the task, or a slot is about to.
Claimed(j, t, outcome) ==
    \/ [job |-> j, task |-> t, outcome |-> outcome] \in results
    \/ \E s \in Busy : OfTask(slot[s], j, t) /\ slot[s].at = "report" /\ slot[s].outcome = outcome

\* A message or a result of the task is in a queue.
Queued(j, t) ==
    \/ \E m \in work : OfTask(m, j, t)
    \/ \E r \in results : OfTask(r, j, t)

\* A slot that holds a message works on its task.
HoldersWork ==
    \A m \in work : m.holder # Null =>
        m.holder \in Busy /\ OfTask(slot[m.holder], m.job, m.task)

\* Nothing has been done for a job that was not created.
Untouched(j) ==
    status[j] = "none" =>
        /\ dispatch[j] = [at |-> "off", left |-> {}]
        /\ batch[j] = NoRows
        /\ completed[j] = 0
        /\ \A t \in Tasks : ~InHand(j, t)
        /\ \A t \in Tasks, o \in Outcome : ~Claimed(j, t, o)

\* The rows of a job are written together and deleted together; the dispatch
\* uploads nothing before, and has nothing left when the job is RUNNING.
RowsTogether(j) ==
    /\ batch[j] = NoRows \/ \A b \in Batches : batch[j][b] # "absent"
    /\ dispatch[j].at = "rows" => dispatch[j].left = Batches /\ batch[j] = NoRows
    /\ status[j] = "RUNNING" => dispatch[j].left = {}

DoneBatches(j) == {b \in Batches : batch[j][b] = "DONE"}

\* What ProgressCounts says of a job.
Progress(j) ==
    /\ Active(j) => completed[j] = Cardinality(DoneBatches(j))
    /\ status[j] = "ASSEMBLING" =>
          completed[j] = Cardinality(Batches) /\ BlobsOf(j) \subseteq pdfs

\* What NothingForgotten says of a job, and what MarkRunning relies on.
Waits(j) ==
    /\ \/ status[j] = "RUNNING"
       \/ status[j] = "PREPARING" /\ dispatch[j].at = "sending"
       => \A b \in Batches \ dispatch[j].left : batch[j][b] = "PENDING" => Queued(j, b)
    /\ status[j] = "ASSEMBLING" => Queued(j, Zip)

\* While a job is active nothing is missing: the sources of the tasks in hand,
\* the PDFs of the batches that are done, and no task says otherwise.
NothingMissing(j) ==
    Active(j) =>
        /\ \A b \in Batches : InHand(j, b) => <<j, b>> \in inputs
        /\ InHand(j, Zip) => BlobsOf(j) \subseteq pdfs
        /\ \A b \in Batches : Claimed(j, b, "done") \/ batch[j][b] = "DONE" => <<j, b>> \in pdfs
        /\ \A t \in Tasks : ~Claimed(j, t, "missing")

\* The ZIP somebody announces is there until the job failed or expired.
ZipThere(j) ==
    /\ Active(j) /\ Claimed(j, Zip, "done") => j \in zips
    /\ status[j] = "DONE" => j \in zips

\* Blobs are deleted only when the job is over, and the ZIP later than the rest.
CleanedWhenOver(j) ==
    /\ j \in purging => status[j] \in {"FAILED", "EXPIRED"}
    /\ consumer # Idle /\ consumer.result.job = j => status[j] \in {"DONE", "EXPIRED"}

\* In the batch phase every ZIP message is one of a rolled back send.
CopiesCounted(j) ==
    status[j] \in BatchPhaseStatuses => \A m \in work : OfTask(m, j, Zip) => m.copy <= faults

JobOK(j) ==
    /\ Untouched(j)
    /\ RowsTogether(j)
    /\ Progress(j)
    /\ Waits(j)
    /\ NothingMissing(j)
    /\ ZipThere(j)
    /\ CleanedWhenOver(j)
    /\ CopiesCounted(j)

IInv ==
    /\ TypeOK
    /\ HoldersWork
    /\ \A j \in Jobs : JobOK(j)

-----------------------------------------------------------------------------
(* What the writes do *)

SlotWork == [at : {"received", "working", "report"}, job : Jobs, task : Tasks,
             last : BOOLEAN, outcome : Outcome]

LEMMA SlotIs ==
    ASSUME TypeOK, NEW s \in Slots
    PROVE  /\ slot[s] \in {Free} \cup SlotWork
           /\ slot[s] = Free => slot[s].at = "free"
           /\ s \in Busy <=> slot[s] \in SlotWork
           /\ s \in Busy => /\ slot[s].at \in {"received", "working", "report"}
                            /\ slot[s].job \in Jobs /\ slot[s].task \in Tasks
                            /\ slot[s].outcome \in Outcome
  <1>1. slot[s] \in {Free} \cup SlotWork
    BY DEF TypeOK, SlotWork
  <1>2. Free \notin SlotWork
    <2>1. \A w \in SlotWork : w.at # "free"
      BY DEF SlotWork
    <2>2. Free.at = "free"
      BY DEF Free
    <2>3. QED
      BY <2>1, <2>2
  <1>3. slot[s] \in SlotWork => /\ slot[s].at \in {"received", "working", "report"}
                                /\ slot[s].job \in Jobs /\ slot[s].task \in Tasks
                                /\ slot[s].outcome \in Outcome
    BY DEF SlotWork
  <1>4. slot[s] = Free => slot[s].at = "free"
    BY DEF Free
  <1>5. QED
    BY <1>1, <1>2, <1>3, <1>4 DEF Busy

\* A slot that is about to report works on the same task.
LEMMA ToReportIs ==
    ASSUME TypeOK, NEW s \in Busy, NEW o \in Outcome, ToReport(s, o)
    PROVE  /\ slot' \in [Slots -> {Free} \cup SlotWork]
           /\ slot'[s] \in SlotWork
           /\ slot'[s].at = "report" /\ slot'[s].outcome = o
           /\ slot'[s].job = slot[s].job /\ slot'[s].task = slot[s].task
           /\ \A q \in Slots : q # s => slot'[q] = slot[q]
           /\ Busy' = Busy
  <1>1. s \in Slots /\ slot[s] \in SlotWork /\ slot \in [Slots -> {Free} \cup SlotWork]
    BY SlotIs DEF Busy, TypeOK, SlotWork
  <1>2. PICK w \in SlotWork : w = [slot[s] EXCEPT !.at = "report"]
    BY <1>1 DEF SlotWork
  <1>3. w.at = "report" /\ w.job = slot[s].job /\ w.task = slot[s].task
    BY <1>1, <1>2 DEF SlotWork
  <1>4. PICK v \in SlotWork : v = [w EXCEPT !.outcome = o]
    BY DEF SlotWork
  <1>5. v.at = "report" /\ v.job = slot[s].job /\ v.task = slot[s].task /\ v.outcome = o
    BY <1>3, <1>4 DEF SlotWork
  <1>6. slot' = [slot EXCEPT ![s] = v]
    BY <1>1, <1>2, <1>4 DEF ToReport
  <1>7. /\ slot' \in [Slots -> {Free} \cup SlotWork] /\ slot'[s] = v
        /\ \A q \in Slots : q # s => slot'[q] = slot[q]
    BY <1>1, <1>6
  <1>8. Busy' = Busy
    <2>1. \A w1 \in SlotWork : w1 # Free
      BY DEF SlotWork, Free
    <2>2. QED
      BY <1>1, <1>7, <2>1 DEF Busy
  <1>9. QED
    BY <1>5, <1>7, <1>8

\* Messages that come back to the queue are the same ones, held by nobody.
LEMMA ReleaseIs ==
    ASSUME TypeOK, NEW H \in SUBSET work
    PROVE  /\ Release(H) \subseteq WorkMessage
           /\ \A m \in work \ H : m \in Release(H)
           /\ \A m \in H : \E n \in Release(H) : n.job = m.job /\ n.task = m.task
           /\ \A n \in Release(H) :
                 \/ n \in work \ H
                 \/ /\ n.holder = Null
                    /\ \E m \in H : n.job = m.job /\ n.task = m.task /\ n.copy = m.copy
  <1> DEFINE freed(m) == [m EXCEPT !.holder = Null]
  <1>1. \A m \in H : /\ freed(m) \in WorkMessage /\ freed(m).holder = Null
                     /\ freed(m).job = m.job /\ freed(m).task = m.task
                     /\ freed(m).copy = m.copy
    <2>1. \A m \in H : m \in WorkMessage
      BY DEF TypeOK
    <2>2. QED
      BY <2>1 DEF WorkMessage
  <1>2. Release(H) = (work \ H) \cup {freed(m) : m \in H}
    BY DEF Release
  <1>3. work \subseteq WorkMessage
    BY DEF TypeOK
  <1> HIDE DEF freed
  <1>4. QED
    BY <1>1, <1>2, <1>3

\* A slot that becomes free.
LEMMA LeaveIs ==
    ASSUME TypeOK, NEW s \in Slots, slot' = [slot EXCEPT ![s] = Free]
    PROVE  /\ slot' \in [Slots -> {Free} \cup SlotWork]
           /\ slot'[s] = Free
           /\ \A q \in Slots : q # s => slot'[q] = slot[q]
           /\ Busy' = Busy \ {s}
  BY DEF TypeOK, SlotWork, Busy

\* A set of natural numbers that is not empty has a least member.
LEMMA LeastMember ==
    ASSUME NEW T \in SUBSET Nat, T # {}
    PROVE  \E x \in T : \A y \in T : x <= y
  <1>1. IsWellFoundedOn(OpToRel(<, Nat), Nat)
    BY NatLessThanWellFounded
  <1>2. PICK x \in T : \A y \in T : ~(<<y, x>> \in OpToRel(<, Nat))
    BY <1>1, WFMin
  <1>3. ASSUME NEW y \in T PROVE x <= y
    <2>1. x \in Nat /\ y \in Nat
      OBVIOUS
    <2>2. ~(y < x)
      BY <1>2, <2>1 DEF OpToRel
    <2>3. QED
      BY <2>1, <2>2
  <1>4. QED
    BY <1>2, <1>3

\* While every ZIP message comes from a rolled back send there is a free copy
\* number for one more, and it is at most one more than the faults.
LEMMA ZipMessageIs ==
    ASSUME TypeOK, NEW j \in Jobs, \A m \in work : OfTask(m, j, Zip) => m.copy <= faults
    PROVE  /\ ZipMessage(j) \in WorkMessage
           /\ OfTask(ZipMessage(j), j, Zip)
           /\ ZipMessage(j).holder = Null
           /\ ZipMessage(j).copy <= faults + 1
  <1> DEFINE copies == {m.copy : m \in {w \in work : w.job = j /\ w.task = Zip}}
             P(n) == n \notin copies /\ \A k \in 1..(n - 1) : k \in copies
             n == CHOOSE n \in 1..(MaxFaults + 1) : P(n)
  <1>1. faults \in Nat /\ MaxFaults \in Nat /\ faults <= MaxFaults
    BY BulkJobAssumption DEF TypeOK
  <1>2. \A c \in copies : c \in Nat /\ c <= faults
    <2>1. TAKE c \in copies
    <2>2. PICK m \in work : m.job = j /\ m.task = Zip /\ c = m.copy
      OBVIOUS
    <2>3. m.copy \in 1..(MaxFaults + 1) /\ OfTask(m, j, Zip)
      BY <2>2 DEF TypeOK, WorkMessage, OfTask
    <2>4. QED
      BY <1>1, <2>2, <2>3
  <1> HIDE DEF copies
  <1> DEFINE T == {k \in 1..(faults + 1) : k \notin copies}
  <1>3. T \in SUBSET Nat /\ faults + 1 \in T
    <2>1. faults + 1 \notin copies
      BY <1>1, <1>2
    <2>2. QED
      BY <1>1, <2>1
  <1>4. PICK x \in T : \A y \in T : x <= y
    BY <1>3, LeastMember
  <1>5. x \in 1..(MaxFaults + 1) /\ P(x)
    BY <1>1, <1>4
  <1>6. n \in 1..(MaxFaults + 1) /\ P(n)
    BY <1>5
  <1>7. n <= faults + 1
    <2>1. SUFFICES ASSUME n > faults + 1 PROVE FALSE
      BY <1>1, <1>6
    <2>2. faults + 1 \in 1..(n - 1)
      BY <1>1, <1>6, <2>1
    <2>3. QED
      BY <1>1, <1>2, <1>6, <2>2
  <1>8. ZipMessage(j) = [job |-> j, task |-> Zip, seen |-> 0, holder |-> Null, copy |-> n]
    BY DEF ZipMessage, copies
  <1> HIDE DEF n
  <1>9. QED
    BY <1>1, <1>6, <1>7, <1>8, BulkJobAssumption DEF WorkMessage, Tasks, OfTask

\* What Revert writes when the job is in one of the statuses it asks for.
LEMMA RevertIs ==
    ASSUME TypeOK, NEW j \in Jobs, NEW from \in SUBSET ActiveStatuses, Revert(j, from)
    PROVE  /\ status' \in [Jobs -> ActiveStatuses \cup {"none", "DONE", "FAILED", "EXPIRED"}]
           /\ batch' \in [Jobs -> [Batches -> {"absent", "PENDING", "DONE"}]]
           /\ completed' = completed
           /\ stale' \in [Jobs -> BOOLEAN]
           /\ purging' \subseteq Jobs
           /\ \A i \in Jobs : i # j =>
                 /\ status'[i] = status[i] /\ batch'[i] = batch[i]
                 /\ i \in purging' => i \in purging
           /\ status[j] \in from => status'[j] = "FAILED" /\ batch'[j] = NoRows
           /\ status[j] \notin from =>
                 /\ status'[j] = status[j] /\ batch'[j] = batch[j] /\ purging' = purging
  <1>1. NoRows \in [Batches -> {"absent", "PENDING", "DONE"}]
    BY DEF NoRows
  <1>2. CASE status[j] \in from
    <2>1. /\ status' = [status EXCEPT ![j] = "FAILED"]
          /\ batch' = [batch EXCEPT ![j] = NoRows]
          /\ stale' = [stale EXCEPT ![j] = FALSE]
          /\ purging' = purging \cup {j} /\ completed' = completed
      BY <1>2 DEF Revert
    <2>2. status' \in [Jobs -> ActiveStatuses \cup {"none", "DONE", "FAILED", "EXPIRED"}]
      BY <2>1 DEF TypeOK
    <2>3. batch' \in [Jobs -> [Batches -> {"absent", "PENDING", "DONE"}]]
      BY <1>1, <2>1 DEF TypeOK
    <2>4. stale' \in [Jobs -> BOOLEAN] /\ purging' \subseteq Jobs
      BY <2>1 DEF TypeOK
    <2>5. \A i \in Jobs : i # j => /\ status'[i] = status[i] /\ batch'[i] = batch[i]
                                   /\ i \in purging' => i \in purging
      BY <2>1 DEF TypeOK
    <2>6. status'[j] = "FAILED" /\ batch'[j] = NoRows
      BY <2>1 DEF TypeOK
    <2>7. QED
      BY <1>2, <2>1, <2>2, <2>3, <2>4, <2>5, <2>6
  <1>3. CASE status[j] \notin from
    BY <1>3 DEF Revert, TypeOK, database
  <1>4. QED
    BY <1>2, <1>3

-----------------------------------------------------------------------------
(* What a step may do around a job without disturbing it *)

\* The row of the job stays as it is; its dispatch too, or it ends.
SameRow(j) ==
    /\ status'[j] = status[j] /\ batch'[j] = batch[j] /\ completed'[j] = completed[j]
    /\ \/ dispatch'[j] = dispatch[j]
       \/ /\ status[j] # "none" /\ dispatch'[j].at \in {"off", "failing"}
          /\ dispatch'[j].left \subseteq dispatch[j].left

\* The job waits for this task.
Awaited(j, t) ==
    \/ t \in Batches /\ status[j] \in BatchPhaseStatuses /\ batch[j][t] = "PENDING"
    \/ t = Zip /\ status[j] = "ASSEMBLING"

\* Messages change hands or are dropped, but not what the job waits for, and no
\* new ZIP message appears.
QueuesKept(j) ==
    /\ \A t \in Tasks : InHand(j, t)' => InHand(j, t)
    /\ \A t \in Tasks : Queued(j, t) /\ Awaited(j, t) => Queued(j, t)'
    /\ \A m \in work' : OfTask(m, j, Zip) => \E n \in work : OfTask(n, j, Zip) /\ n.copy = m.copy

\* What is newly said of a task in hand is true.
ClaimsTrue(j) ==
    \A t \in Tasks, o \in Outcome : Claimed(j, t, o)' =>
        \/ Claimed(j, t, o)
        \/ /\ InHand(j, t)
           /\ o = "missing" => ~Active(j)
           /\ o = "done" /\ t \in Batches => <<j, t>> \in pdfs'
           /\ o = "done" /\ t = Zip => j \in zips'

\* No blob of an active job goes, nor the ZIP of one that is done.
BlobsKept(j) ==
    /\ Active(j) => /\ inputs \cap BlobsOf(j) \subseteq inputs'
                    /\ pdfs \cap BlobsOf(j) \subseteq pdfs'
    /\ (Active(j) \/ status[j] = "DONE") /\ j \in zips => j \in zips'

\* Nobody starts to clean up after the job.
CleanupKept(j) ==
    /\ j \in purging' => j \in purging
    /\ consumer' # Idle /\ consumer'.result.job = j => status[j] \in {"DONE", "EXPIRED"}

Undisturbed(j) ==
    SameRow(j) /\ QueuesKept(j) /\ ClaimsTrue(j) /\ BlobsKept(j) /\ CleanupKept(j)

LEMMA UndisturbedIsOK ==
    ASSUME TypeOK, TypeOK', NEW j \in Jobs, JobOK(j), faults' >= faults, Undisturbed(j)
    PROVE  JobOK(j)'
  <1> USE DEF JobOK, Undisturbed
  <1>1. /\ status'[j] = status[j] /\ batch'[j] = batch[j] /\ completed'[j] = completed[j]
        /\ \/ dispatch'[j] = dispatch[j]
           \/ /\ status[j] # "none" /\ dispatch'[j].at \in {"off", "failing"}
              /\ dispatch'[j].left \subseteq dispatch[j].left
    BY DEF SameRow
  <1>2. Active(j)' = Active(j) /\ DoneBatches(j)' = DoneBatches(j)
    BY <1>1 DEF Active, DoneBatches
  <1>3. Zip \in Tasks /\ Batches \subseteq Tasks /\ {"done", "error", "missing"} = Outcome
    BY DEF Tasks, Outcome
  <1>4. Untouched(j)'
    BY <1>1, <1>3 DEF Untouched, QueuesKept, ClaimsTrue
  <1>5. RowsTogether(j)'
    BY <1>1 DEF RowsTogether
  <1>6. Progress(j)'
    <2>1. status[j] = "ASSEMBLING" => BlobsOf(j) \subseteq pdfs'
      BY DEF Progress, BlobsKept, Active, ActiveStatuses
    <2>2. QED
      BY <1>1, <1>2, <2>1 DEF Progress
  <1>7. Waits(j)'
    BY <1>1, <1>3 DEF Waits, QueuesKept, Awaited, BatchPhaseStatuses, RowsTogether
  <1>8. NothingMissing(j)'
    <2>1. SUFFICES ASSUME Active(j) PROVE NothingMissing(j)'
      BY <1>2 DEF NothingMissing
    <2>2. /\ \A b \in Batches : <<j, b>> \in inputs => <<j, b>> \in inputs'
          /\ \A b \in Batches : <<j, b>> \in pdfs => <<j, b>> \in pdfs'
          /\ BlobsOf(j) \subseteq pdfs => BlobsOf(j) \subseteq pdfs'
      BY <2>1 DEF BlobsKept, BlobsOf
    <2>3. \A b \in Batches : InHand(j, b)' => <<j, b>> \in inputs'
      BY <1>3, <2>1, <2>2 DEF NothingMissing, QueuesKept
    <2>4. InHand(j, Zip)' => BlobsOf(j) \subseteq pdfs'
      BY <1>3, <2>1, <2>2 DEF NothingMissing, QueuesKept
    <2>5. \A b \in Batches : Claimed(j, b, "done")' \/ batch'[j][b] = "DONE" => <<j, b>> \in pdfs'
      BY <1>1, <1>3, <2>1, <2>2 DEF NothingMissing, ClaimsTrue
    <2>6. \A t \in Tasks : ~Claimed(j, t, "missing")'
      BY <1>3, <2>1 DEF NothingMissing, ClaimsTrue
    <2>7. QED
      BY <2>3, <2>4, <2>5, <2>6 DEF NothingMissing
  <1>9. ZipThere(j)'
    <2>1. Active(j) /\ Claimed(j, Zip, "done")' => j \in zips'
      BY <1>3 DEF ZipThere, ClaimsTrue, BlobsKept
    <2>2. status[j] = "DONE" => j \in zips'
      BY DEF ZipThere, BlobsKept
    <2>3. QED
      BY <1>1, <1>2, <2>1, <2>2 DEF ZipThere
  <1>10. CleanedWhenOver(j)'
    BY <1>1 DEF CleanedWhenOver, CleanupKept
  <1>11. CopiesCounted(j)'
    <2> SUFFICES ASSUME status[j] \in BatchPhaseStatuses, NEW m \in work', OfTask(m, j, Zip)
                 PROVE  m.copy <= faults'
      BY <1>1 DEF CopiesCounted
    <2>1. PICK n \in work : OfTask(n, j, Zip) /\ n.copy = m.copy
      BY DEF QueuesKept
    <2>2. n.copy <= faults /\ n.copy \in Nat
      BY <2>1 DEF CopiesCounted, TypeOK, WorkMessage
    <2>3. faults \in Nat /\ faults' \in Nat
      BY DEF TypeOK
    <2>4. QED
      BY <2>1, <2>2, <2>3
  <1>12. QED
    BY <1>4, <1>5, <1>6, <1>7, <1>8, <1>9, <1>10, <1>11

\* When the queues and the slots stay as they are.
LEMMA QuietQueues ==
    ASSUME NEW j \in Jobs, UNCHANGED <<work, results, slot>>
    PROVE  QueuesKept(j) /\ ClaimsTrue(j)
  BY DEF QueuesKept, ClaimsTrue, InHand, Queued, Claimed, Busy

\* A fault or none: the count never goes down.
LEMMA FaultsGrow ==
    ASSUME TypeOK, Fault \/ NoFault
    PROVE  faults' \in 0..MaxFaults /\ faults' >= faults
           /\ (NoFault => faults' = faults) /\ (Fault => faults' = faults + 1)
  <1>1. faults \in 0..MaxFaults /\ MaxFaults \in Nat
    BY BulkJobAssumption DEF TypeOK
  <1>2. CASE Fault
    BY <1>1, <1>2 DEF Fault, NoFault
  <1>3. CASE NoFault
    BY <1>1, <1>3 DEF Fault, NoFault
  <1>4. QED
    BY <1>2, <1>3

\* A step that leaves every job undisturbed, or every job but one.
LEMMA UndisturbedIInv ==
    ASSUME IInv, TypeOK', HoldersWork', Fault \/ NoFault, \A j \in Jobs : Undisturbed(j)
    PROVE  IInv'
  <1>1. faults' >= faults
    BY FaultsGrow DEF IInv
  <1>2. QED
    BY <1>1, UndisturbedIsOK DEF IInv

LEMMA OneJobIInv ==
    ASSUME IInv, TypeOK', HoldersWork', Fault \/ NoFault, NEW j \in Jobs, JobOK(j)',
           \A i \in Jobs : i # j => Undisturbed(i)
    PROVE  IInv'
  <1>1. faults' >= faults
    BY FaultsGrow DEF IInv
  <1>2. QED
    BY <1>1, UndisturbedIsOK DEF IInv

LEMMA HoldersKept ==
    ASSUME HoldersWork, slot' = slot, \A m \in work' : m \in work \/ m.holder = Null
    PROVE  HoldersWork'
  BY DEF HoldersWork, Busy

-----------------------------------------------------------------------------
(* The steps of the PDF service keep the invariant *)

\* The database and the memory of the backend stay as they are, blobs are only
\* added, and what is newly said of a task is true.
LEMMA ServiceOK ==
    ASSUME IInv, UNCHANGED <<database, backend>>, inputs' = inputs,
           pdfs \subseteq pdfs', pdfs' \subseteq Jobs \X Batches,
           zips \subseteq zips', zips' \subseteq Jobs,
           work' \subseteq WorkMessage, results' \subseteq Result,
           slot' \in [Slots -> {Free} \cup SlotWork], workerUp' \in BOOLEAN,
           Fault \/ NoFault, HoldersWork',
           \A j \in Jobs : QueuesKept(j) /\ ClaimsTrue(j)
    PROVE  IInv'
  <1>1. TypeOK /\ faults' \in 0..MaxFaults /\ faults' >= faults
    BY FaultsGrow DEF IInv
  <1>2. TypeOK'
    BY <1>1 DEF TypeOK, database, backend, SlotWork
  <1>3. ASSUME NEW j \in Jobs PROVE JobOK(j)'
    <2>1. SameRow(j)
      BY DEF SameRow, database, backend
    <2>2. BlobsKept(j)
      BY DEF BlobsKept
    <2>3. CleanupKept(j)
      BY DEF CleanupKept, IInv, JobOK, CleanedWhenOver, backend
    <2>4. QED
      BY <1>1, <1>2, <2>1, <2>2, <2>3, UndisturbedIsOK DEF IInv, Undisturbed
  <1>4. QED
    BY <1>2, <1>3 DEF IInv

LEMMA ReceiveOK ==
    ASSUME IInv, NEW s \in Slots, NEW m \in work, Receive(s, m)
    PROVE  IInv'
  <1>1. TypeOK /\ HoldersWork /\ m \in WorkMessage /\ MaxAttempts \in Nat
    BY BulkJobAssumption DEF IInv, TypeOK
  <1> DEFINE attempt == m.seen + 1
             next == IF attempt > MaxAttempts THEN MaxAttempts + 1 ELSE attempt
             n == [m EXCEPT !.seen = next, !.holder = s]
             w == [at |-> IF attempt > MaxAttempts THEN "report" ELSE "received",
                   job |-> m.job, task |-> m.task, last |-> attempt >= MaxAttempts,
                   outcome |-> IF attempt > MaxAttempts THEN "error" ELSE "done"]
  <1>2. /\ work' = (work \ {m}) \cup {n} /\ slot' = [slot EXCEPT ![s] = w]
        /\ slot[s] = Free /\ (Fault \/ NoFault)
        /\ UNCHANGED <<database, blobs, results, workerUp, backend>>
    BY DEF Receive
  <1>3. next \in 0..(MaxAttempts + 1)
    <2>1. m.seen \in 0..(MaxAttempts + 1)
      BY <1>1 DEF WorkMessage
    <2>2. QED
      BY <1>1, <2>1
  <1>4. /\ n \in WorkMessage /\ n.job = m.job /\ n.task = m.task /\ n.copy = m.copy
        /\ n.holder = s /\ n.holder # Null
    BY <1>1, <1>3, BulkJobAssumption DEF WorkMessage
  <1>5. /\ w \in SlotWork /\ w.job = m.job /\ w.task = m.task
        /\ w.at = "report" => w.outcome = "error"
        /\ w # Free
    <2>1. m.job \in Jobs /\ m.task \in Tasks
      BY <1>1 DEF WorkMessage
    <2>2. w.at # "free" /\ Free.at = "free"
      BY DEF Free
    <2>3. QED
      BY <2>1, <2>2 DEF SlotWork, Outcome
  <1> HIDE DEF n, w
  <1>6. /\ slot' \in [Slots -> {Free} \cup SlotWork] /\ slot'[s] = w
        /\ \A q \in Slots : q # s => slot'[q] = slot[q]
        /\ s \notin Busy /\ Busy' = Busy \cup {s}
    BY <1>1, <1>2, <1>5 DEF TypeOK, SlotWork, Busy
  <1>7. HoldersWork'
    <2> SUFFICES ASSUME NEW k \in work', k.holder # Null
                 PROVE  k.holder \in Busy' /\ OfTask(slot'[k.holder], k.job, k.task)
      BY DEF HoldersWork
    <2>1. CASE k = n
      BY <1>4, <1>5, <1>6, <2>1 DEF OfTask
    <2>2. CASE k # n
      <3>1. k \in work /\ k.holder \in Busy /\ OfTask(slot[k.holder], k.job, k.task)
        BY <1>1, <1>2, <2>2 DEF HoldersWork
      <3>2. k.holder \in Slots /\ k.holder # s
        BY <1>6, <3>1 DEF Busy
      <3>3. QED
        BY <1>6, <3>1, <3>2
    <2>3. QED
      BY <2>1, <2>2
  <1>8. ASSUME NEW j \in Jobs PROVE QueuesKept(j) /\ ClaimsTrue(j)
    <2>1. ASSUME NEW t \in Tasks, InHand(j, t)' PROVE InHand(j, t)
      <3>1. CASE \E k \in work' : OfTask(k, j, t)
        BY <1>2, <1>4, <3>1 DEF InHand, OfTask
      <3>2. CASE \E q \in Busy' : OfTask(slot'[q], j, t)
        <4>1. PICK q \in Busy' : OfTask(slot'[q], j, t)
          BY <3>2
        <4>2. CASE q = s
          BY <1>5, <1>6, <4>1, <4>2 DEF InHand, OfTask
        <4>3. CASE q # s
          BY <1>6, <4>1, <4>3 DEF InHand, Busy
        <4>4. QED
          BY <4>2, <4>3
      <3>3. QED
        BY <2>1, <3>1, <3>2 DEF InHand
    <2>2. ASSUME NEW t \in Tasks, Queued(j, t) PROVE Queued(j, t)'
      BY <1>2, <1>4, <2>2 DEF Queued, OfTask
    <2>3. ASSUME NEW k \in work', OfTask(k, j, Zip)
          PROVE  \E l \in work : OfTask(l, j, Zip) /\ l.copy = k.copy
      BY <1>2, <1>4, <2>3 DEF OfTask
    <2>4. ASSUME NEW t \in Tasks, NEW o \in Outcome, Claimed(j, t, o)'
          PROVE  Claimed(j, t, o) \/ (InHand(j, t) /\ o = "error")
      <3>1. CASE [job |-> j, task |-> t, outcome |-> o] \in results'
        BY <1>2, <3>1 DEF Claimed
      <3>2. ASSUME NEW q \in Busy', OfTask(slot'[q], j, t), slot'[q].at = "report",
                   slot'[q].outcome = o
            PROVE  Claimed(j, t, o) \/ (InHand(j, t) /\ o = "error")
        <4>1. CASE q = s
          BY <1>5, <1>6, <3>2, <4>1 DEF InHand, OfTask
        <4>2. CASE q # s
          BY <1>6, <3>2, <4>2 DEF Claimed, Busy
        <4>3. QED
          BY <4>1, <4>2
      <3>3. QED
        BY <2>4, <3>1, <3>2 DEF Claimed
    <2>5. QED
      BY <2>1, <2>2, <2>3, <2>4 DEF QueuesKept, ClaimsTrue
  <1>9. work' \subseteq WorkMessage /\ results' \subseteq Result
    BY <1>1, <1>2, <1>4 DEF TypeOK
  <1>10. /\ inputs' = inputs /\ pdfs' = pdfs /\ zips' = zips /\ workerUp' \in BOOLEAN
         /\ pdfs \subseteq Jobs \X Batches /\ zips \subseteq Jobs
    BY <1>1, <1>2 DEF blobs, TypeOK
  <1>11. QED
    BY <1>2, <1>6, <1>7, <1>8, <1>9, <1>10, ServiceOK

\* A slot that goes on with its task, and may now say something true of it.
LEMMA SlotMovesOK ==
    ASSUME IInv, NEW s \in Busy, NEW o \in Outcome,
           slot' \in [Slots -> {Free} \cup SlotWork], Busy' = Busy,
           slot'[s].job = slot[s].job, slot'[s].task = slot[s].task,
           slot'[s].at = "report" => slot'[s].outcome = o,
           \A q \in Slots : q # s => slot'[q] = slot[q],
           UNCHANGED <<database, backend, work, results, workerUp>>, inputs' = inputs,
           pdfs \subseteq pdfs', pdfs' \subseteq Jobs \X Batches,
           zips \subseteq zips', zips' \subseteq Jobs, Fault \/ NoFault,
           slot'[s].at = "report" =>
              /\ o = "missing" => ~Active(slot[s].job)
              /\ o = "done" /\ slot[s].task # Zip => <<slot[s].job, slot[s].task>> \in pdfs'
              /\ o = "done" /\ slot[s].task = Zip => slot[s].job \in zips'
    PROVE  IInv'
  <1>1. TypeOK /\ HoldersWork /\ s \in Slots
    BY DEF IInv, Busy
  <1>2. \A q \in Busy : slot'[q].job = slot[q].job /\ slot'[q].task = slot[q].task
    BY DEF Busy
  <1>3. HoldersWork'
    BY <1>1, <1>2 DEF HoldersWork, OfTask
  <1>4. ASSUME NEW j \in Jobs PROVE QueuesKept(j) /\ ClaimsTrue(j)
    <2>1. \A t \in Tasks : InHand(j, t)' <=> InHand(j, t)
      BY <1>2 DEF InHand, OfTask
    <2>2. QueuesKept(j)
      BY <2>1 DEF QueuesKept, Queued
    <2>3. ASSUME NEW t \in Tasks, NEW p \in Outcome, Claimed(j, t, p)', ~Claimed(j, t, p)
          PROVE  slot'[s].at = "report" /\ p = o /\ OfTask(slot[s], j, t)
      <3>1. PICK q \in Busy : OfTask(slot'[q], j, t) /\ slot'[q].at = "report" /\ slot'[q].outcome = p
        BY <2>3 DEF Claimed
      <3>2. q = s
        BY <2>3, <3>1 DEF Claimed, Busy
      <3>3. QED
        BY <3>1, <3>2 DEF OfTask
    <2>4. ClaimsTrue(j)
      <3> SUFFICES ASSUME NEW t \in Tasks, NEW p \in Outcome, Claimed(j, t, p)', ~Claimed(j, t, p)
                   PROVE  /\ InHand(j, t)
                          /\ p = "missing" => ~Active(j)
                          /\ p = "done" /\ t \in Batches => <<j, t>> \in pdfs'
                          /\ p = "done" /\ t = Zip => j \in zips'
        BY DEF ClaimsTrue
      <3>1. slot'[s].at = "report" /\ p = o /\ slot[s].job = j /\ slot[s].task = t
        BY <2>3 DEF OfTask
      <3>2. InHand(j, t)
        BY <3>1 DEF InHand, OfTask
      <3>3. QED
        BY <3>1, <3>2, BulkJobAssumption
    <2>5. QED
      BY <2>2, <2>4
  <1>5. work' \subseteq WorkMessage /\ results' \subseteq Result /\ workerUp' \in BOOLEAN
    BY <1>1 DEF TypeOK
  <1>6. QED
    BY <1>3, <1>4, <1>5, ServiceOK

\* The slots S become free; their messages H are released or deleted, and what
\* a slot had to report is sent before its message is deleted.
SlotsLeave(S, H) ==
    /\ \A m \in work : m \in H <=> m.holder \in S
    /\ slot' \in [Slots -> {Free} \cup SlotWork] /\ Busy' = Busy \ S
    /\ \A q \in Slots : q \notin S => slot'[q] = slot[q]
    /\ \/ work' = Release(H)
       \/ /\ work' = work \ H
          /\ \A q \in S \cap Busy : \E r \in results' : OfTask(r, slot[q].job, slot[q].task)
    /\ results \subseteq results' /\ results' \subseteq Result
    /\ \A r \in results' : r \notin results =>
          \E q \in S \cap Busy : /\ slot[q].at = "report" /\ r.job = slot[q].job
                                 /\ r.task = slot[q].task /\ r.outcome = slot[q].outcome
    /\ UNCHANGED <<database, blobs, backend>> /\ workerUp' \in BOOLEAN
    /\ Fault \/ NoFault

LEMMA SlotsLeaveOK ==
    ASSUME IInv, NEW S \in SUBSET Slots, NEW H \in SUBSET work, SlotsLeave(S, H)
    PROVE  IInv'
  <1> USE DEF SlotsLeave
  <1>1. TypeOK /\ HoldersWork
    BY DEF IInv
  <1>2. /\ Release(H) \subseteq WorkMessage
        /\ \A m \in work \ H : m \in Release(H)
        /\ \A m \in H : \E n \in Release(H) : n.job = m.job /\ n.task = m.task
        /\ \A n \in Release(H) :
              \/ n \in work \ H
              \/ n.holder = Null /\ \E m \in H : n.job = m.job /\ n.task = m.task /\ n.copy = m.copy
    BY <1>1, ReleaseIs
  <1>3. work' \subseteq WorkMessage
    BY <1>1, <1>2 DEF TypeOK
  <1>4. \A n \in work' : \/ n \in work \ H
                         \/ /\ n.holder = Null
                            /\ \E m \in work : n.job = m.job /\ n.task = m.task /\ n.copy = m.copy
    BY <1>2
  <1>5. HoldersWork'
    <2> SUFFICES ASSUME NEW k \in work', k.holder # Null
                 PROVE  k.holder \in Busy' /\ OfTask(slot'[k.holder], k.job, k.task)
      BY DEF HoldersWork
    <2>1. k \in work /\ k.holder \notin S
      BY <1>4
    <2>2. k.holder \in Busy /\ OfTask(slot[k.holder], k.job, k.task)
      BY <1>1, <2>1 DEF HoldersWork
    <2>3. QED
      BY <2>1, <2>2 DEF Busy
  <1>6. ASSUME NEW j \in Jobs PROVE QueuesKept(j) /\ ClaimsTrue(j)
    <2>1. ASSUME NEW t \in Tasks, InHand(j, t)' PROVE InHand(j, t)
      <3>1. CASE \E m \in work' : OfTask(m, j, t)
        BY <1>4, <3>1 DEF InHand, OfTask
      <3>2. CASE \E q \in Busy' : OfTask(slot'[q], j, t)
        BY <3>2 DEF InHand, Busy
      <3>3. QED
        BY <2>1, <3>1, <3>2 DEF InHand
    <2>2. ASSUME NEW t \in Tasks, Queued(j, t) PROVE Queued(j, t)'
      <3>1. CASE \E r \in results : OfTask(r, j, t)
        BY <3>1 DEF Queued
      <3>2. ASSUME NEW m \in work, OfTask(m, j, t) PROVE Queued(j, t)'
        <4>1. CASE m \notin H
          BY <1>2, <3>2, <4>1 DEF Queued
        <4>2. CASE m \in H /\ work' = Release(H)
          BY <1>2, <3>2, <4>2 DEF Queued, OfTask
        <4>3. CASE m \in H /\ work' # Release(H)
          <5>1. m.holder \in S /\ m.holder # Null
            BY <4>3, BulkJobAssumption
          <5>2. m.holder \in S \cap Busy /\ OfTask(slot[m.holder], m.job, m.task)
            BY <1>1, <5>1 DEF HoldersWork
          <5>3. QED
            BY <3>2, <4>3, <5>2 DEF Queued, OfTask
        <4>4. QED
          BY <4>1, <4>2, <4>3
      <3>3. QED
        BY <2>2, <3>1, <3>2 DEF Queued
    <2>3. ASSUME NEW k \in work', OfTask(k, j, Zip)
          PROVE  \E l \in work : OfTask(l, j, Zip) /\ l.copy = k.copy
      BY <1>4, <2>3 DEF OfTask
    <2>4. ASSUME NEW t \in Tasks, NEW o \in Outcome, Claimed(j, t, o)'
          PROVE  Claimed(j, t, o)
      <3>1. CASE [job |-> j, task |-> t, outcome |-> o] \in results
        BY <3>1 DEF Claimed
      <3>2. CASE [job |-> j, task |-> t, outcome |-> o] \in results' \ results
        <4>1. PICK q \in S \cap Busy : /\ slot[q].at = "report" /\ slot[q].job = j
                                       /\ slot[q].task = t /\ slot[q].outcome = o
          BY <3>2
        <4>2. QED
          BY <4>1 DEF Claimed, OfTask
      <3>3. CASE \E q \in Busy' : OfTask(slot'[q], j, t) /\ slot'[q].at = "report"
                                  /\ slot'[q].outcome = o
        BY <3>3 DEF Claimed, Busy
      <3>4. QED
        BY <2>4, <3>1, <3>2, <3>3 DEF Claimed
    <2>5. QED
      BY <2>1, <2>2, <2>3, <2>4 DEF QueuesKept, ClaimsTrue
  <1>7. /\ inputs' = inputs /\ pdfs' = pdfs /\ zips' = zips
        /\ pdfs \subseteq Jobs \X Batches /\ zips \subseteq Jobs
    BY <1>1 DEF blobs, TypeOK
  <1>8. QED
    BY <1>3, <1>5, <1>6, <1>7, ServiceOK

LEMMA WorkIsTyped ==
    ASSUME TypeOK, NEW m \in work
    PROVE  /\ m \in WorkMessage /\ m.job \in Jobs /\ m.task \in Tasks
           /\ m.holder \in Slots \cup {Null}
  BY DEF TypeOK, WorkMessage

LEMMA ResultIsTyped ==
    ASSUME TypeOK, NEW r \in results
    PROVE  /\ r \in Result /\ r.job \in Jobs /\ r.task \in Tasks /\ r.outcome \in Outcome
           /\ r = [job |-> r.job, task |-> r.task, outcome |-> r.outcome]
  BY DEF TypeOK, Result

LEMMA ServeIInv ==
    ASSUME IInv, NEW s \in Slots, Serve(s)
    PROVE  IInv'
  <1> DEFINE j == slot[s].job
             t == slot[s].task
  <1>0. TypeOK /\ HoldersWork
    BY DEF IInv
  <1>1. CASE \E m \in work : Receive(s, m)
    BY <1>1, ReceiveOK
  <1>2. ASSUME slot[s].at # "free"
        PROVE  s \in Busy /\ slot[s] \in SlotWork /\ j \in Jobs /\ t \in Tasks
               /\ slot[s].outcome \in Outcome /\ InHand(j, t) /\ JobOK(j)
    <2>1. s \in Busy /\ slot[s] \in SlotWork /\ j \in Jobs /\ t \in Tasks
          /\ slot[s].outcome \in Outcome
      BY <1>0, <1>2, SlotIs DEF Busy
    <2>2. QED
      BY <2>1 DEF IInv, InHand, OfTask
  <1>3. /\ pdfs \subseteq Jobs \X Batches /\ zips \subseteq Jobs /\ workerUp \in BOOLEAN
        /\ results \subseteq Result /\ {"done", "error", "missing"} = Outcome
    BY <1>0 DEF TypeOK, Outcome
  <1>4. ASSUME slot[s].at # "free", Active(j)
        PROVE  SourcesPresent(s)
    <2>1. NothingMissing(j) /\ InHand(j, t) /\ t \in Batches \cup {Zip}
      BY <1>2, <1>4 DEF JobOK, Tasks
    <2>2. QED
      BY <1>4, <2>1 DEF NothingMissing, SourcesPresent
  <1>5. CASE Load(s)
    <2>1. slot[s].at # "free" /\ UNCHANGED <<database, blobs, queues, workerUp, backend, faults>>
      BY <1>5 DEF Load
    <2>2. s \in Busy
      BY <1>2, <2>1
    <2>3. CASE SourcesPresent(s) /\ slot' = [slot EXCEPT ![s].at = "working"]
      <3>1. PICK w \in SlotWork : w = [slot[s] EXCEPT !.at = "working"]
        BY <1>2, <2>1 DEF SlotWork
      <3>2. w.at = "working" /\ w.job = j /\ w.task = t /\ w # Free
        <4>1. w.at = "working" /\ w.job = j /\ w.task = t
          BY <1>2, <2>1, <3>1 DEF SlotWork
        <4>2. QED
          BY <4>1 DEF Free
      <3>3. /\ slot' \in [Slots -> {Free} \cup SlotWork] /\ slot'[s] = w
            /\ \A q \in Slots : q # s => slot'[q] = slot[q]
        BY <1>0, <2>3, <3>1 DEF TypeOK, SlotWork
      <3>4. Busy' = Busy
        BY <2>2, <3>2, <3>3 DEF Busy
      <3>5. QED
        BY <1>3, <2>1, <2>2, <3>2, <3>3, <3>4, SlotMovesOK DEF blobs, queues, NoFault
    <2>4. CASE ~SourcesPresent(s) /\ ToReport(s, "missing")
      <3>1. ~Active(j)
        BY <1>4, <2>1, <2>4
      <3>2. QED
        BY <1>0, <1>3, <2>1, <2>2, <2>4, <3>1, ToReportIs, SlotMovesOK DEF blobs, queues, NoFault
    <2>5. QED
      BY <1>5, <2>3, <2>4 DEF Load
  <1>6. CASE Render(s)
    <2>1. /\ slot[s].at # "free" /\ t # Zip /\ ToReport(s, "done")
          /\ pdfs' = pdfs \cup {<<j, t>>}
          /\ UNCHANGED <<database, inputs, zips, queues, workerUp, backend, faults>>
      BY <1>6 DEF Render
    <2>2. s \in Busy /\ <<j, t>> \in Jobs \X Batches
      BY <1>2, <2>1 DEF Tasks
    <2>3. QED
      BY <1>0, <1>3, <2>1, <2>2, ToReportIs, SlotMovesOK DEF queues, NoFault
  <1>7. CASE Assemble(s)
    <2>1. /\ slot[s].at # "free" /\ t = Zip /\ ToReport(s, "done")
          /\ zips' = zips \cup {j}
          /\ UNCHANGED <<database, inputs, pdfs, queues, workerUp, backend, faults>>
      BY <1>7 DEF Assemble
    <2>2. s \in Busy /\ j \in Jobs
      BY <1>2, <2>1
    <2>3. QED
      BY <1>0, <1>3, <2>1, <2>2, ToReportIs, SlotMovesOK DEF queues, NoFault
  <1>8. ASSUME slot[s].at # "free", slot' = [slot EXCEPT ![s] = Free],
               \/ /\ work' = Release(HeldBy(s))
                  /\ \/ results' = results
                     \/ /\ slot[s].at = "report"
                        /\ results' = results \cup {[job |-> j, task |-> t,
                                                     outcome |-> slot[s].outcome]}
               \/ /\ work' = work \ HeldBy(s) /\ slot[s].at = "report"
                  /\ results' = results \cup {[job |-> j, task |-> t, outcome |-> slot[s].outcome]},
               UNCHANGED <<database, blobs, workerUp, backend>>, Fault \/ NoFault
        PROVE  IInv'
    <2>1. s \in Busy /\ j \in Jobs /\ t \in Tasks /\ slot[s].outcome \in Outcome
      BY <1>2, <1>8
    <2>2. PICK S \in SUBSET Slots : S = {s}
      OBVIOUS
    <2>3. PICK H \in SUBSET work : H = HeldBy(s)
      BY DEF HeldBy
    <2>4. \A m \in work : m \in H <=> m.holder \in S
      BY <2>2, <2>3 DEF HeldBy
    <2> DEFINE new == [job |-> j, task |-> t, outcome |-> slot[s].outcome]
    <2>5. new \in Result /\ OfTask(new, j, t) /\ new.outcome = slot[s].outcome
      BY <2>1 DEF Result, OfTask
    <2> HIDE DEF new
    <2>6. results' = results \/ (slot[s].at = "report" /\ results' = results \cup {new})
      BY <1>8 DEF new
    <2>7. results' \subseteq Result /\ results \subseteq results'
      BY <1>3, <2>5, <2>6
    <2>8. \A r \in results' : r \notin results =>
              \E q \in S \cap Busy : /\ slot[q].at = "report" /\ r.job = slot[q].job
                                       /\ r.task = slot[q].task /\ r.outcome = slot[q].outcome
      BY <2>2, <2>1, <2>5, <2>6 DEF OfTask
    <2>9. \/ work' = Release(H)
          \/ /\ work' = work \ H
             /\ \A q \in S \cap Busy : \E r \in results' : OfTask(r, slot[q].job, slot[q].task)
      BY <1>8, <2>2, <2>3, <2>5, <2>7 DEF new
    <2>10. /\ slot' \in [Slots -> {Free} \cup SlotWork] /\ Busy' = Busy \ S
          /\ \A q \in Slots : q \notin S => slot'[q] = slot[q]
      BY <1>0, <1>8, <2>2, LeaveIs
    <2>11. UNCHANGED <<database, blobs, backend>> /\ workerUp' \in BOOLEAN /\ (Fault \/ NoFault)
      BY <1>3, <1>8
    <2>12. SlotsLeave(S, H)
      BY <2>4, <2>7, <2>8, <2>9, <2>10, <2>11 DEF SlotsLeave
    <2>13. QED
      BY <2>12, SlotsLeaveOK
  <1>9. CASE TaskFails(s)
    <2>1. /\ slot[s].at # "free" /\ (Fault \/ NoFault)
          /\ UNCHANGED <<database, blobs, results, workerUp, backend>>
      BY <1>9 DEF TaskFails
    <2>2. s \in Busy
      BY <1>2, <2>1
    <2>3. CASE ToReport(s, "error") /\ UNCHANGED work
      BY <1>0, <1>3, <2>1, <2>2, <2>3, ToReportIs, SlotMovesOK DEF blobs
    <2>4. CASE Leave(s)
      BY <1>8, <2>1, <2>4 DEF Leave
    <2>5. QED
      BY <1>9, <2>3, <2>4 DEF TaskFails
  <1>10. CASE TaskRefused(s)
    <2>1. /\ slot[s].at # "free" /\ Fault /\ ToReport(s, "error")
          /\ UNCHANGED <<database, blobs, queues, workerUp, backend>>
      BY <1>10 DEF TaskRefused
    <2>2. s \in Busy
      BY <1>2, <2>1
    <2>3. QED
      BY <1>0, <1>3, <2>1, <2>2, ToReportIs, SlotMovesOK DEF blobs, queues
  <1>11. CASE Report(s)
    <2>1. slot[s].at = "report" /\ slot[s].at # "free"
      BY <1>11 DEF Report
    <2>2. QED
      BY <1>8, <1>11, <2>1 DEF Report
  <1>12. CASE ReportFails(s)
    BY <1>8, <1>12 DEF ReportFails, Leave
  <1>13. QED
    BY <1>1, <1>5, <1>6, <1>7, <1>9, <1>10, <1>11, <1>12 DEF Serve

LEMMA WorkerIInv ==
    ASSUME IInv, WorkerStops \/ WorkerStarts
    PROVE  IInv'
  <1>0. TypeOK /\ HoldersWork
    BY DEF IInv
  <1>1. CASE WorkerStops
    <2> DEFINE H == {m \in work : m.holder # Null}
    <2>1. /\ Fault /\ workerUp' = FALSE /\ slot' = [s \in Slots |-> Free]
          /\ work' = Release(H)
          /\ UNCHANGED <<database, blobs, results, backend>>
      BY <1>1 DEF WorkerStops
    <2>2. H \in SUBSET work /\ \A m \in work : m \in H <=> m.holder \in Slots
      BY <1>0, WorkIsTyped, BulkJobAssumption
    <2> HIDE DEF H
    <2>3. slot' \in [Slots -> {Free} \cup SlotWork] /\ Busy' = Busy \ Slots
      BY <2>1 DEF Busy
    <2>4. results' = results /\ results \subseteq Result
      BY <1>0, <2>1 DEF TypeOK
    <2>5. SlotsLeave(Slots, H)
      BY <2>1, <2>2, <2>3, <2>4 DEF SlotsLeave
    <2>6. QED
      BY <2>2, <2>5, SlotsLeaveOK
  <1>2. CASE WorkerStarts
    <2>1. workerUp' \in BOOLEAN /\ UNCHANGED <<database, blobs, queues, slot, backend, faults>>
      BY <1>2 DEF WorkerStarts
    <2>2. \A j \in Jobs : QueuesKept(j) /\ ClaimsTrue(j)
      BY <2>1, QuietQueues DEF queues
    <2>3. HoldersWork'
      BY <1>0, <2>1 DEF HoldersWork, Busy, queues
    <2>4. /\ pdfs \subseteq Jobs \X Batches /\ zips \subseteq Jobs
          /\ work' \subseteq WorkMessage /\ results' \subseteq Result
          /\ slot' \in [Slots -> {Free} \cup SlotWork]
      BY <1>0, <2>1 DEF TypeOK, SlotWork, queues
    <2>5. QED
      BY <2>1, <2>2, <2>3, <2>4, ServiceOK DEF blobs, NoFault
  <1>3. QED
    BY <1>1, <1>2

-----------------------------------------------------------------------------
(* The steps of the backend that leave every row as it is *)

ResolvedDispatch(j) ==
    \/ dispatch'[j] = dispatch[j]
    \/ /\ status[j] # "none" /\ dispatch'[j].at \in {"off", "failing"}
       /\ dispatch'[j].left \subseteq dispatch[j].left

LEMMA AwaitedIsActive == \A j, t : Awaited(j, t) => Active(j)
  BY DEF Awaited, Active, ActiveStatuses, BatchPhaseStatuses

LEMMA BackendMovesIInv ==
    ASSUME IInv, TypeOK', Fault \/ NoFault,
           UNCHANGED <<status, batch, completed, work, slot>>,
           results' \subseteq results, \A r \in results \ results' : ~Awaited(r.job, r.task),
           \A j \in Jobs : ResolvedDispatch(j) /\ BlobsKept(j),
           purging' \subseteq purging,
           consumer' # Idle => consumer # Idle /\ consumer'.result.job = consumer.result.job
    PROVE  IInv'
  <1>1. HoldersWork'
    BY HoldersKept DEF IInv
  <1>2. ASSUME NEW j \in Jobs PROVE Undisturbed(j)
    <2>1. SameRow(j)
      BY DEF SameRow, ResolvedDispatch
    <2>3. QueuesKept(j)
      <3>1. \A t \in Tasks : InHand(j, t)' <=> InHand(j, t)
        BY DEF InHand, Busy
      <3>2. \A t \in Tasks : Queued(j, t) /\ Awaited(j, t) => Queued(j, t)'
        BY DEF Queued, OfTask
      <3>3. QED
        BY <3>1, <3>2 DEF QueuesKept
    <2>4. ClaimsTrue(j)
      BY DEF ClaimsTrue, Claimed, Busy
    <2>5. CleanupKept(j)
      BY DEF CleanupKept, IInv, JobOK, CleanedWhenOver
    <2>6. QED
      BY <2>1, <2>3, <2>4, <2>5 DEF Undisturbed
  <1>3. QED
    BY <1>1, <1>2, UndisturbedIInv

LEMMA ConsumerIs ==
    ASSUME TypeOK, consumer # Idle
    PROVE  /\ consumer.at \in {"rows", "inputs", "pdfs"} /\ consumer.result \in Result
           /\ consumer.result.job \in Jobs
           /\ consumer = [at |-> consumer.at, result |-> consumer.result]
  BY DEF TypeOK, Result

\* The consumer cleans up, and its job is over.
LEMMA ConsumerCleans ==
    ASSUME IInv, consumer.at \in {"rows", "inputs", "pdfs"}
    PROVE  /\ consumer # Idle /\ consumer.result.job \in Jobs /\ consumer.result \in Result
           /\ status[consumer.result.job] \in {"DONE", "EXPIRED"}
           /\ ~Active(consumer.result.job)
  <1>1. consumer # Idle
    BY DEF Idle
  <1>2. QED
    BY <1>1, ConsumerIs DEF IInv, JobOK, CleanedWhenOver, Active, ActiveStatuses

LEMMA CleaningIInv ==
    ASSUME IInv, CleanRowsFails \/ CleanInputs \/ CleanPdfs
    PROVE  IInv'
  <1> DEFINE i == consumer.result.job
  <1>0. TypeOK
    BY DEF IInv
  <1>1. consumer.at \in {"rows", "inputs", "pdfs"}
    BY DEF CleanRowsFails, CleanInputs, CleanPdfs
  <1>2. consumer # Idle /\ i \in Jobs /\ consumer.result \in Result
        /\ status[i] \in {"DONE", "EXPIRED"} /\ ~Active(i)
    BY <1>1, ConsumerCleans
  <1>3. /\ UNCHANGED <<database, work, slot, workerUp, zips, dispatch, purging, recovery, sweeping>>
        /\ Fault \/ NoFault
        /\ inputs' = inputs \/ inputs' = inputs \ BlobsOf(i)
        /\ pdfs' = pdfs \/ pdfs' = pdfs \ BlobsOf(i)
        /\ results' = results \/ results' = results \ {consumer.result}
        /\ consumer' = Idle \/ consumer' = [consumer EXCEPT !.at = "pdfs"]
    BY DEF CleanRowsFails, CleanInputs, CleanPdfs, blobs, queues, service
  <1>4. consumer' = Idle \/ /\ consumer' \in [at : {"rows", "inputs", "pdfs"}, result : Result]
                            /\ consumer'.result = consumer.result
    BY <1>0, <1>2, <1>3, ConsumerIs
  <1>5. faults' \in 0..MaxFaults
    BY <1>0, <1>3, FaultsGrow
  <1>6. TypeOK'
    BY <1>0, <1>3, <1>4, <1>5 DEF TypeOK, database
  <1>7. \A j \in Jobs : BlobsKept(j)
    <2> TAKE j \in Jobs
    <2>1. CASE j = i
      BY <1>2, <1>3, <2>1 DEF BlobsKept
    <2>2. CASE j # i
      BY <1>3, <2>2 DEF BlobsKept, BlobsOf
    <2>3. QED
      BY <2>1, <2>2
  <1>8. /\ results' \subseteq results /\ \A r \in results \ results' : ~Awaited(r.job, r.task)
        /\ purging' \subseteq purging
        /\ consumer' # Idle => consumer # Idle /\ consumer'.result.job = i
    BY <1>2, <1>3, <1>4, AwaitedIsActive
  <1>9. \A j \in Jobs : ResolvedDispatch(j)
    BY <1>3 DEF ResolvedDispatch
  <1>10. QED
    BY <1>3, <1>6, <1>7, <1>8, <1>9, BackendMovesIInv DEF database

LEMMA DispatchIs ==
    ASSUME TypeOK, NEW j \in Jobs
    PROVE  /\ dispatch[j].at \in {"off", "rows", "sending", "failing"}
           /\ dispatch[j].left \in SUBSET Batches
  BY DEF TypeOK

LEMMA QuietBackendIInv ==
    ASSUME IInv,
           \/ \E j \in Jobs : DispatchFails(j) \/ Stall(j) \/ Purge(j)
           \/ RecoverRead \/ RecoverFails \/ SweepRead \/ SweepFails \/ Restart
    PROVE  IInv'
  <1>0. TypeOK
    BY DEF IInv
  <1>1. CASE \E j \in Jobs : DispatchFails(j)
    <2>1. PICK j \in Jobs, failing \in SUBSET Batches :
             /\ failing \subseteq dispatch[j].left
             /\ dispatch[j].at # "off" \/ dispatch[j].left # {}
             /\ dispatch' = [dispatch EXCEPT ![j] = [at |-> "failing", left |-> failing]]
             /\ Fault
             /\ UNCHANGED <<database, blobs, queues, service, consumer, purging, recovery, sweeping>>
      BY <1>1 DEF DispatchFails
    <2>2. faults' \in 0..MaxFaults
      BY <1>0, <2>1, FaultsGrow
    <2>3. TypeOK'
      BY <1>0, <2>1, <2>2 DEF TypeOK, database, blobs, queues, service
    <2>4. status[j] # "none"
      BY <2>1 DEF IInv, JobOK, Untouched
    <2>5. \A i \in Jobs : ResolvedDispatch(i)
      BY <1>0, <2>1, <2>4 DEF ResolvedDispatch, TypeOK
    <2>6. \A i \in Jobs : BlobsKept(i)
      BY <2>1 DEF BlobsKept, blobs
    <2>7. QED
      BY <2>1, <2>3, <2>5, <2>6, BackendMovesIInv DEF database, queues, service
  <1>2. CASE \E j \in Jobs : Stall(j)
    <2>1. PICK j \in Jobs :
             /\ stale' = [stale EXCEPT ![j] = TRUE] /\ (Fault \/ NoFault)
             /\ UNCHANGED <<status, batch, completed, blobs, queues, service, backend>>
      BY <1>2 DEF Stall
    <2>2. faults' \in 0..MaxFaults
      BY <1>0, <2>1, FaultsGrow
    <2>3. TypeOK'
      BY <1>0, <2>1, <2>2 DEF TypeOK, blobs, queues, service, backend
    <2>4. \A i \in Jobs : ResolvedDispatch(i) /\ BlobsKept(i)
      BY <2>1 DEF BlobsKept, ResolvedDispatch, blobs, backend
    <2>5. QED
      BY <2>1, <2>3, <2>4, BackendMovesIInv DEF queues, service, backend
  <1>3. CASE \E j \in Jobs : Purge(j)
    <2>1. PICK j \in purging :
             /\ purging' = purging \ {j} /\ (Fault \/ NoFault)
             /\ \/ /\ inputs' = inputs \ BlobsOf(j) /\ pdfs' = pdfs \ BlobsOf(j)
                   /\ zips' = zips \ {j}
                \/ UNCHANGED blobs
             /\ UNCHANGED <<database, queues, service, dispatch, consumer, recovery, sweeping>>
      BY <1>3 DEF Purge
    <2>2. j \in Jobs /\ status[j] \in {"FAILED", "EXPIRED"}
      BY <1>0, <2>1 DEF TypeOK, IInv, JobOK, CleanedWhenOver
    <2>3. faults' \in 0..MaxFaults
      BY <1>0, <2>1, FaultsGrow
    <2>4. TypeOK'
      BY <1>0, <2>1, <2>3 DEF TypeOK, database, blobs, queues, service
    <2>5. \A i \in Jobs : BlobsKept(i)
      <3> TAKE i \in Jobs
      <3>1. CASE i = j
        BY <2>2, <3>1 DEF BlobsKept, Active, ActiveStatuses
      <3>2. CASE i # j
        BY <2>1, <3>2 DEF BlobsKept, BlobsOf, blobs
      <3>3. QED
        BY <3>1, <3>2
    <2>6. \A i \in Jobs : ResolvedDispatch(i)
      BY <2>1 DEF ResolvedDispatch
    <2>7. QED
      BY <2>1, <2>4, <2>5, <2>6, BackendMovesIInv DEF database, queues, service
  <1>4. CASE RecoverRead \/ RecoverFails \/ SweepRead \/ SweepFails
    <2>1. /\ Fault \/ NoFault
          /\ UNCHANGED <<database, blobs, queues, service, dispatch, consumer, purging>>
          /\ recovery' \in [read : BOOLEAN, jobs : SUBSET Jobs]
          /\ sweeping' \subseteq Jobs
      <3>1. recovery \in [read : BOOLEAN, jobs : SUBSET Jobs] /\ sweeping \subseteq Jobs
        BY <1>0 DEF TypeOK
      <3>2. CASE RecoverRead
        BY <3>1, <3>2 DEF RecoverRead, NoFault
      <3>3. CASE RecoverFails
        BY <3>1, <3>3 DEF RecoverFails
      <3>4. CASE SweepRead
        BY <3>1, <3>4 DEF SweepRead, NoFault
      <3>5. CASE SweepFails
        BY <3>1, <3>5 DEF SweepFails
      <3>6. QED
        BY <1>4, <3>2, <3>3, <3>4, <3>5
    <2>2. faults' \in 0..MaxFaults
      BY <1>0, <2>1, FaultsGrow
    <2>3. TypeOK'
      BY <1>0, <2>1, <2>2 DEF TypeOK, database, blobs, queues, service
    <2>4. \A i \in Jobs : ResolvedDispatch(i) /\ BlobsKept(i)
      BY <2>1 DEF BlobsKept, ResolvedDispatch, blobs
    <2>5. QED
      BY <2>1, <2>3, <2>4, BackendMovesIInv DEF database, queues, service
  <1>5. CASE Restart
    <2>1. /\ Fault /\ dispatch' = [j \in Jobs |-> [at |-> "off", left |-> {}]]
          /\ consumer' = Idle /\ purging' = {} /\ sweeping' = {}
          /\ recovery' = [read |-> FALSE, jobs |-> {}]
          /\ UNCHANGED <<database, blobs, queues, service>>
      BY <1>5 DEF Restart
    <2>2. faults' \in 0..MaxFaults
      BY <1>0, <2>1, FaultsGrow
    <2>3. dispatch' \in [Jobs -> [at : {"off", "rows", "sending", "failing"}, left : SUBSET Batches]]
      BY <2>1
    <2>4. TypeOK'
      BY <1>0, <2>1, <2>2, <2>3 DEF TypeOK, database, blobs, queues, service
    <2>5. \A i \in Jobs : ResolvedDispatch(i)
      BY <1>0, <2>1 DEF ResolvedDispatch, IInv, JobOK, Untouched
    <2>6. \A i \in Jobs : BlobsKept(i)
      BY <2>1 DEF BlobsKept, blobs
    <2>7. QED
      BY <2>1, <2>4, <2>5, <2>6, BackendMovesIInv DEF database, queues, service
  <1>6. QED
    BY <1>1, <1>2, <1>3, <1>4, <1>5

-----------------------------------------------------------------------------
(* Creation and dispatch *)

\* Nothing of a job is in hand, said or cleaned up before it is created.
LEMMA UntouchedIs ==
    ASSUME IInv, NEW j \in Jobs, status[j] = "none"
    PROVE  /\ j \notin purging /\ ~(consumer # Idle /\ consumer.result.job = j)
           /\ dispatch[j] = [at |-> "off", left |-> {}] /\ batch[j] = NoRows /\ completed[j] = 0
           /\ \A t \in Tasks : ~InHand(j, t)
           /\ \A t \in Tasks, o \in Outcome : ~Claimed(j, t, o)
  BY DEF IInv, JobOK, Untouched, CleanedWhenOver

LEMMA CreateIInv ==
    ASSUME IInv, NEW j \in Jobs, Create(j)
    PROVE  IInv'
  <1>0. TypeOK /\ Zip \in Tasks /\ Batches \subseteq Tasks
    BY DEF IInv, Tasks
  <1>1. /\ status[j] = "none" /\ status' = [status EXCEPT ![j] = "PREPARING"]
        /\ Fault \/ NoFault
        /\ dispatch' = [dispatch EXCEPT ![j] = [at |-> "rows", left |-> Batches]]
        /\ UNCHANGED <<batch, completed, stale, blobs, queues, service,
                       consumer, purging, recovery, sweeping>>
    BY DEF Create
  <1>2. faults' \in 0..MaxFaults
    BY <1>0, <1>1, FaultsGrow
  <1>3. TypeOK'
    BY <1>0, <1>1, <1>2 DEF TypeOK, ActiveStatuses, blobs, queues, service
  <1>4. HoldersWork'
    BY <1>1, HoldersKept DEF IInv, queues, service
  <1>5. ASSUME NEW i \in Jobs, i # j PROVE Undisturbed(i)
    <2>1. QueuesKept(i) /\ ClaimsTrue(i)
      BY <1>1, QuietQueues DEF queues, service
    <2>2. SameRow(i) /\ BlobsKept(i)
      BY <1>0, <1>1, <1>5 DEF SameRow, BlobsKept, TypeOK, blobs
    <2>3. CleanupKept(i)
      BY <1>1 DEF CleanupKept, IInv, JobOK, CleanedWhenOver
    <2>4. QED
      BY <2>1, <2>2, <2>3 DEF Undisturbed
  <1>6. /\ status'[j] = "PREPARING" /\ dispatch'[j] = [at |-> "rows", left |-> Batches]
        /\ batch'[j] = NoRows /\ completed'[j] = 0
        /\ j \notin purging' /\ ~(consumer' # Idle /\ consumer'.result.job = j)
    BY <1>0, <1>1, UntouchedIs DEF TypeOK
  <1>7. /\ \A t \in Tasks : ~InHand(j, t)'
        /\ \A t \in Tasks, o \in Outcome : ~Claimed(j, t, o)'
    BY <1>1, UntouchedIs DEF InHand, Claimed, Busy, queues, service
  <1>8. \A b \in Batches : batch'[j][b] # "DONE"
    BY <1>6 DEF NoRows
  <1>9. Progress(j)'
    <2>1. DoneBatches(j)' = {}
      BY <1>8 DEF DoneBatches
    <2>2. QED
      BY <1>6, <2>1, FS_EmptySet DEF Progress
  <1>10. Untouched(j)' /\ RowsTogether(j)' /\ Waits(j)'
    BY <1>6 DEF Untouched, RowsTogether, Waits
  <1>11. NothingMissing(j)' /\ ZipThere(j)'
    BY <1>0, <1>6, <1>7, <1>8 DEF NothingMissing, ZipThere, Outcome
  <1>12. CleanedWhenOver(j)' /\ CopiesCounted(j)'
    BY <1>0, <1>6, <1>7 DEF CleanedWhenOver, CopiesCounted, InHand
  <1>13. QED
    BY <1>1, <1>3, <1>4, <1>5, <1>9, <1>10, <1>11, <1>12, OneJobIInv DEF JobOK

\* A dispatch that goes on to another of its steps.
LEMMA DispatchMoves ==
    ASSUME TypeOK, NEW j \in Jobs, NEW a \in {"off", "rows", "sending", "failing"},
           dispatch' = [dispatch EXCEPT ![j].at = a]
    PROVE  /\ dispatch' \in [Jobs -> [at : {"off", "rows", "sending", "failing"}, left : SUBSET Batches]]
           /\ dispatch'[j].at = a /\ dispatch'[j].left = dispatch[j].left
           /\ \A i \in Jobs : i # j => dispatch'[i] = dispatch[i]
  <1>1. PICK d \in [at : {"off", "rows", "sending", "failing"}, left : SUBSET Batches] :
           d = [at |-> a, left |-> dispatch[j].left]
    BY DispatchIs
  <1>2. dispatch[j] \in [at : {"off", "rows", "sending", "failing"}, left : SUBSET Batches]
    BY DEF TypeOK
  <1>3. [dispatch[j] EXCEPT !.at = a] = d
    BY <1>1, <1>2
  <1>4. dispatch' = [dispatch EXCEPT ![j] = d]
    BY <1>3
  <1>5. dispatch \in [Jobs -> [at : {"off", "rows", "sending", "failing"}, left : SUBSET Batches]]
    BY DEF TypeOK
  <1>6. QED
    BY <1>1, <1>4, <1>5

LEMMA CreateRowsIInv ==
    ASSUME IInv, NEW j \in Jobs, CreateRows(j)
    PROVE  IInv'
  <1>0. TypeOK /\ JobOK(j) /\ Batches # {}
    BY BulkJobAssumption DEF IInv
  <1>1. /\ dispatch[j].at = "rows"
        /\ batch' = [batch EXCEPT ![j] = [b \in Batches |-> "PENDING"]]
        /\ dispatch' = [dispatch EXCEPT ![j].at = "sending"]
        /\ UNCHANGED <<status, completed, stale, blobs, queues, service,
                       consumer, purging, recovery, sweeping, faults>>
    BY DEF CreateRows
  <1>2. /\ dispatch[j].left = Batches /\ batch[j] = NoRows
        /\ status[j] # "none" /\ status[j] # "RUNNING"
    BY <1>0, <1>1 DEF JobOK, RowsTogether, Untouched
  <1>3. /\ dispatch'[j].at = "sending" /\ dispatch'[j].left = Batches
        /\ \A b \in Batches : batch'[j][b] = "PENDING"
        /\ \A i \in Jobs : i # j => dispatch'[i] = dispatch[i] /\ batch'[i] = batch[i]
    BY <1>0, <1>1, <1>2 DEF TypeOK
  <1>4. TypeOK'
    <2>1. batch' \in [Jobs -> [Batches -> {"absent", "PENDING", "DONE"}]]
      BY <1>0, <1>1 DEF TypeOK
    <2>2. dispatch' \in [Jobs -> [at : {"off", "rows", "sending", "failing"}, left : SUBSET Batches]]
      BY <1>0, <1>1, DispatchMoves
    <2>3. QED
      BY <1>0, <1>1, <2>1, <2>2 DEF TypeOK, blobs, queues, service
  <1>5. HoldersWork'
    BY <1>1, HoldersKept DEF IInv, queues, service
  <1>6. ASSUME NEW i \in Jobs, i # j PROVE Undisturbed(i)
    <2>1. QueuesKept(i) /\ ClaimsTrue(i)
      BY <1>1, QuietQueues DEF queues, service
    <2>2. SameRow(i) /\ BlobsKept(i)
      BY <1>1, <1>3, <1>6 DEF SameRow, BlobsKept, blobs
    <2>3. CleanupKept(i)
      BY <1>1 DEF CleanupKept, IInv, JobOK, CleanedWhenOver
    <2>4. QED
      BY <2>1, <2>2, <2>3 DEF Undisturbed
  <1>7. Progress(j)'
    <2>1. DoneBatches(j)' = {} /\ DoneBatches(j) = {}
      BY <1>2, <1>3 DEF DoneBatches, NoRows
    <2>2. QED
      BY <1>0, <1>1, <2>1 DEF Progress, JobOK, Active, blobs
  <1>8. Untouched(j)' /\ RowsTogether(j)'
    BY <1>1, <1>2, <1>3 DEF Untouched, RowsTogether
  <1>9. Waits(j)'
    BY <1>0, <1>1, <1>2, <1>3 DEF Waits, JobOK, Queued, queues
  <1>10. NothingMissing(j)'
    <2>1. \A t \in Tasks : InHand(j, t)' <=> InHand(j, t)
      BY <1>1 DEF InHand, Busy, queues, service
    <2>2. \A t \in Tasks, o \in Outcome : Claimed(j, t, o)' <=> Claimed(j, t, o)
      BY <1>1 DEF Claimed, Busy, queues, service
    <2>3. Zip \in Tasks /\ Batches \subseteq Tasks /\ {"done", "error", "missing"} = Outcome
      BY DEF Tasks, Outcome
    <2>4. QED
      BY <1>0, <1>1, <1>3, <2>1, <2>2, <2>3 DEF NothingMissing, JobOK, Active, blobs
  <1>11. ZipThere(j)'
    BY <1>0, <1>1 DEF ZipThere, JobOK, Active, Claimed, Busy, blobs, queues, service
  <1>12. CleanedWhenOver(j)' /\ CopiesCounted(j)'
    BY <1>0, <1>1 DEF CleanedWhenOver, CopiesCounted, JobOK, queues
  <1>13. QED
    BY <1>1, <1>4, <1>5, <1>6, <1>7, <1>8, <1>9, <1>10, <1>11, <1>12, OneJobIInv DEF JobOK, NoFault

LEMMA SendBatchIInv ==
    ASSUME IInv, NEW j \in Jobs, NEW b \in Batches, SendBatch(j, b)
    PROVE  IInv'
  <1> DEFINE new == [job |-> j, task |-> b, copy |-> 1, seen |-> 0, holder |-> Null]
  <1>0. TypeOK /\ JobOK(j) /\ b # Zip /\ {"done", "error", "missing"} = Outcome
        /\ Zip \in Tasks /\ Batches \subseteq Tasks
    BY BulkJobAssumption DEF IInv, Outcome, Tasks
  <1>1. /\ dispatch[j].at # "rows" /\ b \in dispatch[j].left
        /\ inputs' = inputs \cup {<<j, b>>} /\ work' = work \cup {new}
        /\ dispatch' = [dispatch EXCEPT ![j].left = @ \ {b}]
        /\ UNCHANGED <<database, pdfs, zips, results, service,
                       consumer, purging, recovery, sweeping, faults>>
    BY DEF SendBatch
  <1>2. /\ new \in WorkMessage /\ new.job = j /\ new.task = b /\ new.holder = Null
    BY BulkJobAssumption DEF WorkMessage, Tasks
  <1> HIDE DEF new
  <1>3. /\ dispatch'[j].at = dispatch[j].at /\ dispatch'[j].left = dispatch[j].left \ {b}
        /\ \A i \in Jobs : i # j => dispatch'[i] = dispatch[i]
        /\ dispatch' \in [Jobs -> [at : {"off", "rows", "sending", "failing"}, left : SUBSET Batches]]
    BY <1>0, <1>1 DEF TypeOK
  <1>4. TypeOK'
    BY <1>0, <1>1, <1>2, <1>3 DEF TypeOK, database, service
  <1>5. HoldersWork'
    BY <1>1, <1>2, HoldersKept DEF IInv, service
  <1>6. ASSUME NEW i \in Jobs, NEW t \in Tasks, i # j \/ t # b
        PROVE  InHand(i, t)' <=> InHand(i, t)
    BY <1>1, <1>2, <1>6 DEF InHand, OfTask, Busy, service
  <1>7. \A i \in Jobs, t \in Tasks, o \in Outcome : Claimed(i, t, o)' <=> Claimed(i, t, o)
    BY <1>1 DEF Claimed, Busy, service
  <1>8. \A i \in Jobs, t \in Tasks : Queued(i, t) => Queued(i, t)'
    BY <1>1 DEF Queued
  <1>9. \A i \in Jobs : \A m \in work' : OfTask(m, i, Zip) => m \in work
    BY <1>0, <1>1, <1>2 DEF OfTask
  <1>10. ASSUME NEW i \in Jobs, i # j PROVE Undisturbed(i)
    <2>1. QueuesKept(i) /\ ClaimsTrue(i)
      BY <1>6, <1>7, <1>8, <1>9, <1>10 DEF QueuesKept, ClaimsTrue
    <2>2. SameRow(i) /\ BlobsKept(i)
      BY <1>1, <1>3, <1>10 DEF SameRow, BlobsKept, database
    <2>3. CleanupKept(i)
      BY <1>1 DEF CleanupKept, IInv, JobOK, CleanedWhenOver
    <2>4. QED
      BY <2>1, <2>2, <2>3 DEF Undisturbed
  <1>11. status[j] # "none"
    BY <1>0, <1>1 DEF JobOK, Untouched
  <1>12. Untouched(j)' /\ RowsTogether(j)'
    BY <1>0, <1>1, <1>3, <1>11 DEF Untouched, RowsTogether, JobOK, database
  <1>13. Progress(j)'
    BY <1>0, <1>1 DEF Progress, JobOK, Active, DoneBatches, database
  <1>14. Waits(j)'
    <2>1. Queued(j, b)'
      BY <1>1, <1>2 DEF Queued, OfTask
    <2>2. QED
      BY <1>0, <1>1, <1>3, <1>8, <2>1 DEF Waits, JobOK, database
  <1>15. NothingMissing(j)'
    <2>1. \A c \in Batches : c # b => (InHand(j, c)' <=> InHand(j, c))
      BY <1>0, <1>6
    <2>2. QED
      BY <1>0, <1>1, <1>6, <1>7, <2>1 DEF NothingMissing, JobOK, Active, database
  <1>16. ZipThere(j)'
    BY <1>0, <1>1, <1>7 DEF ZipThere, JobOK, Active, database
  <1>17. CleanedWhenOver(j)' /\ CopiesCounted(j)'
    BY <1>0, <1>1, <1>9 DEF CleanedWhenOver, CopiesCounted, JobOK, database
  <1>18. QED
    BY <1>1, <1>4, <1>5, <1>10, <1>12, <1>13, <1>14, <1>15, <1>16, <1>17, OneJobIInv
    DEF JobOK, NoFault

LEMMA MarkRunningIInv ==
    ASSUME IInv, NEW j \in Jobs, MarkRunning(j)
    PROVE  IInv'
  <1>0. TypeOK /\ JobOK(j)
    BY DEF IInv
  <1>1. /\ dispatch[j].at = "sending" /\ dispatch[j].left = {}
        /\ status' = [status EXCEPT ![j] = IF @ = "PREPARING" THEN "RUNNING" ELSE @]
        /\ dispatch' = [dispatch EXCEPT ![j].at = "off"]
        /\ UNCHANGED <<batch, completed, stale, blobs, queues, service,
                       consumer, purging, recovery, sweeping, faults>>
    BY DEF MarkRunning
  <1>2. /\ status'[j] = IF status[j] = "PREPARING" THEN "RUNNING" ELSE status[j]
        /\ dispatch'[j].at = "off" /\ dispatch'[j].left = {}
        /\ \A i \in Jobs : i # j => dispatch'[i] = dispatch[i] /\ status'[i] = status[i]
    BY <1>0, <1>1 DEF TypeOK
  <1>3. TypeOK'
    <2>1. status' \in [Jobs -> ActiveStatuses \cup {"none", "DONE", "FAILED", "EXPIRED"}]
      BY <1>0, <1>1 DEF TypeOK, ActiveStatuses
    <2>2. dispatch' \in [Jobs -> [at : {"off", "rows", "sending", "failing"}, left : SUBSET Batches]]
      BY <1>0, <1>1, DispatchMoves
    <2>3. QED
      BY <1>0, <1>1, <2>1, <2>2 DEF TypeOK, blobs, queues, service
  <1>4. HoldersWork'
    BY <1>1, HoldersKept DEF IInv, queues, service
  <1>5. ASSUME NEW i \in Jobs, i # j \/ status[j] # "PREPARING" PROVE Undisturbed(i)
    <2>1. QueuesKept(i) /\ ClaimsTrue(i)
      BY <1>1, QuietQueues DEF queues, service
    <2>2. status[j] # "none"
      BY <1>0, <1>1 DEF JobOK, Untouched
    <2>3. SameRow(i)
      BY <1>1, <1>2, <1>5, <2>2 DEF SameRow
    <2>4. BlobsKept(i)
      BY <1>1 DEF BlobsKept, blobs
    <2>5. CleanupKept(i)
      BY <1>1 DEF CleanupKept, IInv, JobOK, CleanedWhenOver
    <2>6. QED
      BY <2>1, <2>3, <2>4, <2>5 DEF Undisturbed
  <1>6. CASE status[j] # "PREPARING"
    BY <1>1, <1>3, <1>4, <1>5, <1>6, UndisturbedIInv DEF NoFault
  <1>7. CASE status[j] = "PREPARING"
    <2>1. Active(j) /\ Active(j)' /\ status'[j] = "RUNNING"
      BY <1>2, <1>7 DEF Active, ActiveStatuses
    <2>2. Untouched(j)' /\ RowsTogether(j)'
      BY <1>0, <1>1, <1>2, <2>1 DEF Untouched, RowsTogether, JobOK
    <2>3. Progress(j)'
      BY <1>0, <1>1, <2>1 DEF Progress, JobOK, DoneBatches
    <2>4. Waits(j)'
      BY <1>0, <1>1, <1>2, <1>7, <2>1 DEF Waits, JobOK, Queued, queues
    <2>5. NothingMissing(j)' /\ ZipThere(j)'
      BY <1>0, <1>1, <2>1
      DEF NothingMissing, ZipThere, JobOK, InHand, Claimed, Busy, blobs, queues, service
    <2>6. CleanedWhenOver(j)' /\ CopiesCounted(j)'
      BY <1>0, <1>1, <1>7, <2>1
      DEF CleanedWhenOver, CopiesCounted, JobOK, BatchPhaseStatuses, queues
    <2>7. QED
      BY <1>1, <1>3, <1>4, <1>5, <2>2, <2>3, <2>4, <2>5, <2>6, OneJobIInv DEF JobOK, NoFault
  <1>8. QED
    BY <1>6, <1>7

-----------------------------------------------------------------------------
(* The reverts *)

\* A job that is failed, or left alone because it is no longer in a status the
\* revert asks for.
RevertStep(j, from) ==
    /\ Revert(j, from)
    /\ Fault \/ NoFault
    /\ UNCHANGED <<blobs, work, slot, consumer>>
    /\ \A i \in Jobs : ResolvedDispatch(i)
    /\ results' \subseteq results
    /\ \A r \in results \ results' :
          r.job = j /\ (status[j] \in from \/ ~Awaited(j, r.task))

LEMMA RevertStepIInv ==
    ASSUME IInv, TypeOK', NEW j \in Jobs, NEW from \in SUBSET ActiveStatuses,
           RevertStep(j, from)
    PROVE  IInv'
  <1> USE DEF RevertStep
  <1>0. TypeOK /\ JobOK(j)
    BY DEF IInv
  <1>1. CASE status[j] \notin from
    <2>1. UNCHANGED <<status, batch, completed>> /\ purging' = purging
      BY <1>1 DEF Revert, database
    <2>2. \A i \in Jobs : BlobsKept(i)
      BY DEF BlobsKept, blobs
    <2>3. \A r \in results \ results' : ~Awaited(r.job, r.task)
      BY <1>1
    <2>4. QED
      BY <2>1, <2>2, <2>3, BackendMovesIInv
  <1>2. CASE status[j] \in from
    <2>1. /\ status'[j] = "FAILED" /\ batch'[j] = NoRows /\ completed' = completed
          /\ \A i \in Jobs : i # j => /\ status'[i] = status[i] /\ batch'[i] = batch[i]
                                      /\ i \in purging' => i \in purging
      BY <1>0, <1>2, RevertIs
    <2>2. Active(j)
      BY <1>2 DEF Active
    <2>3. ASSUME NEW i \in Jobs, i # j PROVE Undisturbed(i)
      <3>1. SameRow(i)
        BY <2>1, <2>3 DEF SameRow, ResolvedDispatch
      <3>2. QueuesKept(i)
        <4>1. \A t \in Tasks : InHand(i, t)' <=> InHand(i, t)
          BY DEF InHand, Busy
        <4>2. \A r \in results : r.job = i => r \in results'
          BY <2>3
        <4>3. \A t \in Tasks : Queued(i, t) => Queued(i, t)'
          BY <4>2 DEF Queued, OfTask
        <4>4. QED
          BY <4>1, <4>3 DEF QueuesKept
      <3>3. ClaimsTrue(i)
        BY DEF ClaimsTrue, Claimed, Busy
      <3>4. BlobsKept(i)
        BY DEF BlobsKept, blobs
      <3>5. CleanupKept(i)
        BY <2>1, <2>3 DEF CleanupKept, IInv, JobOK, CleanedWhenOver
      <3>6. QED
        BY <3>1, <3>2, <3>3, <3>4, <3>5 DEF Undisturbed
    <2>4. ~Active(j)'
      BY <2>1 DEF Active, ActiveStatuses
    <2>5. Untouched(j)' /\ Progress(j)' /\ Waits(j)' /\ NothingMissing(j)'
          /\ ZipThere(j)' /\ CopiesCounted(j)'
      BY <2>1, <2>4
      DEF Untouched, Progress, Waits, NothingMissing, ZipThere, CopiesCounted, BatchPhaseStatuses
    <2>6. RowsTogether(j)'
      BY <1>0, <2>1 DEF RowsTogether, JobOK, ResolvedDispatch
    <2>7. CleanedWhenOver(j)'
      BY <1>0, <2>1, <2>2 DEF CleanedWhenOver, JobOK, Active, ActiveStatuses
    <2>8. HoldersWork'
      BY HoldersKept DEF IInv
    <2>9. QED
      BY <2>3, <2>5, <2>6, <2>7, <2>8, OneJobIInv DEF JobOK
  <1>3. QED
    BY <1>1, <1>2

\* The results a delivery may take from the queue.
LEMMA SettleIs ==
    ASSUME NEW r \in results, Settle(r)
    PROVE  /\ Fault \/ NoFault
           /\ results' \subseteq results /\ results \ results' \subseteq {r}
  BY DEF Settle

LEMMA RevertsIInv ==
    ASSUME IInv,
           \/ \E j \in Jobs : DispatchReverts(j) \/ RecoverRevert(j) \/ SweepRevert(j)
           \/ \E r \in results : ApplyFailure(r)
    PROVE  IInv'
  <1>0. TypeOK
    BY DEF IInv
  <1>1. {"RUNNING", "ASSEMBLING"} \in SUBSET ActiveStatuses /\ {"ASSEMBLING"} \in SUBSET ActiveStatuses
        /\ BatchPhaseStatuses \in SUBSET ActiveStatuses
    BY DEF ActiveStatuses, BatchPhaseStatuses
  <1>2. ASSUME NEW j \in Jobs, DispatchReverts(j) PROVE IInv'
    <2>1. /\ dispatch[j].at = "failing" /\ dispatch' = [dispatch EXCEPT ![j].at = "off"]
          /\ Revert(j, ActiveStatuses) \/ UNCHANGED <<database, purging>>
          /\ Fault \/ NoFault
          /\ UNCHANGED <<blobs, queues, service, consumer, recovery, sweeping>>
      BY <1>2 DEF DispatchReverts
    <2>2. /\ dispatch'[j].at = "off" /\ dispatch'[j].left = dispatch[j].left
          /\ \A i \in Jobs : i # j => dispatch'[i] = dispatch[i]
          /\ dispatch' \in [Jobs -> [at : {"off", "rows", "sending", "failing"}, left : SUBSET Batches]]
      BY <1>0, <2>1, DispatchMoves
    <2>3. status[j] # "none"
      BY <2>1 DEF IInv, JobOK, Untouched
    <2>4. \A i \in Jobs : ResolvedDispatch(i)
      BY <2>2, <2>3 DEF ResolvedDispatch
    <2>5. faults' \in 0..MaxFaults
      BY <1>0, <2>1, FaultsGrow
    <2>6. CASE Revert(j, ActiveStatuses)
      <3>1. TypeOK'
        <4>1. /\ status' \in [Jobs -> ActiveStatuses \cup {"none", "DONE", "FAILED", "EXPIRED"}]
              /\ batch' \in [Jobs -> [Batches -> {"absent", "PENDING", "DONE"}]]
              /\ completed' = completed /\ stale' \in [Jobs -> BOOLEAN] /\ purging' \subseteq Jobs
          BY <1>0, <2>6, RevertIs
        <4>2. QED
          BY <1>0, <2>1, <2>2, <2>5, <4>1 DEF TypeOK, blobs, queues, service
      <3>2. RevertStep(j, ActiveStatuses)
        BY <2>1, <2>4, <2>6 DEF RevertStep, queues, service
      <3>3. QED
        BY <3>1, <3>2, RevertStepIInv
    <2>7. CASE UNCHANGED <<database, purging>>
      <3>1. TypeOK'
        BY <1>0, <2>1, <2>2, <2>5, <2>7 DEF TypeOK, database, blobs, queues, service
      <3>2. \A i \in Jobs : BlobsKept(i)
        BY <2>1 DEF BlobsKept, blobs
      <3>3. QED
        BY <2>1, <2>4, <2>7, <3>1, <3>2, BackendMovesIInv DEF database, queues, service
    <2>8. QED
      BY <2>1, <2>6, <2>7
  <1>3. ASSUME NEW j \in Jobs, NEW from \in SUBSET ActiveStatuses, Revert(j, from),
               recovery' \in [read : BOOLEAN, jobs : SUBSET Jobs], sweeping' \subseteq Jobs,
               UNCHANGED <<blobs, queues, service, dispatch, consumer, faults>>
        PROVE  IInv'
    <2>1. TypeOK'
      BY <1>0, <1>3, RevertIs DEF TypeOK, blobs, queues, service
    <2>2. RevertStep(j, from)
      BY <1>3 DEF RevertStep, ResolvedDispatch, NoFault, queues, service
    <2>3. QED
      BY <2>1, <2>2, RevertStepIInv
  <1>4. recovery \in [read : BOOLEAN, jobs : SUBSET Jobs] /\ sweeping \subseteq Jobs
    BY <1>0 DEF TypeOK
  <1>5. ASSUME NEW j \in Jobs, RecoverRevert(j) PROVE IInv'
    <2>1. recovery' \in [read : BOOLEAN, jobs : SUBSET Jobs]
      BY <1>4, <1>5 DEF RecoverRevert
    <2>2. QED
      BY <1>3, <1>4, <1>5, <2>1 DEF RecoverRevert
  <1>6. ASSUME NEW j \in Jobs, SweepRevert(j) PROVE IInv'
    <2>1. sweeping' \subseteq Jobs
      BY <1>4, <1>6 DEF SweepRevert
    <2>2. QED
      BY <1>1, <1>3, <1>4, <1>6, <2>1 DEF SweepRevert
  <1>7. ASSUME NEW r \in results, ApplyFailure(r) PROVE IInv'
    <2>1. PICK from \in SUBSET ActiveStatuses :
             from = IF r.task = Zip THEN {"ASSEMBLING"} ELSE BatchPhaseStatuses
      BY <1>1
    <2>2. /\ Revert(r.job, from) /\ Settle(r)
          /\ UNCHANGED <<blobs, work, service, dispatch, consumer, recovery, sweeping>>
      BY <1>7, <2>1 DEF ApplyFailure
    <2>3. r.job \in Jobs /\ r.task \in Tasks
      BY <1>0, ResultIsTyped
    <2>4. /\ Fault \/ NoFault
          /\ results' \subseteq results /\ results \ results' \subseteq {r}
      BY <2>2, SettleIs
    <2>5. faults' \in 0..MaxFaults /\ results' \subseteq Result
      BY <1>0, <2>4, FaultsGrow DEF TypeOK
    <2>6. TypeOK'
      BY <1>0, <2>2, <2>3, <2>5, RevertIs DEF TypeOK, blobs, service
    <2>7. status[r.job] \in from \/ ~Awaited(r.job, r.task)
      BY <2>1, BulkJobAssumption DEF Awaited
    <2>8. RevertStep(r.job, from)
      BY <2>2, <2>4, <2>7 DEF RevertStep, ResolvedDispatch, service
    <2>9. QED
      BY <2>3, <2>6, <2>8, RevertStepIInv
  <1>8. QED
    BY <1>2, <1>5, <1>6, <1>7

-----------------------------------------------------------------------------
(* The end of a job *)

LEMMA ExpireIInv ==
    ASSUME IInv, NEW j \in Jobs, Expire(j)
    PROVE  IInv'
  <1>0. TypeOK /\ JobOK(j)
    BY DEF IInv
  <1>1. /\ status[j] = "DONE" /\ status' = [status EXCEPT ![j] = "EXPIRED"]
        /\ purging' = purging \cup {j}
        /\ UNCHANGED <<batch, completed, stale, blobs, queues, service,
                       dispatch, consumer, recovery, sweeping, faults>>
    BY DEF Expire
  <1>2. status'[j] = "EXPIRED" /\ \A i \in Jobs : i # j => status'[i] = status[i]
    BY <1>0, <1>1 DEF TypeOK
  <1>3. TypeOK'
    <2>1. status' \in [Jobs -> ActiveStatuses \cup {"none", "DONE", "FAILED", "EXPIRED"}]
      BY <1>0, <1>1 DEF TypeOK
    <2>2. QED
      BY <1>0, <1>1, <2>1 DEF TypeOK, blobs, queues, service
  <1>4. HoldersWork'
    BY <1>1, HoldersKept DEF IInv, queues, service
  <1>5. ASSUME NEW i \in Jobs, i # j PROVE Undisturbed(i)
    <2>1. QueuesKept(i) /\ ClaimsTrue(i)
      BY <1>1, QuietQueues DEF queues, service
    <2>2. SameRow(i) /\ BlobsKept(i)
      BY <1>1, <1>2, <1>5 DEF SameRow, BlobsKept, blobs
    <2>3. CleanupKept(i)
      BY <1>1, <1>5 DEF CleanupKept, IInv, JobOK, CleanedWhenOver
    <2>4. QED
      BY <2>1, <2>2, <2>3 DEF Undisturbed
  <1>6. ~Active(j)'
    BY <1>2 DEF Active, ActiveStatuses
  <1>7. Untouched(j)' /\ Progress(j)' /\ Waits(j)' /\ NothingMissing(j)'
        /\ ZipThere(j)' /\ CopiesCounted(j)'
    BY <1>2, <1>6
    DEF Untouched, Progress, Waits, NothingMissing, ZipThere, CopiesCounted, BatchPhaseStatuses
  <1>8. RowsTogether(j)' /\ CleanedWhenOver(j)'
    BY <1>0, <1>1, <1>2 DEF RowsTogether, CleanedWhenOver, JobOK
  <1>9. QED
    BY <1>1, <1>3, <1>4, <1>5, <1>7, <1>8, OneJobIInv DEF JobOK, NoFault

LEMMA CleanRowsIInv ==
    ASSUME IInv, CleanRows
    PROVE  IInv'
  <1>0. consumer.at = "rows"
    BY DEF CleanRows
  <1>1. PICK j \in Jobs :
           /\ consumer # Idle /\ consumer.result.job = j /\ consumer.result \in Result
           /\ status[j] \in {"DONE", "EXPIRED"} /\ ~Active(j)
    BY <1>0, ConsumerCleans
  <1>2. /\ consumer.at = "rows" /\ batch' = [batch EXCEPT ![j] = NoRows]
        /\ consumer' = [consumer EXCEPT !.at = "inputs"]
        /\ UNCHANGED <<status, completed, stale, blobs, queues, service,
                       dispatch, purging, recovery, sweeping, faults>>
    BY <1>1 DEF CleanRows
  <1>3. TypeOK /\ JobOK(j)
    BY <1>1 DEF IInv
  <1>4. /\ consumer' \in [at : {"rows", "inputs", "pdfs"}, result : Result]
        /\ consumer'.result = consumer.result
    <2>1. consumer = [at |-> "rows", result |-> consumer.result]
      BY <1>1, <1>2, <1>3, ConsumerIs
    <2>2. consumer' = [at |-> "inputs", result |-> consumer.result]
      BY <1>2, <2>1
    <2>3. QED
      BY <1>1, <2>2
  <1>5. batch'[j] = NoRows /\ \A i \in Jobs : i # j => batch'[i] = batch[i]
    BY <1>1, <1>2, <1>3 DEF TypeOK
  <1>6. TypeOK'
    <2>1. batch' \in [Jobs -> [Batches -> {"absent", "PENDING", "DONE"}]]
      BY <1>1, <1>2, <1>3 DEF TypeOK, NoRows
    <2>2. QED
      BY <1>2, <1>3, <1>4, <2>1 DEF TypeOK, blobs, queues, service
  <1>7. HoldersWork'
    BY <1>2, HoldersKept DEF IInv, queues, service
  <1>8. ASSUME NEW i \in Jobs, i # j PROVE Undisturbed(i)
    <2>1. QueuesKept(i) /\ ClaimsTrue(i)
      BY <1>2, QuietQueues DEF queues, service
    <2>2. SameRow(i) /\ BlobsKept(i)
      BY <1>2, <1>5, <1>8 DEF SameRow, BlobsKept, blobs
    <2>3. CleanupKept(i)
      BY <1>1, <1>2, <1>4, <1>8 DEF CleanupKept, IInv, JobOK, CleanedWhenOver
    <2>4. QED
      BY <2>1, <2>2, <2>3 DEF Undisturbed
  <1>9. ~Active(j)'
    BY <1>1, <1>2 DEF Active
  <1>10. Untouched(j)' /\ Progress(j)' /\ Waits(j)' /\ NothingMissing(j)' /\ CopiesCounted(j)'
    BY <1>1, <1>2, <1>9
    DEF Untouched, Progress, Waits, NothingMissing, CopiesCounted, BatchPhaseStatuses
  <1>11. RowsTogether(j)' /\ CleanedWhenOver(j)' /\ ZipThere(j)'
    BY <1>1, <1>2, <1>3, <1>5, <1>9 DEF RowsTogether, CleanedWhenOver, ZipThere, JobOK, blobs
  <1>12. QED
    BY <1>1, <1>2, <1>6, <1>7, <1>8, <1>10, <1>11, OneJobIInv DEF JobOK, NoFault

-----------------------------------------------------------------------------
(* The results of the batches and of the ZIP *)

\* A result that counts: its PDFs are stored, it is one batch more, and it is
\* the last one exactly when it completes the count.
LEMMA CountedIs ==
    ASSUME IInv, NEW r \in results, r.outcome = "done", r.task # Zip, Counts(r)
    PROVE  /\ r.job \in Jobs /\ r.task \in Batches
           /\ status[r.job] \in BatchPhaseStatuses /\ Active(r.job)
           /\ batch[r.job][r.task] = "PENDING"
           /\ <<r.job, r.task>> \in pdfs
           /\ \A b \in Batches : batch[r.job][b] # "absent"
           /\ r.task \notin DoneBatches(r.job)
           /\ completed[r.job] = Cardinality(DoneBatches(r.job))
           /\ completed[r.job] \in Nat /\ Cardinality(Batches) \in Nat
           /\ Cardinality(DoneBatches(r.job) \cup {r.task}) = completed[r.job] + 1
           /\ completed[r.job] + 1 <= Cardinality(Batches)
           /\ LastBatch(r) => /\ completed[r.job] + 1 = Cardinality(Batches)
                              /\ BlobsOf(r.job) \subseteq pdfs
           /\ ~LastBatch(r) => completed[r.job] + 1 # Cardinality(Batches)
  <1>1. PICK j \in Jobs, b \in Batches : r.job = j /\ r.task = b
    BY ResultIsTyped DEF IInv, Tasks
  <1>2. /\ status[j] \in BatchPhaseStatuses /\ Active(j) /\ batch[j][b] = "PENDING"
        /\ batch[j] # NoRows
    BY <1>1 DEF Counts, Active, ActiveStatuses, BatchPhaseStatuses, NoRows
  <1>3. JobOK(j) /\ TypeOK
    BY DEF IInv
  <1>4. Claimed(j, b, "done")
    BY <1>1, <1>3, ResultIsTyped DEF Claimed
  <1>5. <<j, b>> \in pdfs /\ \A c \in Batches : batch[j][c] = "DONE" => <<j, c>> \in pdfs
    BY <1>2, <1>3, <1>4 DEF JobOK, NothingMissing
  <1>6. \A c \in Batches : batch[j][c] \in {"PENDING", "DONE"}
    BY <1>2, <1>3 DEF JobOK, RowsTogether, TypeOK
  <1>7. b \notin DoneBatches(j) /\ DoneBatches(j) \subseteq Batches
    BY <1>2 DEF DoneBatches
  <1>8. IsFiniteSet(Batches) /\ IsFiniteSet(DoneBatches(j))
    BY <1>7, FS_Subset, BulkJobAssumption
  <1>9. completed[j] = Cardinality(DoneBatches(j))
    BY <1>2, <1>3 DEF JobOK, Progress
  <1>10. completed[j] \in Nat /\ Cardinality(Batches) \in Nat
    BY <1>8, <1>9, FS_CardinalityType
  <1>11. Cardinality(DoneBatches(j) \cup {b}) = completed[j] + 1
    BY <1>7, <1>8, <1>9, FS_AddElement
  <1>12. DoneBatches(j) \cup {b} \in SUBSET Batches
    BY <1>7
  <1>13. /\ completed[j] + 1 <= Cardinality(Batches)
         /\ completed[j] + 1 = Cardinality(Batches) => DoneBatches(j) \cup {b} = Batches
    BY <1>8, <1>11, <1>12, FS_Subset
  <1>14. LastBatch(r) <=> DoneBatches(j) \cup {b} = Batches
    BY <1>1, <1>2, <1>6 DEF LastBatch, DoneBatches
  <1>15. LastBatch(r) => BlobsOf(j) \subseteq pdfs
    BY <1>5, <1>14 DEF BlobsOf, DoneBatches
  <1>16. LastBatch(r) <=> completed[j] + 1 = Cardinality(Batches)
    BY <1>11, <1>13, <1>14
  <1>17. QED
    BY <1>1, <1>2, <1>5, <1>6, <1>7, <1>9, <1>10, <1>11, <1>13, <1>15, <1>16

\* The ZIP message of a job is in the work queue and nobody holds it yet.
LEMMA ZipMessageOf ==
    ASSUME IInv, NEW j \in Jobs, status[j] \in BatchPhaseStatuses
    PROVE  /\ ZipMessage(j) \in WorkMessage /\ OfTask(ZipMessage(j), j, Zip)
           /\ ZipMessage(j).holder = Null /\ ZipMessage(j).copy <= faults + 1
  <1>1. TypeOK /\ \A m \in work : OfTask(m, j, Zip) => m.copy <= faults
    BY DEF IInv, JobOK, CopiesCounted
  <1>2. QED
    BY <1>1, ZipMessageIs

\* When the job may send its ZIP message and nothing else changes in the
\* queues but a result of its own batch b.
QueuesOf(j, b) ==
    /\ slot' = slot
    /\ results' \subseteq results
    /\ \A r \in results \ results' : OfTask(r, j, b)
    /\ \A m \in work : m \in work'
    /\ \A m \in work' : m \in work \/ (OfTask(m, j, Zip) /\ m.holder = Null)

LEMMA QueuesOfIs ==
    ASSUME IInv, NEW j \in Jobs, NEW b \in Batches, QueuesOf(j, b)
    PROVE  /\ HoldersWork'
           /\ \A i \in Jobs, t \in Tasks, o \in Outcome : Claimed(i, t, o)' => Claimed(i, t, o)
           /\ \A i \in Jobs, t \in Tasks : i # j \/ t # Zip => (InHand(i, t)' => InHand(i, t))
           /\ \A i \in Jobs, t \in Tasks : i # j \/ t # b => (Queued(i, t) => Queued(i, t)')
           /\ \A i \in Jobs : i # j => QueuesKept(i) /\ ClaimsTrue(i)
  <1> USE DEF QueuesOf
  <1>1. HoldersWork'
    BY HoldersKept DEF IInv
  <1>2. \A i \in Jobs, t \in Tasks, o \in Outcome : Claimed(i, t, o)' => Claimed(i, t, o)
    BY DEF Claimed, Busy
  <1>3. \A i \in Jobs, t \in Tasks : i # j \/ t # Zip => (InHand(i, t)' => InHand(i, t))
    BY DEF InHand, Busy, OfTask
  <1>4. \A i \in Jobs, t \in Tasks : i # j \/ t # b => (Queued(i, t) => Queued(i, t)')
    BY DEF Queued, OfTask
  <1>5. ASSUME NEW i \in Jobs, i # j PROVE QueuesKept(i)
    <2>1. \A m \in work' : OfTask(m, i, Zip) => m \in work
      BY <1>5 DEF OfTask
    <2>2. QED
      BY <1>3, <1>4, <1>5, <2>1 DEF QueuesKept
  <1>6. \A i \in Jobs : ClaimsTrue(i)
    BY <1>2 DEF ClaimsTrue
  <1>7. QED
    BY <1>1, <1>2, <1>3, <1>4, <1>5, <1>6

LEMMA ApplyBatchIInv ==
    ASSUME IInv, NEW r \in results, ApplyBatch(r)
    PROVE  IInv'
  <1>0. TypeOK /\ {"done", "error", "missing"} = Outcome /\ Zip \in Tasks /\ Batches \subseteq Tasks
    BY DEF IInv, Outcome, Tasks
  <1>1. /\ consumer = Idle /\ r.outcome = "done" /\ r.task # Zip
        /\ Settle(r) /\ UNCHANGED <<blobs, service, backend>>
    BY DEF ApplyBatch
  <1>2. PICK j \in Jobs, b \in Batches : r.job = j /\ r.task = b
    BY <1>0, <1>1, ResultIsTyped DEF Tasks
  <1>3. /\ Fault \/ NoFault
        /\ results' \subseteq results /\ results \ results' \subseteq {r}
    BY <1>1, SettleIs
  <1>4. faults' \in 0..MaxFaults /\ faults' >= faults /\ results' \subseteq Result
    BY <1>0, <1>3, FaultsGrow DEF TypeOK
  <1>5. CASE ~Counts(r)
    <2>1. UNCHANGED <<database, work>>
      BY <1>5 DEF ApplyBatch
    <2>2. TypeOK'
      BY <1>0, <1>1, <1>4, <2>1 DEF TypeOK, database, blobs, service, backend
    <2>3. ~Awaited(r.job, r.task)
      BY <1>1, <1>5 DEF Awaited, Counts
    <2>4. \A i \in Jobs : ResolvedDispatch(i) /\ BlobsKept(i)
      BY <1>1 DEF ResolvedDispatch, BlobsKept, blobs, backend
    <2>5. QED
      BY <1>1, <1>3, <2>1, <2>2, <2>3, <2>4, BackendMovesIInv DEF database, service, backend
  <1>6. CASE Counts(r)
    <2>1. /\ status[j] \in BatchPhaseStatuses /\ Active(j) /\ batch[j][b] = "PENDING"
          /\ <<j, b>> \in pdfs /\ b \notin DoneBatches(j)
          /\ \A c \in Batches : batch[j][c] # "absent"
          /\ completed[j] \in Nat /\ Cardinality(Batches) \in Nat
          /\ Cardinality(DoneBatches(j) \cup {b}) = completed[j] + 1
          /\ completed[j] + 1 <= Cardinality(Batches)
          /\ LastBatch(r) => completed[j] + 1 = Cardinality(Batches) /\ BlobsOf(j) \subseteq pdfs
      BY <1>1, <1>2, <1>6, CountedIs
    <2>2. /\ batch' = [batch EXCEPT ![j][b] = "DONE"]
          /\ completed' = [completed EXCEPT ![j] = @ + 1]
          /\ stale' = [stale EXCEPT ![j] = FALSE]
          /\ \/ /\ LastBatch(r) /\ status' = [status EXCEPT ![j] = "ASSEMBLING"]
                /\ work' = work \cup {ZipMessage(j)}
             \/ ~LastBatch(r) /\ UNCHANGED <<status, work>>
      BY <1>2, <1>6 DEF ApplyBatch
    <2>3. PICK z : /\ z \in WorkMessage /\ OfTask(z, j, Zip) /\ z.holder = Null
                   /\ z = ZipMessage(j)
      BY <2>1, ZipMessageOf
    <2>4. /\ batch'[j][b] = "DONE" /\ \A c \in Batches : c # b => batch'[j][c] = batch[j][c]
          /\ completed'[j] = completed[j] + 1
          /\ \A i \in Jobs : i # j => batch'[i] = batch[i] /\ completed'[i] = completed[i]
                                      /\ status'[i] = status[i]
          /\ status'[j] = IF LastBatch(r) THEN "ASSEMBLING" ELSE status[j]
      BY <1>0, <2>2 DEF TypeOK
    <2>5. QueuesOf(j, b)
      <3>1. \A m \in work' : m \in work \/ (OfTask(m, j, Zip) /\ m.holder = Null)
        BY <2>2, <2>3
      <3>2. \A m \in work : m \in work'
        BY <2>2
      <3>3. OfTask(r, j, b)
        BY <1>2 DEF OfTask
      <3>4. \A q \in results \ results' : q = r
        BY <1>3
      <3>5. QED
        BY <1>1, <1>3, <3>1, <3>2, <3>3, <3>4 DEF QueuesOf, service
    <2>6. HoldersWork'
      BY <2>5, QueuesOfIs
    <2>7. TypeOK'
      <3>1. batch' \in [Jobs -> [Batches -> {"absent", "PENDING", "DONE"}]]
        BY <1>0, <2>2 DEF TypeOK
      <3>2. completed' \in [Jobs -> 0..Cardinality(Batches)]
        BY <1>0, <2>1, <2>2 DEF TypeOK
      <3>3. status' \in [Jobs -> ActiveStatuses \cup {"none", "DONE", "FAILED", "EXPIRED"}]
        BY <1>0, <2>2 DEF TypeOK, ActiveStatuses
      <3>4. stale' \in [Jobs -> BOOLEAN] /\ work' \subseteq WorkMessage
        BY <1>0, <2>2, <2>3 DEF TypeOK
      <3>5. QED
        BY <1>0, <1>1, <1>4, <3>1, <3>2, <3>3, <3>4 DEF TypeOK, blobs, service, backend
    <2>8. ASSUME NEW i \in Jobs, i # j PROVE Undisturbed(i)
      <3>1. QueuesKept(i) /\ ClaimsTrue(i)
        BY <2>5, <2>8, QueuesOfIs
      <3>2. SameRow(i) /\ BlobsKept(i)
        BY <1>1, <2>4, <2>8 DEF SameRow, BlobsKept, blobs, backend
      <3>3. CleanupKept(i)
        BY <1>1 DEF CleanupKept, backend
      <3>4. QED
        BY <3>1, <3>2, <3>3 DEF Undisturbed
    <2>9. JobOK(j) /\ Active(j)' /\ status[j] # "none" /\ status'[j] # "none"
          /\ UNCHANGED <<pdfs, inputs, zips, dispatch, purging, consumer>>
      BY <1>1, <2>1, <2>4
      DEF IInv, Active, ActiveStatuses, BatchPhaseStatuses, blobs, backend
    <2>10. /\ \A c \in Batches : InHand(j, c)' => InHand(j, c)
           /\ \A t \in Tasks, o \in Outcome : Claimed(j, t, o)' => Claimed(j, t, o)
           /\ \A c \in Batches : c # b => (Queued(j, c) => Queued(j, c)')
      BY <1>0, <2>5, QueuesOfIs, BulkJobAssumption
    <2>11. Untouched(j)' /\ RowsTogether(j)'
      <3>1. \A c \in Batches : batch'[j][c] # "absent"
        BY <2>1, <2>4
      <3>2. batch[j] # NoRows
        BY <2>1 DEF NoRows
      <3>3. QED
        BY <2>4, <2>9, <3>1, <3>2 DEF Untouched, RowsTogether, JobOK
    <2>12. Progress(j)'
      <3>1. DoneBatches(j)' = DoneBatches(j) \cup {b}
        BY <2>4 DEF DoneBatches
      <3>2. completed'[j] = Cardinality(DoneBatches(j)')
        BY <2>1, <2>4, <3>1
      <3>3. status'[j] = "ASSEMBLING" => LastBatch(r)
        BY <2>1, <2>4 DEF BatchPhaseStatuses
      <3>4. QED
        BY <2>1, <2>4, <2>9, <3>2, <3>3 DEF Progress, BlobsOf
    <2>13. Waits(j)'
      <3>1. CASE LastBatch(r)
        <4>1. status'[j] = "ASSEMBLING" /\ z \in work'
          BY <2>2, <2>3, <2>4, <3>1
        <4>2. QED
          BY <2>3, <4>1 DEF Waits, Queued
      <3>2. CASE ~LastBatch(r)
        <4>1. status'[j] = status[j] /\ status[j] # "ASSEMBLING" /\ dispatch'[j] = dispatch[j]
          BY <2>1, <2>4, <2>9, <3>2 DEF BatchPhaseStatuses
        <4>2. QED
          BY <2>4, <2>9, <2>10, <4>1 DEF Waits, JobOK
      <3>3. QED
        BY <3>1, <3>2
    <2>14. NothingMissing(j)'
      <3>1. InHand(j, Zip)' => BlobsOf(j) \subseteq pdfs
        <4>1. CASE LastBatch(r)
          BY <2>1, <4>1
        <4>2. CASE ~LastBatch(r)
          <5>1. InHand(j, Zip)' => InHand(j, Zip)
            BY <1>1, <2>2, <4>2 DEF InHand, Busy, service
          <5>2. QED
            BY <2>1, <2>9, <5>1 DEF NothingMissing, JobOK
        <4>3. QED
          BY <4>1, <4>2
      <3>2. \A c \in Batches : Claimed(j, c, "done")' \/ batch'[j][c] = "DONE" => <<j, c>> \in pdfs
        BY <1>0, <2>1, <2>4, <2>9, <2>10 DEF NothingMissing, JobOK
      <3>3. \A c \in Batches : InHand(j, c)' => <<j, c>> \in inputs
        BY <2>1, <2>9, <2>10 DEF NothingMissing, JobOK
      <3>4. \A t \in Tasks : ~Claimed(j, t, "missing")'
        BY <1>0, <2>1, <2>9, <2>10 DEF NothingMissing, JobOK
      <3>5. QED
        BY <2>9, <3>1, <3>2, <3>3, <3>4 DEF NothingMissing, BlobsOf
    <2>15. ZipThere(j)'
      <3>1. status'[j] # "DONE"
        BY <2>1, <2>4 DEF BatchPhaseStatuses
      <3>2. QED
        BY <1>0, <2>1, <2>9, <2>10, <3>1 DEF ZipThere, JobOK
    <2>16. CleanedWhenOver(j)'
      BY <1>1, <2>1, <2>9 DEF CleanedWhenOver, JobOK, BatchPhaseStatuses
    <2>17. CopiesCounted(j)'
      <3>1. CASE LastBatch(r)
        BY <2>4, <3>1 DEF CopiesCounted, BatchPhaseStatuses
      <3>2. CASE ~LastBatch(r)
        <4>1. \A m \in work : m.copy \in Nat
          BY <1>0 DEF TypeOK, WorkMessage
        <4>2. faults \in Nat /\ faults' \in Nat
          BY <1>0, <1>4 DEF TypeOK
        <4>3. \A m \in work : OfTask(m, j, Zip) => m.copy <= faults'
          BY <1>4, <2>1, <2>9, <4>1, <4>2 DEF CopiesCounted, JobOK
        <4>4. QED
          BY <2>2, <3>2, <4>3 DEF CopiesCounted
      <3>3. QED
        BY <3>1, <3>2
    <2>18. QED
      BY <1>3, <2>6, <2>7, <2>8, <2>11, <2>12, <2>13, <2>14, <2>15, <2>16, <2>17, OneJobIInv
      DEF JobOK
  <1>7. QED
    BY <1>5, <1>6

LEMMA ApplyBatchRollsBackIInv ==
    ASSUME IInv, NEW r \in results, ApplyBatchRollsBack(r)
    PROVE  IInv'
  <1>0. TypeOK /\ Zip \in Tasks /\ Batches \subseteq Tasks
    BY DEF IInv, Tasks
  <1>1. /\ r.outcome = "done" /\ r.task # Zip /\ Counts(r) /\ LastBatch(r) /\ Fault
        /\ work' = work \cup {ZipMessage(r.job)}
        /\ UNCHANGED <<database, blobs, results, service, backend>>
    BY DEF ApplyBatchRollsBack
  <1>2. PICK j \in Jobs, b \in Batches : r.job = j /\ r.task = b
    BY <1>0, <1>1, ResultIsTyped DEF Tasks
  <1>3. status[j] \in BatchPhaseStatuses /\ Active(j) /\ BlobsOf(j) \subseteq pdfs
    BY <1>1, <1>2, CountedIs
  <1>4. PICK z : /\ z \in WorkMessage /\ OfTask(z, j, Zip) /\ z.holder = Null
                 /\ z.copy <= faults + 1 /\ z = ZipMessage(j)
    BY <1>3, ZipMessageOf
  <1>5. work' = work \cup {z}
    BY <1>1, <1>2, <1>4
  <1>6. faults' \in 0..MaxFaults /\ faults' = faults + 1
    BY <1>0, <1>1, FaultsGrow
  <1>7. TypeOK'
    BY <1>0, <1>1, <1>4, <1>5, <1>6 DEF TypeOK, database, blobs, service, backend
  <1>8. QueuesOf(j, b)
    BY <1>1, <1>4, <1>5 DEF QueuesOf, service
  <1>9. HoldersWork'
    BY <1>8, QueuesOfIs
  <1>10. ASSUME NEW i \in Jobs, i # j PROVE Undisturbed(i)
    <2>1. QueuesKept(i) /\ ClaimsTrue(i)
      BY <1>8, <1>10, QueuesOfIs
    <2>2. SameRow(i) /\ BlobsKept(i)
      BY <1>1 DEF SameRow, BlobsKept, database, blobs, backend
    <2>3. CleanupKept(i)
      BY <1>1 DEF CleanupKept, IInv, JobOK, CleanedWhenOver, backend
    <2>4. QED
      BY <2>1, <2>2, <2>3 DEF Undisturbed
  <1>11. /\ \A c \in Batches : InHand(j, c)' => InHand(j, c)
         /\ \A t \in Tasks, o \in Outcome : Claimed(j, t, o)' => Claimed(j, t, o)
         /\ \A t \in Tasks : Queued(j, t) => Queued(j, t)'
    <2>1. \A t \in Tasks : Queued(j, t) => Queued(j, t)'
      BY <1>1, <1>5 DEF Queued
    <2>2. QED
      BY <1>0, <1>8, <2>1, QueuesOfIs, BulkJobAssumption
  <1>12. /\ JobOK(j) /\ Active(j)' = Active(j) /\ DoneBatches(j)' = DoneBatches(j)
         /\ status[j] # "none"
         /\ UNCHANGED <<status, batch, completed, pdfs, inputs, zips, dispatch, purging, consumer>>
    BY <1>1, <1>3 DEF IInv, Active, DoneBatches, BatchPhaseStatuses, database, blobs, backend
  <1>13. Untouched(j)' /\ RowsTogether(j)' /\ Progress(j)' /\ CleanedWhenOver(j)'
    BY <1>12 DEF Untouched, RowsTogether, Progress, CleanedWhenOver, JobOK, BlobsOf
  <1>14. Waits(j)'
    BY <1>0, <1>11, <1>12 DEF Waits, JobOK
  <1>15. NothingMissing(j)'
    BY <1>0, <1>3, <1>11, <1>12 DEF NothingMissing, JobOK, BlobsOf, Outcome
  <1>16. ZipThere(j)'
    BY <1>0, <1>11, <1>12 DEF ZipThere, JobOK, Outcome
  <1>17. CopiesCounted(j)'
    <2>1. \A m \in work : OfTask(m, j, Zip) => m.copy <= faults
      BY <1>3, <1>12 DEF CopiesCounted, JobOK
    <2>2. (\A m \in work : m.copy \in Nat) /\ z.copy \in Nat /\ faults \in Nat
      BY <1>0, <1>4 DEF TypeOK, WorkMessage
    <2>3. \A m \in work' : OfTask(m, j, Zip) => m.copy <= faults'
      BY <1>4, <1>5, <1>6, <2>1, <2>2
    <2>4. QED
      BY <2>3 DEF CopiesCounted
  <1>18. QED
    BY <1>1, <1>7, <1>9, <1>10, <1>13, <1>14, <1>15, <1>16, <1>17, OneJobIInv DEF JobOK

LEMMA ApplyZipIInv ==
    ASSUME IInv, NEW r \in results, ApplyZip(r)
    PROVE  IInv'
  <1>0. TypeOK
    BY DEF IInv
  <1>1. /\ consumer = Idle /\ r.outcome = "done" /\ r.task = Zip
        /\ UNCHANGED <<blobs, work, service, dispatch, purging, recovery, sweeping>>
    BY DEF ApplyZip
  <1>2. PICK j \in Jobs : r.job = j
    BY <1>0, ResultIsTyped
  <1>3. CASE status[j] # "ASSEMBLING"
    <2>1. Settle(r) /\ UNCHANGED <<database, consumer>>
      BY <1>2, <1>3 DEF ApplyZip
    <2>2. /\ Fault \/ NoFault
          /\ results' \subseteq results /\ results \ results' \subseteq {r}
      BY <2>1, SettleIs
    <2>3. faults' \in 0..MaxFaults /\ results' \subseteq Result
      BY <1>0, <2>2, FaultsGrow DEF TypeOK
    <2>4. TypeOK'
      BY <1>0, <1>1, <2>1, <2>3 DEF TypeOK, database, blobs, service
    <2>5. ~Awaited(r.job, r.task)
      BY <1>1, <1>2, <1>3, BulkJobAssumption DEF Awaited
    <2>6. \A i \in Jobs : ResolvedDispatch(i) /\ BlobsKept(i)
      BY <1>1 DEF ResolvedDispatch, BlobsKept, blobs
    <2>7. QED
      BY <1>1, <2>1, <2>2, <2>4, <2>5, <2>6, BackendMovesIInv DEF database, service
  <1>4. CASE status[j] = "ASSEMBLING"
    <2>1. /\ status' = [status EXCEPT ![j] = "DONE"] /\ stale' = [stale EXCEPT ![j] = FALSE]
          /\ consumer' = [at |-> "rows", result |-> r]
          /\ UNCHANGED <<batch, completed, results, faults>>
      BY <1>2, <1>4 DEF ApplyZip
    <2>2. status'[j] = "DONE" /\ \A i \in Jobs : i # j => status'[i] = status[i]
      BY <1>0, <2>1 DEF TypeOK
    <2>3. TypeOK'
      <3>1. status' \in [Jobs -> ActiveStatuses \cup {"none", "DONE", "FAILED", "EXPIRED"}]
        BY <1>0, <2>1 DEF TypeOK
      <3>2. consumer' \in [at : {"rows", "inputs", "pdfs"}, result : Result]
        BY <1>0, <2>1 DEF TypeOK
      <3>3. QED
        BY <1>0, <1>1, <2>1, <3>1, <3>2 DEF TypeOK, blobs, service
    <2>4. HoldersWork'
      BY <1>1, HoldersKept DEF IInv, service
    <2>5. consumer'.result.job = j
      BY <1>2, <2>1
    <2>6. ASSUME NEW i \in Jobs, i # j PROVE Undisturbed(i)
      <3>1. QueuesKept(i) /\ ClaimsTrue(i)
        BY <1>1, <2>1, QuietQueues DEF service
      <3>2. SameRow(i) /\ BlobsKept(i)
        BY <1>1, <2>1, <2>2, <2>6 DEF SameRow, BlobsKept, blobs
      <3>3. CleanupKept(i)
        BY <1>1, <2>5, <2>6 DEF CleanupKept
      <3>4. QED
        BY <3>1, <3>2, <3>3 DEF Undisturbed
    <2>7. JobOK(j) /\ Active(j) /\ ~Active(j)'
      BY <1>4, <2>2 DEF IInv, Active, ActiveStatuses
    <2>8. j \in zips'
      <3>1. Claimed(j, Zip, "done")
        BY <1>0, <1>1, <1>2, ResultIsTyped DEF Claimed
      <3>2. QED
        BY <1>1, <2>7, <3>1 DEF ZipThere, JobOK, blobs
    <2>9. Untouched(j)' /\ Progress(j)' /\ Waits(j)' /\ NothingMissing(j)'
          /\ ZipThere(j)' /\ CopiesCounted(j)'
      BY <2>2, <2>7, <2>8
      DEF Untouched, Progress, Waits, NothingMissing, ZipThere, CopiesCounted, BatchPhaseStatuses
    <2>10. RowsTogether(j)' /\ CleanedWhenOver(j)'
      BY <1>1, <1>4, <2>1, <2>2, <2>7 DEF RowsTogether, CleanedWhenOver, JobOK
    <2>11. QED
      BY <2>1, <2>3, <2>4, <2>6, <2>9, <2>10, OneJobIInv DEF JobOK, NoFault
  <1>5. QED
    BY <1>3, <1>4

-----------------------------------------------------------------------------
(* The inductive invariant holds of every reachable state *)

LEMMA InitIInv == Init => IInv
  <1> SUFFICES ASSUME Init PROVE IInv
    OBVIOUS
  <1>1. IsFiniteSet(Batches) /\ Cardinality(Batches) \in Nat
    BY FS_CardinalityType, BulkJobAssumption
  <1>2. TypeOK
    BY <1>1, BulkJobAssumption DEF Init, TypeOK, NoRows
  <1>3. HoldersWork
    BY DEF Init, HoldersWork
  <1>4. Busy = {}
    BY DEF Init, Busy
  <1>5. ASSUME NEW j \in Jobs PROVE JobOK(j)
    <2>1. /\ status[j] = "none" /\ dispatch[j] = [at |-> "off", left |-> {}] /\ batch[j] = NoRows
          /\ completed[j] = 0 /\ j \notin purging /\ consumer = Idle
          /\ work = {} /\ results = {}
      BY DEF Init
    <2>2. (\A t \in Tasks : ~InHand(j, t)) /\ \A t \in Tasks, o \in Outcome : ~Claimed(j, t, o)
      BY <1>4, <2>1 DEF InHand, Claimed
    <2>3. ~Active(j)
      BY <2>1 DEF Active, ActiveStatuses
    <2>4. QED
      BY <2>1, <2>2, <2>3
      DEF JobOK, Untouched, RowsTogether, Progress, Waits, NothingMissing, ZipThere,
          CleanedWhenOver, CopiesCounted, BatchPhaseStatuses
  <1>6. QED
    BY <1>2, <1>3, <1>5 DEF IInv

LEMMA StutterIInv ==
    ASSUME IInv, UNCHANGED vars
    PROVE  IInv'
  <1>1. TypeOK'
    BY DEF IInv, TypeOK, vars, database, blobs, queues, service, backend
  <1>2. \A j \in Jobs : ResolvedDispatch(j) /\ BlobsKept(j)
    BY DEF ResolvedDispatch, BlobsKept, vars, blobs, backend
  <1>3. QED
    BY <1>1, <1>2, BackendMovesIInv DEF NoFault, vars, database, queues, service, backend

LEMMA StepIInv == IInv /\ [Next]_vars => IInv'
  <1> SUFFICES ASSUME IInv, [Next]_vars PROVE IInv'
    OBVIOUS
  <1>1. ASSUME NEW j \in Jobs, Dispatch(j) PROVE IInv'
    BY <1>1, CreateIInv, CreateRowsIInv, MarkRunningIInv, SendBatchIInv, QuietBackendIInv, RevertsIInv
    DEF Dispatch
  <1>2. ASSUME NEW j \in Jobs, Purge(j) \/ Stall(j) PROVE IInv'
    BY <1>2, QuietBackendIInv
  <1>3. ASSUME NEW j \in Jobs, Expire(j) PROVE IInv'
    BY <1>3, ExpireIInv
  <1>4. ASSUME NEW s \in Slots, Serve(s) PROVE IInv'
    BY <1>4, ServeIInv
  <1>5. CASE Consume
    <2>1. ASSUME NEW r \in results, Apply(r) PROVE IInv'
      BY <2>1, ApplyBatchIInv, ApplyBatchRollsBackIInv, ApplyZipIInv, RevertsIInv DEF Apply
    <2>2. QED
      BY <1>5, <2>1, CleanRowsIInv, CleaningIInv DEF Consume
  <1>6. CASE Recover \/ Sweep
    BY <1>6, QuietBackendIInv, RevertsIInv DEF Recover, Sweep
  <1>7. CASE WorkerStops \/ WorkerStarts
    BY <1>7, WorkerIInv
  <1>8. CASE Restart
    BY <1>8, QuietBackendIInv
  <1>9. CASE UNCHANGED vars
    BY <1>9, StutterIInv
  <1>10. QED
    BY <1>1, <1>2, <1>3, <1>4, <1>5, <1>6, <1>7, <1>8, <1>9 DEF Next

\* Whatever stops, is lost, repeated or late in a job, its rows, counters,
\* blobs and messages agree in the ways the conjuncts of IInv say.
THEOREM InductiveInvariant == Spec => []IInv
  BY InitIInv, StepIInv, PTL DEF Spec

-----------------------------------------------------------------------------
(* What it says *)

LEMMA IInvImpliesInv == IInv => Inv
  BY DEF IInv, JobOK, Progress, Inv, ProgressCounts, Active, DoneBatches, ActiveStatuses

LEMMA IInvImpliesNothingForgotten == IInv => NothingForgotten
  <1> SUFFICES ASSUME IInv, NEW j \in Jobs
               PROVE  /\ status[j] = "RUNNING" =>
                            \A b \in Batches : batch[j][b] = "PENDING" => Queued(j, b)
                      /\ status[j] = "ASSEMBLING" => Queued(j, Zip)
    BY DEF NothingForgotten, Queued, OfTask
  <1>1. Waits(j) /\ RowsTogether(j)
    BY DEF IInv, JobOK
  <1>2. QED
    BY <1>1 DEF Waits, RowsTogether

LEMMA IInvImpliesNeededBlobsExist == IInv => NeededBlobsExist
  <1> SUFFICES ASSUME IInv PROVE NeededBlobsExist
    OBVIOUS
  <1>1. TypeOK /\ \A j \in Jobs : NothingMissing(j) /\ ZipThere(j)
    BY DEF IInv, JobOK
  <1>2. ASSUME NEW r \in results, r.outcome = "missing" PROVE status[r.job] \notin ActiveStatuses
    <2>1. r.job \in Jobs /\ r.task \in Tasks /\ Claimed(r.job, r.task, "missing")
      BY <1>1, <1>2, ResultIsTyped DEF Claimed
    <2>2. QED
      BY <1>1, <2>1 DEF NothingMissing, Active
  <1>3. Downloadable
    BY <1>1 DEF Downloadable, ZipThere
  <1>4. QED
    BY <1>2, <1>3 DEF NeededBlobsExist, MissingMeansEnded

\* The types, and that the progress counts every batch once: a job is
\* assembling its ZIP only with every batch counted and every PDF stored, for
\* any number of batches, deliveries and failures.
THEOREM ProgressIsTrue == Spec => []Inv
  BY InductiveInvariant, IInvImpliesInv, PTL

\* A job that waits always has what it waits for in a queue.
THEOREM NothingIsForgotten == Spec => []NothingForgotten
  BY InductiveInvariant, IInvImpliesNothingForgotten, PTL

\* No task of an active job ever finds a blob missing, and a job that is DONE
\* has its ZIP.
THEOREM BlobsAreThere == Spec => []NeededBlobsExist
  BY InductiveInvariant, IInvImpliesNeededBlobsExist, PTL

-----------------------------------------------------------------------------
(* BulkJob implements JobLifecycle *)

\* The phase a status stands for.
PhaseOf(st) ==
    CASE st = "none"       -> "none"
      [] st \in BatchPhaseStatuses -> "generating"
      [] st = "ASSEMBLING" -> "assembling"
      [] st = "DONE"       -> "delivered"
      [] st = "FAILED"     -> "failed"
      [] st = "EXPIRED"    -> "expired"

Phases == [j \in Jobs |-> PhaseOf(status[j])]

Delivered == {j \in Jobs : status[j] = "DONE"}

\* The abstract state in terms of the statuses: every DONE job has its ZIP.
LEMMA MappingIs ==
    ASSUME IInv
    PROVE  /\ [j \in Jobs |->
                  CASE status[j] = "none"       -> "none"
                    [] status[j] \in BatchPhaseStatuses -> "generating"
                    [] status[j] = "ASSEMBLING" -> "assembling"
                    [] status[j] = "DONE"       -> "delivered"
                    [] status[j] = "FAILED"     -> "failed"
                    [] status[j] = "EXPIRED"    -> "expired"] = Phases
           /\ {j \in Jobs : status[j] = "DONE" /\ j \in zips} = Delivered
  <1>1. \A j \in Jobs : status[j] = "DONE" => j \in zips
    BY DEF IInv, JobOK, ZipThere
  <1>2. QED
    BY <1>1 DEF Phases, PhaseOf, Delivered

\* One status moves, and the phases follow.
LEMMA PhaseMoves ==
    ASSUME NEW j \in Jobs, \A i \in Jobs : i # j => status'[i] = status[i]
    PROVE  /\ Phases' = [Phases EXCEPT ![j] = PhaseOf(status'[j])]
           /\ \A i \in Jobs : Phases[i] = PhaseOf(status[i])
           /\ status[j] # "DONE" /\ status'[j] # "DONE" => Delivered' = Delivered
           /\ status'[j] = "DONE" => Delivered' = Delivered \cup {j}
           /\ status[j] = "DONE" /\ status'[j] # "DONE" => Delivered' = Delivered \ {j}
  BY DEF Phases, Delivered

LEMMA PhasesAre ==
    /\ PhaseOf("none") = "none"
    /\ \A st \in BatchPhaseStatuses : PhaseOf(st) = "generating"
    /\ PhaseOf("ASSEMBLING") = "assembling"
    /\ PhaseOf("DONE") = "delivered"
    /\ PhaseOf("FAILED") = "failed"
    /\ PhaseOf("EXPIRED") = "expired"
  BY DEF PhaseOf, BatchPhaseStatuses

\* The actions of the life cycle, of the phases of the statuses.
LEMMA LifecycleIs ==
    ASSUME IInv, IInv', NEW j \in Jobs
    PROVE  /\ UNCHANGED <<Phases, completed, Delivered>> => UNCHANGED Lifecycle!vars
           /\ /\ Phases[j] = "none"
              /\ \A i \in Jobs : Phases[i] \notin {"generating", "assembling"}
              /\ Phases' = [Phases EXCEPT ![j] = "generating"]
              /\ UNCHANGED <<completed, Delivered>>
              => Lifecycle!Open(j)
           /\ /\ Phases[j] = "generating" /\ completed[j] < Cardinality(Batches)
              /\ completed' = [completed EXCEPT ![j] = @ + 1]
              /\ Phases' = [Phases EXCEPT ![j] =
                               IF completed'[j] = Cardinality(Batches) THEN "assembling" ELSE @]
              /\ UNCHANGED Delivered
              => Lifecycle!Advance(j)
           /\ /\ Phases[j] = "assembling"
              /\ Phases' = [Phases EXCEPT ![j] = "delivered"]
              /\ Delivered' = Delivered \cup {j}
              /\ UNCHANGED completed
              => Lifecycle!Deliver(j)
           /\ /\ Phases[j] \in {"generating", "assembling"}
              /\ Phases' = [Phases EXCEPT ![j] = "failed"]
              /\ UNCHANGED <<completed, Delivered>>
              => Lifecycle!Fail(j)
           /\ /\ Phases[j] = "delivered"
              /\ Phases' = [Phases EXCEPT ![j] = "expired"]
              /\ Delivered' = Delivered \ {j}
              /\ UNCHANGED completed
              => Lifecycle!Expire(j)
  <1>1. /\ [i \in Jobs |->
               CASE status[i] = "none"       -> "none"
                 [] status[i] \in BatchPhaseStatuses -> "generating"
                 [] status[i] = "ASSEMBLING" -> "assembling"
                 [] status[i] = "DONE"       -> "delivered"
                 [] status[i] = "FAILED"     -> "failed"
                 [] status[i] = "EXPIRED"    -> "expired"] = Phases
        /\ {i \in Jobs : status[i] = "DONE" /\ i \in zips} = Delivered
    BY MappingIs
  <1>2. /\ [i \in Jobs |->
               CASE status[i] = "none"       -> "none"
                 [] status[i] \in BatchPhaseStatuses -> "generating"
                 [] status[i] = "ASSEMBLING" -> "assembling"
                 [] status[i] = "DONE"       -> "delivered"
                 [] status[i] = "FAILED"     -> "failed"
                 [] status[i] = "EXPIRED"    -> "expired"]' = Phases'
        /\ {i \in Jobs : status[i] = "DONE" /\ i \in zips}' = Delivered'
    <2>1. \A i \in Jobs : status'[i] = "DONE" => i \in zips'
      BY DEF IInv, JobOK, ZipThere
    <2>2. QED
      BY <2>1 DEF Phases, PhaseOf, Delivered
  <1>3. QED
    BY <1>1, <1>2 DEF Lifecycle!vars, Lifecycle!Open, Lifecycle!Advance, Lifecycle!Deliver,
                      Lifecycle!Fail, Lifecycle!Expire, Lifecycle!Active

\* A step that changes neither the statuses nor the counters, or moves a job
\* within its batch phase, is none of the life cycle.
LEMMA Stays ==
    ASSUME IInv, IInv', completed' = completed,
           \A j \in Jobs : \/ status'[j] = status[j]
                          \/ {status[j], status'[j]} \subseteq BatchPhaseStatuses
    PROVE  UNCHANGED Lifecycle!vars
  <1>1. \A j \in Jobs : PhaseOf(status'[j]) = PhaseOf(status[j])
    BY PhasesAre
  <1>2. Phases' = Phases
    BY <1>1 DEF Phases
  <1>3. Delivered' = Delivered
    BY DEF Delivered, BatchPhaseStatuses
  <1>4. CASE Jobs = {}
    <2>1. Phases' = Phases /\ Jobs = {}
      BY <1>2, <1>4
    <2>2. QED
      BY <2>1 DEF Lifecycle!vars
  <1>5. CASE Jobs # {}
    <2>1. PICK j \in Jobs : TRUE
      BY <1>5
    <2>2. QED
      BY <1>2, <1>3, LifecycleIs
  <1>6. QED
    BY <1>4, <1>5

LEMMA RevertRefines ==
    ASSUME IInv, IInv', NEW j \in Jobs, NEW from \in SUBSET ActiveStatuses, Revert(j, from)
    PROVE  Lifecycle!Next \/ UNCHANGED Lifecycle!vars
  <1>0. TypeOK
    BY DEF IInv
  <1>1. CASE status[j] \in from
    <2>1. /\ status'[j] = "FAILED" /\ completed' = completed
          /\ \A i \in Jobs : i # j => status'[i] = status[i]
      BY <1>0, <1>1, RevertIs
    <2>2. PhaseOf(status[j]) \in {"generating", "assembling"} /\ status[j] # "DONE"
      BY <1>1, PhasesAre DEF ActiveStatuses, BatchPhaseStatuses
    <2>3. Lifecycle!Fail(j)
      BY <2>1, <2>2, PhaseMoves, PhasesAre, LifecycleIs
    <2>4. QED
      BY <2>3 DEF Lifecycle!Next
  <1>2. CASE status[j] \notin from
    <2>1. UNCHANGED <<status, completed>>
      BY <1>2 DEF Revert, database
    <2>2. QED
      BY <2>1, Stays
  <1>3. QED
    BY <1>1, <1>2

LEMMA DispatchRefines ==
    ASSUME IInv, IInv', NEW j \in Jobs, Dispatch(j)
    PROVE  Lifecycle!Next \/ UNCHANGED Lifecycle!vars
  <1>0. TypeOK
    BY DEF IInv
  <1>1. CASE Create(j)
    <2>1. /\ status[j] = "none" /\ \A i \in Jobs : status[i] \notin ActiveStatuses
          /\ status'[j] = "PREPARING" /\ completed' = completed
          /\ \A i \in Jobs : i # j => status'[i] = status[i]
      BY <1>0, <1>1 DEF Create, TypeOK
    <2>2. PhaseOf("PREPARING") = "generating"
      BY PhasesAre DEF BatchPhaseStatuses
    <2>3. \A i \in Jobs : Phases[i] \notin {"generating", "assembling"}
      <3>1. \A i \in Jobs : status[i] \in {"none", "DONE", "FAILED", "EXPIRED"}
        BY <1>0, <2>1 DEF TypeOK
      <3>2. \A i \in Jobs : Phases[i] = PhaseOf(status[i])
        BY <2>1, PhaseMoves
      <3>3. QED
        BY <3>1, <3>2, PhasesAre
    <2>4. Lifecycle!Open(j)
      BY <2>1, <2>2, <2>3, PhaseMoves, PhasesAre, LifecycleIs
    <2>5. QED
      BY <2>4 DEF Lifecycle!Next
  <1>2. CASE MarkRunning(j)
    <2>1. /\ completed' = completed
          /\ \A i \in Jobs : \/ status'[i] = status[i]
                              \/ {status[i], status'[i]} \subseteq BatchPhaseStatuses
      BY <1>0, <1>2 DEF MarkRunning, TypeOK, BatchPhaseStatuses
    <2>2. QED
      BY <2>1, Stays
  <1>3. CASE CreateRows(j) \/ DispatchFails(j) \/ \E b \in Batches : SendBatch(j, b)
    <2>1. UNCHANGED <<status, completed>>
      BY <1>3 DEF CreateRows, DispatchFails, SendBatch, database
    <2>2. QED
      BY <2>1, Stays
  <1>4. CASE DispatchReverts(j)
    <2>1. CASE Revert(j, ActiveStatuses)
      BY <2>1, RevertRefines
    <2>2. CASE UNCHANGED database
      BY <2>2, Stays DEF database
    <2>3. QED
      BY <1>4, <2>1, <2>2 DEF DispatchReverts
  <1>5. QED
    BY <1>1, <1>2, <1>3, <1>4 DEF Dispatch

LEMMA ApplyRefines ==
    ASSUME IInv, IInv', NEW r \in results, Apply(r)
    PROVE  Lifecycle!Next \/ UNCHANGED Lifecycle!vars
  <1>0. TypeOK
    BY DEF IInv
  <1>1. PICK j \in Jobs : r.job = j
    BY <1>0, ResultIsTyped
  <1>2. CASE ApplyBatch(r) /\ Counts(r)
    <2>1. /\ status[j] \in BatchPhaseStatuses /\ completed[j] \in Nat
          /\ Cardinality(Batches) \in Nat /\ completed[j] + 1 <= Cardinality(Batches)
          /\ LastBatch(r) <=> completed[j] + 1 = Cardinality(Batches)
      BY <1>1, <1>2, CountedIs DEF ApplyBatch
    <2>2. /\ completed' = [completed EXCEPT ![j] = @ + 1]
          /\ status' = IF LastBatch(r) THEN [status EXCEPT ![j] = "ASSEMBLING"] ELSE status
      BY <1>1, <1>2 DEF ApplyBatch
    <2>3. /\ completed'[j] = completed[j] + 1
          /\ status'[j] = IF LastBatch(r) THEN "ASSEMBLING" ELSE status[j]
          /\ \A i \in Jobs : i # j => status'[i] = status[i]
      BY <1>0, <2>2 DEF TypeOK
    <2>4. PhaseOf(status[j]) = "generating" /\ status[j] # "DONE" /\ status'[j] # "DONE"
      BY <2>1, <2>3, PhasesAre DEF BatchPhaseStatuses
    <2>5. /\ Phases[j] = "generating" /\ UNCHANGED Delivered
          /\ Phases' = [Phases EXCEPT ![j] = PhaseOf(status'[j])]
      BY <2>3, <2>4, PhaseMoves
    <2>6. PhaseOf(status'[j]) = IF completed'[j] = Cardinality(Batches) THEN "assembling" ELSE Phases[j]
      BY <2>1, <2>3, <2>4, <2>5, PhasesAre
    <2>7. completed[j] < Cardinality(Batches)
      BY <2>1
    <2>8. Lifecycle!Advance(j)
      BY <2>2, <2>5, <2>6, <2>7, LifecycleIs
    <2>9. QED
      BY <2>8 DEF Lifecycle!Next
  <1>3. CASE (ApplyBatch(r) /\ ~Counts(r)) \/ ApplyBatchRollsBack(r)
    <2>1. UNCHANGED <<status, completed>>
      BY <1>3 DEF ApplyBatch, ApplyBatchRollsBack, database
    <2>2. QED
      BY <2>1, Stays
  <1>4. CASE ApplyFailure(r)
    <2>1. PICK from \in SUBSET ActiveStatuses :
             from = IF r.task = Zip THEN {"ASSEMBLING"} ELSE BatchPhaseStatuses
      BY DEF ActiveStatuses, BatchPhaseStatuses
    <2>2. Revert(j, from)
      BY <1>1, <1>4, <2>1 DEF ApplyFailure
    <2>3. QED
      BY <2>2, RevertRefines
  <1>5. CASE ApplyZip(r) /\ status[j] = "ASSEMBLING"
    <2>1. /\ completed' = completed /\ status'[j] = "DONE"
          /\ \A i \in Jobs : i # j => status'[i] = status[i]
      BY <1>0, <1>1, <1>5 DEF ApplyZip, TypeOK
    <2>2. Lifecycle!Deliver(j)
      BY <1>5, <2>1, PhaseMoves, PhasesAre, LifecycleIs
    <2>3. QED
      BY <2>2 DEF Lifecycle!Next
  <1>6. CASE ApplyZip(r) /\ status[j] # "ASSEMBLING"
    <2>1. UNCHANGED <<status, completed>>
      BY <1>1, <1>6 DEF ApplyZip, database
    <2>2. QED
      BY <2>1, Stays
  <1>7. QED
    BY <1>2, <1>3, <1>4, <1>5, <1>6 DEF Apply

\* Through every crash, retry and duplicate a job goes through its life once:
\* one job is active at a time, the progress counts each batch once, the ZIP is
\* assembled from all of them and, once delivered, stays until it expires.
THEOREM ImplementsLifecycle == Spec => ImplementsJobLifecycle
  <1>1. Init => Lifecycle!Init
    <2> SUFFICES ASSUME Init PROVE Lifecycle!Init
      OBVIOUS
    <2>1. IInv
      BY InitIInv
    <2>2. \A j \in Jobs : status[j] = "none"
      BY DEF Init
    <2>3. Phases = [j \in Jobs |-> "none"] /\ Delivered = {}
      BY <2>2, PhasesAre DEF Phases, Delivered
    <2>4. completed = [j \in Jobs |-> 0]
      BY DEF Init
    <2>5. QED
      BY <2>1, <2>3, <2>4, MappingIs DEF Lifecycle!Init
  <1>2. IInv /\ IInv' /\ [Next]_vars => [Lifecycle!Next]_(Lifecycle!vars)
    <2> SUFFICES ASSUME IInv, IInv', [Next]_vars
                 PROVE  Lifecycle!Next \/ UNCHANGED Lifecycle!vars
      OBVIOUS
    <2>1. ASSUME NEW j \in Jobs, Dispatch(j) PROVE Lifecycle!Next \/ UNCHANGED Lifecycle!vars
      BY <2>1, DispatchRefines
    <2>2. ASSUME NEW j \in Jobs, Expire(j) PROVE Lifecycle!Next
      <3>1. /\ status[j] = "DONE" /\ completed' = completed /\ status'[j] = "EXPIRED"
            /\ \A i \in Jobs : i # j => status'[i] = status[i]
        BY <2>2 DEF Expire, IInv, TypeOK
      <3>2. Lifecycle!Expire(j)
        BY <3>1, PhaseMoves, PhasesAre, LifecycleIs
      <3>3. QED
        BY <3>2 DEF Lifecycle!Next
    <2>3. ASSUME NEW r \in results, Apply(r) PROVE Lifecycle!Next \/ UNCHANGED Lifecycle!vars
      BY <2>3, ApplyRefines
    <2>4. ASSUME NEW j \in Jobs, RecoverRevert(j) \/ SweepRevert(j)
          PROVE  Lifecycle!Next \/ UNCHANGED Lifecycle!vars
      <3>1. {"RUNNING", "ASSEMBLING"} \in SUBSET ActiveStatuses
        BY DEF ActiveStatuses
      <3>2. QED
        BY <2>4, <3>1, RevertRefines DEF RecoverRevert, SweepRevert
    <2>5. ASSUME UNCHANGED <<status, completed>> PROVE UNCHANGED Lifecycle!vars
      BY <2>5, Stays
    <2>6. ASSUME NEW s \in Slots, Serve(s) PROVE UNCHANGED <<status, completed>>
      BY <2>6 DEF Serve, Receive, Load, Render, Assemble, TaskFails, TaskRefused, Report,
                  ReportFails, database
    <2>7. ASSUME NEW j \in Jobs, Purge(j) \/ Stall(j) PROVE UNCHANGED <<status, completed>>
      BY <2>7 DEF Purge, Stall, database
    <2>8. ASSUME CleanRows \/ CleanRowsFails \/ CleanInputs \/ CleanPdfs
          PROVE  UNCHANGED <<status, completed>>
      BY <2>8 DEF CleanRows, CleanRowsFails, CleanInputs, CleanPdfs, database
    <2>9. ASSUME RecoverRead \/ RecoverFails \/ SweepRead \/ SweepFails
          PROVE  UNCHANGED <<status, completed>>
      BY <2>9 DEF RecoverRead, RecoverFails, SweepRead, SweepFails, database
    <2>10. ASSUME WorkerStops \/ WorkerStarts \/ Restart \/ UNCHANGED vars
           PROVE  UNCHANGED <<status, completed>>
      BY <2>10 DEF WorkerStops, WorkerStarts, Restart, vars, database
    <2>11. QED
      BY <2>1, <2>2, <2>3, <2>4, <2>5, <2>6, <2>7, <2>8, <2>9, <2>10
      DEF Next, Consume, Recover, Sweep
  <1>3. QED
    BY <1>1, <1>2, InductiveInvariant, PTL DEF Spec, ImplementsJobLifecycle, Lifecycle!Spec

-----------------------------------------------------------------------------
(* The render service *)

CONSTANTS Requests, Loading, RenderSlots, Blobs, Contents, Broken, CacheSize, MaxChanges,
          MaxFailures

VARIABLES stored, idle, cache, handler, client, changes, failures

Service == INSTANCE RenderService WITH
               Slots <- RenderSlots, Batches <- Loading, MaxFaults <- MaxFailures,
               faults <- failures

-----------------------------------------------------------------------------
(* RenderService: the cache *)

CacheOK(c) == c \in Seq(Contents) /\ Service!IsInjective(c) /\ Len(c) <= CacheSize

\* A template that is used again moves to the end, and nothing else changes.
LEMMA UsedIs ==
    ASSUME Service!RenderServiceAssumption, CacheOK(cache), NEW sha \in Service!Range(cache)
    PROVE  CacheOK(Service!Used(sha))
  <1> DEFINE i == CHOOSE k \in DOMAIN cache : cache[k] = sha
             n == Len(cache)
             rest == SubSeq(cache, 1, i - 1) \o SubSeq(cache, i + 1, n)
  <1>1. cache \in Seq(Contents) /\ n \in Nat /\ DOMAIN cache = 1 .. n /\ n <= CacheSize
    BY DEF CacheOK
  <1>2. i \in 1 .. n /\ cache[i] = sha
    BY <1>1 DEF Service!Range
  <1>3. \A a, b \in 1 .. n : cache[a] = cache[b] => a = b
    BY <1>1 DEF CacheOK, Service!IsInjective
  <1> HIDE DEF i
  <1>4. /\ rest \in Seq(Contents) /\ Len(rest) = n - 1
        /\ \A k \in 1 .. n - 1 : rest[k] = IF k < i THEN cache[k] ELSE cache[k + 1]
    <2> DEFINE before == SubSeq(cache, 1, i - 1)
               after == SubSeq(cache, i + 1, n)
    <2>1. \A k \in 1 .. n : cache[k] \in Contents
      BY <1>1
    <2>2. /\ before \in Seq(Contents) /\ Len(before) = i - 1
          /\ \A k \in 1 .. i - 1 : before[k] = cache[k]
      <3>1. 1 \in Int /\ i - 1 \in Int /\ \A k \in 1 .. i - 1 : cache[k] \in Contents
        BY <1>1, <1>2, <2>1
      <3>2. QED
        BY <1>2, <3>1, SubSeqProperties
    <2>3. /\ after \in Seq(Contents) /\ Len(after) = n - i
          /\ \A k \in 1 .. n - i : after[k] = cache[k + i]
      <3>1. i + 1 \in Int /\ n \in Int /\ \A k \in i + 1 .. n : cache[k] \in Contents
        BY <1>1, <1>2, <2>1
      <3>2. /\ after \in Seq(Contents)
            /\ Len(after) = IF i + 1 <= n THEN n - (i + 1) + 1 ELSE 0
            /\ \A k \in 1 .. n - (i + 1) + 1 : after[k] = cache[i + 1 + k - 1]
        BY <3>1, SubSeqProperties
      <3> HIDE DEF after, n
      <3>3. n \in Int /\ i \in Int /\ i <= n
        BY <1>1, <1>2
      <3>4. Len(after) = n - i
        BY <3>2, <3>3
      <3>5. ASSUME NEW k \in 1 .. n - i
            PROVE  after[k] = cache[k + i]
        <4>1. k \in 1 .. n - (i + 1) + 1 /\ i + 1 + k - 1 = k + i
          BY <3>3
        <4>2. QED
          BY <3>2, <4>1
      <3>6. QED
        BY <3>2, <3>4, <3>5
    <2> HIDE DEF before, after
    <2>4. /\ before \o after \in Seq(Contents)
          /\ Len(before \o after) = Len(before) + Len(after)
          /\ \A k \in 1 .. Len(before) + Len(after) :
                (before \o after)[k] = IF k <= Len(before) THEN before[k]
                                       ELSE after[k - Len(before)]
      BY <2>2, <2>3, ConcatProperties
    <2>5. rest = before \o after
      BY DEF before, after
    <2> HIDE DEF rest
    <2>6. Len(rest) = n - 1
      <3> HIDE DEF n
      <3>1. (i - 1) + (n - i) = n - 1
        BY <1>1, <1>2
      <3>2. QED
        BY <2>2, <2>3, <2>4, <2>5, <3>1
    <2>7. ASSUME NEW k \in 1 .. n - 1
          PROVE  rest[k] = IF k < i THEN cache[k] ELSE cache[k + 1]
      <3>1. k \in 1 .. Len(before) + Len(after)
        BY <1>1, <1>2, <2>2, <2>3
      <3>2. CASE k < i
        BY <1>1, <1>2, <2>2, <2>4, <2>5, <3>1, <3>2
      <3>3. CASE ~(k < i)
        <4>1. k - (i - 1) \in 1 .. n - i /\ k - (i - 1) + i = k + 1
          BY <1>1, <1>2, <3>3
        <4>2. rest[k] = after[k - (i - 1)]
          BY <1>1, <1>2, <2>2, <2>4, <2>5, <3>1, <3>3
        <4>3. QED
          BY <2>3, <3>3, <4>1, <4>2
      <3>4. QED
        BY <3>2, <3>3
    <2>8. QED
      BY <2>4, <2>5, <2>6, <2>7
  <1> HIDE DEF rest
  <1> DEFINE used == Append(rest, sha)
  <1>5. Service!Used(sha) = used
    BY <1>1 DEF Service!Used, Service!RemoveAt, rest, i
  <1>6. /\ used \in Seq(Contents) /\ Len(used) = n
        /\ \A k \in 1 .. n - 1 : used[k] = IF k < i THEN cache[k] ELSE cache[k + 1]
        /\ used[n] = cache[i]
    <2>1. sha \in Contents
      BY <1>1, <1>2
    <2>2. /\ used \in Seq(Contents) /\ Len(used) = Len(rest) + 1
          /\ \A k \in 1 .. Len(rest) : used[k] = rest[k]
          /\ used[Len(rest) + 1] = sha
      BY <1>4, <2>1, AppendProperties
    <2> HIDE DEF used
    <2>3. n >= 1
      BY <1>1, <1>2
    <2>4. QED
      BY <1>1, <1>2, <1>4, <2>2, <2>3
  <1> HIDE DEF used
  <1>7. ASSUME NEW a \in 1 .. n, NEW b \in 1 .. n, used[a] = used[b]
        PROVE  a = b
    <2> DEFINE at(k) == IF k = n THEN i ELSE IF k < i THEN k ELSE k + 1
    <2>1. \A k \in 1 .. n : at(k) \in 1 .. n /\ used[k] = cache[at(k)]
      <3> HIDE DEF n
      <3>1. ASSUME NEW k \in 1 .. n, k # n
            PROVE  at(k) \in 1 .. n /\ used[k] = cache[at(k)]
        <4>1. k \in 1 .. n - 1
          BY <1>1, <3>1
        <4>2. used[k] = IF k < i THEN cache[k] ELSE cache[k + 1]
          BY <1>6, <4>1
        <4>3. k + 1 \in 1 .. n
          BY <1>1, <4>1
        <4>4. QED
          BY <3>1, <4>2, <4>3
      <3>2. QED
        BY <1>2, <1>6, <3>1
    <2>2. at(a) = at(b)
      BY <1>3, <1>7, <2>1
    <2> HIDE DEF n
    <2>3. i \in Int /\ a \in Int /\ b \in Int
      BY <1>1, <1>2
    <2>4. \A k \in Int : k # n => at(k) # i /\ (at(k) = k \/ at(k) = k + 1)
      BY <2>3
    <2>5. at(n) = i
      OBVIOUS
    <2>6. CASE a = n \/ b = n
      BY <2>2, <2>3, <2>4, <2>5, <2>6
    <2>7. CASE a # n /\ b # n
      BY <2>2, <2>3, <2>7
    <2>8. QED
      BY <2>6, <2>7
  <1>8. Service!IsInjective(used)
    BY <1>6, <1>7 DEF Service!IsInjective
  <1>9. QED
    BY <1>1, <1>5, <1>6, <1>8 DEF CacheOK

LEMMA KeptIs ==
    ASSUME Service!RenderServiceAssumption, CacheOK(cache), NEW sha \in Contents
    PROVE  CacheOK(Service!Kept(sha))
  <1> DEFINE n == Len(cache)
             longer == Append(cache, sha)
  <1>1. cache \in Seq(Contents) /\ n \in Nat /\ DOMAIN cache = 1 .. n /\ n <= CacheSize
        /\ CacheSize \in Nat \ {0}
        /\ \A a, b \in 1 .. n : cache[a] = cache[b] => a = b
    BY DEF CacheOK, Service!IsInjective, Service!RenderServiceAssumption
  <1>2. CASE sha \in Service!Range(cache)
    BY <1>2 DEF Service!Kept
  <1>3. CASE sha \notin Service!Range(cache)
    <2>1. \A k \in 1 .. n : cache[k] # sha
      BY <1>1, <1>3 DEF Service!Range
    <2>2. /\ longer \in Seq(Contents) /\ Len(longer) = n + 1
          /\ \A k \in 1 .. n : longer[k] = cache[k]
          /\ longer[n + 1] = sha
      BY <1>1
    <2> HIDE DEF longer
    <2>3. \A a, b \in 1 .. n + 1 : longer[a] = longer[b] => a = b
      BY <1>1, <2>1, <2>2
    <2>4. CASE n + 1 > CacheSize
      <3>1. Service!Kept(sha) = Tail(longer)
        BY <1>3, <2>2, <2>4 DEF Service!Kept, longer
      <3>2. /\ Tail(longer) \in Seq(Contents) /\ Len(Tail(longer)) = n
            /\ \A k \in 1 .. n : Tail(longer)[k] = longer[k + 1]
        BY <1>1, <2>2
      <3>3. \A a, b \in 1 .. n : Tail(longer)[a] = Tail(longer)[b] => a = b
        BY <1>1, <2>3, <3>2
      <3> DEFINE kept == Tail(longer)
      <3>4. DOMAIN kept = 1 .. n
        BY <3>2
      <3> HIDE DEF kept
      <3>5. CacheOK(kept)
        BY <1>1, <3>2, <3>3, <3>4 DEF CacheOK, Service!IsInjective, kept
      <3>6. QED
        BY <3>1, <3>5 DEF kept
    <2>5. CASE ~(n + 1 > CacheSize)
      <3>1. Service!Kept(sha) = longer
        BY <1>3, <2>2, <2>5 DEF Service!Kept, longer
      <3>2. QED
        BY <1>1, <2>2, <2>3, <2>5, <3>1 DEF CacheOK, Service!IsInjective
    <2>6. QED
      BY <2>4, <2>5
  <1>4. QED
    BY <1>2, <1>3

-----------------------------------------------------------------------------
(* RenderService: the invariant *)

HandlerT == [at : {"off", "arrived", "replied", "gone"} \cup Service!AtWork,
             ref : Service!Refs \cup {Null}, slot : RenderSlots \cup {Null},
             had : Contents \cup {Null},
             code : {Null, "ok", "BUSY"} \cup Service!Range(Service!PublicCode)]

\* What the service does for a call or a batch.  n counts the changes of the blobs
\* and the failures so far.
TaskOK(t, h, st, n) ==
    /\ h \in HandlerT
    /\ h.at # "off" => h.ref \in Service!Refs
    /\ h.at = "converting" => h.had = h.ref.sha
    /\ h.at = "replied" /\ h.code = "ok" => h.had = h.ref.sha
    /\ t \in Loading => h.slot = Null /\ h.at \notin {"arrived", "gone", "converting"}
    /\ t \in Service!Calls => (h.slot # Null <=> h.at \in Service!AtWork)
    /\ n = 0 =>
          /\ h.at # "gone"
          /\ h.at # "off" => st[h.ref.blob] = h.ref.sha
          /\ h.at = "fetched" => h.had = h.ref.sha
          /\ h.at = "replied" =>
                /\ h.code \in {"ok", "BUSY", "TEMPLATE_INVALID"}
                /\ h.code = "TEMPLATE_INVALID" => h.ref.sha \in Broken

SlotsOK(hs, free) ==
    /\ \A s \in RenderSlots : s \notin free => \E t \in Service!Calls : hs[t].slot = s
    /\ \A t \in Service!Calls : hs[t].slot \notin free
    /\ \A t, u \in Service!Calls : hs[t].slot = hs[u].slot /\ t # u => hs[t].slot = Null

\* What the backend does for a request, whose calls are a and b.
ClientOK(c, a, b, n) ==
    /\ c.at = "off" => a.at = "off" /\ c.attempt = 1
    /\ c.at # "off" => c.ref \in Service!Refs /\ a.at # "off" /\ a.ref = c.ref
    /\ c.attempt = 1 => b.at = "off"
    /\ c.attempt = 2 => /\ a.at = "replied" /\ a.code = "BUSY"
                        /\ b.at # "off" /\ b.ref = c.ref /\ c.at # "sleeping"
    /\ c.at = "sleeping" => a.at = "replied" /\ a.code = "BUSY"
    /\ c.at = "pdf" => c.got = c.ref.sha
    /\ n = 0 /\ c.at = "error" =>
          \/ /\ c.got = "PDF_CONVERSION_FAILED" /\ c.attempt = 2
             /\ b.at = "replied" /\ b.code = "BUSY"
          \/ c.got = "PDF_TEMPLATE_INVALID" /\ c.ref.sha \in Broken

First(r) == <<r, 1>>
Second(r) == <<r, 2>>

ServiceInv ==
    /\ Service!TypeOK
    /\ CacheOK(cache)
    /\ \A t \in Service!Tasks : TaskOK(t, handler[t], stored, changes + failures)
    /\ SlotsOK(handler, idle)
    /\ \A r \in Requests :
          ClientOK(client[r], handler[First(r)], handler[Second(r)], changes + failures)

\* The codes of the service, and what the backend makes of them.
LEMMA PublicCodes ==
    ASSUME NEW e \in Service!JobErrors
    PROVE  /\ Service!PublicCode[e] \in Service!Range(Service!PublicCode)
           /\ Service!PublicCode[e] \notin {"ok", "BUSY"}
  BY DEF Service!JobErrors, Service!PublicCode, Service!Range

LEMMA ErrorCodes ==
    /\ \A code : Service!ErrorCode(code) \in Service!JobErrors
    /\ Service!ErrorCode("BUSY") = "PDF_CONVERSION_FAILED"
    /\ Service!ErrorCode("TEMPLATE_INVALID") = "PDF_TEMPLATE_INVALID"
    /\ Service!PublicCode["PDF_TEMPLATE_INVALID"] = "TEMPLATE_INVALID"
  BY DEF Service!ErrorCode, Service!OwnCode, Service!JobErrors, Service!PublicCode

LEMMA TasksAre ==
    ASSUME Service!RenderServiceAssumption
    PROVE  /\ Service!Tasks = Service!Calls \cup Loading
           /\ Service!Calls \cap Loading = {}
           /\ \A r \in Requests : First(r) \in Service!Calls /\ Second(r) \in Service!Calls
           /\ \A r, q \in Requests : First(r) # Second(q)
           /\ \A r, q \in Requests : First(r) = First(q) => r = q
           /\ \A r, q \in Requests : Second(r) = Second(q) => r = q
  BY DEF Service!Tasks, Service!Calls, Service!RenderServiceAssumption, First, Second

\* The parts of the types.
LEMMA ServiceTypes ==
    ASSUME ServiceInv
    PROVE  /\ stored \in [Blobs -> Contents \cup {Null}] /\ idle \subseteq RenderSlots
           /\ handler \in [Service!Tasks -> HandlerT]
           /\ client \in [Requests -> [at : {"off", "waiting", "sleeping", "pdf", "error"},
                                       attempt : 1 .. 2, ref : Service!Refs \cup {Null},
                                       got : {Null} \cup Contents \cup Service!JobErrors]]
           /\ changes \in 0 .. MaxChanges /\ failures \in 0 .. MaxFailures
  BY DEF ServiceInv, Service!TypeOK, HandlerT

LEMMA SlotsStay ==
    ASSUME Service!RenderServiceAssumption, ServiceInv, NEW t \in Service!Tasks, NEW h,
           h.slot = handler[t].slot
    PROVE  SlotsOK([handler EXCEPT ![t] = h], idle)
  <1> DEFINE hs == [handler EXCEPT ![t] = h]
  <1>1. \A u \in Service!Calls : hs[u].slot = handler[u].slot
    BY TasksAre, ServiceTypes
  <1> HIDE DEF hs
  <1>2. SlotsOK(hs, idle)
    BY <1>1 DEF ServiceInv, SlotsOK
  <1>3. QED
    BY <1>2 DEF hs

\* A handler that ends gives back the slot it took, if it took one.
LEMMA SlotsBack ==
    ASSUME Service!RenderServiceAssumption, ServiceInv, NEW t \in Service!Tasks, NEW h,
           h.slot = Null
    PROVE  /\ SlotsOK([handler EXCEPT ![t] = h], idle \cup ({handler[t].slot} \ {Null}))
           /\ idle \cup ({handler[t].slot} \ {Null}) \subseteq RenderSlots
  <1> DEFINE hs == [handler EXCEPT ![t] = h]
             free == idle \cup ({handler[t].slot} \ {Null})
  <1>1. /\ \A u \in Service!Calls : u # t => hs[u].slot = handler[u].slot
        /\ t \in Service!Calls => hs[t].slot = Null
    BY TasksAre, ServiceTypes
  <1>2. t \in Loading => handler[t].slot = Null
    BY DEF ServiceInv, TaskOK
  <1>3. t \in Service!Calls \cup Loading /\ idle \subseteq RenderSlots /\ Null \notin RenderSlots
    BY TasksAre, ServiceTypes DEF Service!RenderServiceAssumption
  <1>4. handler[t].slot \in RenderSlots \cup {Null}
    BY ServiceTypes DEF HandlerT
  <1> HIDE DEF hs
  <1>5. SlotsOK(hs, free)
    BY <1>1, <1>2, <1>3, <1>4 DEF ServiceInv, SlotsOK
  <1>6. QED
    BY <1>3, <1>4, <1>5 DEF hs

LEMMA SlotTaken ==
    ASSUME Service!RenderServiceAssumption, ServiceInv, NEW t \in Service!Calls, NEW h,
           NEW s \in idle, h.slot = s, handler[t].slot = Null
    PROVE  SlotsOK([handler EXCEPT ![t] = h], idle \ {s})
  <1> DEFINE hs == [handler EXCEPT ![t] = h]
  <1>1. /\ \A u \in Service!Calls : u # t => hs[u].slot = handler[u].slot
        /\ hs[t].slot = s
    BY TasksAre, ServiceTypes
  <1>2. s \in RenderSlots /\ s # Null
    BY ServiceTypes DEF Service!RenderServiceAssumption
  <1> HIDE DEF hs
  <1>3. \A u \in Service!Calls : handler[u].slot \notin idle
    BY DEF ServiceInv, SlotsOK
  <1>4. \A u \in Service!Calls : u # t => hs[u].slot # s
    BY <1>1, <1>3
  <1>5. \A u \in Service!Calls : hs[u].slot \notin idle \ {s}
    BY <1>1, <1>3
  <1>6. ASSUME NEW p \in RenderSlots, p \notin idle \ {s}
        PROVE  \E u \in Service!Calls : hs[u].slot = p
    <2>1. CASE p = s
      BY <1>1, <2>1
    <2>2. CASE p # s
      <3>1. PICK u \in Service!Calls : handler[u].slot = p
        BY <1>6, <2>2 DEF ServiceInv, SlotsOK
      <3>2. u # t
        BY <1>2, <3>1, ServiceTypes DEF Service!RenderServiceAssumption
      <3>3. QED
        BY <1>1, <3>1, <3>2
    <2>3. QED
      BY <2>1, <2>2
  <1>7. ASSUME NEW u \in Service!Calls, NEW v \in Service!Calls, hs[u].slot = hs[v].slot, u # v
        PROVE  hs[u].slot = Null
    <2>1. u # t /\ v # t
      BY <1>1, <1>4, <1>7
    <2>2. QED
      BY <1>1, <1>7, <2>1 DEF ServiceInv, SlotsOK
  <1>8. QED
    BY <1>5, <1>6, <1>7 DEF SlotsOK, hs

\* What holds of a task or of a request still does after a failure more.
LEMMA TaskStays ==
    ASSUME NEW t, NEW h, NEW st, NEW n \in Nat, NEW m \in Nat, m >= n, TaskOK(t, h, st, n)
    PROVE  TaskOK(t, h, st, m)
  BY DEF TaskOK

\* A request whose calls did not end keeps what it knows of them.
LEMMA ClientStays ==
    ASSUME NEW c, NEW a, NEW b, NEW d, NEW e, NEW n \in Nat, NEW m \in Nat, m >= n,
           ClientOK(c, a, b, n),
           a.at = "off" <=> d.at = "off", a.ref = d.ref, a.at = "replied" => d = a,
           b.at = "off" <=> e.at = "off", b.ref = e.ref, b.at = "replied" => e = b
    PROVE  ClientOK(c, d, e, m)
  BY DEF ClientOK

\* A step of the service for one task.
LEMMA TaskStep ==
    ASSUME Service!RenderServiceAssumption, ServiceInv, NEW t \in Service!Tasks, NEW h,
           handler' = [handler EXCEPT ![t] = h],
           client' = client, stored' = stored, changes' = changes,
           failures' \in 0 .. MaxFailures, failures' >= failures,
           CacheOK(cache'),
           TaskOK(t, h, stored, changes + failures'),
           idle' \subseteq RenderSlots, SlotsOK(handler', idle'),
           t \in Service!Calls =>
               handler[t].at \notin {"off", "replied"} /\ h.at # "off" /\ h.ref = handler[t].ref
    PROVE  ServiceInv'
  <1> DEFINE n == changes + failures
             m == changes + failures'
  <1>1. n \in Nat /\ m \in Nat /\ m >= n
    BY ServiceTypes DEF Service!RenderServiceAssumption
  <1>2. /\ handler \in [Service!Tasks -> HandlerT] /\ h \in HandlerT
        /\ handler'[t] = h /\ \A u \in Service!Tasks : u # t => handler'[u] = handler[u]
        /\ handler' \in [Service!Tasks -> HandlerT]
    BY ServiceTypes DEF TaskOK
  <1> HIDE DEF n, m
  <1>3. \A u \in Service!Tasks : TaskOK(u, handler'[u], stored', m)
    <2>1. ASSUME NEW u \in Service!Tasks, u # t
          PROVE  TaskOK(u, handler'[u], stored', m)
      <3>1. TaskOK(u, handler[u], stored, n)
        BY DEF ServiceInv, n
      <3>2. QED
        BY <1>1, <1>2, <2>1, <3>1, TaskStays
    <2>2. QED
      BY <1>2, <2>1 DEF m
  <1>4. \A u \in Service!Calls : /\ handler[u].at = "off" <=> handler'[u].at = "off"
                                 /\ handler[u].ref = handler'[u].ref
                                 /\ handler[u].at = "replied" => handler'[u] = handler[u]
    BY <1>2, TasksAre
  <1>5. \A r \in Requests : ClientOK(client'[r], handler'[First(r)], handler'[Second(r)], m)
    <2>1. TAKE r \in Requests
    <2>2. ClientOK(client[r], handler[First(r)], handler[Second(r)], n)
      BY DEF ServiceInv, n
    <2>3. First(r) \in Service!Calls /\ Second(r) \in Service!Calls
      BY TasksAre
    <2>4. QED
      BY <1>1, <1>4, <2>2, <2>3, ClientStays
  <1>6. Service!TypeOK'
    BY <1>2, ServiceTypes DEF Service!TypeOK, HandlerT, CacheOK
  <1>7. QED
    BY <1>3, <1>5, <1>6 DEF ServiceInv, m

LEMMA ServiceTake ==
    ASSUME Service!RenderServiceAssumption, ServiceInv, NEW t \in Service!Tasks, Service!Take(t)
    PROVE  ServiceInv'
  <1> DEFINE n == changes + failures
  <1>1. /\ t \in Service!Calls /\ handler[t].at = "arrived" /\ handler[t] \in HandlerT
        /\ TaskOK(t, handler[t], stored, n) /\ handler[t].slot = Null
        /\ t \notin Loading /\ handler \in [Service!Tasks -> HandlerT]
    BY TasksAre, ServiceTypes DEF ServiceInv, TaskOK, Service!Take, Service!AtWork
  <1>2. /\ UNCHANGED <<stored, cache, client, changes, failures>>
        /\ CacheOK(cache') /\ failures' \in 0 .. MaxFailures /\ failures' >= failures
        /\ n = changes + failures'
    BY ServiceTypes DEF Service!Take, ServiceInv, Service!RenderServiceAssumption
  <1>3. CASE idle = {}
    <2> DEFINE h == [handler[t] EXCEPT !.at = "replied", !.code = "BUSY", !.slot = Null]
    <2>1. handler' = [handler EXCEPT ![t] = h]
          /\ idle' = idle \cup ({handler[t].slot} \ {Null})
      BY <1>1, <1>3 DEF Service!Take, Service!Reply
    <2>2. h \in HandlerT /\ h.slot = Null /\ h.at = "replied" /\ h.code = "BUSY"
          /\ h.ref = handler[t].ref
      BY <1>1 DEF HandlerT
    <2> HIDE DEF h
    <2>3. TaskOK(t, h, stored, n)
      BY <1>1, <2>2 DEF TaskOK, Service!AtWork
    <2>4. SlotsOK(handler', idle') /\ idle' \subseteq RenderSlots
      BY <2>1, <2>2, SlotsBack
    <2>5. QED
      BY <1>1, <1>2, <2>1, <2>2, <2>3, <2>4, TaskStep
  <1>4. CASE idle # {}
    <2>1. PICK s \in idle : /\ idle' = idle \ {s}
                            /\ handler' = [handler EXCEPT ![t].at = "loading", ![t].slot = s]
      BY <1>4 DEF Service!Take
    <2> DEFINE h == [handler[t] EXCEPT !.at = "loading", !.slot = s]
    <2>2. handler' = [handler EXCEPT ![t] = h]
      BY <1>1, <2>1
    <2>3. s \in RenderSlots /\ s # Null
      BY ServiceTypes DEF Service!RenderServiceAssumption
    <2>4. h \in HandlerT /\ h.slot = s /\ h.at = "loading" /\ h.ref = handler[t].ref
      BY <1>1, <2>3 DEF HandlerT, Service!AtWork
    <2> HIDE DEF h
    <2>5. TaskOK(t, h, stored, n)
      BY <1>1, <2>3, <2>4 DEF TaskOK, Service!AtWork
    <2>6. SlotsOK([handler EXCEPT ![t] = h], idle \ {s})
      BY <1>1, <2>4, SlotTaken
    <2>7. SlotsOK(handler', idle') /\ idle' \subseteq RenderSlots
      BY <2>1, <2>2, <2>6, ServiceTypes
    <2>8. QED
      BY <1>1, <1>2, <2>2, <2>4, <2>5, <2>7, TaskStep
  <1>5. QED
    BY <1>3, <1>4

\* A call or a batch that is refused: it ends and gives its slot back.
LEMMA CallRefused ==
    ASSUME Service!RenderServiceAssumption, ServiceInv, NEW t \in Service!Tasks,
           NEW error \in Service!JobErrors,
           handler[t].at \in Service!AtWork, Service!Fail(t, error),
           UNCHANGED <<stored, client, changes>>, CacheOK(cache'),
           \/ failures' = failures + 1 /\ failures < MaxFailures
           \/ /\ failures' = failures
              /\ changes + failures = 0 =>
                    error = "PDF_TEMPLATE_INVALID" /\ handler[t].ref.sha \in Broken
    PROVE  ServiceInv'
  <1> DEFINE n == changes + failures
             m == changes + failures'
             code == Service!PublicCode[error]
             h == [handler[t] EXCEPT !.at = "replied", !.code = code, !.slot = Null]
  <1>1. /\ handler \in [Service!Tasks -> HandlerT]
        /\ TaskOK(t, handler[t], stored, n) /\ handler[t] \in HandlerT
    BY ServiceTypes DEF ServiceInv
  <1>2. n \in Nat /\ m \in Nat /\ m >= n /\ failures' \in 0 .. MaxFailures /\ failures' >= failures
    BY ServiceTypes DEF Service!RenderServiceAssumption
  <1>3. handler' = [handler EXCEPT ![t] = h]
        /\ idle' = idle \cup ({handler[t].slot} \ {Null})
    BY <1>1 DEF Service!Fail, Service!Reply
  <1>4. code \in Service!Range(Service!PublicCode) /\ code \notin {"ok", "BUSY"}
    BY PublicCodes
  <1> HIDE DEF n, code
  <1>5. m = 0 => n = 0 /\ code = "TEMPLATE_INVALID" /\ handler[t].ref.sha \in Broken
    BY ServiceTypes, ErrorCodes DEF n, code
  <1> HIDE DEF m
  <1>6. h \in HandlerT /\ h.slot = Null /\ h.at = "replied" /\ h.code = code
        /\ h.ref = handler[t].ref
    BY <1>1, <1>4 DEF HandlerT
  <1> HIDE DEF h
  <1>7. TaskOK(t, h, stored, m)
    BY <1>1, <1>4, <1>5, <1>6 DEF TaskOK, Service!AtWork
  <1>8. SlotsOK(handler', idle') /\ idle' \subseteq RenderSlots
    BY <1>3, <1>6, SlotsBack
  <1>9. handler[t].at \notin {"off", "replied"}
    BY DEF Service!AtWork
  <1>10. QED
    BY <1>2, <1>3, <1>6, <1>7, <1>8, <1>9, TaskStep DEF m

\* A template at hand.
LEMMA TaskLoaded ==
    ASSUME Service!RenderServiceAssumption, ServiceInv, NEW t \in Service!Tasks,
           handler[t].at \in {"loading", "fetched"}, Service!Loaded(t, handler[t].ref.sha),
           UNCHANGED <<stored, client, changes, failures>>, CacheOK(cache')
    PROVE  ServiceInv'
  <1> DEFINE n == changes + failures
             sha == handler[t].ref.sha
  <1>1. /\ handler \in [Service!Tasks -> HandlerT] /\ handler[t] \in HandlerT
        /\ TaskOK(t, handler[t], stored, n) /\ handler[t].ref \in Service!Refs
        /\ sha \in Contents /\ handler[t].at \in Service!AtWork
    BY ServiceTypes DEF ServiceInv, TaskOK, Service!Refs, Service!AtWork
  <1>2. failures' \in 0 .. MaxFailures /\ failures' >= failures /\ n = changes + failures'
    BY ServiceTypes DEF Service!RenderServiceAssumption
  <1>3. CASE t \in Loading
    <2>1. handler' = [handler EXCEPT ![t] = Service!Off] /\ idle' = idle
      BY <1>3 DEF Service!Loaded
    <2>2. t \notin Service!Calls /\ handler[t].slot = Null
      BY <1>1, <1>3, TasksAre DEF TaskOK
    <2>3. TaskOK(t, Service!Off, stored, n)
      BY <1>3, <2>2 DEF TaskOK, HandlerT, Service!Off, Service!AtWork
    <2>4. Service!Off.slot = handler[t].slot
      BY <2>2 DEF Service!Off
    <2>5. SlotsOK(handler', idle') /\ idle' \subseteq RenderSlots
      BY <2>1, <2>4, SlotsStay, ServiceTypes
    <2>6. QED
      BY <1>2, <2>1, <2>2, <2>3, <2>5, TaskStep
  <1>4. CASE t \notin Loading /\ sha \in Broken
    <2>1. Service!Fail(t, "PDF_TEMPLATE_INVALID")
      BY <1>4 DEF Service!Loaded
    <2>2. "PDF_TEMPLATE_INVALID" \in Service!JobErrors
      BY DEF Service!JobErrors
    <2>3. QED
      BY <1>1, <1>4, <2>1, <2>2, CallRefused
  <1>5. CASE t \notin Loading /\ sha \notin Broken
    <2> DEFINE h == [handler[t] EXCEPT !.at = "converting", !.had = sha]
    <2>1. handler' = [handler EXCEPT ![t] = h] /\ idle' = idle
      BY <1>1, <1>5 DEF Service!Loaded
    <2>2. h \in HandlerT /\ h.slot = handler[t].slot /\ h.at = "converting" /\ h.had = sha
          /\ h.ref = handler[t].ref
      BY <1>1 DEF HandlerT, Service!AtWork
    <2> HIDE DEF h
    <2>3. TaskOK(t, h, stored, n)
      BY <1>1, <1>5, <2>2 DEF TaskOK, Service!AtWork
    <2>4. SlotsOK(handler', idle') /\ idle' \subseteq RenderSlots
      BY <2>1, <2>2, SlotsStay, ServiceTypes
    <2>5. handler[t].at \notin {"off", "replied"}
      OBVIOUS
    <2>6. QED
      BY <1>2, <2>1, <2>2, <2>3, <2>4, <2>5, TaskStep
  <1>6. QED
    BY <1>3, <1>4, <1>5

LEMMA ServiceLoad ==
    ASSUME Service!RenderServiceAssumption, ServiceInv, NEW t \in Service!Tasks,
           Service!LoadTemplate(t)
    PROVE  ServiceInv'
  <1> DEFINE n == changes + failures
             sha == handler[t].ref.sha
  <1>1. /\ handler \in [Service!Tasks -> HandlerT] /\ handler[t] \in HandlerT
        /\ TaskOK(t, handler[t], stored, n) /\ handler[t].at = "loading"
        /\ CacheOK(cache) /\ UNCHANGED <<stored, client, changes, failures>>
    BY ServiceTypes DEF ServiceInv, Service!LoadTemplate
  <1>2. CASE sha \in Service!Range(cache)
    <2>1. cache' = Service!Used(sha) /\ Service!Loaded(t, sha)
      BY <1>2 DEF Service!LoadTemplate
    <2>2. CacheOK(cache')
      BY <1>1, <1>2, <2>1, UsedIs
    <2>3. QED
      BY <1>1, <2>1, <2>2, TaskLoaded
  <1>3. CASE sha \notin Service!Range(cache)
    <2> DEFINE was == stored[handler[t].ref.blob]
               h == [handler[t] EXCEPT !.at = "fetched", !.had = was]
    <2>1. handler' = [handler EXCEPT ![t] = h] /\ idle' = idle /\ cache' = cache
      BY <1>1, <1>3 DEF Service!LoadTemplate
    <2>2. handler[t].ref \in Service!Refs /\ was \in Contents \cup {Null}
      BY <1>1, ServiceTypes DEF TaskOK, Service!Refs
    <2>3. h \in HandlerT /\ h.slot = handler[t].slot /\ h.at = "fetched" /\ h.had = was
          /\ h.ref = handler[t].ref
      BY <1>1, <2>2 DEF HandlerT, Service!AtWork
    <2> HIDE DEF h
    <2>4. TaskOK(t, h, stored, n)
      BY <1>1, <2>2, <2>3 DEF TaskOK, Service!AtWork
    <2>5. SlotsOK(handler', idle') /\ idle' \subseteq RenderSlots
      BY <2>1, <2>3, SlotsStay, ServiceTypes
    <2>6. failures' \in 0 .. MaxFailures /\ failures' >= failures /\ n = changes + failures'
      BY <1>1, ServiceTypes DEF Service!RenderServiceAssumption
    <2>7. QED
      BY <1>1, <2>1, <2>3, <2>4, <2>5, <2>6, TaskStep
  <1>4. QED
    BY <1>2, <1>3

LEMMA ServiceKeep ==
    ASSUME Service!RenderServiceAssumption, ServiceInv, NEW t \in Service!Tasks,
           Service!KeepTemplate(t)
    PROVE  ServiceInv'
  <1> DEFINE n == changes + failures
             sha == handler[t].ref.sha
  <1>1. /\ TaskOK(t, handler[t], stored, n) /\ handler[t].at = "fetched"
        /\ handler[t].ref \in Service!Refs /\ sha \in Contents
        /\ CacheOK(cache) /\ UNCHANGED <<stored, client, changes, failures>>
    BY ServiceTypes DEF ServiceInv, Service!KeepTemplate, TaskOK, Service!Refs
  <1>2. CASE handler[t].had = sha
    <2>1. cache' = Service!Kept(sha) /\ Service!Loaded(t, sha)
      BY <1>2 DEF Service!KeepTemplate, Service!Matches
    <2>2. CacheOK(cache')
      BY <1>1, <2>1, KeptIs
    <2>3. QED
      BY <1>1, <2>1, <2>2, TaskLoaded
  <1>3. CASE handler[t].had # sha
    <2>1. Service!Fail(t, "PDF_TEMPLATE_UNAVAILABLE") /\ cache' = cache
      BY <1>3 DEF Service!KeepTemplate, Service!Matches
    <2>2. "PDF_TEMPLATE_UNAVAILABLE" \in Service!JobErrors /\ handler[t].at \in Service!AtWork
      BY <1>1 DEF Service!JobErrors, Service!AtWork
    <2>3. n # 0
      BY <1>1, <1>3 DEF TaskOK
    <2>4. QED
      BY <1>1, <2>1, <2>2, <2>3, CallRefused
  <1>4. QED
    BY <1>2, <1>3

LEMMA ServiceLoadFails ==
    ASSUME Service!RenderServiceAssumption, ServiceInv, NEW t \in Service!Tasks,
           Service!LoadFails(t)
    PROVE  ServiceInv'
  <1>1. /\ handler[t].at \in Service!AtWork /\ Service!Fail(t, "PDF_STORAGE_UNAVAILABLE")
        /\ UNCHANGED <<stored, client, changes>> /\ CacheOK(cache')
        /\ failures' = failures + 1 /\ failures < MaxFailures
    BY DEF Service!LoadFails, Service!AtWork, Service!Fault, ServiceInv
  <1>2. "PDF_STORAGE_UNAVAILABLE" \in Service!JobErrors
    BY DEF Service!JobErrors
  <1>3. QED
    BY <1>1, <1>2, CallRefused

LEMMA ServiceConvert ==
    ASSUME Service!RenderServiceAssumption, ServiceInv, NEW t \in Service!Tasks,
           Service!Convert(t)
    PROVE  ServiceInv'
  <1> DEFINE n == changes + failures
             h == [handler[t] EXCEPT !.at = "replied", !.code = "ok", !.slot = Null]
  <1>1. /\ handler \in [Service!Tasks -> HandlerT] /\ handler[t] \in HandlerT
        /\ TaskOK(t, handler[t], stored, n) /\ handler[t].at = "converting"
        /\ CacheOK(cache') /\ UNCHANGED <<stored, client, changes, failures>>
    BY ServiceTypes DEF ServiceInv, Service!Convert
  <1>2. handler' = [handler EXCEPT ![t] = h]
        /\ idle' = idle \cup ({handler[t].slot} \ {Null})
    BY <1>1 DEF Service!Convert, Service!Reply
  <1>3. h \in HandlerT /\ h.slot = Null /\ h.at = "replied" /\ h.code = "ok"
        /\ h.ref = handler[t].ref /\ h.had = handler[t].had
    BY <1>1 DEF HandlerT
  <1> HIDE DEF h
  <1>4. TaskOK(t, h, stored, n)
    BY <1>1, <1>3 DEF TaskOK, Service!AtWork
  <1>5. SlotsOK(handler', idle') /\ idle' \subseteq RenderSlots
    BY <1>2, <1>3, SlotsBack
  <1>6. failures' \in 0 .. MaxFailures /\ failures' >= failures /\ n = changes + failures'
    BY <1>1, ServiceTypes DEF Service!RenderServiceAssumption
  <1>7. QED
    BY <1>1, <1>2, <1>3, <1>4, <1>5, <1>6, TaskStep

LEMMA ServiceConvertFails ==
    ASSUME Service!RenderServiceAssumption, ServiceInv, NEW t \in Service!Tasks,
           Service!ConvertFails(t)
    PROVE  ServiceInv'
  <1>1. PICK error \in {"TEMPLATE_RENDER_FAILED", "PDF_CONVERSION_TIMEOUT",
                        "PDF_CONVERSION_FAILED"} : Service!Fail(t, error)
    BY DEF Service!ConvertFails
  <1>2. /\ handler[t].at \in Service!AtWork /\ error \in Service!JobErrors
        /\ UNCHANGED <<stored, client, changes>> /\ CacheOK(cache')
        /\ failures' = failures + 1 /\ failures < MaxFailures
    BY DEF Service!ConvertFails, Service!AtWork, Service!Fault, ServiceInv, Service!JobErrors
  <1>3. QED
    BY <1>1, <1>2, CallRefused

LEMMA ServiceLoadForBatch ==
    ASSUME Service!RenderServiceAssumption, ServiceInv, NEW t \in Loading,
           NEW ref \in Service!Refs, Service!LoadForBatch(t, ref)
    PROVE  ServiceInv'
  <1> DEFINE n == changes + failures
             h == [Service!Off EXCEPT !.at = "loading", !.ref = ref]
  <1>1. /\ t \in Service!Tasks /\ t \notin Service!Calls /\ handler[t].slot = Null
        /\ CacheOK(cache') /\ UNCHANGED <<stored, idle, cache, client, changes, failures>>
        /\ handler' = [handler EXCEPT ![t] = h] /\ stored[ref.blob] = ref.sha
    BY TasksAre DEF ServiceInv, TaskOK, Service!LoadForBatch
  <1>2. h \in HandlerT /\ h.slot = Null /\ h.at = "loading" /\ h.ref = ref
    BY DEF HandlerT, Service!Off, Service!AtWork
  <1> HIDE DEF h
  <1>3. TaskOK(t, h, stored, n)
    BY <1>1, <1>2 DEF TaskOK, Service!AtWork
  <1>4. SlotsOK(handler', idle') /\ idle' \subseteq RenderSlots
    BY <1>1, <1>2, SlotsStay, ServiceTypes
  <1>5. failures' \in 0 .. MaxFailures /\ failures' >= failures /\ n = changes + failures'
    BY <1>1, ServiceTypes DEF Service!RenderServiceAssumption
  <1>6. QED
    BY <1>1, <1>3, <1>4, <1>5, TaskStep

-----------------------------------------------------------------------------
(* RenderService: the backend's steps *)

\* A step of the backend for one request: at most one of its calls changes.
LEMMA RequestStep ==
    ASSUME Service!RenderServiceAssumption, ServiceInv, NEW r \in Requests, NEW c,
           NEW t \in {First(r), Second(r)}, NEW h,
           client' = [client EXCEPT ![r] = c], handler' = [handler EXCEPT ![t] = h],
           UNCHANGED <<stored, idle, cache, changes>>,
           failures' \in 0 .. MaxFailures, failures' >= failures,
           c \in [at : {"off", "waiting", "sleeping", "pdf", "error"},
                  attempt : 1 .. 2, ref : Service!Refs \cup {Null},
                  got : {Null} \cup Contents \cup Service!JobErrors],
           h.slot = handler[t].slot, TaskOK(t, h, stored, changes + failures'),
           ClientOK(c, IF t = First(r) THEN h ELSE handler[First(r)],
                    IF t = Second(r) THEN h ELSE handler[Second(r)], changes + failures')
    PROVE  ServiceInv'
  <1> DEFINE n == changes + failures
             m == changes + failures'
  <1>1. n \in Nat /\ m \in Nat /\ m >= n
    BY ServiceTypes DEF Service!RenderServiceAssumption
  <1>2. /\ t \in Service!Calls /\ t \in Service!Tasks /\ First(r) \in Service!Calls
        /\ Second(r) \in Service!Calls /\ h \in HandlerT
        /\ handler \in [Service!Tasks -> HandlerT] /\ r \in DOMAIN client
    BY TasksAre, ServiceTypes DEF TaskOK
  <1>3. /\ handler'[t] = h /\ \A u \in Service!Tasks : u # t => handler'[u] = handler[u]
        /\ handler' \in [Service!Tasks -> HandlerT]
        /\ client'[r] = c /\ \A q \in Requests : q # r => client'[q] = client[q]
    BY <1>2, ServiceTypes
  <1> HIDE DEF n, m
  <1>4. \A u \in Service!Tasks : TaskOK(u, handler'[u], stored', m)
    <2>1. ASSUME NEW u \in Service!Tasks, u # t
          PROVE  TaskOK(u, handler'[u], stored', m)
      <3>1. TaskOK(u, handler[u], stored, n)
        BY DEF ServiceInv, n
      <3>2. QED
        BY <1>1, <1>3, <2>1, <3>1, TaskStays
    <2>2. QED
      BY <1>3, <2>1 DEF m
  <1>5. \A q \in Requests : ClientOK(client'[q], handler'[First(q)], handler'[Second(q)], m)
    <2>1. TAKE q \in Requests
    <2>2. CASE q = r
      <3>1. First(r) \in Service!Tasks /\ Second(r) \in Service!Tasks
        BY TasksAre
      <3>2. /\ handler'[First(r)] = IF t = First(r) THEN h ELSE handler[First(r)]
            /\ handler'[Second(r)] = IF t = Second(r) THEN h ELSE handler[Second(r)]
        BY <1>3, <3>1
      <3>3. QED
        BY <1>3, <2>2, <3>2 DEF m
    <2>3. CASE q # r
      <3>1. ClientOK(client[q], handler[First(q)], handler[Second(q)], n)
        BY DEF ServiceInv, n
      <3>2. First(q) # t /\ Second(q) # t /\ First(q) \in Service!Tasks
            /\ Second(q) \in Service!Tasks
        BY <2>3, TasksAre
      <3>3. QED
        BY <1>1, <1>3, <2>3, <3>1, <3>2, ClientStays
    <2>4. QED
      BY <2>2, <2>3
  <1>6. SlotsOK(handler', idle')
    BY <1>2, SlotsStay
  <1>7. client' \in [Requests -> [at : {"off", "waiting", "sleeping", "pdf", "error"},
                                  attempt : 1 .. 2, ref : Service!Refs \cup {Null},
                                  got : {Null} \cup Contents \cup Service!JobErrors]]
    BY ServiceTypes
  <1>8. Service!TypeOK' /\ CacheOK(cache')
    BY <1>3, <1>7, ServiceTypes DEF Service!TypeOK, HandlerT, CacheOK, ServiceInv
  <1>9. QED
    BY <1>4, <1>5, <1>6, <1>8 DEF ServiceInv, m

LEMMA ServiceAsk ==
    ASSUME Service!RenderServiceAssumption, ServiceInv, NEW r \in Requests,
           NEW ref \in Service!Refs, Service!Ask(r, ref)
    PROVE  ServiceInv'
  <1> DEFINE n == changes + failures
             c == [at |-> "waiting", attempt |-> 1, ref |-> ref, got |-> Null]
             h == [Service!Off EXCEPT !.at = "arrived", !.ref = ref]
             a == handler[First(r)]
             b == handler[Second(r)]
  <1>1. /\ client' = [client EXCEPT ![r] = c] /\ handler' = [handler EXCEPT ![First(r)] = h]
        /\ UNCHANGED <<stored, idle, cache, changes>> /\ failures' = failures
        /\ client[r].at = "off" /\ stored[ref.blob] = ref.sha
    BY DEF Service!Ask, First
  <1>2. ClientOK(client[r], a, b, n) /\ First(r) \in Service!Tasks /\ First(r) \in Service!Calls
        /\ First(r) \notin Loading /\ First(r) # Second(r)
    BY TasksAre DEF ServiceInv
  <1>3. a.at = "off" /\ b.at = "off" /\ a.slot = Null
    <2>1. TaskOK(First(r), a, stored, n)
      BY <1>2 DEF ServiceInv
    <2>2. QED
      BY <1>1, <1>2, <2>1 DEF ClientOK, TaskOK, Service!AtWork
  <1>4. /\ h \in HandlerT /\ h.at = "arrived" /\ h.ref = ref /\ h.slot = Null
    BY DEF HandlerT, Service!Off
  <1> HIDE DEF h
  <1>5. TaskOK(First(r), h, stored, n)
    BY <1>1, <1>2, <1>4 DEF TaskOK, Service!AtWork
  <1>6. ClientOK(c, h, b, n)
    BY <1>3, <1>4 DEF ClientOK
  <1>7. c \in [at : {"off", "waiting", "sleeping", "pdf", "error"},
               attempt : 1 .. 2, ref : Service!Refs \cup {Null},
               got : {Null} \cup Contents \cup Service!JobErrors]
    OBVIOUS
  <1>8. failures' \in 0 .. MaxFailures /\ failures' >= failures /\ n = changes + failures'
    BY <1>1, ServiceTypes DEF Service!RenderServiceAssumption
  <1> HIDE DEF c
  <1>9. QED
    BY <1>1, <1>2, <1>3, <1>4, <1>5, <1>6, <1>7, <1>8, RequestStep

LEMMA ServiceAskAgain ==
    ASSUME Service!RenderServiceAssumption, ServiceInv, NEW r \in Requests,
           Service!AskAgain(r)
    PROVE  ServiceInv'
  <1> DEFINE n == changes + failures
             was == client[r]
             c == [client[r] EXCEPT !.at = "waiting", !.attempt = 2]
             h == [Service!Off EXCEPT !.at = "arrived", !.ref = was.ref]
             a == handler[First(r)]
             b == handler[Second(r)]
  <1>1. /\ client' = [client EXCEPT ![r].at = "waiting", ![r].attempt = 2]
        /\ handler' = [handler EXCEPT ![Second(r)] = h]
        /\ UNCHANGED <<stored, idle, cache, changes>> /\ failures' = failures
        /\ was.at = "sleeping"
    BY DEF Service!AskAgain, Second
  <1>2. client' = [client EXCEPT ![r] = c]
    BY <1>1, ServiceTypes
  <1>3. /\ ClientOK(was, a, b, n) /\ First(r) \in Service!Tasks
        /\ Second(r) \in Service!Tasks /\ Second(r) \in Service!Calls
        /\ Second(r) \notin Loading /\ First(r) # Second(r)
        /\ TaskOK(First(r), a, stored, n) /\ TaskOK(Second(r), b, stored, n)
    BY TasksAre DEF ServiceInv
  <1>4. /\ a.at = "replied" /\ a.code = "BUSY" /\ a.ref = was.ref /\ was.ref \in Service!Refs
        /\ was.attempt # 2 /\ was.at # "off"
    BY <1>1, <1>3 DEF ClientOK
  <1>5. was \in [at : {"off", "waiting", "sleeping", "pdf", "error"},
                 attempt : 1 .. 2, ref : Service!Refs \cup {Null},
                 got : {Null} \cup Contents \cup Service!JobErrors]
    BY ServiceTypes
  <1>6. was.attempt = 1 /\ b.at = "off" /\ b.slot = Null
    <2>1. was.attempt \in 1 .. 2
      BY <1>5
    <2>2. was.attempt = 1
      BY <1>4, <2>1
    <2>3. QED
      BY <1>3, <2>2 DEF ClientOK, TaskOK, Service!AtWork
  <1>7. /\ h \in HandlerT /\ h.at = "arrived" /\ h.ref = was.ref /\ h.slot = Null
    BY <1>4 DEF HandlerT, Service!Off
  <1>8. /\ c.at = "waiting" /\ c.attempt = 2 /\ c.ref = was.ref
        /\ c \in [at : {"off", "waiting", "sleeping", "pdf", "error"},
                  attempt : 1 .. 2, ref : Service!Refs \cup {Null},
                  got : {Null} \cup Contents \cup Service!JobErrors]
    <2> HIDE DEF was
    <2>1. c = [was EXCEPT !.at = "waiting", !.attempt = 2]
      BY DEF was
    <2> HIDE DEF c, h
    <2>2. 2 \in 1 .. 2
      OBVIOUS
    <2>3. QED
      BY <1>5, <2>1, <2>2
  <1> HIDE DEF h, c
  <1>9. n = 0 => stored[was.ref.blob] = was.ref.sha
    BY <1>3, <1>4 DEF TaskOK
  <1>10. TaskOK(Second(r), h, stored, n)
    BY <1>3, <1>4, <1>7, <1>9 DEF TaskOK, Service!AtWork
  <1>11. ClientOK(c, a, h, n)
    BY <1>4, <1>7, <1>8 DEF ClientOK
  <1>12. failures' \in 0 .. MaxFailures /\ failures' >= failures /\ n = changes + failures'
    BY <1>1, ServiceTypes DEF Service!RenderServiceAssumption
  <1> DEFINE t == Second(r)
  <1>13. /\ ClientOK(c, IF t = First(r) THEN h ELSE a, IF t = Second(r) THEN h ELSE b, n)
         /\ t \in {First(r), Second(r)} /\ h.slot = handler[t].slot /\ TaskOK(t, h, stored, n)
         /\ handler' = [handler EXCEPT ![t] = h]
    BY <1>1, <1>3, <1>6, <1>7, <1>10, <1>11
  <1> HIDE DEF t
  <1>14. /\ client' = [client EXCEPT ![r] = c] /\ UNCHANGED <<stored, idle, cache, changes>>
         /\ TaskOK(t, h, stored, changes + failures')
         /\ ClientOK(c, IF t = First(r) THEN h ELSE a, IF t = Second(r) THEN h ELSE b,
                     changes + failures')
    BY <1>1, <1>2, <1>12, <1>13
  <1>15. QED
    BY <1>8, <1>12, <1>13, <1>14, RequestStep

\* A step of the backend that makes no call.
LEMMA RequestSteps ==
    ASSUME Service!RenderServiceAssumption, ServiceInv, NEW r \in Requests, NEW c,
           client' = [client EXCEPT ![r] = c],
           UNCHANGED <<stored, idle, cache, handler, changes>>,
           failures' \in 0 .. MaxFailures, failures' >= failures,
           c \in [at : {"off", "waiting", "sleeping", "pdf", "error"},
                  attempt : 1 .. 2, ref : Service!Refs \cup {Null},
                  got : {Null} \cup Contents \cup Service!JobErrors],
           ClientOK(c, handler[First(r)], handler[Second(r)], changes + failures')
    PROVE  ServiceInv'
  <1> DEFINE t == First(r)
             h == handler[t]
             n == changes + failures
             m == changes + failures'
  <1>1. n \in Nat /\ m \in Nat /\ m >= n
    BY ServiceTypes DEF Service!RenderServiceAssumption
  <1>2. t \in Service!Tasks /\ t # Second(r)
    BY TasksAre
  <1>3. TaskOK(t, h, stored, n)
    BY <1>2 DEF ServiceInv
  <1> HIDE DEF n, m
  <1>4. TaskOK(t, h, stored, m)
    BY <1>1, <1>3, TaskStays
  <1>5. handler' = [handler EXCEPT ![t] = h]
    BY ServiceTypes
  <1>6. t \in {First(r), Second(r)}
    OBVIOUS
  <1> HIDE DEF t
  <1>7. ClientOK(c, IF t = First(r) THEN h ELSE handler[First(r)],
                 IF t = Second(r) THEN h ELSE handler[Second(r)], m)
    BY <1>2 DEF t, m
  <1>8. QED
    BY <1>4, <1>5, <1>6, <1>7, RequestStep DEF m

LEMMA ServiceReceive ==
    ASSUME Service!RenderServiceAssumption, ServiceInv, NEW r \in Requests,
           Service!Receive(r)
    PROVE  ServiceInv'
  <1> DEFINE n == changes + failures
             was == client[r]
             a == handler[First(r)]
             b == handler[Second(r)]
             reply == handler[<<r, was.attempt>>]
             c == IF reply.code = "ok" THEN [was EXCEPT !.at = "pdf", !.got = reply.had]
                  ELSE IF Service!TriesAgain(r) THEN [was EXCEPT !.at = "sleeping"]
                  ELSE [was EXCEPT !.at = "error", !.got = Service!ErrorCode(reply.code)]
  <1>1. /\ client' = [client EXCEPT ![r] = c]
        /\ UNCHANGED <<stored, idle, cache, handler, changes>> /\ failures' = failures
        /\ was.at = "waiting" /\ reply.at = "replied"
    BY ServiceTypes DEF Service!Receive
  <1>2. /\ ClientOK(was, a, b, n) /\ First(r) \in Service!Tasks /\ Second(r) \in Service!Tasks
        /\ TaskOK(First(r), a, stored, n) /\ TaskOK(Second(r), b, stored, n)
    BY TasksAre DEF ServiceInv
  <1>3. was \in [at : {"off", "waiting", "sleeping", "pdf", "error"},
                 attempt : 1 .. 2, ref : Service!Refs \cup {Null},
                 got : {Null} \cup Contents \cup Service!JobErrors]
    BY ServiceTypes
  <1>4. \/ was.attempt = 1 /\ reply = a
        \/ was.attempt = 2 /\ reply = b
    <2>1. was.attempt \in 1 .. 2
      BY <1>3
    <2> HIDE DEF was
    <2>2. was.attempt = 1 \/ was.attempt = 2
      BY <2>1
    <2>3. QED
      BY <2>2 DEF First, Second
  <1>5. /\ was.ref \in Service!Refs /\ reply.ref = was.ref /\ reply \in HandlerT
        /\ reply.code = "ok" => reply.had = was.ref.sha
        /\ n = 0 => /\ reply.code \in {"ok", "BUSY", "TEMPLATE_INVALID"}
                    /\ reply.code = "TEMPLATE_INVALID" => was.ref.sha \in Broken
    BY <1>1, <1>2, <1>4 DEF ClientOK, TaskOK
  <1>6. Service!TriesAgain(r) <=> was.attempt = 1 /\ a.code = "BUSY"
    BY DEF Service!TriesAgain, First
  <1>7. was.ref.sha \in Contents
    BY <1>5 DEF Service!Refs
  <1> HIDE DEF n
  <1>8. CASE reply.code = "ok"
    <2>1. c = [was EXCEPT !.at = "pdf", !.got = was.ref.sha]
      BY <1>5, <1>8
    <2> HIDE DEF c
    <2>2. /\ c.at = "pdf" /\ c.got = was.ref.sha /\ c.attempt = was.attempt /\ c.ref = was.ref
          /\ c \in [at : {"off", "waiting", "sleeping", "pdf", "error"},
                    attempt : 1 .. 2, ref : Service!Refs \cup {Null},
                    got : {Null} \cup Contents \cup Service!JobErrors]
      BY <1>3, <1>7, <2>1
    <2>3. ClientOK(c, a, b, n)
      BY <1>1, <1>2, <2>2 DEF ClientOK
    <2>4. failures' \in 0 .. MaxFailures /\ failures' >= failures /\ n = changes + failures'
      BY <1>1, ServiceTypes DEF Service!RenderServiceAssumption, n
    <2>5. QED
      BY <1>1, <2>2, <2>3, <2>4, RequestSteps
  <1>9. CASE reply.code # "ok" /\ Service!TriesAgain(r)
    <2>1. c = [was EXCEPT !.at = "sleeping"]
      BY <1>9
    <2> HIDE DEF c
    <2>2. /\ c.at = "sleeping" /\ c.attempt = was.attempt /\ c.ref = was.ref
          /\ c \in [at : {"off", "waiting", "sleeping", "pdf", "error"},
                    attempt : 1 .. 2, ref : Service!Refs \cup {Null},
                    got : {Null} \cup Contents \cup Service!JobErrors]
      BY <1>3, <2>1
    <2>3. was.attempt = 1 /\ a.at = "replied" /\ a.code = "BUSY"
      BY <1>1, <1>4, <1>6, <1>9
    <2>4. ClientOK(c, a, b, n)
      BY <1>1, <1>2, <2>2, <2>3 DEF ClientOK
    <2>5. failures' \in 0 .. MaxFailures /\ failures' >= failures /\ n = changes + failures'
      BY <1>1, ServiceTypes DEF Service!RenderServiceAssumption, n
    <2>6. QED
      BY <1>1, <2>2, <2>4, <2>5, RequestSteps
  <1>10. CASE reply.code # "ok" /\ ~Service!TriesAgain(r)
    <2> DEFINE error == Service!ErrorCode(reply.code)
    <2>1. c = [was EXCEPT !.at = "error", !.got = error]
      BY <1>10
    <2>2. /\ error \in Service!JobErrors
          /\ reply.code = "BUSY" => error = "PDF_CONVERSION_FAILED"
          /\ reply.code = "TEMPLATE_INVALID" => error = "PDF_TEMPLATE_INVALID"
      BY ErrorCodes
    <2> HIDE DEF c, error
    <2>3. /\ c.at = "error" /\ c.got = error /\ c.attempt = was.attempt /\ c.ref = was.ref
          /\ c \in [at : {"off", "waiting", "sleeping", "pdf", "error"},
                    attempt : 1 .. 2, ref : Service!Refs \cup {Null},
                    got : {Null} \cup Contents \cup Service!JobErrors]
      BY <1>3, <2>1, <2>2
    <2>4. reply.code = "BUSY" => was.attempt = 2 /\ reply = b
      BY <1>4, <1>6, <1>10
    <2>5. n = 0 => \/ /\ c.got = "PDF_CONVERSION_FAILED" /\ c.attempt = 2
                      /\ b.at = "replied" /\ b.code = "BUSY"
                   \/ c.got = "PDF_TEMPLATE_INVALID" /\ c.ref.sha \in Broken
      BY <1>1, <1>5, <1>10, <2>2, <2>3, <2>4
    <2>6. ClientOK(c, a, b, n)
      BY <1>1, <1>2, <2>3, <2>5 DEF ClientOK
    <2>7. failures' \in 0 .. MaxFailures /\ failures' >= failures /\ n = changes + failures'
      BY <1>1, ServiceTypes DEF Service!RenderServiceAssumption, n
    <2>8. QED
      BY <1>1, <2>3, <2>6, <2>7, RequestSteps
  <1>11. QED
    BY <1>8, <1>9, <1>10

LEMMA ServiceGiveUp ==
    ASSUME Service!RenderServiceAssumption, ServiceInv, NEW r \in Requests,
           Service!GiveUp(r)
    PROVE  ServiceInv'
  <1> DEFINE n == changes + failures
             m == changes + failures'
             was == client[r]
             a == handler[First(r)]
             b == handler[Second(r)]
             call == handler[<<r, was.attempt>>]
  <1>1. /\ UNCHANGED <<stored, idle, cache, handler, changes>> /\ was.at = "waiting"
        /\ \/ failures' = failures + 1 /\ failures < MaxFailures
           \/ call.at = "gone" /\ failures' = failures
    BY DEF Service!GiveUp, Service!Fault
  <1>2. PICK error \in {"PDF_CONVERSION_TIMEOUT", "PDF_CONVERSION_FAILED"} :
            client' = [client EXCEPT ![r].at = "error", ![r].got = error]
    BY DEF Service!GiveUp
  <1> DEFINE c == [was EXCEPT !.at = "error", !.got = error]
  <1>3. client' = [client EXCEPT ![r] = c]
    BY <1>2, ServiceTypes
  <1>4. /\ ClientOK(was, a, b, n) /\ First(r) \in Service!Tasks /\ Second(r) \in Service!Tasks
        /\ TaskOK(First(r), a, stored, n) /\ TaskOK(Second(r), b, stored, n)
    BY TasksAre DEF ServiceInv
  <1>5. was \in [at : {"off", "waiting", "sleeping", "pdf", "error"},
                 attempt : 1 .. 2, ref : Service!Refs \cup {Null},
                 got : {Null} \cup Contents \cup Service!JobErrors]
    BY ServiceTypes
  <1>6. \/ was.attempt = 1 /\ call = a
        \/ was.attempt = 2 /\ call = b
    <2>1. was.attempt \in 1 .. 2
      BY <1>5
    <2> HIDE DEF was
    <2>2. was.attempt = 1 \/ was.attempt = 2
      BY <2>1
    <2>3. QED
      BY <2>2 DEF First, Second
  <1>7. failures' \in 0 .. MaxFailures /\ failures' >= failures
    BY <1>1, ServiceTypes DEF Service!RenderServiceAssumption
  <1>8. n # 0 \/ failures' = failures + 1
    BY <1>1, <1>4, <1>6 DEF TaskOK
  <1>9. m # 0
    <2>1. changes \in Nat /\ failures \in Nat
      BY ServiceTypes DEF Service!RenderServiceAssumption
    <2>2. failures' \in Nat
      BY <1>7, <2>1 DEF Service!RenderServiceAssumption
    <2> HIDE DEF c
    <2>3. changes + failures # 0 \/ failures' = failures + 1
      BY <1>8
    <2>4. failures' >= failures
      BY <1>7
    <2>5. CASE changes + failures # 0
      <3>1. \A i, j, k \in Nat : i + j # 0 /\ k >= j => i + k # 0
        OBVIOUS
      <3>2. QED
        BY <2>1, <2>2, <2>4, <2>5, <3>1
    <2>6. CASE failures' = failures + 1
      BY <2>1, <2>6
    <2>7. QED
      BY <2>3, <2>5, <2>6
  <1>10. error \in Service!JobErrors
    BY DEF Service!JobErrors
  <1>11. /\ c.at = "error" /\ c.attempt = was.attempt /\ c.ref = was.ref
         /\ c \in [at : {"off", "waiting", "sleeping", "pdf", "error"},
                   attempt : 1 .. 2, ref : Service!Refs \cup {Null},
                   got : {Null} \cup Contents \cup Service!JobErrors]
    BY <1>5, <1>10
  <1> HIDE DEF c, n, m
  <1>12. ClientOK(c, a, b, m)
    BY <1>1, <1>4, <1>9, <1>11 DEF ClientOK
  <1>13. QED
    BY <1>1, <1>3, <1>7, <1>11, <1>12, RequestSteps DEF m

LEMMA ServiceStops ==
    ASSUME Service!RenderServiceAssumption, ServiceInv, Service!ServiceStops
    PROVE  ServiceInv'
  <1> DEFINE n == changes + failures
             m == changes + failures'
             next(t) == IF handler[t].at \in {"arrived"} \cup Service!AtWork
                        THEN [handler[t] EXCEPT
                                 !.at = IF t \in Service!Calls THEN "gone" ELSE "off",
                                 !.slot = Null]
                        ELSE handler[t]
  <1>1. /\ handler' = [t \in Service!Tasks |-> next(t)]
        /\ idle' = RenderSlots /\ cache' = <<>> /\ UNCHANGED <<stored, client, changes>>
        /\ failures' = failures + 1 /\ failures < MaxFailures
    BY DEF Service!ServiceStops, Service!Fault
  <1>2. /\ n \in Nat /\ m \in Nat /\ m >= n /\ m # 0 /\ failures' \in 0 .. MaxFailures
    <2>1. changes \in Nat /\ failures \in Nat /\ MaxFailures \in Nat
      BY ServiceTypes DEF Service!RenderServiceAssumption
    <2>2. failures' = failures + 1 /\ failures < MaxFailures
      BY <1>1
    <2> HIDE DEF next
    <2>3. QED
      BY <2>1, <2>2
  <1> HIDE DEF m
  <1>3. ASSUME NEW t \in Service!Tasks
        PROVE  /\ TaskOK(t, next(t), stored, m) /\ next(t).slot = Null
               /\ next(t).ref = handler[t].ref
               /\ handler[t].at = "replied" => next(t) = handler[t]
               /\ t \in Service!Calls => (handler[t].at = "off" <=> next(t).at = "off")
    <2>1. TaskOK(t, handler[t], stored, n) /\ handler[t] \in HandlerT
          /\ t \in Service!Calls \cup Loading /\ (t \in Service!Calls => t \notin Loading)
      BY TasksAre DEF ServiceInv, TaskOK
    <2> HIDE DEF n
    <2>2. CASE handler[t].at \in {"arrived"} \cup Service!AtWork
      <3> DEFINE at == IF t \in Service!Calls THEN "gone" ELSE "off"
                 h == [handler[t] EXCEPT !.at = at, !.slot = Null]
      <3>1. next(t) = h
        BY <2>2
      <3>2. h \in HandlerT /\ h.at = at /\ h.slot = Null /\ h.ref = handler[t].ref
        BY <2>1 DEF HandlerT
      <3> HIDE DEF h
      <3>3. TaskOK(t, h, stored, m)
        BY <1>2, <2>1, <2>2, <3>2 DEF TaskOK, Service!AtWork
      <3>4. handler[t].at \notin {"off", "replied"}
        BY <2>2 DEF Service!AtWork
      <3> HIDE DEF next
      <3>5. QED
        BY <3>1, <3>2, <3>3, <3>4
    <2>3. CASE handler[t].at \notin {"arrived"} \cup Service!AtWork
      <3>1. next(t) = handler[t]
        BY <2>3
      <3> HIDE DEF next
      <3>2. TaskOK(t, handler[t], stored, m)
        BY <1>2, <2>1, TaskStays DEF n
      <3>3. handler[t].slot = Null
        BY <2>1, <2>3 DEF TaskOK
      <3>4. QED
        BY <3>1, <3>2, <3>3
    <2>4. QED
      BY <2>2, <2>3
  <1> HIDE DEF next
  <1>4. \A t \in Service!Tasks : handler'[t] = next(t)
    BY <1>1
  <1>5. /\ handler' \in [Service!Tasks -> HandlerT]
        /\ \A t \in Service!Tasks : TaskOK(t, handler'[t], stored', m)
    BY <1>1, <1>3, <1>4 DEF TaskOK
  <1>6. SlotsOK(handler', idle')
    BY <1>1, <1>3, <1>4, TasksAre DEF SlotsOK, Service!RenderServiceAssumption
  <1>7. \A r \in Requests : ClientOK(client'[r], handler'[First(r)], handler'[Second(r)], m)
    <2>1. TAKE r \in Requests
    <2>2. ClientOK(client[r], handler[First(r)], handler[Second(r)], n)
      BY DEF ServiceInv
    <2>3. First(r) \in Service!Calls /\ Second(r) \in Service!Calls
          /\ First(r) \in Service!Tasks /\ Second(r) \in Service!Tasks
      BY TasksAre
    <2> HIDE DEF n
    <2>4. QED
      BY <1>1, <1>2, <1>3, <1>4, <2>2, <2>3, ClientStays
  <1>8. CacheOK(cache')
    BY <1>1 DEF CacheOK, Service!IsInjective, Service!RenderServiceAssumption
  <1>9. Service!TypeOK'
    BY <1>1, <1>2, <1>5, <1>8, ServiceTypes DEF Service!TypeOK, HandlerT, CacheOK
  <1>10. QED
    BY <1>1, <1>5, <1>6, <1>7, <1>8, <1>9 DEF ServiceInv, m

LEMMA ServiceChange ==
    ASSUME Service!RenderServiceAssumption, ServiceInv, NEW b \in Blobs,
           NEW content \in Contents \cup {Null}, Service!Change(b, content)
    PROVE  ServiceInv'
  <1> DEFINE n == changes + failures
             m == changes' + failures
  <1>1. /\ stored' = [stored EXCEPT ![b] = content] /\ changes' = changes + 1
        /\ changes < MaxChanges /\ UNCHANGED <<idle, cache, handler, client, failures>>
    BY DEF Service!Change
  <1>2. /\ n \in Nat /\ m \in Nat /\ m >= n /\ m # 0 /\ changes' \in 0 .. MaxChanges
    BY <1>1, ServiceTypes DEF Service!RenderServiceAssumption
  <1> HIDE DEF m
  <1>3. \A t \in Service!Tasks : TaskOK(t, handler[t], stored', m)
    BY <1>2 DEF ServiceInv, TaskOK
  <1>4. \A r \in Requests : ClientOK(client[r], handler[First(r)], handler[Second(r)], m)
    BY <1>2 DEF ServiceInv, ClientOK
  <1>5. stored' \in [Blobs -> Contents \cup {Null}]
    BY <1>1, ServiceTypes
  <1>6. Service!TypeOK'
    BY <1>1, <1>2, <1>5, ServiceTypes DEF Service!TypeOK, HandlerT, ServiceInv
  <1>7. CacheOK(cache') /\ SlotsOK(handler', idle')
    BY <1>1 DEF ServiceInv
  <1>8. QED
    BY <1>1, <1>3, <1>4, <1>6, <1>7 DEF ServiceInv, m

LEMMA ServiceStarts ==
    ASSUME Service!RenderServiceAssumption, Service!Init
    PROVE  ServiceInv
  <1>1. /\ idle = RenderSlots /\ cache = <<>> /\ changes = 0 /\ failures = 0
        /\ handler = [t \in Service!Tasks |-> Service!Off]
        /\ client = [r \in Requests |-> [at |-> "off", attempt |-> 1, ref |-> Null, got |-> Null]]
        /\ stored \in [Blobs -> Contents]
    BY DEF Service!Init
  <1>2. CacheOK(cache)
    BY <1>1 DEF CacheOK, Service!IsInjective, Service!RenderServiceAssumption
  <1>3. /\ Service!Off \in HandlerT /\ Service!Off.slot = Null /\ Service!Off.at = "off"
    BY DEF HandlerT, Service!Off
  <1>4. \A t \in Service!Tasks : handler[t] = Service!Off
    BY <1>1
  <1>5. \A t \in Service!Tasks : TaskOK(t, Service!Off, stored, 0)
    BY <1>3 DEF TaskOK, Service!AtWork
  <1>6. handler \in [Service!Tasks -> HandlerT]
    BY <1>1, <1>3
  <1>7. SlotsOK(handler, idle)
    BY <1>1, <1>3, <1>4, TasksAre DEF SlotsOK, Service!RenderServiceAssumption
  <1>8. \A r \in Requests : ClientOK(client[r], handler[First(r)], handler[Second(r)], 0)
    BY <1>1, <1>3, <1>4, TasksAre DEF ClientOK
  <1>9. stored \in [Blobs -> Contents \cup {Null}]
    BY <1>1
  <1>10. client \in [Requests -> [at : {"off", "waiting", "sleeping", "pdf", "error"},
                                  attempt : 1 .. 2, ref : Service!Refs \cup {Null},
                                  got : {Null} \cup Contents \cup Service!JobErrors]]
    BY <1>1
  <1>11. Service!TypeOK
    BY <1>1, <1>2, <1>6, <1>9, <1>10
       DEF Service!TypeOK, HandlerT, CacheOK, Service!RenderServiceAssumption
  <1>12. QED
    BY <1>1, <1>2, <1>4, <1>5, <1>7, <1>8, <1>11 DEF ServiceInv

LEMMA ServiceSteps ==
    ASSUME Service!RenderServiceAssumption, ServiceInv, [Service!Next]_(Service!vars)
    PROVE  ServiceInv'
  <1>1. CASE UNCHANGED Service!vars
    BY <1>1 DEF Service!vars, ServiceInv, Service!TypeOK
  <1>2. CASE Service!Next
    BY <1>2, ServiceAsk, ServiceReceive, ServiceAskAgain, ServiceGiveUp, ServiceTake,
       ServiceLoad, ServiceKeep, ServiceLoadFails, ServiceConvert, ServiceConvertFails,
       ServiceLoadForBatch, ServiceStops, ServiceChange
       DEF Service!Next
  <1>3. QED
    BY <1>1, <1>2

LEMMA ServiceHolds ==
    ASSUME Service!RenderServiceAssumption, ServiceInv
    PROVE  Service!ServiceIsTrue
  <1> DEFINE n == changes + failures
  <1>1. Service!SlotsConserved
    <2>1. ASSUME NEW s \in RenderSlots
          PROVE  s \notin idle <=> \E t \in Service!Calls : handler[t].slot = s
      BY DEF ServiceInv, SlotsOK
    <2>2. \A t \in Service!Calls : handler[t].slot # Null <=> handler[t].at \in Service!AtWork
      BY TasksAre DEF ServiceInv, TaskOK
    <2>3. QED
      BY <2>1, <2>2 DEF ServiceInv, SlotsOK, Service!SlotsConserved
  <1>2. Service!PdfOfItsTemplate
    BY DEF ServiceInv, ClientOK, Service!PdfOfItsTemplate
  <1>3. Service!ConvertedOnce
    <2>1. ASSUME NEW r \in Requests, handler[Second(r)].at # "off"
          PROVE  handler[First(r)].at = "replied" /\ handler[First(r)].code = "BUSY"
      <3>1. client[r].attempt \in 1 .. 2
        BY ServiceTypes
      <3>2. client[r].attempt # 1
        BY <2>1 DEF ServiceInv, ClientOK
      <3>3. client[r].attempt = 2
        BY <3>1, <3>2
      <3>4. QED
        BY <3>3 DEF ServiceInv, ClientOK
    <2>2. QED
      BY <2>1 DEF Service!ConvertedOnce, First, Second
  <1>4. Len(cache) <= CacheSize
    BY DEF ServiceInv, CacheOK
  <1>5. ASSUME changes = 0, failures = 0, NEW r \in Requests, client[r].at = "error"
        PROVE  \/ /\ client[r].got = "PDF_CONVERSION_FAILED"
                  /\ client[r].attempt = 2 /\ handler[Second(r)].code = "BUSY"
               \/ /\ client[r].got = "PDF_TEMPLATE_INVALID"
                  /\ client[r].ref.sha \in Broken
    <2>1. changes + failures = 0
      BY <1>5
    <2>2. ClientOK(client[r], handler[First(r)], handler[Second(r)], 0)
      BY <2>1 DEF ServiceInv
    <2>3. QED
      BY <1>5, <2>2 DEF ClientOK
  <1>6. QED
    BY <1>1, <1>2, <1>3, <1>4, <1>5 DEF Service!ServiceIsTrue, Second

\* The render service (RenderService) for every set of requests, slots and
\* contents, and every bound: a slot is in the pool or with the one call that
\* works on it, a PDF is of the template that was asked for by its hash, a
\* request is converted once, the cache keeps to its size, and without a change
\* or a failure a request ends without its PDF only for want of a slot, twice,
\* or because its template is no template.
THEOREM RenderServiceIsTrue ==
    ASSUME Service!RenderServiceAssumption
    PROVE  Service!Spec => [](Service!TypeOK /\ Service!ServiceIsTrue)
  <1>1. ServiceInv => Service!TypeOK /\ Service!ServiceIsTrue
    BY ServiceHolds DEF ServiceInv
  <1>2. QED
    BY <1>1, ServiceStarts, ServiceSteps, PTL DEF Service!Spec

-----------------------------------------------------------------------------
(* One batch, by deliveries that overlap *)

CONSTANTS Inputs, Layouts, MaxDeliveries

VARIABLES batchInput, batchStored, batchJob, batchLayout, batchMessage, batchRun,
          batchQueued, batchPoison, batchPdfs, batchResults, batchFaults

Batch == INSTANCE BatchConversion WITH
             input <- batchInput, stored <- batchStored, job <- batchJob, layout <- batchLayout,
             message <- batchMessage, run <- batchRun, queued <- batchQueued,
             poison <- batchPoison, blobs <- batchPdfs, results <- batchResults,
             faults <- batchFaults

BatchIs == <<batchInput, batchStored, batchJob, batchLayout, batchMessage>>

\* What can be converted: a message that is one, of documents that fit.
Sound == batchMessage = "render-batch" /\ batchInput # Null /\ Batch!Valid(batchInput)

AllFit == \A i \in DOMAIN batchInput : batchInput[i].fits

PdfNames == {batchInput[i].name : i \in DOMAIN batchInput}

\* There is something left of the message when it is deleted.
Kept ==
    \/ batchPoison
    \/ \E x \in batchResults : x.status = "DONE" \/ x.code \in Batch!Permanent

\* What a delivery knows, by where it is.
RunOK(d) ==
    /\ d = [at |-> d.at, pdfs |-> d.pdfs, tries |-> d.tries, pending |-> d.pending]
    /\ d.at \in {"off", "poisoning", "answered", "left", "over"} \cup Batch!Working
    /\ d.at \in {"merging", "rendering"} => Sound
    /\ d.at \in {"converting", "again", "uploading"} \/ d.pending # {} => Sound /\ AllFit
    /\ d.at \in {"off", "reading", "merging", "rendering", "converting"} =>
          d.pdfs = <<>> /\ d.tries = <<>>
    /\ d.at \notin {"uploading", "left", "poisoning", "answered", "over"} => d.pending = {}
    /\ d.at = "again" =>
          /\ DOMAIN d.pdfs = DOMAIN batchInput /\ DOMAIN d.tries = DOMAIN batchInput
          /\ \A i \in DOMAIN batchInput :
                /\ d.tries[i] \in {0, 1, 2} /\ (d.pdfs[i] = Null => d.tries[i] # 0)
                /\ batchFaults = 0 => d.tries[i] = 0
    /\ d.pending \subseteq DOMAIN d.pdfs
    /\ d.pending # {} \/ d.at = "uploading" => DOMAIN d.pdfs = DOMAIN batchInput
    /\ d.at = "uploading" /\ batchJob = "going" =>
          \A i \in DOMAIN batchInput \ d.pending : batchInput[i].name \in DOMAIN batchPdfs
    /\ d.at = "answered" => Kept

\* What was reported is so.
Unfillable(x) ==
    \E i \in DOMAIN batchInput :
        /\ batchInput[i].name = x.name
        /\ \/ x.code = "TEMPLATE_RENDER_FAILED" /\ ~batchInput[i].fits
           \/ /\ x.code = "PDF_CONVERSION_FAILED"
              /\ \E r \in Batch!Deliveries :
                    DOMAIN batchRun[r].tries # {} /\ batchRun[r].tries[i] = 2

ResultOK(x) ==
    /\ x.status = "DONE" => /\ Sound /\ AllFit /\ x.code = Null /\ x.name = Null
                            /\ batchJob = "going" => PdfNames \subseteq DOMAIN batchPdfs
    /\ x.code = "TEMPLATE_RENDER_FAILED" => ~(Sound /\ AllFit)
    /\ x.code = "INVALID_MESSAGE" => ~Sound \/ batchJob # "going"
    /\ x.name # Null => Unfillable(x)
    /\ batchFaults = 0 /\ Sound /\ AllFit =>
          \/ x.status = "DONE"
          \/ Batch!IsExhausted(x)
          \/ x.code = "INVALID_MESSAGE" /\ batchJob # "going"

BatchInv ==
    /\ batchInput \in Inputs \cup {Null} /\ batchLayout \in Layouts
    /\ batchMessage \in Batch!Messages
    /\ batchMessage # "render-batch" => batchInput = Null
    /\ batchStored \in BOOLEAN /\ batchJob \in {"going", "done", "reverted"}
    /\ batchStored => batchInput # Null
    /\ batchInput # Null /\ batchJob = "going" => batchStored
    /\ batchRun = [r \in Batch!Deliveries |-> batchRun[r]]
    /\ \A r \in Batch!Deliveries : RunOK(batchRun[r])
    /\ batchQueued \in BOOLEAN /\ batchPoison \in BOOLEAN
    /\ batchFaults \in 0 .. MaxFaults
    /\ DOMAIN batchPdfs \subseteq PdfNames
    /\ \A x \in batchResults : ResultOK(x)
    /\ ~batchQueued => Kept

LEMMA BatchStarts ==
    ASSUME Batch!BatchConversionAssumption
    PROVE  Batch!Init => BatchInv
  <1> SUFFICES ASSUME Batch!Init PROVE BatchInv
    OBVIOUS
  <1>1. \A r \in Batch!Deliveries : batchRun[r] = Batch!Off
    BY DEF Batch!Init
  <1>2. ASSUME NEW d, d = Batch!Off PROVE RunOK(d)
    BY <1>2 DEF Batch!Off, RunOK
  <1>3. \A r \in Batch!Deliveries : RunOK(batchRun[r])
    BY <1>1, <1>2
  <1>4. DOMAIN batchPdfs \subseteq PdfNames
    BY DEF Batch!Init
  <1>5. batchFaults \in 0 .. MaxFaults
    BY DEF Batch!Init, Batch!BatchConversionAssumption
  <1>6. batchRun = [r \in Batch!Deliveries |-> batchRun[r]]
    BY DEF Batch!Init
  <1>7. QED
    BY <1>3, <1>4, <1>5, <1>6 DEF BatchInv, Batch!Init

\* One delivery moves; what the others know stays true, because PDFs, results and
\* what is kept only grow.
Moves(r, d) ==
    /\ batchRun' = [batchRun EXCEPT ![r] = d] /\ d.at # "off"
    /\ UNCHANGED BatchIs
    /\ batchQueued' \in BOOLEAN /\ batchPoison' \in BOOLEAN
    /\ batchFaults' \in 0 .. MaxFaults /\ batchFaults' >= batchFaults
    /\ DOMAIN batchPdfs \subseteq DOMAIN batchPdfs' /\ DOMAIN batchPdfs' \subseteq PdfNames
    /\ batchResults \subseteq batchResults'
    /\ batchPoison => batchPoison'
    /\ \A i \in DOMAIN batchInput : DOMAIN batchRun[r].tries # {} /\ batchRun[r].tries[i] = 2 =>
                 DOMAIN d.tries # {} /\ d.tries[i] = 2
    /\ ~batchQueued' => ~batchQueued \/ Kept

LEMMA BatchMoves ==
    ASSUME Batch!BatchConversionAssumption, BatchInv,
           NEW r \in Batch!Deliveries, NEW d, Moves(r, d), RunOK(d)',
           \A x \in batchResults' \ batchResults : ResultOK(x)'
    PROVE  BatchInv'
  <1>1. Kept => Kept'
    BY DEF Moves, Kept
  <1>2. (Sound <=> Sound') /\ (AllFit <=> AllFit') /\ PdfNames' = PdfNames
    BY DEF Moves, BatchIs, Sound, AllFit, PdfNames
  <1>3. batchFaults \in Nat /\ (batchFaults' = 0 => batchFaults = 0)
    BY DEF BatchInv, Moves, Batch!BatchConversionAssumption
  <1>4. batchRun'[r] = d /\ \A q \in Batch!Deliveries \ {r} : batchRun'[q] = batchRun[q]
    BY DEF BatchInv, Moves
  <1>5. ASSUME NEW q \in Batch!Deliveries PROVE RunOK(batchRun[q])'
    <2>1. CASE q = r
      BY <1>4, <2>1 DEF RunOK
    <2>2. CASE q # r
      <3>1. PICK e : e = batchRun[q]
        OBVIOUS
      <3>2. RunOK(e) /\ batchRun'[q] = e
        BY <1>4, <2>2, <3>1 DEF BatchInv
      <3>3. RunOK(e)'
        BY <1>1, <1>2, <1>3, <3>2 DEF RunOK, Moves, BatchIs
      <3>4. QED
        BY <3>2, <3>3 DEF RunOK
    <2>3. QED
      BY <2>1, <2>2
  <1>6. ASSUME NEW x \in batchResults' PROVE ResultOK(x)'
    <2>1. CASE x \in batchResults
      <3>1. ResultOK(x)
        BY <2>1 DEF BatchInv
      <3>2. ASSUME Unfillable(x) PROVE Unfillable(x)'
        <4>1. PICK i \in DOMAIN batchInput :
                 /\ batchInput[i].name = x.name
                 /\ \/ x.code = "TEMPLATE_RENDER_FAILED" /\ ~batchInput[i].fits
                    \/ /\ x.code = "PDF_CONVERSION_FAILED"
                       /\ \E q \in Batch!Deliveries :
                             DOMAIN batchRun[q].tries # {} /\ batchRun[q].tries[i] = 2
          BY <3>2 DEF Unfillable
        <4>2. ASSUME NEW q \in Batch!Deliveries,
                     DOMAIN batchRun[q].tries # {}, batchRun[q].tries[i] = 2
              PROVE  DOMAIN batchRun'[q].tries # {} /\ batchRun'[q].tries[i] = 2
          BY <1>4, <4>2 DEF Moves
        <4>3. batchInput' = batchInput
          BY DEF Moves, BatchIs
        <4>4. QED
          BY <4>1, <4>2, <4>3 DEF Unfillable
      <3>3. ASSUME Batch!IsExhausted(x) PROVE Batch!IsExhausted(x)'
        <4>1. PICK q \in Batch!Deliveries : Batch!Exhausted(q) /\ batchRun[q].at # "off"
          BY <3>3 DEF Batch!IsExhausted
        <4>2. batchRun'[q].at # "off"
          BY <1>4, <4>1 DEF Moves
        <4>3. QED
          BY <3>3, <4>1, <4>2 DEF Batch!IsExhausted, Batch!Exhausted
      <3>4. QED
        BY <1>2, <1>3, <3>1, <3>2, <3>3 DEF ResultOK, Moves, BatchIs
    <2>2. QED
      BY <2>1
  <1>7. batchRun' = [q \in Batch!Deliveries |-> batchRun'[q]]
    BY DEF BatchInv, Moves
  <1>8. QED
    BY <1>1, <1>2, <1>5, <1>6, <1>7 DEF BatchInv, Moves, BatchIs

\* All of it at once, for a delivery that changes nothing but itself.
LEMMA MovesAlone ==
    ASSUME Batch!BatchConversionAssumption, BatchInv, NEW r, NEW d,
           batchRun' = [batchRun EXCEPT ![r] = d], d.at # "off", UNCHANGED BatchIs,
           UNCHANGED <<batchQueued, batchPoison, batchPdfs, batchFaults>>,
           batchResults \subseteq batchResults',
           d.tries = batchRun[r].tries \/ batchRun[r].tries = <<>>
    PROVE  Moves(r, d)
  <1>1. batchFaults' \in 0 .. MaxFaults /\ batchFaults' >= batchFaults
    BY DEF BatchInv, Batch!BatchConversionAssumption
  <1>2. batchQueued' \in BOOLEAN /\ batchPoison' \in BOOLEAN
        /\ (batchPoison => batchPoison') /\ (~batchQueued' => ~batchQueued \/ Kept)
    BY Zenon DEF BatchInv
  <1>3. \A i \in DOMAIN batchInput : DOMAIN batchRun[r].tries # {} /\ batchRun[r].tries[i] = 2 =>
                  DOMAIN d.tries # {} /\ d.tries[i] = 2
    BY DEF BatchInv
  <1>4. DOMAIN batchPdfs \subseteq DOMAIN batchPdfs' /\ DOMAIN batchPdfs' \subseteq PdfNames
    BY DEF BatchInv
  <1>5. QED
    BY <1>1, <1>2, <1>3, <1>4 DEF Moves

\* The same, of one that converts: what failed twice stays so.
LEMMA MovesAgain ==
    ASSUME BatchInv, NEW r, NEW d,
           batchRun' = [batchRun EXCEPT ![r] = d], d.at # "off", UNCHANGED BatchIs,
           UNCHANGED <<batchQueued, batchPoison, batchPdfs, batchResults>>,
           batchFaults' \in 0 .. MaxFaults, batchFaults' >= batchFaults,
           \/ batchRun[r].tries = <<>>
           \/ \A i \in DOMAIN batchInput : DOMAIN batchRun[r].tries # {} /\ batchRun[r].tries[i] = 2 =>
                  DOMAIN d.tries # {} /\ d.tries[i] = 2
    PROVE  Moves(r, d)
  <1>1. batchQueued' \in BOOLEAN /\ batchPoison' \in BOOLEAN
        /\ (batchPoison => batchPoison') /\ (~batchQueued' => ~batchQueued \/ Kept)
    BY Zenon DEF BatchInv
  <1>2. \A i \in DOMAIN batchInput : DOMAIN batchRun[r].tries # {} /\ batchRun[r].tries[i] = 2 =>
                  DOMAIN d.tries # {} /\ d.tries[i] = 2
    <2>1. CASE batchRun[r].tries = <<>>
      BY <2>1
    <2>2. QED
      BY <2>1, Zenon
  <1>3. DOMAIN batchPdfs \subseteq DOMAIN batchPdfs' /\ DOMAIN batchPdfs' \subseteq PdfNames
    BY DEF BatchInv
  <1>4. QED
    BY <1>1, <1>2, <1>3 DEF Moves

\* A delivery that goes on to another place, with what it had.
Goes(r, at) ==
    /\ batchRun' = [batchRun EXCEPT ![r].at = at]
    /\ UNCHANGED BatchIs

LEMMA GoesIs ==
    ASSUME BatchInv, NEW r \in Batch!Deliveries, NEW at, Goes(r, at)
    PROVE  \E d : /\ batchRun' = [batchRun EXCEPT ![r] = d]
                  /\ d = [at |-> at, pdfs |-> batchRun[r].pdfs, tries |-> batchRun[r].tries,
                          pending |-> batchRun[r].pending]
  <1>1. PICK e : e = batchRun[r]
    OBVIOUS
  <1>2. e = [at |-> e.at, pdfs |-> e.pdfs, tries |-> e.tries, pending |-> e.pending]
    BY <1>1 DEF BatchInv, RunOK
  <1>3. batchRun' = [batchRun EXCEPT ![r] = [e EXCEPT !.at = at]]
    BY <1>1 DEF Goes
  <1>4. [e EXCEPT !.at = at]
          = [at |-> at, pdfs |-> e.pdfs, tries |-> e.tries, pending |-> e.pending]
    BY <1>2
  <1>5. QED
    BY <1>1, <1>3, <1>4

\* A delivery that fails: the failure is reported, or the message left.
Failing(r, code, name) ==
    /\ Batch!Fail(r, code, name) /\ UNCHANGED BatchIs
    /\ UNCHANGED <<batchQueued, batchPoison, batchPdfs>>
    /\ batchFaults' \in 0 .. MaxFaults /\ batchFaults' >= batchFaults

LEMMA FailKeeps ==
    ASSUME Batch!BatchConversionAssumption, BatchInv,
           NEW r \in Batch!Deliveries, NEW code, NEW name, Failing(r, code, name),
           batchRun[r].at # "off",
           ResultOK(Batch!Failed(code, name))'
    PROVE  BatchInv'
  <1>1. PICK at \in {"answered", "poisoning", "left"} :
           /\ Goes(r, at)
           /\ at = "left" => batchResults' = batchResults
           /\ at # "left" => batchResults' = batchResults \cup {Batch!Failed(code, name)}
           /\ at = "answered" => code \in Batch!Permanent
    BY DEF Failing, Batch!Fail, Goes
  <1>2. PICK d : /\ batchRun' = [batchRun EXCEPT ![r] = d]
                 /\ d = [at |-> at, pdfs |-> batchRun[r].pdfs, tries |-> batchRun[r].tries,
                         pending |-> batchRun[r].pending]
    BY <1>1, GoesIs
  <1>3. RunOK(batchRun[r])
    BY DEF BatchInv
  <1>4. at = "answered" => Kept'
    <2>1. Batch!Failed(code, name).code = code
      BY DEF Batch!Failed
    <2>2. QED
      BY <1>1, <2>1 DEF Kept
  <1>5. RunOK(d)'
    BY <1>2, <1>3, <1>4 DEF RunOK, Failing, BatchIs, Batch!Working, Sound, AllFit
  <1>6. Moves(r, d)
    BY <1>1, <1>2 DEF Moves, Failing, BatchInv
  <1>7. \A x \in batchResults' \ batchResults : ResultOK(x)'
    BY <1>1
  <1>8. QED
    BY <1>5, <1>6, <1>7, BatchMoves

LEMMA BatchReceiveKeeps ==
    ASSUME Batch!BatchConversionAssumption, BatchInv,
           NEW r \in Batch!Deliveries, Batch!Receive(r)
    PROVE  BatchInv'
  <1>1. PICK d : /\ batchRun' = [batchRun EXCEPT ![r] = d]
                 /\ d = [at |-> "reading", pdfs |-> batchRun[r].pdfs,
                         tries |-> batchRun[r].tries, pending |-> batchRun[r].pending]
    BY GoesIs DEF Batch!Receive, Goes, BatchIs, Batch!batchIs
  <1>2. RunOK(batchRun[r]) /\ batchRun[r].at = "off"
    BY DEF BatchInv, Batch!Receive
  <1>3. RunOK(d)'
    BY <1>1, <1>2 DEF RunOK, Batch!Receive, Batch!Working
  <1>4. Moves(r, d)
    <2>1. d.at # "off"
      BY <1>1
    <2>2. QED
      BY <1>1, <2>1, MovesAlone DEF Batch!Receive, BatchIs, Batch!batchIs
  <1>5. QED
    BY <1>3, <1>4, BatchMoves DEF Batch!Receive

LEMMA BatchDiscardKeeps ==
    ASSUME Batch!BatchConversionAssumption, BatchInv,
           NEW r \in Batch!Deliveries, Batch!Discard(r)
    PROVE  BatchInv'
  <1>1. PICK d : /\ batchRun' = [batchRun EXCEPT ![r] = d]
                 /\ d = [at |-> "poisoning", pdfs |-> batchRun[r].pdfs,
                         tries |-> batchRun[r].tries, pending |-> batchRun[r].pending]
    BY GoesIs DEF Batch!Discard, Goes, BatchIs, Batch!batchIs
  <1>2. RunOK(batchRun[r]) /\ batchRun[r].at = "reading"
    BY DEF BatchInv, Batch!Discard
  <1>3. RunOK(d)'
    BY <1>1, <1>2 DEF RunOK, Batch!Discard, Batch!Working
  <1>4. Moves(r, d)
    <2>1. d.at # "off"
      BY <1>1
    <2>2. QED
      BY <1>1, <2>1, MovesAlone DEF Batch!Discard, BatchIs, Batch!batchIs
  <1>5. ASSUME NEW x \in batchResults' \ batchResults PROVE ResultOK(x)'
    <2>1. x.status = "FAILED" /\ x.name = Null
      BY <1>5 DEF Batch!Discard, Batch!Failed
    <2>2. ~Sound'
      BY DEF Batch!Discard, Batch!batchIs, Sound
    <2>3. QED
      BY <2>1, <2>2 DEF ResultOK
  <1>6. QED
    BY <1>3, <1>4, <1>5, BatchMoves

LEMMA BatchExhaustKeeps ==
    ASSUME Batch!BatchConversionAssumption, BatchInv,
           NEW r \in Batch!Deliveries, Batch!Exhaust(r)
    PROVE  BatchInv'
  <1>1. PICK d : /\ batchRun' = [batchRun EXCEPT ![r] = d]
                 /\ d = [at |-> "poisoning", pdfs |-> batchRun[r].pdfs,
                         tries |-> batchRun[r].tries, pending |-> batchRun[r].pending]
    BY GoesIs DEF Batch!Exhaust, Goes, BatchIs, Batch!batchIs
  <1>2. RunOK(batchRun[r]) /\ batchRun[r].at = "reading"
    BY DEF BatchInv, Batch!Exhaust
  <1>3. UNCHANGED BatchIs
        /\ UNCHANGED <<batchQueued, batchPoison, batchPdfs, batchFaults>>
    BY DEF Batch!Exhaust, BatchIs, Batch!batchIs
  <1>4. RunOK(d)'
    BY <1>1, <1>2 DEF RunOK, Batch!Working
  <1>5. PICK x : x = Batch!Failed("PDF_CONVERSION_FAILED", Null)
    OBVIOUS
  <1>6. batchResults' = batchResults \cup {x}
    BY <1>5 DEF Batch!Exhaust
  <1>7. Moves(r, d)
    <2>1. d.at # "off"
      BY <1>1
    <2>2. QED
      BY <1>1, <1>3, <1>6, <2>1, MovesAlone
  <1>8. x.status = "FAILED" /\ x.code = "PDF_CONVERSION_FAILED" /\ x.name = Null
    BY <1>5 DEF Batch!Failed
  <1>9. Batch!IsExhausted(x)'
    <2>1. Batch!Exhausted(r) /\ batchRun'[r].at # "off"
      BY <1>1 DEF BatchInv, Batch!Exhaust
    <2>2. QED
      BY <1>8, <2>1 DEF Batch!IsExhausted, Batch!Exhausted
  <1>10. ResultOK(x)'
    BY <1>8, <1>9 DEF ResultOK
  <1>11. QED
    BY <1>4, <1>6, <1>7, <1>10, BatchMoves DEF ResultOK, Unfillable, Batch!IsExhausted

LEMMA BatchReadKeeps ==
    ASSUME Batch!BatchConversionAssumption, BatchInv,
           NEW r \in Batch!Deliveries, Batch!Read(r)
    PROVE  BatchInv'
  <1>1. /\ UNCHANGED BatchIs /\ UNCHANGED <<batchQueued, batchPoison, batchPdfs>>
        /\ batchRun[r].at = "reading" /\ RunOK(batchRun[r])
    BY DEF BatchInv, Batch!Read, BatchIs, Batch!batchIs
  <1>2. batchFaults \in 0 .. MaxFaults /\ batchFaults \in Nat
    BY DEF BatchInv, Batch!BatchConversionAssumption
  <1>3. CASE /\ ~Batch!InputFound \/ ~Batch!Valid(batchInput)
             /\ Batch!Fail(r, "INVALID_MESSAGE", Null) /\ UNCHANGED batchFaults
    <2>1. Failing(r, "INVALID_MESSAGE", Null)
      BY <1>1, <1>2, <1>3 DEF Failing
    <2>2. PICK x : x = Batch!Failed("INVALID_MESSAGE", Null)
      OBVIOUS
    <2>3. x.status = "FAILED" /\ x.code = "INVALID_MESSAGE" /\ x.name = Null
      BY <2>2 DEF Batch!Failed
    <2>4. ~Sound' \/ batchJob' # "going"
      BY <1>1, <1>3 DEF BatchInv, Batch!InputFound, Sound, BatchIs
    <2>5. ResultOK(x)'
      BY <2>3, <2>4 DEF ResultOK
    <2>6. QED
      BY <1>1, <2>1, <2>2, <2>5, FailKeeps DEF ResultOK, Unfillable, Batch!IsExhausted
  <1>4. CASE /\ Batch!InputFound /\ Batch!Valid(batchInput)
             /\ Goes(r, "merging") /\ UNCHANGED <<batchResults, batchFaults>>
    <2>1. PICK d : /\ batchRun' = [batchRun EXCEPT ![r] = d]
                   /\ d = [at |-> "merging", pdfs |-> batchRun[r].pdfs,
                           tries |-> batchRun[r].tries, pending |-> batchRun[r].pending]
      BY <1>4, GoesIs
    <2>2. Sound'
      BY <1>1, <1>4 DEF BatchInv, Batch!Read, Batch!InputFound, Sound, BatchIs
    <2>3. RunOK(d)'
      BY <1>1, <2>1, <2>2 DEF RunOK, Batch!Working
    <2>4. Moves(r, d)
      <3>1. d.at # "off"
        BY <2>1
      <3>2. QED
        BY <1>1, <1>4, <2>1, <3>1, MovesAlone
    <2>5. QED
      BY <1>4, <2>3, <2>4, BatchMoves
  <1>5. CASE Batch!Fail(r, "PDF_STORAGE_UNAVAILABLE", Null) /\ Batch!Fault
    <2>1. batchFaults' \in 0 .. MaxFaults /\ batchFaults' >= batchFaults /\ batchFaults' # 0
      BY <1>2, <1>5 DEF Batch!Fault, Batch!BatchConversionAssumption
    <2>2. Failing(r, "PDF_STORAGE_UNAVAILABLE", Null)
      BY <1>1, <1>5, <2>1 DEF Failing
    <2>3. PICK x : x = Batch!Failed("PDF_STORAGE_UNAVAILABLE", Null)
      OBVIOUS
    <2>4. x.status = "FAILED" /\ x.code = "PDF_STORAGE_UNAVAILABLE" /\ x.name = Null
      BY <2>3 DEF Batch!Failed
    <2>5. ResultOK(x)'
      BY <2>1, <2>4 DEF ResultOK
    <2>6. QED
      BY <1>1, <2>2, <2>3, <2>5, FailKeeps DEF ResultOK, Unfillable, Batch!IsExhausted
  <1>6. QED
    BY <1>1, <1>3, <1>4, <1>5 DEF Batch!Read, Goes

\* The PDFs of a batch are handed to the uploads.
LEMMA UploadingKeeps ==
    ASSUME Batch!BatchConversionAssumption, BatchInv,
           NEW r \in Batch!Deliveries, NEW ps, Batch!Uploading(r, ps),
           DOMAIN ps = DOMAIN batchInput, Sound, AllFit,
           UNCHANGED BatchIs,
           UNCHANGED <<batchQueued, batchPoison, batchPdfs, batchResults, batchFaults>>
    PROVE  BatchInv'
  <1>1. PICK e : e = batchRun[r]
    OBVIOUS
  <1>2. RunOK(e)
    BY <1>1 DEF BatchInv
  <1>3. batchRun' = [batchRun EXCEPT ![r] = [e EXCEPT !.at = "uploading", !.pdfs = ps,
                                                     !.pending = DOMAIN ps]]
    BY <1>1 DEF Batch!Uploading
  <1>4. PICK d : d = [at |-> "uploading", pdfs |-> ps, tries |-> e.tries,
                      pending |-> DOMAIN ps]
    OBVIOUS
  <1>5. d = [e EXCEPT !.at = "uploading", !.pdfs = ps, !.pending = DOMAIN ps]
    <2>1. PICK a, p, t, q : e = [at |-> a, pdfs |-> p, tries |-> t, pending |-> q]
      BY <1>2 DEF RunOK
    <2>2. PICK all : all = DOMAIN ps
      OBVIOUS
    <2>3. [e EXCEPT !.at = "uploading", !.pdfs = ps, !.pending = all]
            = [at |-> "uploading", pdfs |-> ps, tries |-> t, pending |-> all]
      <3>1. PICK f : f = [e EXCEPT !.at = "uploading"]
        OBVIOUS
      <3>2. PICK g : g = [f EXCEPT !.pdfs = ps]
        OBVIOUS
      <3>3. PICK h : h = [g EXCEPT !.pending = all]
        OBVIOUS
      <3>4. f = [at |-> "uploading", pdfs |-> p, tries |-> t, pending |-> q]
        BY <2>1, <3>1
      <3>5. g = [at |-> "uploading", pdfs |-> ps, tries |-> t, pending |-> q]
        BY <3>2, <3>4
      <3>6. h = [at |-> "uploading", pdfs |-> ps, tries |-> t, pending |-> all]
        BY <3>3, <3>5
      <3>7. h = [e EXCEPT !.at = "uploading", !.pdfs = ps, !.pending = all]
        BY <3>1, <3>2, <3>3
      <3>8. QED
        BY <3>6, <3>7
    <2>4. QED
      BY <1>4, <2>1, <2>2, <2>3
  <1>6. RunOK(d)'
    BY <1>4 DEF RunOK, Batch!Working, BatchIs, Sound, AllFit
  <1>7. Moves(r, d)
    BY <1>1, <1>3, <1>4, <1>5, MovesAlone
  <1>8. QED
    BY <1>6, <1>7, BatchMoves

LEMMA ConvertMergedKeeps ==
    ASSUME Batch!BatchConversionAssumption, BatchInv,
           NEW r \in Batch!Deliveries, Batch!ConvertMerged(r)
    PROVE  BatchInv'
  <1>1. RunOK(batchRun[r]) /\ batchRun[r].at = "merging" /\ Sound
    BY DEF BatchInv, RunOK, Batch!ConvertMerged
  <1>2. ASSUME Goes(r, "rendering"),
               batchFaults' \in 0 .. MaxFaults, batchFaults' >= batchFaults,
               UNCHANGED <<batchQueued, batchPoison, batchPdfs, batchResults>>
        PROVE  BatchInv'
    <2>1. PICK d : /\ batchRun' = [batchRun EXCEPT ![r] = d]
                   /\ d = [at |-> "rendering", pdfs |-> batchRun[r].pdfs,
                           tries |-> batchRun[r].tries, pending |-> batchRun[r].pending]
      BY <1>2, GoesIs
    <2>2. RunOK(d)'
      BY <1>1, <1>2, <2>1 DEF RunOK, Goes, BatchIs, Batch!Working, Sound
    <2>3. Moves(r, d)
      BY <1>1, <1>2, <2>1 DEF Moves, BatchInv, Goes
    <2>4. QED
      BY <1>2, <2>2, <2>3, BatchMoves
  <1>3. ASSUME NEW lost \in SUBSET DOMAIN batchInput, AllFit, UNCHANGED batchFaults,
               Batch!CanSplit(Batch!StartPages(batchInput, lost), Len(batchInput)),
               Batch!Uploading(r, Batch!Split(Batch!Merged(batchLayout, batchInput),
                                              Batch!StartPages(batchInput, lost)))
        PROVE  BatchInv'
    <2>1. PICK starts, pdf : /\ starts = Batch!StartPages(batchInput, lost)
                             /\ pdf = Batch!Merged(batchLayout, batchInput)
      OBVIOUS
    <2>2. DOMAIN Batch!Split(pdf, starts) = 1 .. Len(starts)
      BY DEF Batch!Split
    <2>3. Len(starts) = Len(batchInput)
      BY <1>3, <2>1 DEF Batch!CanSplit
    <2>4. DOMAIN batchInput = 1 .. Len(batchInput)
      BY <1>1 DEF BatchInv, Sound, Batch!BatchConversionAssumption
    <2>5. PICK ps : ps = Batch!Split(pdf, starts)
      OBVIOUS
    <2>6. Batch!Uploading(r, ps) /\ DOMAIN ps = DOMAIN batchInput
      BY <1>3, <2>1, <2>2, <2>3, <2>4, <2>5
    <2>7. UNCHANGED BatchIs
          /\ UNCHANGED <<batchQueued, batchPoison, batchPdfs, batchResults, batchFaults>>
      BY <1>3 DEF Batch!ConvertMerged, BatchIs, Batch!batchIs
    <2>8. QED
      BY <1>1, <1>3, <2>6, <2>7, UploadingKeeps
  <1>4. /\ UNCHANGED BatchIs
        /\ UNCHANGED <<batchQueued, batchPoison, batchPdfs, batchResults>>
    BY DEF Batch!ConvertMerged, BatchIs, Batch!batchIs
  <1>5. batchFaults \in Nat /\ (UNCHANGED batchFaults \/ Batch!Fault =>
                                  batchFaults' \in 0 .. MaxFaults /\ batchFaults' >= batchFaults)
    BY DEF BatchInv, Batch!Fault, Batch!BatchConversionAssumption
  <1>6. QED
    BY <1>2, <1>3, <1>4, <1>5 DEF Batch!ConvertMerged, AllFit, Goes

LEMMA RenderBatchKeeps ==
    ASSUME Batch!BatchConversionAssumption, BatchInv,
           NEW r \in Batch!Deliveries, Batch!Render(r)
    PROVE  BatchInv'
  <1>1. RunOK(batchRun[r]) /\ batchRun[r].at = "rendering"
    BY DEF BatchInv, Batch!Render
  <1>2. batchFaults \in 0 .. MaxFaults /\ batchFaults \in Nat
    BY DEF BatchInv, Batch!BatchConversionAssumption
  <1>3. UNCHANGED BatchIs /\ UNCHANGED <<batchQueued, batchPoison, batchPdfs, batchFaults>>
    BY DEF Batch!Render, BatchIs, Batch!batchIs
  <1>4. CASE AllFit
    <2>1. Goes(r, "converting") /\ UNCHANGED batchResults
      BY <1>3, <1>4 DEF Batch!Render, Goes, AllFit
    <2>2. PICK d : /\ batchRun' = [batchRun EXCEPT ![r] = d]
                   /\ d = [at |-> "converting", pdfs |-> batchRun[r].pdfs,
                           tries |-> batchRun[r].tries, pending |-> batchRun[r].pending]
      BY <2>1, GoesIs
    <2>3. RunOK(d)'
      BY <1>1, <1>3, <1>4, <2>2 DEF RunOK, Batch!Working, BatchIs, Sound, AllFit
    <2>4. Moves(r, d)
      <3>1. d.at # "off"
        BY <2>2
      <3>2. QED
        BY <1>3, <2>1, <2>2, <3>1, MovesAlone
    <2>5. QED
      BY <2>1, <2>3, <2>4, BatchMoves
  <1>5. CASE ~AllFit
    <2>1. PICK i \in DOMAIN batchInput :
             ~batchInput[i].fits
             /\ Batch!Fail(r, "TEMPLATE_RENDER_FAILED", batchInput[i].name)
      BY <1>5 DEF Batch!Render, AllFit
    <2>2. PICK name : name = batchInput[i].name
      OBVIOUS
    <2>3. Failing(r, "TEMPLATE_RENDER_FAILED", name)
      BY <1>2, <1>3, <2>1, <2>2 DEF Failing
    <2>4. PICK x : x = Batch!Failed("TEMPLATE_RENDER_FAILED", name)
      OBVIOUS
    <2>5. x.status = "FAILED" /\ x.code = "TEMPLATE_RENDER_FAILED" /\ x.name = name
      BY <2>4 DEF Batch!Failed
    <2>6. ~AllFit'
      BY <1>3, <1>5 DEF AllFit, BatchIs
    <2>7. Unfillable(x)'
      BY <1>3, <2>1, <2>2, <2>5 DEF Unfillable, BatchIs
    <2>8. ResultOK(x)'
      BY <2>5, <2>6, <2>7 DEF ResultOK
    <2>9. QED
      BY <1>1, <2>3, <2>4, <2>8, FailKeeps DEF ResultOK, Unfillable
  <1>6. QED
    BY <1>4, <1>5

\* A document has a PDF or was tried.
LEMMA NoPdfIsNull ==
    ASSUME Batch!BatchConversionAssumption, BatchInv, batchInput # Null,
           NEW i \in DOMAIN batchInput
    PROVE  Batch!Alone(batchLayout, batchInput[i]) # Null
  BY DEF Batch!BatchConversionAssumption, BatchInv

LEMMA ConvertEachKeeps ==
    ASSUME Batch!BatchConversionAssumption, BatchInv,
           NEW r \in Batch!Deliveries, Batch!ConvertEach(r)
    PROVE  BatchInv'
  <1>1. RunOK(batchRun[r]) /\ batchRun[r].at = "converting" /\ Sound /\ AllFit
        /\ batchRun[r].tries = <<>> /\ batchRun[r].pending = {}
    BY DEF BatchInv, RunOK, Batch!ConvertEach
  <1>2. PICK skipped \in SUBSET DOMAIN batchInput :
           /\ IF skipped = {} THEN UNCHANGED batchFaults ELSE Batch!Fault
           /\ batchRun' = [batchRun EXCEPT ![r] =
                [batchRun[r] EXCEPT !.at = "again",
                          !.pdfs = [i \in DOMAIN batchInput |->
                              IF i \in skipped THEN Null ELSE Batch!Alone(batchLayout, batchInput[i])],
                          !.tries = [i \in DOMAIN batchInput |-> IF i \in skipped THEN 1 ELSE 0]]]
    BY DEF Batch!ConvertEach
  <1>3. UNCHANGED BatchIs /\ UNCHANGED <<batchQueued, batchPoison, batchPdfs, batchResults>>
    BY DEF Batch!ConvertEach, BatchIs, Batch!batchIs
  <1>4. PICK ps, tries :
           /\ ps = [i \in DOMAIN batchInput |->
                         IF i \in skipped THEN Null ELSE Batch!Alone(batchLayout, batchInput[i])]
           /\ tries = [i \in DOMAIN batchInput |-> IF i \in skipped THEN 1 ELSE 0]
    OBVIOUS
  <1>5. PICK d : d = [at |-> "again", pdfs |-> ps, tries |-> tries, pending |-> {}]
    OBVIOUS
  <1>6. batchRun' = [batchRun EXCEPT ![r] = d]
    <2>1. PICK e : e = batchRun[r]
      OBVIOUS
    <2>2. PICK a, p, t, q : e = [at |-> a, pdfs |-> p, tries |-> t, pending |-> q] /\ q = {}
      BY <1>1, <2>1 DEF RunOK
    <2>3. [e EXCEPT !.at = "again", !.pdfs = ps, !.tries = tries] = d
      <3>1. PICK f : f = [e EXCEPT !.at = "again"]
        OBVIOUS
      <3>2. PICK g : g = [f EXCEPT !.pdfs = ps]
        OBVIOUS
      <3>3. PICK h : h = [g EXCEPT !.tries = tries]
        OBVIOUS
      <3>4. f = [at |-> "again", pdfs |-> p, tries |-> t, pending |-> q]
        BY <2>2, <3>1
      <3>5. g = [at |-> "again", pdfs |-> ps, tries |-> t, pending |-> q]
        BY <3>2, <3>4
      <3>6. h = [at |-> "again", pdfs |-> ps, tries |-> tries, pending |-> q]
        BY <3>3, <3>5
      <3>7. h = [e EXCEPT !.at = "again", !.pdfs = ps, !.tries = tries]
        BY <3>1, <3>2, <3>3
      <3>8. QED
        BY <1>5, <2>2, <3>6, <3>7
    <2>4. QED
      BY <1>2, <1>4, <2>1, <2>3
  <1>7. /\ batchFaults \in Nat /\ batchFaults' \in 0 .. MaxFaults /\ batchFaults' >= batchFaults
        /\ batchFaults' = 0 => skipped = {}
    BY <1>2 DEF BatchInv, Batch!Fault, Batch!BatchConversionAssumption
  <1>8. ASSUME NEW i \in DOMAIN batchInput
        PROVE  tries[i] \in {0, 1, 2} /\ (ps[i] = Null => tries[i] # 0)
               /\ (batchFaults' = 0 => tries[i] = 0)
    BY <1>1, <1>4, <1>7, <1>8, NoPdfIsNull DEF Sound
  <1>9. DOMAIN ps = DOMAIN batchInput /\ DOMAIN tries = DOMAIN batchInput
    BY <1>4
  <1>10. RunOK(d)'
    BY <1>1, <1>3, <1>5, <1>8, <1>9 DEF RunOK, BatchIs, Batch!Working, Sound, AllFit
  <1>11. Moves(r, d)
    <2>1. d.at # "off"
      BY <1>5
    <2>2. QED
      BY <1>1, <1>3, <1>6, <1>7, <2>1, MovesAgain
  <1>12. QED
    BY <1>3, <1>10, <1>11, BatchMoves

\* A document that was skipped is tried again: it has a PDF, or was tried twice.
LEMMA RetryKeeps ==
    ASSUME Batch!BatchConversionAssumption, BatchInv,
           NEW r \in Batch!Deliveries, batchRun[r].at = "again", Batch!Retry(r),
           UNCHANGED BatchIs,
           UNCHANGED <<batchQueued, batchPoison, batchPdfs, batchResults>>
    PROVE  BatchInv'
  <1>1. RunOK(batchRun[r]) /\ Sound /\ AllFit
    BY DEF BatchInv, RunOK
  <1>2. PICK p, t, q :
           /\ batchRun[r] = [at |-> "again", pdfs |-> p, tries |-> t, pending |-> q]
           /\ p = batchRun[r].pdfs /\ t = batchRun[r].tries
    BY <1>1 DEF RunOK
  <1>3. /\ q = {} /\ DOMAIN p = DOMAIN batchInput /\ DOMAIN t = DOMAIN batchInput
        /\ \A i \in DOMAIN batchInput :
              /\ t[i] \in {0, 1, 2} /\ (p[i] = Null => t[i] # 0)
              /\ batchFaults = 0 => t[i] = 0
    BY <1>1, <1>2 DEF RunOK
  <1>4. PICK i \in DOMAIN batchInput :
           /\ p[i] = Null /\ t[i] = 1
           /\ \/ /\ batchRun' = [batchRun EXCEPT ![r].pdfs[i] = Batch!Alone(batchLayout, batchInput[i])]
                 /\ UNCHANGED batchFaults
              \/ batchRun' = [batchRun EXCEPT ![r].tries[i] = 2] /\ Batch!Fault
    BY <1>2, <1>3 DEF Batch!Retry, Batch!ToRetry
  <1>5. batchFaults # 0
    BY <1>3, <1>4
  <1>6. /\ batchFaults \in Nat /\ batchFaults' \in 0 .. MaxFaults /\ batchFaults' >= batchFaults
    BY <1>4 DEF BatchInv, Batch!Fault, Batch!BatchConversionAssumption
  <1>7. batchFaults' # 0
    BY <1>5, <1>6
  <1>8. PICK pdf : pdf = Batch!Alone(batchLayout, batchInput[i]) /\ pdf # Null
    BY <1>1, NoPdfIsNull DEF Sound
  <1>9. PICK e : e = batchRun[r]
    OBVIOUS
  <1>10. CASE batchRun' = [batchRun EXCEPT ![r].pdfs[i] = Batch!Alone(batchLayout, batchInput[i])]
    <2>1. PICK p1 : p1 = [p EXCEPT ![i] = pdf]
      OBVIOUS
    <2>2. PICK d : d = [at |-> "again", pdfs |-> p1, tries |-> t, pending |-> q]
      OBVIOUS
    <2>3. batchRun' = [batchRun EXCEPT ![r] = [e EXCEPT !.pdfs = [e.pdfs EXCEPT ![i] = pdf]]]
      BY <1>8, <1>9, <1>10
    <2>4. e.pdfs = p /\ e = [at |-> "again", pdfs |-> p, tries |-> t, pending |-> q]
      BY <1>2, <1>9
    <2>5. [e EXCEPT !.pdfs = p1] = d
      BY <2>2, <2>4
    <2>6. batchRun' = [batchRun EXCEPT ![r] = d]
      BY <2>1, <2>3, <2>4, <2>5
    <2>7. /\ DOMAIN p1 = DOMAIN batchInput
          /\ \A k \in DOMAIN batchInput : p1[k] = IF k = i THEN pdf ELSE p[k]
      BY <1>3, <2>1
    <2>9. RunOK(d)'
      BY <1>1, <1>3, <1>4, <1>7, <1>8, <2>2, <2>7
         DEF RunOK, BatchIs, Batch!Working, Sound, AllFit
    <2>10. Moves(r, d)
      <3>1. d.at # "off"
        BY <2>2
      <3>2. QED
        BY <1>2, <1>6, <2>2, <2>6, <3>1, MovesAgain
    <2>11. QED
      BY <2>9, <2>10, BatchMoves
  <1>11. CASE batchRun' = [batchRun EXCEPT ![r].tries[i] = 2]
    <2>1. PICK t1 : t1 = [t EXCEPT ![i] = 2]
      OBVIOUS
    <2>2. PICK d : d = [at |-> "again", pdfs |-> p, tries |-> t1, pending |-> q]
      OBVIOUS
    <2>3. batchRun' = [batchRun EXCEPT ![r] = [e EXCEPT !.tries = [e.tries EXCEPT ![i] = 2]]]
      BY <1>9, <1>11
    <2>4. e.tries = t /\ e = [at |-> "again", pdfs |-> p, tries |-> t, pending |-> q]
      BY <1>2, <1>9
    <2>5. [e EXCEPT !.tries = t1] = d
      BY <2>2, <2>4
    <2>6. batchRun' = [batchRun EXCEPT ![r] = d]
      BY <2>1, <2>3, <2>4, <2>5
    <2>7. /\ DOMAIN t1 = DOMAIN batchInput
          /\ \A k : k # i /\ k \in DOMAIN t => t1[k] = t[k]
          /\ t1[i] = 2
      BY <1>3, <2>1
    <2>8. RunOK(d)'
      BY <1>1, <1>3, <1>4, <1>7, <2>2, <2>7
         DEF RunOK, BatchIs, Batch!Working, Sound, AllFit
    <2>9. \A k \in DOMAIN batchInput : DOMAIN t # {} /\ t[k] = 2 => DOMAIN t1 # {} /\ t1[k] = 2
      BY <1>3, <2>7
    <2>10. Moves(r, d)
      <3>1. d.at # "off"
        BY <2>2
      <3>2. QED
        BY <1>2, <1>6, <2>2, <2>6, <2>9, <3>1, MovesAgain
    <2>11. QED
      BY <2>8, <2>10, BatchMoves
  <1>12. QED
    BY <1>4, <1>10, <1>11

LEMMA ConvertAgainKeeps ==
    ASSUME Batch!BatchConversionAssumption, BatchInv,
           NEW r \in Batch!Deliveries, Batch!ConvertAgain(r)
    PROVE  BatchInv'
  <1>1. RunOK(batchRun[r]) /\ Sound /\ AllFit /\ batchRun[r].at = "again"
    BY DEF BatchInv, RunOK, Batch!ConvertAgain
  <1>2. UNCHANGED BatchIs /\ UNCHANGED <<batchQueued, batchPoison, batchPdfs>>
    BY DEF Batch!ConvertAgain, BatchIs, Batch!batchIs
  <1>3. CASE Batch!ToRetry(r) # {}
    BY <1>1, <1>2, <1>3, RetryKeeps DEF Batch!ConvertAgain
  <1>4. CASE Batch!ToRetry(r) = {}
    <2>1. /\ DOMAIN batchRun[r].pdfs = DOMAIN batchInput
          /\ DOMAIN batchRun[r].tries = DOMAIN batchInput
          /\ \A i \in DOMAIN batchInput :
                /\ batchRun[r].tries[i] \in {0, 1, 2}
                /\ batchRun[r].pdfs[i] = Null => batchRun[r].tries[i] # 0
                /\ batchFaults = 0 => batchRun[r].tries[i] = 0
      BY <1>1 DEF RunOK
    <2>2. UNCHANGED batchFaults /\ batchFaults' \in 0 .. MaxFaults /\ batchFaults' >= batchFaults
      BY <1>4 DEF BatchInv, Batch!ConvertAgain, Batch!BatchConversionAssumption
    <2>3. CASE {i \in DOMAIN batchInput : batchRun[r].pdfs[i] = Null} = {}
      <3>1. PICK ps : ps = batchRun[r].pdfs
        OBVIOUS
      <3>2. Batch!Uploading(r, ps) /\ UNCHANGED batchResults
        BY <1>4, <2>3, <3>1 DEF Batch!ConvertAgain
      <3>3. QED
        BY <1>1, <1>2, <2>1, <2>2, <3>1, <3>2, UploadingKeeps
    <2>4. CASE {i \in DOMAIN batchInput : batchRun[r].pdfs[i] = Null} # {}
      <3>1. PICK i \in DOMAIN batchInput :
               /\ batchRun[r].pdfs[i] = Null
               /\ Batch!Fail(r, "PDF_CONVERSION_FAILED", batchInput[i].name)
        BY <1>4, <2>4 DEF Batch!ConvertAgain
      <3>2. batchRun[r].tries[i] = 2 /\ DOMAIN batchRun[r].tries # {} /\ batchFaults # 0
        BY <1>4, <2>1, <3>1 DEF Batch!ToRetry
      <3>3. PICK name : name = batchInput[i].name
        OBVIOUS
      <3>4. Failing(r, "PDF_CONVERSION_FAILED", name)
        BY <1>2, <2>2, <3>1, <3>3 DEF Failing
      <3>5. PICK x : x = Batch!Failed("PDF_CONVERSION_FAILED", name)
        OBVIOUS
      <3>6. /\ x.status = "FAILED" /\ x.code = "PDF_CONVERSION_FAILED" /\ x.name = name
            /\ x.code \notin Batch!Permanent
        BY <3>5 DEF Batch!Failed, Batch!Permanent
      <3>7. batchRun'[r].tries = batchRun[r].tries
        <4>1. PICK at : Goes(r, at)
          BY <3>1, <1>2 DEF Batch!Fail, Goes
        <4>2. PICK d : /\ batchRun' = [batchRun EXCEPT ![r] = d]
                       /\ d = [at |-> at, pdfs |-> batchRun[r].pdfs,
                               tries |-> batchRun[r].tries, pending |-> batchRun[r].pending]
          BY <4>1, GoesIs
        <4>3. QED
          BY <4>2 DEF BatchInv
      <3>8. Unfillable(x)'
        BY <1>2, <3>2, <3>3, <3>6, <3>7 DEF Unfillable, BatchIs
      <3>9. ResultOK(x)'
        BY <2>2, <3>2, <3>6, <3>8 DEF ResultOK
      <3>10. QED
        BY <1>1, <3>4, <3>5, <3>9, FailKeeps DEF ResultOK, Unfillable
    <2>5. QED
      BY <2>3, <2>4
  <1>5. QED
    BY <1>3, <1>4

LEMMA UploadBatchKeeps ==
    ASSUME Batch!BatchConversionAssumption, BatchInv,
           NEW r \in Batch!Deliveries, Batch!Upload(r)
    PROVE  BatchInv'
  <1>1. PICK i \in batchRun[r].pending :
           /\ batchPdfs' = [name \in DOMAIN batchPdfs \cup {batchInput[i].name} |->
                              IF name = batchInput[i].name THEN batchRun[r].pdfs[i]
                              ELSE batchPdfs[name]]
           /\ batchRun' = [batchRun EXCEPT ![r].pending = batchRun[r].pending \ {i}]
    BY DEF Batch!Upload
  <1>2. RunOK(batchRun[r])
    BY DEF BatchInv
  <1>3. PICK at, p, t, q :
           /\ batchRun[r] = [at |-> at, pdfs |-> p, tries |-> t, pending |-> q]
           /\ at = batchRun[r].at /\ p = batchRun[r].pdfs /\ t = batchRun[r].tries
           /\ q = batchRun[r].pending
    BY <1>2 DEF RunOK
  <1>4. /\ q # {} /\ i \in q /\ i \in DOMAIN batchInput
        /\ at \in {"uploading", "left", "poisoning", "answered", "over"}
    BY <1>1, <1>2, <1>3 DEF RunOK, Batch!Working
  <1>5. UNCHANGED BatchIs
        /\ UNCHANGED <<batchQueued, batchPoison, batchResults, batchFaults>>
    BY DEF Batch!Upload, BatchIs, Batch!batchIs
  <1>6. /\ DOMAIN batchPdfs' = DOMAIN batchPdfs \cup {batchInput[i].name}
        /\ DOMAIN batchPdfs \subseteq DOMAIN batchPdfs' /\ DOMAIN batchPdfs' \subseteq PdfNames
    BY <1>1, <1>4 DEF BatchInv, PdfNames
  <1>7. PICK e, q1 : e = batchRun[r] /\ q1 = q \ {i}
    OBVIOUS
  <1>8. PICK d : d = [at |-> at, pdfs |-> p, tries |-> t, pending |-> q1]
    OBVIOUS
  <1>9. batchRun' = [batchRun EXCEPT ![r] = d]
    <2>1. e = [at |-> at, pdfs |-> p, tries |-> t, pending |-> q]
      BY <1>3, <1>7
    <2>2. [e EXCEPT !.pending = q1] = d
      BY <1>8, <2>1
    <2>3. QED
      BY <1>1, <1>3, <1>7, <2>2
  <1>10. Kept => Kept'
    BY <1>5 DEF Kept
  <1>11. RunOK(d)'
    BY <1>2, <1>3, <1>4, <1>5, <1>6, <1>7, <1>8, <1>10
       DEF RunOK, BatchIs, Batch!Working, Sound, AllFit
  <1>12. Moves(r, d)
    <2>1. batchFaults' \in 0 .. MaxFaults /\ batchFaults' >= batchFaults
      BY <1>5 DEF BatchInv, Batch!BatchConversionAssumption
    <2>2. batchQueued' \in BOOLEAN /\ batchPoison' \in BOOLEAN
          /\ (batchPoison => batchPoison') /\ (~batchQueued' => ~batchQueued \/ Kept)
      BY <1>5, Zenon DEF BatchInv
    <2>3. QED
      <3>1. d.at # "off"
        BY <1>4, <1>8
      <3>2. QED
        BY <1>3, <1>5, <1>6, <1>8, <1>9, <2>1, <2>2, <3>1 DEF Moves
  <1>13. QED
    BY <1>5, <1>11, <1>12, BatchMoves

LEMMA UploadFailsKeeps ==
    ASSUME Batch!BatchConversionAssumption, BatchInv,
           NEW r \in Batch!Deliveries, Batch!UploadFails(r)
    PROVE  BatchInv'
  <1>1. /\ batchFaults \in Nat /\ batchFaults' \in 0 .. MaxFaults /\ batchFaults' >= batchFaults
        /\ batchFaults' # 0
    BY DEF BatchInv, Batch!UploadFails, Batch!Fault, Batch!BatchConversionAssumption
  <1>2. Failing(r, "PDF_STORAGE_UNAVAILABLE", Null) /\ batchRun[r].at = "uploading"
    BY <1>1 DEF Batch!UploadFails, Failing, BatchIs, Batch!batchIs
  <1>3. PICK x : x = Batch!Failed("PDF_STORAGE_UNAVAILABLE", Null)
    OBVIOUS
  <1>4. x.status = "FAILED" /\ x.code = "PDF_STORAGE_UNAVAILABLE" /\ x.name = Null
    BY <1>3 DEF Batch!Failed
  <1>5. ResultOK(x)'
    BY <1>1, <1>4 DEF ResultOK
  <1>6. QED
    BY <1>2, <1>3, <1>5, FailKeeps DEF ResultOK

LEMMA ReportBatchKeeps ==
    ASSUME Batch!BatchConversionAssumption, BatchInv,
           NEW r \in Batch!Deliveries, Batch!Report(r)
    PROVE  BatchInv'
  <1>1. PICK d : /\ batchRun' = [batchRun EXCEPT ![r] = d]
                 /\ d = [at |-> "answered", pdfs |-> batchRun[r].pdfs,
                         tries |-> batchRun[r].tries, pending |-> batchRun[r].pending]
    BY GoesIs DEF Batch!Report, Goes, BatchIs, Batch!batchIs
  <1>2. RunOK(batchRun[r]) /\ batchRun[r].at = "uploading" /\ batchRun[r].pending = {}
    BY DEF BatchInv, Batch!Report
  <1>3. PICK x : x = [status |-> "DONE", code |-> Null, name |-> Null]
    OBVIOUS
  <1>4. batchResults' = batchResults \cup {x}
    BY <1>3 DEF Batch!Report
  <1>5. UNCHANGED BatchIs /\ UNCHANGED <<batchQueued, batchPoison, batchPdfs, batchFaults>>
    BY DEF Batch!Report, BatchIs, Batch!batchIs
  <1>6. Kept'
    BY <1>3, <1>4 DEF Kept
  <1>7. RunOK(d)'
    BY <1>1, <1>2, <1>6 DEF RunOK, Batch!Working
  <1>8. Moves(r, d)
    <2>1. d.at # "off"
      BY <1>1
    <2>2. QED
      BY <1>1, <1>4, <1>5, <2>1, MovesAlone
  <1>9. ResultOK(x)'
    <2>1. Sound /\ AllFit /\ (batchJob = "going" => PdfNames \subseteq DOMAIN batchPdfs)
      BY <1>2 DEF RunOK, PdfNames
    <2>2. Sound' /\ AllFit' /\ (batchJob' = "going" => PdfNames' \subseteq DOMAIN batchPdfs')
      BY <1>5, <2>1 DEF Sound, AllFit, PdfNames, BatchIs
    <2>3. x.status = "DONE" /\ x.code = Null /\ x.name = Null
      BY <1>3
    <2>4. Null # "TEMPLATE_RENDER_FAILED" /\ Null # "INVALID_MESSAGE"
      BY DEF Batch!BatchConversionAssumption
    <2>5. QED
      BY <2>2, <2>3, <2>4 DEF ResultOK
  <1>10. QED
    BY <1>4, <1>7, <1>8, <1>9, BatchMoves DEF ResultOK, Unfillable

LEMMA PoisonKeeps ==
    ASSUME Batch!BatchConversionAssumption, BatchInv,
           NEW r \in Batch!Deliveries, Batch!Poison(r)
    PROVE  BatchInv'
  <1>1. PICK d : /\ batchRun' = [batchRun EXCEPT ![r] = d]
                 /\ d = [at |-> "answered", pdfs |-> batchRun[r].pdfs,
                         tries |-> batchRun[r].tries, pending |-> batchRun[r].pending]
    BY GoesIs DEF Batch!Poison, Goes, BatchIs, Batch!batchIs
  <1>2. RunOK(batchRun[r]) /\ batchRun[r].at = "poisoning"
    BY DEF BatchInv, Batch!Poison
  <1>3. UNCHANGED BatchIs /\ UNCHANGED <<batchQueued, batchPdfs, batchResults, batchFaults>>
        /\ batchPoison' = TRUE
    BY DEF Batch!Poison, BatchIs, Batch!batchIs
  <1>4. Kept'
    BY <1>3 DEF Kept
  <1>5. RunOK(d)'
    BY <1>1, <1>2, <1>3, <1>4 DEF RunOK, Batch!Working, BatchIs, Sound, AllFit
  <1>6. Moves(r, d)
    <2>1. batchFaults' \in 0 .. MaxFaults /\ batchFaults' >= batchFaults
      BY <1>3 DEF BatchInv, Batch!BatchConversionAssumption
    <2>2. batchQueued' \in BOOLEAN /\ batchPoison' \in BOOLEAN
          /\ (batchPoison => batchPoison') /\ (~batchQueued' => ~batchQueued \/ Kept)
      BY <1>3, Zenon DEF BatchInv
    <2>3. DOMAIN batchPdfs' \subseteq PdfNames
      BY <1>3 DEF BatchInv
    <2>4. QED
      BY <1>1, <1>3, <2>1, <2>2, <2>3 DEF Moves
  <1>7. QED
    BY <1>3, <1>5, <1>6, BatchMoves

LEMMA DeleteKeeps ==
    ASSUME Batch!BatchConversionAssumption, BatchInv,
           NEW r \in Batch!Deliveries, Batch!Delete(r)
    PROVE  BatchInv'
  <1>1. PICK d : /\ batchRun' = [batchRun EXCEPT ![r] = d]
                 /\ d = [at |-> "over", pdfs |-> batchRun[r].pdfs,
                         tries |-> batchRun[r].tries, pending |-> batchRun[r].pending]
    BY GoesIs DEF Batch!Delete, Goes, BatchIs, Batch!batchIs
  <1>2. RunOK(batchRun[r]) /\ batchRun[r].at = "answered"
    BY DEF BatchInv, Batch!Delete
  <1>3. UNCHANGED BatchIs /\ UNCHANGED <<batchPoison, batchPdfs, batchResults, batchFaults>>
    BY DEF Batch!Delete, BatchIs, Batch!batchIs
  <1>4. Kept
    BY <1>2 DEF RunOK
  <1>5. RunOK(d)'
    BY <1>1, <1>2, <1>3 DEF RunOK, Batch!Working, BatchIs, Sound, AllFit
  <1>6. Moves(r, d)
    <2>1. batchFaults' \in 0 .. MaxFaults /\ batchFaults' >= batchFaults
      BY <1>3 DEF BatchInv, Batch!BatchConversionAssumption
    <2>2. batchQueued' \in BOOLEAN
      BY Zenon DEF Batch!Delete
    <2>3. batchPoison' \in BOOLEAN
          /\ (batchPoison => batchPoison') /\ (~batchQueued' => ~batchQueued \/ Kept)
      BY <1>3, <1>4, Zenon DEF BatchInv
    <2>4. DOMAIN batchPdfs' \subseteq PdfNames
      BY <1>3 DEF BatchInv
    <2>5. QED
      BY <1>1, <1>3, <2>1, <2>2, <2>3, <2>4 DEF Moves
  <1>7. QED
    BY <1>3, <1>5, <1>6, BatchMoves

LEMMA StopKeeps ==
    ASSUME Batch!BatchConversionAssumption, BatchInv,
           NEW r \in Batch!Deliveries, Batch!Stop(r)
    PROVE  BatchInv'
  <1>1. RunOK(batchRun[r])
    BY DEF BatchInv
  <1>2. PICK at, p, t, q :
           /\ batchRun[r] = [at |-> at, pdfs |-> p, tries |-> t, pending |-> q]
           /\ p = batchRun[r].pdfs /\ t = batchRun[r].tries
    BY <1>1 DEF RunOK
  <1>3. PICK e, d : /\ e = batchRun[r]
                    /\ d = [at |-> "over", pdfs |-> p, tries |-> t, pending |-> {}]
    OBVIOUS
  <1>4. batchRun' = [batchRun EXCEPT ![r] = d]
    <2>1. PICK f : f = [e EXCEPT !.at = "over"]
      OBVIOUS
    <2>2. f = [at |-> "over", pdfs |-> p, tries |-> t, pending |-> q]
      BY <1>2, <1>3, <2>1
    <2>3. [f EXCEPT !.pending = {}] = d
      BY <1>3, <2>2
    <2>4. batchRun' = [batchRun EXCEPT ![r] = [e EXCEPT !.at = "over", !.pending = {}]]
      BY <1>3 DEF Batch!Stop
    <2>5. QED
      BY <2>1, <2>3, <2>4
  <1>5. UNCHANGED BatchIs /\ UNCHANGED <<batchQueued, batchPoison, batchPdfs, batchResults>>
    BY DEF Batch!Stop, BatchIs, Batch!batchIs
  <1>6. /\ batchFaults \in Nat /\ batchFaults' \in 0 .. MaxFaults /\ batchFaults' >= batchFaults
    BY DEF BatchInv, Batch!Stop, Batch!Fault, Batch!BatchConversionAssumption
  <1>7. RunOK(d)'
    BY <1>3 DEF RunOK, Batch!Working
  <1>8. Moves(r, d)
    <2>1. d.at # "off"
      BY <1>3
    <2>2. QED
      BY <1>2, <1>3, <1>4, <1>5, <1>6, <2>1, MovesAgain
  <1>9. QED
    BY <1>5, <1>7, <1>8, BatchMoves

\* The job is over: its blobs may go, nothing else does.
LEMMA BatchIsOver ==
    ASSUME BatchInv,
           UNCHANGED <<batchInput, batchLayout, batchMessage>>,
           UNCHANGED <<batchRun, batchQueued, batchPoison, batchResults, batchFaults>>,
           batchJob' \in {"done", "reverted"},
           batchStored' \in BOOLEAN, batchStored' => batchStored,
           DOMAIN batchPdfs' \subseteq DOMAIN batchPdfs
    PROVE  BatchInv'
  <1>1. (Sound' <=> Sound) /\ (AllFit' <=> AllFit) /\ PdfNames' = PdfNames /\ (Kept' <=> Kept)
    BY DEF Sound, AllFit, PdfNames, Kept
  <1>2. ASSUME NEW r \in Batch!Deliveries PROVE RunOK(batchRun[r])'
    <2>1. RunOK(batchRun[r])
      BY DEF BatchInv
    <2>2. QED
      BY <1>1, <2>1 DEF RunOK
  <1>3. ASSUME NEW x \in batchResults' PROVE ResultOK(x)'
    <2>1. ResultOK(x)
      BY DEF BatchInv
    <2>2. (Unfillable(x)' <=> Unfillable(x)) /\ (Batch!IsExhausted(x)' <=> Batch!IsExhausted(x))
      BY DEF Unfillable, Batch!IsExhausted
    <2>3. QED
      BY <1>1, <2>1, <2>2 DEF ResultOK
  <1>4. /\ batchQueued' \in BOOLEAN /\ batchPoison' \in BOOLEAN
        /\ (~batchQueued' => Kept') /\ (batchStored' => batchInput' # Null)
    BY <1>1, Zenon DEF BatchInv
  <1>5. batchJob' # "going"
    OBVIOUS
  <1>6. QED
    BY <1>1, <1>2, <1>3, <1>4, <1>5 DEF BatchInv

LEMMA BatchJobKeeps ==
    ASSUME BatchInv,
           Batch!JobDone \/ Batch!JobReverted \/ Batch!CleanInput \/ Batch!CleanPdfs
    PROVE  BatchInv'
  <1>1. UNCHANGED <<batchInput, batchLayout, batchMessage>>
        /\ UNCHANGED <<batchRun, batchQueued, batchPoison, batchResults, batchFaults>>
    BY DEF Batch!JobDone, Batch!JobReverted, Batch!CleanInput, Batch!CleanPdfs,
           Batch!batchIs, Batch!deliveryVars
  <1>2. batchJob' \in {"done", "reverted"}
    BY DEF BatchInv, Batch!JobDone, Batch!JobReverted, Batch!CleanInput, Batch!CleanPdfs,
           Batch!batchIs
  <1>3. batchStored' = batchStored \/ batchStored' = FALSE
    BY DEF Batch!JobDone, Batch!JobReverted, Batch!CleanInput, Batch!CleanPdfs, Batch!batchIs
  <1>4. batchStored' \in BOOLEAN /\ (batchStored' => batchStored)
    <2>1. CASE batchStored' = batchStored
      BY <2>1, Zenon DEF BatchInv
    <2>2. CASE batchStored' = FALSE
      BY <2>2
    <2>3. QED
      BY <1>3, <2>1, <2>2, Zenon
  <1>5. DOMAIN batchPdfs' \subseteq DOMAIN batchPdfs
    BY DEF Batch!JobDone, Batch!JobReverted, Batch!CleanInput, Batch!CleanPdfs
  <1>6. QED
    BY <1>1, <1>2, <1>4, <1>5, BatchIsOver

LEMMA BatchStep ==
    ASSUME Batch!BatchConversionAssumption, BatchInv, [Batch!Next]_Batch!vars
    PROVE  BatchInv'
  <1>1. CASE UNCHANGED Batch!vars
    <2>1. UNCHANGED <<batchInput, batchStored, batchJob, batchLayout, batchMessage, batchRun,
                      batchQueued, batchPoison, batchPdfs, batchResults, batchFaults>>
      BY <1>1 DEF Batch!vars
    <2>2. Kept' <=> Kept
      BY <2>1 DEF Kept
    <2>3. /\ batchQueued' \in BOOLEAN /\ batchPoison' \in BOOLEAN /\ (~batchQueued' => Kept')
          /\ batchStored' \in BOOLEAN /\ (batchStored' => batchInput' # Null)
          /\ (batchInput' # Null /\ batchJob' = "going" => batchStored')
      BY <2>1, <2>2, Zenon DEF BatchInv
    <2>4. QED
      BY <2>1, <2>2, <2>3 DEF BatchInv, RunOK, ResultOK, Unfillable, Sound, AllFit, PdfNames,
                              Batch!IsExhausted
  <1>2. ASSUME Batch!Next PROVE BatchInv'
    <2>1. ASSUME NEW r \in Batch!Deliveries,
                 \/ Batch!Receive(r) \/ Batch!Discard(r) \/ Batch!Exhaust(r) \/ Batch!Read(r)
                 \/ Batch!ConvertMerged(r) \/ Batch!Render(r) \/ Batch!ConvertEach(r)
                 \/ Batch!ConvertAgain(r) \/ Batch!Upload(r) \/ Batch!UploadFails(r)
                 \/ Batch!Report(r) \/ Batch!Poison(r) \/ Batch!Delete(r) \/ Batch!Stop(r)
          PROVE  BatchInv'
      BY <2>1, BatchReceiveKeeps, BatchDiscardKeeps, BatchExhaustKeeps, BatchReadKeeps,
         ConvertMergedKeeps, RenderBatchKeeps, ConvertEachKeeps, ConvertAgainKeeps,
         UploadBatchKeeps, UploadFailsKeeps, ReportBatchKeeps, PoisonKeeps, DeleteKeeps, StopKeeps
    <2>2. QED
      BY <1>2, <2>1, BatchJobKeeps DEF Batch!Next
  <1>3. QED
    BY <1>1, <1>2

\* What a batch promises, whatever fails, however its deliveries overlap and
\* whenever its job ends and its blobs are deleted: done means that all its PDFs are
\* there while the job waits for them, a document is only blamed for what is its own,
\* no message is lost, without failures what can be converted is only reported failed
\* when its attempts are exhausted or its job is over, and what is done is not refused
\* but for an input that went with its job.
THEOREM BatchPromisesHold ==
    ASSUME Batch!BatchConversionAssumption
    PROVE  Batch!Spec => [](/\ Batch!TypeOK /\ Batch!DoneIsThere
                            /\ Batch!FailureIsOfItsDocument /\ Batch!NoMessageLost
                            /\ Batch!FaultlessIsDone /\ Batch!DoneIsNotRefused)
  <1>1. ASSUME BatchInv
        PROVE  /\ Batch!TypeOK /\ Batch!DoneIsThere
               /\ Batch!FailureIsOfItsDocument /\ Batch!NoMessageLost
               /\ Batch!FaultlessIsDone /\ Batch!DoneIsNotRefused
    <2>1. Batch!TypeOK
      BY <1>1 DEF BatchInv, RunOK, Batch!TypeOK
    <2>2. Batch!DoneIsThere
      BY <1>1 DEF BatchInv, ResultOK, PdfNames, Batch!DoneIsThere
    <2>3. Batch!FailureIsOfItsDocument
      BY <1>1 DEF BatchInv, ResultOK, Unfillable, Batch!FailureIsOfItsDocument
    <2>4. Batch!NoMessageLost
      BY <1>1 DEF BatchInv, Kept, Batch!NoMessageLost
    <2>5. Batch!FaultlessIsDone
      BY <1>1 DEF BatchInv, ResultOK, Sound, AllFit, Batch!FaultlessIsDone, Batch!Faultless
    <2>6. Batch!DoneIsNotRefused
      BY <1>1 DEF BatchInv, ResultOK, Batch!DoneIsNotRefused
    <2>7. QED
      BY <2>1, <2>2, <2>3, <2>4, <2>5, <2>6
  <1>2. QED
    BY <1>1, BatchStarts, BatchStep, PTL DEF Batch!Spec
=============================================================================
