------------------------- MODULE CounterLockProofs -------------------------
(***************************************************************************)
(* Proofs about CounterLock for every set of requests, jobs, counters and  *)
(* groups.                                                                 *)
(***************************************************************************)
EXTENDS CounterLock, FiniteSetTheorems, TLAPS

-----------------------------------------------------------------------------
(* Facts the steps share *)

\* How many numbers a plan takes: a natural number, zero only when it is empty.
LEMMA PlanSize ==
    ASSUME NEW P \in SUBSET Groups
    PROVE  Cardinality(P) \in Nat /\ (Cardinality(P) = 0 <=> P = {})
  BY CounterLockAssumption, FS_Subset, FS_CardinalityType, FS_EmptySet

\* A number is taken when a document of the counter has it.
LEMMA TakenMeans ==
    ASSUME NEW c, NEW n
    PROVE  n \in TakenIn(c) <=> \E d \in docs : d.counter = c /\ d.sequence = n
  BY DEF TakenIn

\* What is left of a transaction when only its progress changes.
LEMMA ProgressOnly ==
    ASSUME TypeOK, NEW r \in Requests,
           NEW a \in {"planned", "counterLocked", "checked"},
           tx' = [tx EXCEPT ![r].at = a]
    PROVE  /\ tx' \in [Requests -> Transaction]
           /\ tx'[r].at = a
           /\ tx'[r].op = tx[r].op /\ tx'[r].counter = tx[r].counter
           /\ tx'[r].job = tx[r].job /\ tx'[r].plan = tx[r].plan
           /\ \A q \in Requests \ {r} : tx'[q] = tx[q]
  <1>1. tx[r] \in Transaction /\ tx' = [tx EXCEPT ![r] = [tx[r] EXCEPT !.at = a]]
    BY DEF TypeOK
  <1>2. LET t == [tx[r] EXCEPT !.at = a]
        IN  /\ t \in Transaction /\ t.at = a
            /\ t.op = tx[r].op /\ t.counter = tx[r].counter
            /\ t.job = tx[r].job /\ t.plan = tx[r].plan
    BY <1>1 DEF Transaction
  <1>3. tx'[r] = [tx[r] EXCEPT !.at = a] /\ \A q \in Requests \ {r} : tx'[q] = tx[q]
    BY <1>1 DEF TypeOK
  <1>4. tx' \in [Requests -> Transaction]
    BY <1>1, <1>2 DEF TypeOK
  <1>5. QED
    BY <1>2, <1>3, <1>4

\* The end of a transaction: its request is idle, its locks are free, and the
\* other requests and their locks are as they were.
LEMMA ReleaseEnds ==
    ASSUME TypeOK, NEW r \in Requests, Release(r)
    PROVE  /\ tx'[r] = NoTransaction
           /\ \A q \in Requests \ {r} :
                 /\ tx'[q] = tx[q]
                 /\ \A c \in Counters : counterLock'[c] = q <=> counterLock[c] = q
                 /\ \A j \in Jobs : jobLock'[j] = q <=> jobLock[j] = q
           /\ \A c \in Counters : counterLock'[c] # r
           /\ \A j \in Jobs : jobLock'[j] # r
  BY CounterLockAssumption DEF Release, TypeOK

\* The end of a transaction leaves the requests and the row locks well typed.
LEMMA ReleaseTypes ==
    ASSUME TypeOK, NEW r \in Requests, Release(r)
    PROVE  /\ counterLock' \in [Counters -> Requests \cup {Null}]
           /\ jobLock' \in [Jobs -> Requests \cup {Null}]
           /\ tx' \in [Requests -> Transaction]
  <1>1. NoTransaction \in Transaction
    BY DEF NoTransaction, Transaction
  <1>2. QED
    BY <1>1 DEF TypeOK, Release

-----------------------------------------------------------------------------
(* Issuing documents, for the panel or for a job *)

FirstOf(c) == lastSequence[c] + 1

LastOf(c, P) == lastSequence[c] + Cardinality(P)

NewDocuments(c, P, owner) ==
    {[counter |-> c, sequence |-> n, job |-> owner] : n \in FirstOf(c)..LastOf(c, P)}

\* The numbers taken start right above the counter, one for each group.
LEMMA RangeBounds ==
    ASSUME TypeOK, NEW c \in Counters, NEW P \in SUBSET Groups
    PROVE  /\ lastSequence[c] \in Nat /\ FirstOf(c) \in Nat /\ LastOf(c, P) \in Nat
           /\ FirstOf(c) = lastSequence[c] + 1 /\ LastOf(c, P) >= lastSequence[c]
           /\ IF P = {} THEN LastOf(c, P) < FirstOf(c) ELSE FirstOf(c) <= LastOf(c, P)
  <1>1. PICK n \in Nat : n = Cardinality(P) /\ (n = 0 <=> P = {})
    BY PlanSize
  <1>2. lastSequence[c] \in Nat
    BY DEF TypeOK
  <1>3. QED
    BY <1>1, <1>2 DEF FirstOf, LastOf

\* What issuing does to the counter and the documents.
LEMMA IssueEffect ==
    ASSUME TypeOK, NEW c \in Counters, NEW P \in SUBSET Groups, NEW owner,
           IssueDocuments(c, P, owner)
    PROVE  /\ docs' = docs \cup NewDocuments(c, P, owner)
           /\ (FirstOf(c)..LastOf(c, P)) \cap TakenIn(c) = {}
           /\ lastSequence' = [lastSequence EXCEPT ![c] = LastOf(c, P)]
           /\ lastSequence'[c] = LastOf(c, P)
           /\ \A x \in Counters \ {c} : lastSequence'[x] = lastSequence[x]
  BY DEF IssueDocuments, NewDocuments, FirstOf, LastOf, TypeOK

\* A new document belongs to its owner and has a number of the range.
LEMMA NewDocumentsAre ==
    ASSUME NEW c, NEW P, NEW owner
    PROVE  /\ \A d \in NewDocuments(c, P, owner) :
                 d.counter = c /\ d.sequence \in FirstOf(c)..LastOf(c, P) /\ d.job = owner
           /\ \A n \in FirstOf(c)..LastOf(c, P) :
                 [counter |-> c, sequence |-> n, job |-> owner] \in NewDocuments(c, P, owner)
           /\ \A d, e \in NewDocuments(c, P, owner) : d.sequence = e.sequence => d = e
  BY DEF NewDocuments

\* Issuing leaves the counters, documents and links well typed.
LEMMA IssueTypes ==
    ASSUME TypeOK, NEW c \in Counters, NEW P \in SUBSET Groups,
           NEW owner \in Jobs \cup {Null}, IssueDocuments(c, P, owner)
    PROVE  /\ lastSequence' \in [Counters -> Nat]
           /\ docs' \in SUBSET Document
           /\ link' \in [Kinds -> [Groups -> Number \cup {Null}]]
  <1> USE CounterLockAssumption
  <1>1. /\ FirstOf(c) \in Nat /\ LastOf(c, P) \in Nat
    BY RangeBounds
  <1>2. lastSequence' \in [Counters -> Nat]
    <2>1. lastSequence' = [lastSequence EXCEPT ![c] = LastOf(c, P)]
      BY IssueEffect
    <2>2. lastSequence \in [Counters -> Nat]
      BY DEF TypeOK
    <2>3. QED
      BY <1>1, <2>1, <2>2
  <1>3. docs' \in SUBSET Document
    <2>1. NewDocuments(c, P, owner) \subseteq Document
      BY <1>1 DEF NewDocuments, Document
    <2>2. docs' = docs \cup NewDocuments(c, P, owner)
      BY IssueEffect
    <2>3. QED
      BY <2>1, <2>2 DEF TypeOK
  <1>4. link' \in [Kinds -> [Groups -> Number \cup {Null}]]
    <2>1. PICK number \in [P -> FirstOf(c)..LastOf(c, P)] :
             link' = [link EXCEPT ![KindOf[c]] =
                         [g \in Groups |-> IF g \in P THEN <<c, number[g]>> ELSE @[g]]]
      BY DEF IssueDocuments, FirstOf, LastOf
    <2>2. link \in [Kinds -> [Groups -> Number \cup {Null}]] /\ KindOf[c] \in Kinds
      BY DEF TypeOK
    <2>3. \A g \in P : <<c, number[g]>> \in Number
      BY <1>1 DEF Number
    <2>4. [g \in Groups |-> IF g \in P THEN <<c, number[g]>> ELSE link[KindOf[c]][g]]
            \in [Groups -> Number \cup {Null}]
      BY <2>2, <2>3
    <2>5. QED
      BY <2>1, <2>2, <2>4
  <1>5. QED
    BY <1>2, <1>3, <1>4

\* Issuing keeps the numbers of every counter consecutive and unique.
LEMMA IssueNoGaps ==
    ASSUME TypeOK, NoGaps, NEW c \in Counters, NEW P \in SUBSET Groups, NEW owner,
           IssueDocuments(c, P, owner)
    PROVE  NoGaps'
  <1> DEFINE first == FirstOf(c)
             last  == LastOf(c, P)
             new   == NewDocuments(c, P, owner)
  <1>1. /\ docs' = docs \cup new /\ (first..last) \cap TakenIn(c) = {}
        /\ lastSequence'[c] = last
        /\ \A x \in Counters \ {c} : lastSequence'[x] = lastSequence[x]
    BY IssueEffect
  <1>2. /\ lastSequence[c] \in Nat /\ first \in Nat /\ last \in Nat
        /\ first = lastSequence[c] + 1 /\ last >= lastSequence[c]
    BY RangeBounds
  <1>3. /\ \A d \in new : d.counter = c /\ d.sequence \in first..last
        /\ \A n \in first..last : [counter |-> c, sequence |-> n, job |-> owner] \in new
        /\ \A d, e \in new : d.sequence = e.sequence => d = e
    BY NewDocumentsAre
  <1> HIDE DEF first, last, new
  <1>4. ASSUME NEW x \in Counters
        PROVE  TakenIn(x)' = 1..lastSequence'[x]
    <2>1. CASE x = c
      <3>1. TakenIn(c)' = TakenIn(c) \cup (first..last)
        <4>1. ASSUME NEW n \in first..last
              PROVE  \E d \in new : d.counter = c /\ d.sequence = n
          <5>1. [counter |-> c, sequence |-> n, job |-> owner] \in new
            BY <1>3
          <5>2. QED
            BY <5>1
        <4>2. \A n : n \in TakenIn(c)' <=> \E d \in docs' : d.counter = c /\ d.sequence = n
          BY DEF TakenIn
        <4>3. \A n : n \in TakenIn(c)' <=> n \in TakenIn(c) \/ n \in first..last
          BY <4>1, <4>2, <1>1, <1>3, TakenMeans
        <4>4. QED
          BY <4>3
      <3>2. TakenIn(c) = 1..lastSequence[c]
        BY DEF NoGaps
      <3>3. 1..last = (1..lastSequence[c]) \cup (first..last)
        BY <1>2
      <3>4. QED
        BY <2>1, <3>1, <3>2, <3>3, <1>1
    <2>2. CASE x # c
      <3>1. TakenIn(x)' = TakenIn(x)
        BY <2>2, <1>1, <1>3 DEF TakenIn
      <3>2. QED
        BY <2>2, <3>1, <1>1 DEF NoGaps
    <2>3. QED
      BY <2>1, <2>2
  <1>5. ASSUME NEW x \in Counters, NEW d \in docs', NEW e \in docs',
               d.counter = x, e.counter = x, d.sequence = e.sequence
        PROVE  d = e
    <2>1. CASE d \in docs /\ e \in docs
      BY <1>5, <2>1 DEF NoGaps
    <2>2. CASE d \in docs /\ e \in new
      BY <1>5, <2>2, <1>1, <1>3 DEF TakenIn
    <2>3. CASE e \in docs /\ d \in new
      BY <1>5, <2>3, <1>1, <1>3 DEF TakenIn
    <2>4. CASE d \in new /\ e \in new
      BY <1>5, <2>4, <1>3
    <2>5. QED
      BY <2>1, <2>2, <2>3, <2>4, <1>1
  <1>6. QED
    BY <1>4, <1>5 DEF NoGaps

-----------------------------------------------------------------------------
(* Type correctness *)

\* Setting the status of a job leaves the job rows well typed.
LEMMA StatusTypes ==
    ASSUME TypeOK, NEW j \in Jobs, NEW s \in {"done", "failed"},
           job' = [job EXCEPT ![j].status = s]
    PROVE  job' \in [Jobs -> JobRow]
  <1>1. job[j] \in JobRow /\ job' = [job EXCEPT ![j] = [job[j] EXCEPT !.status = s]]
    BY DEF TypeOK
  <1>2. [job[j] EXCEPT !.status = s] \in JobRow
    BY <1>1 DEF JobRow
  <1>3. QED
    BY <1>1, <1>2 DEF TypeOK

\* Type correctness is preserved by every step.
LEMMA TypeStep == TypeOK /\ TransactionShape /\ [Next]_vars => TypeOK'
  <1> SUFFICES ASSUME TypeOK, TransactionShape, [Next]_vars PROVE TypeOK'
    OBVIOUS
  <1> USE CounterLockAssumption
  <1>1. ASSUME NEW r \in Requests, NEW c \in Counters, NEW P \in SUBSET Groups, PlanIssue(r, c, P)
        PROVE  TypeOK'
    BY <1>1 DEF TypeOK, PlanIssue, Transaction, Unlinked
  <1>2. ASSUME NEW r \in Requests, NEW j \in Jobs, NEW c \in Counters,
               NEW P \in SUBSET Groups, PlanReserve(r, j, c, P)
        PROVE  TypeOK'
    BY <1>2 DEF TypeOK, PlanReserve, Transaction
  <1>3. ASSUME NEW r \in Requests, LockCounter(r)
        PROVE  TypeOK'
    <2>1. tx' \in [Requests -> Transaction]
      BY <1>3, ProgressOnly DEF LockCounter
    <2>2. QED
      BY <1>3, <2>1 DEF TypeOK, LockCounter
  <1>4. ASSUME NEW r \in Requests, IssueCheck(r)
        PROVE  TypeOK'
    <2>1. tx' \in [Requests -> Transaction]
      BY <1>4, ProgressOnly DEF IssueCheck
    <2>2. QED
      BY <1>4, <2>1 DEF TypeOK, IssueCheck
  <1>5. ASSUME NEW r \in Requests, IssueCommit(r)
        PROVE  TypeOK'
    <2>1. tx[r].counter \in Counters /\ tx[r].plan \in SUBSET Groups
      BY <1>5 DEF IssueCommit, TypeOK, TransactionShape, Transaction
    <2>2. Release(r) /\ UNCHANGED job /\ IssueDocuments(tx[r].counter, tx[r].plan, Null)
      BY <1>5 DEF IssueCommit
    <2>3. QED
      BY <2>1, <2>2, IssueTypes, ReleaseTypes DEF TypeOK
  <1>6. ASSUME NEW r \in Requests, ReserveCommit(r)
        PROVE  TypeOK'
    <2> DEFINE j == tx[r].job
               c == tx[r].counter
               P == tx[r].plan
    <2>1. c \in Counters /\ j \in Jobs /\ P \in SUBSET Groups
      BY <1>6 DEF ReserveCommit, TypeOK, TransactionShape, Transaction
    <2>2. Release(r) /\ IssueDocuments(c, P, j)
      BY <1>6 DEF ReserveCommit
    <2>3. job' \in [Jobs -> JobRow]
      <3>1. [status |-> "active", counter |-> c,
             firstSequence |-> IF P = {} THEN 0 ELSE FirstOf(c),
             lastSequence |-> IF P = {} THEN 0 ELSE LastOf(c, P)] \in JobRow
        BY <2>1, RangeBounds DEF JobRow
      <3>2. QED
        BY <1>6, <3>1 DEF ReserveCommit, TypeOK, FirstOf, LastOf
    <2>4. QED
      BY <2>1, <2>2, <2>3, IssueTypes, ReleaseTypes DEF TypeOK
  <1>7. ASSUME NEW r \in Requests, NEW j \in Jobs, LockJob(r, j)
        PROVE  TypeOK'
    BY <1>7 DEF TypeOK, LockJob, Transaction, JobRow
  <1>8. ASSUME NEW r \in Requests, RevertCommit(r)
        PROVE  TypeOK'
    <2> DEFINE j == tx[r].job
               c == tx[r].counter
    <2>1. j \in Jobs /\ c \in Counters
      BY <1>8 DEF RevertCommit, TypeOK, TransactionShape, ActiveJobs
    <2>2. lastSequence' \in [Counters -> Nat]
      <3>1. ASSUME HasRange(j)
            PROVE  CounterAfterRevert(lastSequence[c], job[j].firstSequence,
                                      job[j].lastSequence) \in Nat
        <4>1. job[j] \in JobRow /\ lastSequence[c] \in Nat
          BY <2>1 DEF TypeOK
        <4>2. job[j].firstSequence \in Nat /\ job[j].firstSequence # 0
          BY <3>1, <4>1 DEF JobRow, HasRange
        <4>3. QED
          BY <4>1, <4>2 DEF CounterAfterRevert
      <3>2. QED
        BY <1>8, <2>1, <3>1 DEF RevertCommit, TypeOK
    <2>3. docs' \in SUBSET Document
      BY <1>8 DEF RevertCommit, TypeOK
    <2>4. link' \in [Kinds -> [Groups -> Number \cup {Null}]]
      BY <1>8 DEF RevertCommit, Unlink, TypeOK
    <2>5. job' \in [Jobs -> JobRow]
      BY <1>8, <2>1, StatusTypes DEF RevertCommit
    <2>6. QED
      BY <1>8, <2>2, <2>3, <2>4, <2>5, ReleaseTypes DEF RevertCommit, TypeOK
  <1>9. ASSUME NEW r \in Requests, Refuse(r) \/ Abort(r)
        PROVE  TypeOK'
    BY <1>9, ReleaseTypes DEF TypeOK, Refuse, Abort
  <1>10. ASSUME NEW j \in Jobs, FinishJob(j)
        PROVE  TypeOK'
    BY <1>10, StatusTypes DEF TypeOK, FinishJob
  <1>11. CASE UNCHANGED vars
    BY <1>11 DEF TypeOK, vars
  <1>12. QED
    BY <1>1, <1>2, <1>3, <1>4, <1>5, <1>6, <1>7, <1>8, <1>9, <1>10, <1>11 DEF Next

-----------------------------------------------------------------------------
(* What the transactions hold *)

\* The shape of every transaction is preserved by every step.
LEMMA ShapeStep ==
    TypeOK /\ TransactionShape /\ LocksHeld /\ DocumentsOfJobs /\ [Next]_vars => TransactionShape'
  <1> SUFFICES ASSUME TypeOK, TransactionShape, LocksHeld, DocumentsOfJobs, [Next]_vars
               PROVE  TransactionShape'
    OBVIOUS
  <1> USE CounterLockAssumption
  <1>1. ASSUME NEW r \in Requests, NEW c \in Counters, NEW P \in SUBSET Groups, PlanIssue(r, c, P)
        PROVE  TransactionShape'
    BY <1>1 DEF TypeOK, PlanIssue, TransactionShape, ActiveJobs
  <1>2. ASSUME NEW r \in Requests, NEW j \in Jobs, NEW c \in Counters,
               NEW P \in SUBSET Groups, PlanReserve(r, j, c, P)
        PROVE  TransactionShape'
    BY <1>2 DEF TypeOK, PlanReserve, TransactionShape, ActiveJobs
  <1>3. ASSUME NEW r \in Requests, LockCounter(r)
        PROVE  TransactionShape'
    <2>1. UNCHANGED job
      BY <1>3 DEF LockCounter
    <2>2. /\ tx'[r].at = "counterLocked"
          /\ tx'[r].op = tx[r].op /\ tx'[r].counter = tx[r].counter
          /\ tx'[r].job = tx[r].job
          /\ \A q \in Requests \ {r} : tx'[q] = tx[q]
      BY <1>3, ProgressOnly DEF LockCounter
    <2>3. tx[r].op \in {"issue", "reserve", "revert"} /\ tx[r].at # "idle"
      BY <1>3 DEF LockCounter
    <2>4. QED
      BY <2>1, <2>2, <2>3 DEF TransactionShape, ActiveJobs
  <1>4. ASSUME NEW r \in Requests, IssueCheck(r)
        PROVE  TransactionShape'
    <2>1. UNCHANGED job /\ tx[r].op = "issue" /\ tx[r].at = "counterLocked"
      BY <1>4 DEF IssueCheck
    <2>2. /\ tx'[r].at = "checked"
          /\ tx'[r].op = tx[r].op /\ tx'[r].counter = tx[r].counter
          /\ tx'[r].job = tx[r].job
          /\ \A q \in Requests \ {r} : tx'[q] = tx[q]
      BY <1>4, ProgressOnly DEF IssueCheck
    <2>3. QED
      BY <2>1, <2>2 DEF TransactionShape, ActiveJobs
  <1>5. ASSUME NEW r \in Requests, Release(r), UNCHANGED job
        PROVE  TransactionShape'
    BY <1>5, ReleaseEnds DEF TransactionShape, ActiveJobs, NoTransaction
  <1>6. ASSUME NEW r \in Requests, ReserveCommit(r)
        PROVE  TransactionShape'
    <2>1. Release(r) /\ tx[r].op = "reserve"
      BY <1>6 DEF ReserveCommit, ActiveJobIndexFree
    <2>2. tx[r].job \in Jobs /\ job[tx[r].job].status = "none"
      BY <2>1 DEF TransactionShape
    <2>3. \A k \in Jobs \ {tx[r].job} : job'[k] = job[k]
      BY <1>6 DEF ReserveCommit, TypeOK
    <2>4. \A q \in Requests \ {r} : tx'[q] = tx[q] /\ tx[q].job # tx[r].job
      BY <2>1, ReleaseEnds DEF TransactionShape
    <2>5. QED
      BY <2>1, <2>2, <2>3, <2>4, ReleaseEnds DEF TransactionShape, ActiveJobs, NoTransaction
  <1>7. ASSUME NEW r \in Requests, NEW j \in Jobs, LockJob(r, j)
        PROVE  TransactionShape'
    <2>1. /\ UNCHANGED job /\ job[j].status = "active"
          /\ tx' = [tx EXCEPT ![r] = [op |-> "revert", at |-> "jobLocked",
                        counter |-> job[j].counter, job |-> j, plan |-> {}]]
      BY <1>7 DEF LockJob
    <2>2. j \in ActiveJobs /\ job[j].counter \in Counters
      BY <2>1 DEF ActiveJobs, DocumentsOfJobs
    <2>3. /\ tx'[r].op = "revert" /\ tx'[r].at = "jobLocked"
          /\ tx'[r].counter = job[j].counter /\ tx'[r].job = j
          /\ \A q \in Requests \ {r} : tx'[q] = tx[q]
      BY <2>1 DEF TypeOK
    <2>4. QED
      BY <2>1, <2>2, <2>3 DEF TransactionShape, ActiveJobs
  <1>8. ASSUME NEW r \in Requests, RevertCommit(r)
        PROVE  TransactionShape'
    <2>1. Release(r) /\ tx[r].op = "revert" /\ job' = [job EXCEPT ![tx[r].job].status = "failed"]
      BY <1>8 DEF RevertCommit
    <2>2. tx[r].job \in Jobs /\ job[tx[r].job].status = "active"
      BY <2>1 DEF TransactionShape, ActiveJobs
    <2>3. \A k \in Jobs \ {tx[r].job} : job'[k] = job[k]
      BY <2>1 DEF TypeOK
    <2>4. \A q \in Requests \ {r} :
             /\ tx'[q] = tx[q]
             /\ tx[q].op = "revert" => tx[q].job # tx[r].job
      BY <2>1, <2>2, ReleaseEnds DEF LocksHeld
    <2>5. QED
      BY <2>1, <2>2, <2>3, <2>4, ReleaseEnds DEF TransactionShape, ActiveJobs, NoTransaction
  <1>9. ASSUME NEW j \in Jobs, FinishJob(j)
        PROVE  TransactionShape'
    <2>1. /\ UNCHANGED tx /\ jobLock[j] = Null /\ job[j].status = "active"
          /\ \A k \in Jobs \ {j} : job'[k] = job[k]
      BY <1>9 DEF FinishJob, TypeOK
    <2>2. \A q \in Requests : tx[q].op = "revert" => tx[q].job # j
      BY <2>1 DEF LocksHeld
    <2>3. QED
      BY <2>1, <2>2 DEF TransactionShape, ActiveJobs
  <1>10. CASE UNCHANGED vars
    BY <1>10 DEF TransactionShape, ActiveJobs, vars
  <1>11. QED
    BY <1>1, <1>2, <1>3, <1>4, <1>5, <1>6, <1>7, <1>8, <1>9, <1>10
    DEF Next, IssueCommit, Refuse, Abort

\* Every row lock stays with the transaction that took it.
LEMMA LocksStep == TypeOK /\ TransactionShape /\ LocksHeld /\ [Next]_vars => LocksHeld'
  <1> SUFFICES ASSUME TypeOK, TransactionShape, LocksHeld, [Next]_vars
               PROVE  LocksHeld'
    OBVIOUS
  <1> USE CounterLockAssumption
  <1>1. ASSUME NEW r \in Requests, UNCHANGED <<counterLock, jobLock>>, tx[r].at = "idle",
               \A q \in Requests \ {r} : tx'[q] = tx[q],
               tx'[r].op \in {"issue", "reserve"}, tx'[r].at = "planned"
        PROVE  LocksHeld'
    BY <1>1 DEF TransactionShape, LocksHeld
  <1>2. ASSUME NEW r \in Requests, NEW c \in Counters, NEW P \in SUBSET Groups, PlanIssue(r, c, P)
        PROVE  LocksHeld'
    <2>1. \A q \in Requests \ {r} : tx'[q] = tx[q]
      BY <1>2 DEF PlanIssue, TypeOK
    <2>2. tx'[r].op = "issue" /\ tx'[r].at = "planned"
      BY <1>2 DEF PlanIssue, TypeOK
    <2>3. QED
      BY <1>1, <1>2, <2>1, <2>2 DEF PlanIssue
  <1>3. ASSUME NEW r \in Requests, NEW j \in Jobs, NEW c \in Counters,
               NEW P \in SUBSET Groups, PlanReserve(r, j, c, P)
        PROVE  LocksHeld'
    <2>1. \A q \in Requests \ {r} : tx'[q] = tx[q]
      BY <1>3 DEF PlanReserve, TypeOK
    <2>2. tx'[r].op = "reserve" /\ tx'[r].at = "planned"
      BY <1>3 DEF PlanReserve, TypeOK
    <2>3. QED
      BY <1>1, <1>3, <2>1, <2>2 DEF PlanReserve
  <1>4. ASSUME NEW r \in Requests, LockCounter(r)
        PROVE  LocksHeld'
    <2>1. /\ tx'[r].at = "counterLocked"
          /\ tx'[r].op = tx[r].op /\ tx'[r].counter = tx[r].counter
          /\ tx'[r].job = tx[r].job
          /\ \A q \in Requests \ {r} : tx'[q] = tx[q]
      BY <1>4, ProgressOnly DEF LockCounter
    <2>2. /\ tx[r].counter \in Counters
          /\ counterLock[tx[r].counter] = Null /\ UNCHANGED jobLock
          /\ counterLock'[tx[r].counter] = r
          /\ \A c \in Counters \ {tx[r].counter} : counterLock'[c] = counterLock[c]
          /\ tx[r].at \in {"planned", "jobLocked"}
      BY <1>4 DEF LockCounter, TransactionShape, TypeOK
    <2>3. QED
      BY <2>1, <2>2 DEF LocksHeld
  <1>5. ASSUME NEW r \in Requests, IssueCheck(r)
        PROVE  LocksHeld'
    <2>1. /\ tx'[r].at = "checked"
          /\ tx'[r].op = tx[r].op /\ tx'[r].counter = tx[r].counter
          /\ tx'[r].job = tx[r].job
          /\ \A q \in Requests \ {r} : tx'[q] = tx[q]
      BY <1>5, ProgressOnly DEF IssueCheck
    <2>2. QED
      BY <1>5, <2>1 DEF IssueCheck, LocksHeld
  <1>6. ASSUME NEW r \in Requests, Release(r)
        PROVE  LocksHeld'
    BY <1>6, ReleaseEnds DEF LocksHeld, NoTransaction
  <1>7. ASSUME NEW r \in Requests, NEW j \in Jobs, LockJob(r, j)
        PROVE  LocksHeld'
    <2>1. /\ tx[r].at = "idle" /\ jobLock[j] = Null /\ UNCHANGED counterLock
          /\ jobLock'[j] = r
          /\ \A k \in Jobs \ {j} : jobLock'[k] = jobLock[k]
      BY <1>7 DEF LockJob, TypeOK
    <2>2. /\ tx'[r].op = "revert" /\ tx'[r].at = "jobLocked" /\ tx'[r].job = j
          /\ \A q \in Requests \ {r} : tx'[q] = tx[q]
      BY <1>7 DEF LockJob, TypeOK
    <2>3. QED
      BY <2>1, <2>2 DEF LocksHeld, TransactionShape
  <1>8. CASE UNCHANGED <<counterLock, jobLock, tx>>
    BY <1>8 DEF LocksHeld
  <1>9. QED
    BY <1>2, <1>3, <1>4, <1>5, <1>6, <1>7, <1>8
    DEF Next, IssueCommit, ReserveCommit, RevertCommit, Refuse, Abort, FinishJob, vars

\* No job appears on a counter between the check of an individual generation
\* and its commit: the job would have needed the lock the generation holds.
LEMMA CheckStep ==
    /\ TypeOK /\ TransactionShape /\ LocksHeld /\ DocumentsOfJobs /\ CheckStillTrue
    /\ [Next]_vars
    => CheckStillTrue'
  <1> SUFFICES ASSUME TypeOK, TransactionShape, LocksHeld, DocumentsOfJobs, CheckStillTrue,
                      [Next]_vars
               PROVE  CheckStillTrue'
    OBVIOUS
  <1>1. ASSUME ActiveJobs' \subseteq ActiveJobs,
               \A j \in ActiveJobs' : job'[j].counter = job[j].counter,
               \A q \in Requests : tx'[q].at = "checked" => tx'[q] = tx[q]
        PROVE  CheckStillTrue'
    BY <1>1 DEF CheckStillTrue
  <1>2. ASSUME UNCHANGED job, NEW r \in Requests, tx'[r].at # "checked",
               \A q \in Requests \ {r} : tx'[q] = tx[q]
        PROVE  CheckStillTrue'
    BY <1>1, <1>2 DEF ActiveJobs
  <1>3. ASSUME NEW r \in Requests, NEW c \in Counters, NEW P \in SUBSET Groups, PlanIssue(r, c, P)
        PROVE  CheckStillTrue'
    <2>1. tx'[r].at = "planned" /\ \A q \in Requests \ {r} : tx'[q] = tx[q]
      BY <1>3 DEF PlanIssue, TypeOK
    <2>2. QED
      BY <1>2, <1>3, <2>1 DEF PlanIssue
  <1>4. ASSUME NEW r \in Requests, NEW j \in Jobs, NEW c \in Counters,
               NEW P \in SUBSET Groups, PlanReserve(r, j, c, P)
        PROVE  CheckStillTrue'
    <2>1. tx'[r].at = "planned" /\ \A q \in Requests \ {r} : tx'[q] = tx[q]
      BY <1>4 DEF PlanReserve, TypeOK
    <2>2. QED
      BY <1>2, <1>4, <2>1 DEF PlanReserve
  <1>5. ASSUME NEW r \in Requests, LockCounter(r)
        PROVE  CheckStillTrue'
    <2>1. tx'[r].at = "counterLocked" /\ \A q \in Requests \ {r} : tx'[q] = tx[q]
      BY <1>5, ProgressOnly DEF LockCounter
    <2>2. QED
      BY <1>2, <1>5, <2>1 DEF LockCounter
  <1>6. ASSUME NEW r \in Requests, IssueCheck(r)
        PROVE  CheckStillTrue'
    <2>1. ActiveJobs' = {} 
      BY <1>6 DEF IssueCheck, ActiveJobs
    <2>2. QED
      BY <2>1 DEF CheckStillTrue
  <1>7. ASSUME NEW r \in Requests, Release(r), UNCHANGED job
        PROVE  CheckStillTrue'
    BY <1>2, <1>7, ReleaseEnds DEF NoTransaction
  <1>8. ASSUME NEW r \in Requests, ReserveCommit(r)
        PROVE  CheckStillTrue'
    <2> DEFINE j == tx[r].job
               c == tx[r].counter
    <2>1. /\ Release(r) /\ ActiveJobs = {} /\ tx[r].at = "counterLocked"
          /\ j \in Jobs /\ c \in Counters
      BY <1>8 DEF ReserveCommit, ActiveJobIndexFree, TransactionShape
    <2>2. /\ job'[j].counter = c
          /\ \A k \in Jobs \ {j} : job'[k] = job[k]
      BY <1>8, <2>1 DEF ReserveCommit, TypeOK
    <2>3. ActiveJobs' \subseteq {j}
      BY <2>1, <2>2 DEF ActiveJobs
    <2>4. counterLock[c] = r
      BY <2>1 DEF LocksHeld
    <2>5. \A q \in Requests \ {r} : tx'[q] = tx[q] /\ (tx[q].at = "checked" => tx[q].counter # c)
      BY <2>1, <2>4, ReleaseEnds DEF LocksHeld
    <2>6. tx'[r].at = "idle"
      BY <2>1, ReleaseEnds DEF NoTransaction
    <2>7. QED
      BY <2>2, <2>3, <2>5, <2>6 DEF CheckStillTrue
  <1>9. ASSUME NEW r \in Requests, NEW j \in Jobs, LockJob(r, j)
        PROVE  CheckStillTrue'
    <2>1. tx'[r].at = "jobLocked" /\ \A q \in Requests \ {r} : tx'[q] = tx[q]
      BY <1>9 DEF LockJob, TypeOK
    <2>2. QED
      BY <1>2, <1>9, <2>1 DEF LockJob
  <1>10. ASSUME NEW r \in Requests, RevertCommit(r)
        PROVE  CheckStillTrue'
    <2>1. Release(r) /\ job' = [job EXCEPT ![tx[r].job].status = "failed"]
      BY <1>10 DEF RevertCommit
    <2>2. \A k \in Jobs : k = tx[r].job \/ job'[k] = job[k]
      BY <2>1 DEF TypeOK
    <2>3. \A k \in Jobs : k = tx[r].job => job'[k].status = "failed"
      BY <2>1 DEF TypeOK, JobRow
    <2>4. QED
      BY <1>1, <2>1, <2>2, <2>3, ReleaseEnds DEF ActiveJobs, NoTransaction
  <1>11. ASSUME NEW j \in Jobs, FinishJob(j)
        PROVE  CheckStillTrue'
    <2>1. UNCHANGED tx /\ \A k \in Jobs \ {j} : job'[k] = job[k]
      BY <1>11 DEF FinishJob, TypeOK
    <2>2. job'[j].status = "done"
      BY <1>11 DEF FinishJob, TypeOK, JobRow
    <2>3. QED
      BY <1>1, <2>1, <2>2 DEF ActiveJobs
  <1>12. CASE UNCHANGED vars
    BY <1>12 DEF CheckStillTrue, ActiveJobs, vars
  <1>13. QED
    BY <1>3, <1>4, <1>5, <1>6, <1>7, <1>8, <1>9, <1>10, <1>11, <1>12
    DEF Next, IssueCommit, Refuse, Abort

-----------------------------------------------------------------------------
(* The numbers *)

\* What relates the counters, the documents and the jobs.
NumbersInv == DocumentsOfJobs /\ OneActiveJob /\ NoGaps /\ RangeOnTop

\* An individual generation (prepareLiquidationData, the payment orders'
\* generate) keeps the numbers consecutive: nobody took one since its check.
LEMMA IssueCommitNumbers ==
    ASSUME TypeOK, TransactionShape, CheckStillTrue, NumbersInv,
           NEW r \in Requests, IssueCommit(r)
    PROVE  NumbersInv'
  <1>a. PICK c \in Counters : c = tx[r].counter
    BY DEF IssueCommit, TransactionShape
  <1>b. PICK P \in SUBSET Groups : P = tx[r].plan
    BY DEF TypeOK, Transaction
  <1> DEFINE new == NewDocuments(c, P, Null)
  <1>1. IssueDocuments(c, P, Null) /\ UNCHANGED job
    BY <1>a, <1>b DEF IssueCommit
  <1>2. /\ docs' = docs \cup new
        /\ \A x \in Counters \ {c} : lastSequence'[x] = lastSequence[x]
    BY <1>1, IssueEffect
  <1>3. UNCHANGED ActiveJobs /\ \A j \in ActiveJobs : job[j].counter # c
    BY <1>1, <1>a DEF ActiveJobs, CheckStillTrue, IssueCommit
  <1>4. \A d \in new : d.job = Null
    BY NewDocumentsAre
  <1> HIDE DEF new
  <1>5. DocumentsOfJobs'
    BY <1>1, <1>2, <1>3, <1>4, CounterLockAssumption
    DEF NumbersInv, DocumentsOfJobs, HasRange, ActiveJobs
  <1>6. OneActiveJob'
    BY <1>3 DEF NumbersInv, OneActiveJob
  <1>7. NoGaps'
    BY <1>1, IssueNoGaps DEF NumbersInv
  <1>8. RangeOnTop'
    <2>1. ASSUME NEW j \in ActiveJobs
          PROVE  {d \in docs : d.job = j}' = {d \in docs : d.job = j}
      BY <1>2, <1>4, CounterLockAssumption DEF ActiveJobs
    <2>2. \A j \in ActiveJobs : job[j].counter \in Counters
      BY DEF NumbersInv, DocumentsOfJobs
    <2>3. QED
      BY <1>1, <1>2, <1>3, <2>1, <2>2 DEF NumbersInv, RangeOnTop, HasRange
  <1>9. QED
    BY <1>5, <1>6, <1>7, <1>8 DEF NumbersInv

\* The creation of a job (reserve) keeps the numbers consecutive, and the new
\* job's range is the top of its counter.
LEMMA ReserveCommitNumbers ==
    ASSUME TypeOK, TransactionShape, NumbersInv, NEW r \in Requests, ReserveCommit(r)
    PROVE  NumbersInv'
  <1>a. PICK c \in Counters : c = tx[r].counter
    BY DEF ReserveCommit, TransactionShape
  <1>b. PICK j \in Jobs : j = tx[r].job /\ job[j].status = "none"
    BY DEF ReserveCommit, TransactionShape
  <1>c. PICK P \in SUBSET Groups : P = tx[r].plan
    BY DEF TypeOK, Transaction
  <1> DEFINE first == FirstOf(c)
             last  == LastOf(c, P)
             mine  == NewDocuments(c, P, j)
  <1>1. j # Null
    BY CounterLockAssumption
  <1>2. /\ lastSequence[c] \in Nat /\ first \in Nat /\ last \in Nat
        /\ first = lastSequence[c] + 1
        /\ IF P = {} THEN last < first ELSE first <= last
    BY RangeBounds
  <1>3. IssueDocuments(c, P, j) /\ ActiveJobs = {}
    BY <1>a, <1>b, <1>c DEF ReserveCommit, ActiveJobIndexFree
  <1>4. docs' = docs \cup mine /\ lastSequence'[c] = last
    BY <1>3, IssueEffect
  <1>5. /\ job'[j].status = "active" /\ job'[j].counter = c
        /\ job'[j].firstSequence = IF P = {} THEN 0 ELSE first
        /\ job'[j].lastSequence = IF P = {} THEN 0 ELSE last
        /\ \A k \in Jobs \ {j} : job'[k] = job[k]
    BY <1>a, <1>b, <1>c DEF ReserveCommit, TypeOK, FirstOf, LastOf
  <1>6. ActiveJobs' = {j}
    BY <1>3, <1>5 DEF ActiveJobs
  <1>7. mine = {[counter |-> c, sequence |-> n, job |-> j] : n \in first..last}
    BY DEF NewDocuments
  <1>8. \A d \in mine : d.sequence \in first..last /\ d.job = j
    BY NewDocumentsAre
  <1>9. \A d \in docs : d.job # j
    BY <1>1, <1>b DEF NumbersInv, DocumentsOfJobs
  <1> HIDE DEF mine, first, last
  <1>10. DocumentsOfJobs'
    <2>1. ASSUME NEW d \in docs', d.job # Null
          PROVE  job'[d.job].status \in {"active", "done"}
      <3>1. CASE d \in mine
        BY <3>1, <1>5, <1>8
      <3>2. CASE d \in docs
        <4>1. d.job \in Jobs \ {j} /\ job[d.job].status \in {"active", "done"}
          BY <2>1, <3>2, <1>9 DEF NumbersInv, DocumentsOfJobs, TypeOK, Document
        <4>2. QED
          BY <4>1, <1>5
      <3>3. QED
        BY <3>1, <3>2, <1>4
    <2>2. job'[j].counter \in Counters
      BY <1>5
    <2>3. HasRange(j)' => job'[j].firstSequence <= job'[j].lastSequence
      BY <1>2, <1>5 DEF HasRange
    <2>4. ASSUME ~ HasRange(j)'
          PROVE  \A d \in docs' : d.job # j
      <3>1. P = {}
        BY <2>4, <1>2, <1>5 DEF HasRange
      <3>2. first..last = {}
        BY <3>1, <1>2
      <3>3. QED
        BY <3>2, <1>4, <1>8, <1>9
    <2>5. QED
      BY <2>1, <2>2, <2>3, <2>4, <1>6 DEF DocumentsOfJobs
  <1>11. OneActiveJob'
    BY <1>6 DEF OneActiveJob
  <1>12. NoGaps'
    BY <1>3, IssueNoGaps DEF NumbersInv
  <1>13. RangeOnTop'
    <2>1. ASSUME HasRange(j)'
          PROVE  job'[j].firstSequence = first /\ job'[j].lastSequence = last
      BY <2>1, <1>5 DEF HasRange
    <2>2. {d \in docs' : d.job = j} = mine
      BY <1>4, <1>8, <1>9
    <2>3. QED
      BY <2>1, <2>2, <1>4, <1>5, <1>6, <1>7 DEF RangeOnTop
  <1>14. QED
    BY <1>10, <1>11, <1>12, <1>13 DEF NumbersInv

\* The revert of a job takes off exactly the top of its counter: the numbers
\* that are left are still consecutive.
LEMMA RevertCommitNumbers ==
    ASSUME TypeOK, TransactionShape, NumbersInv, NEW r \in Requests, RevertCommit(r)
    PROVE  NumbersInv'
  <1>1. PICK j \in Jobs : j = tx[r].job /\ job[j].status = "active"
    BY DEF RevertCommit, TransactionShape, ActiveJobs
  <1>2. PICK c \in Counters : c = tx[r].counter /\ c = job[j].counter
    BY <1>1 DEF RevertCommit, TransactionShape
  <1>3. PICK first \in Nat : first = job[j].firstSequence
    BY DEF TypeOK, JobRow
  <1>4. PICK last \in Nat : last = job[j].lastSequence
    BY DEF TypeOK, JobRow
  <1>5. docs' = {d \in docs : d.job # j}
    BY <1>1 DEF RevertCommit
  <1>6. job'[j].status = "failed" /\ \A k \in Jobs \ {j} : job'[k] = job[k]
    BY <1>1 DEF RevertCommit, TypeOK, JobRow
  <1>7. ActiveJobs = {j} /\ ActiveJobs' = {}
    BY <1>1, <1>6 DEF ActiveJobs, NumbersInv, OneActiveJob
  <1>8. DocumentsOfJobs'
    <2>1. \A d \in docs' : d.job # Null =>
             d.job \in Jobs \ {j} /\ job[d.job].status \in {"active", "done"}
      BY <1>5 DEF NumbersInv, DocumentsOfJobs, TypeOK, Document
    <2>2. QED
      BY <2>1, <1>6, <1>7 DEF DocumentsOfJobs
  <1>9. OneActiveJob' /\ RangeOnTop'
    BY <1>7 DEF OneActiveJob, RangeOnTop
  <1>10. \A d, e \in docs' : \A x \in Counters :
            d.counter = x /\ e.counter = x /\ d.sequence = e.sequence => d = e
    BY <1>5 DEF NumbersInv, NoGaps
  <1>11. ASSUME NEW x \in Counters
         PROVE  TakenIn(x)' = 1..lastSequence'[x]
    <2>1. TakenIn(x) = 1..lastSequence[x] /\ lastSequence[x] \in Nat
      BY DEF NumbersInv, NoGaps, TypeOK
    <2>2. \A n : n \in TakenIn(x)' <=> \E d \in docs' : d.counter = x /\ d.sequence = n
      BY DEF TakenIn
    <2>3. CASE first = 0
      <3>1. UNCHANGED lastSequence
        BY <2>3, <1>1, <1>3 DEF RevertCommit, HasRange
      <3>2. docs' = docs
        BY <2>3, <1>3, <1>5, <1>7 DEF NumbersInv, DocumentsOfJobs, HasRange
      <3>3. QED
        BY <2>1, <2>2, <3>1, <3>2, TakenMeans
    <2>4. CASE first # 0
      <3>1. HasRange(j)
        BY <2>4, <1>3 DEF HasRange
      <3>2. last = lastSequence[c] /\ first \in 1..last
        BY <3>1, <2>4, <1>2, <1>3, <1>4, <1>7 DEF NumbersInv, RangeOnTop, DocumentsOfJobs
      <3>3. {d \in docs : d.job = j} =
               {[counter |-> c, sequence |-> n, job |-> j] : n \in first..last}
        BY <3>1, <1>2, <1>3, <1>4, <1>7 DEF NumbersInv, RangeOnTop
      <3>4. lastSequence' = [lastSequence EXCEPT ![c] = first - 1]
        BY <3>1, <3>2, <1>1, <1>2, <1>3, <1>4 DEF RevertCommit, CounterAfterRevert, TypeOK
      <3>5. CASE x = c
        <4>1. ASSUME NEW n \in first..last
              PROVE  n \notin TakenIn(c)'
          <5>1. [counter |-> c, sequence |-> n, job |-> j] \in docs
            BY <3>3
          <5>2. \A d \in docs : d.counter = c /\ d.sequence = n =>
                   d = [counter |-> c, sequence |-> n, job |-> j]
            BY <5>1 DEF NumbersInv, NoGaps
          <5>3. QED
            BY <5>2, <3>5, <2>2, <1>5
        <4>2. ASSUME NEW n \in 1..(first - 1)
              PROVE  n \in TakenIn(c)'
          <5>1. n \in TakenIn(c)
            BY <2>1, <3>2, <3>5
          <5>2. PICK d \in docs : d.counter = c /\ d.sequence = n
            BY <5>1, TakenMeans
          <5>3. d.job # j
            <6>1. \A e \in docs : e.job = j => e.sequence \in first..last
              BY <3>3
            <6>2. QED
              BY <5>2, <6>1
          <5>4. QED
            BY <5>2, <5>3, <3>5, <2>2, <1>5
        <4>3. TakenIn(c)' \subseteq TakenIn(c)
          BY <2>2, <3>5, <1>5, TakenMeans
        <4>4. TakenIn(c)' = 1..(first - 1)
          <5>1. ASSUME NEW n \in TakenIn(c)'
                PROVE  n \in 1..(first - 1)
            BY <4>1, <4>3, <2>1, <3>2, <3>5
          <5>2. QED
            BY <4>2, <5>1
        <4>5. QED
          BY <4>4, <3>4, <3>5 DEF TypeOK
      <3>6. CASE x # c
        <4>1. \A d \in docs : d.counter = x => d.job # j
          BY <3>3, <3>6
        <4>2. TakenIn(x)' = TakenIn(x)
          <5>1. \A n : n \in TakenIn(x)' <=> n \in TakenIn(x)
            BY <4>1, <2>2, <1>5, TakenMeans
          <5>2. QED
            BY <5>1
        <4>3. QED
          BY <4>2, <2>1, <3>4, <3>6 DEF TypeOK
      <3>7. QED
        BY <3>5, <3>6
    <2>5. QED
      BY <2>3, <2>4
  <1>12. QED
    BY <1>8, <1>9, <1>10, <1>11 DEF NumbersInv, NoGaps

\* A job that ends well (applyResult) leaves no active job and every number.
LEMMA FinishJobNumbers ==
    ASSUME TypeOK, NumbersInv, NEW j \in Jobs, FinishJob(j)
    PROVE  NumbersInv'
  <1>1. job[j].status = "active" /\ UNCHANGED <<lastSequence, docs>>
    BY DEF FinishJob
  <1>2. job'[j].status = "done" /\ \A k \in Jobs \ {j} : job'[k] = job[k]
    BY DEF FinishJob, TypeOK, JobRow
  <1>3. ActiveJobs' = {}
    BY <1>1, <1>2 DEF ActiveJobs, NumbersInv, OneActiveJob
  <1>4. \A d \in docs : d.job # Null => d.job \in Jobs
    BY DEF TypeOK, Document
  <1>5. QED
    BY <1>1, <1>2, <1>3, <1>4
    DEF NumbersInv, DocumentsOfJobs, OneActiveJob, NoGaps, RangeOnTop, TakenIn

\* The numbers keep their shape in every step.
LEMMA NumbersStep ==
    TypeOK /\ TransactionShape /\ CheckStillTrue /\ NumbersInv /\ [Next]_vars => NumbersInv'
  <1> SUFFICES ASSUME TypeOK, TransactionShape, CheckStillTrue, NumbersInv, [Next]_vars
               PROVE  NumbersInv'
    OBVIOUS
  <1>1. CASE UNCHANGED <<lastSequence, docs, job>>
    BY <1>1 DEF NumbersInv, DocumentsOfJobs, OneActiveJob, NoGaps, RangeOnTop,
                TakenIn, ActiveJobs, HasRange
  <1>2. ASSUME NEW r \in Requests, IssueCommit(r)
        PROVE  NumbersInv'
    BY <1>2, IssueCommitNumbers
  <1>3. ASSUME NEW r \in Requests, ReserveCommit(r)
        PROVE  NumbersInv'
    BY <1>3, ReserveCommitNumbers
  <1>4. ASSUME NEW r \in Requests, RevertCommit(r)
        PROVE  NumbersInv'
    BY <1>4, RevertCommitNumbers
  <1>5. ASSUME NEW j \in Jobs, FinishJob(j)
        PROVE  NumbersInv'
    BY <1>5, FinishJobNumbers
  <1>6. QED
    BY <1>1, <1>2, <1>3, <1>4, <1>5
    DEF Next, PlanIssue, PlanReserve, LockCounter, IssueCheck, LockJob, Refuse, Abort, vars

-----------------------------------------------------------------------------
(* The invariant and the theorems *)

\* An empty database, with no transaction running, satisfies the invariant.
LEMMA InitIInv == Init => IInv
  <1> SUFFICES ASSUME Init PROVE IInv
    OBVIOUS
  <1> USE CounterLockAssumption DEF Init
  <1>1. NoTransaction \in Transaction
    BY DEF NoTransaction, Transaction
  <1>2. TypeOK
    BY <1>1 DEF TypeOK, JobRow
  <1>3. ActiveJobs = {}
    BY DEF ActiveJobs
  <1>4. TransactionShape /\ LocksHeld /\ CheckStillTrue
    BY DEF TransactionShape, LocksHeld, CheckStillTrue, NoTransaction
  <1>5. DocumentsOfJobs /\ OneActiveJob /\ RangeOnTop
    BY <1>3 DEF DocumentsOfJobs, OneActiveJob, RangeOnTop
  <1>6. NoGaps
    BY DEF NoGaps, TakenIn
  <1>7. QED
    BY <1>2, <1>4, <1>5, <1>6 DEF IInv

\* Every step keeps the invariant.
LEMMA NextIInv == IInv /\ [Next]_vars => IInv'
  BY TypeStep, ShapeStep, LocksStep, CheckStep, NumbersStep DEF IInv, NumbersInv

\* The inductive invariant holds in every reachable state of CounterLock.
THEOREM Invariant == Spec => []IInv
  BY InitIInv, NextIInv, PTL DEF Spec

\* The counters, documents, links, jobs and transactions keep their types.
THEOREM TypeCorrect == Spec => []TypeOK
  <1>1. IInv => TypeOK
    BY DEF IInv
  <1>2. QED
    BY <1>1, Invariant, PTL

\* The numbers of a counter are consecutive and each names one document.
THEOREM NumbersConsecutive == Spec => []NoGaps
  <1>1. IInv => NoGaps
    BY DEF IInv
  <1>2. QED
    BY <1>1, Invariant, PTL

\* The range of an active job is always the one counterAfterRevert hands back.
THEOREM RangeStaysOnTop == Spec => []RangeOnTop
  <1>1. IInv => RangeOnTop
    BY DEF IInv
  <1>2. QED
    BY <1>1, Invariant, PTL

\* The two together: no gap, no duplicate, and every job's range on top.
THEOREM NumbersContiguous == Spec => []Contiguous
  <1>1. IInv => Contiguous
    BY DEF IInv, Contiguous
  <1>2. QED
    BY <1>1, Invariant, PTL

\* A municipality never has two active jobs.
THEOREM OneJobAtATime == Spec => []OneActiveJob
  <1>1. IInv => OneActiveJob
    BY DEF IInv
  <1>2. QED
    BY <1>1, Invariant, PTL

\* Only the documents of a job that is still active are ever deleted.
THEOREM IssuedStays == Spec => IssuedForGood
  <1> DEFINE TakenBack == \A d \in docs \ docs' : d.job # Null /\ job[d.job].status = "active"
  <1>1. IInv /\ [Next]_vars => TakenBack
    <2> SUFFICES ASSUME IInv, [Next]_vars PROVE TakenBack
      OBVIOUS
    <2>1. CASE docs \subseteq docs'
      BY <2>1
    <2>2. ASSUME NEW r \in Requests, RevertCommit(r)
          PROVE  TakenBack
      <3>1. tx[r].job \in Jobs /\ job[tx[r].job].status = "active"
        BY <2>2 DEF IInv, RevertCommit, TransactionShape, ActiveJobs
      <3>2. \A d \in docs \ docs' : d.job = tx[r].job
        BY <2>2 DEF RevertCommit
      <3>3. QED
        BY <3>1, <3>2, CounterLockAssumption
    <2>3. QED
      BY <2>1, <2>2 DEF Next, PlanIssue, PlanReserve, LockCounter, IssueCheck, LockJob, Refuse,
                        Abort, vars, IssueCommit, ReserveCommit, IssueDocuments, FinishJob
  <1>2. QED
    BY <1>1, Invariant, PTL DEF Spec, IssuedForGood

-----------------------------------------------------------------------------
(* The revert of a job *)

\* The range of an active job: the last numbers of its counter, its documents.
LEMMA RangeOfJob ==
    ASSUME IInv, NEW j \in ActiveJobs, HasRange(j)
    PROVE  /\ job[j].counter \in Counters
           /\ job[j].firstSequence \in Nat \ {0} /\ job[j].lastSequence \in Nat
           /\ job[j].firstSequence <= job[j].lastSequence
           /\ job[j].lastSequence = lastSequence[job[j].counter]
           /\ {d \in docs : d.job = j} =
                 {[counter |-> job[j].counter, sequence |-> n, job |-> j] :
                     n \in job[j].firstSequence..job[j].lastSequence}
  <1>1. job[j] \in JobRow
    BY DEF IInv, TypeOK, ActiveJobs
  <1>2. QED
    BY <1>1 DEF IInv, DocumentsOfJobs, RangeOnTop, HasRange, JobRow

\* What a revert does: the counter loses the job's range and nothing more, the
\* job's documents go and the groups that pointed at them are pending again.
LEMMA RevertEffect ==
    ASSUME IInv, NEW r \in Requests, RevertCommit(r)
    PROVE  \E j \in Jobs, c \in Counters :
              /\ ActiveJobs = {j} /\ c = job[j].counter
              /\ lastSequence' =
                    IF HasRange(j) THEN [lastSequence EXCEPT ![c] = job[j].firstSequence - 1]
                                   ELSE lastSequence
              /\ docs' = {d \in docs : d.job # j}
              /\ Unlink({<<d.counter, d.sequence>> : d \in {e \in docs : e.job = j}})
              /\ job'[j].status = "failed"
              /\ \A k \in Jobs \ {j} : job'[k] = job[k]
  <1>1. PICK j \in Jobs : j = tx[r].job /\ job[j].status = "active"
    BY DEF IInv, RevertCommit, TransactionShape, ActiveJobs
  <1>2. PICK c \in Counters : c = tx[r].counter /\ c = job[j].counter
    BY <1>1 DEF IInv, RevertCommit, TransactionShape
  <1>3. ActiveJobs = {j}
    BY <1>1 DEF IInv, ActiveJobs, OneActiveJob
  <1>4. lastSequence' =
           IF HasRange(j) THEN [lastSequence EXCEPT ![c] = job[j].firstSequence - 1]
                          ELSE lastSequence
    <2>1. CASE HasRange(j)
      <3>1. job[j].lastSequence = lastSequence[c]
        BY <2>1, <1>2, <1>3, RangeOfJob
      <3>2. CounterAfterRevert(lastSequence[c], job[j].firstSequence, job[j].lastSequence)
               = job[j].firstSequence - 1
        BY <3>1 DEF CounterAfterRevert
      <3>3. QED
        BY <2>1, <3>2, <1>1, <1>2 DEF RevertCommit
    <2>2. CASE ~ HasRange(j)
      BY <2>2, <1>1 DEF RevertCommit
    <2>3. QED
      BY <2>1, <2>2
  <1>5. /\ docs' = {d \in docs : d.job # j}
        /\ Unlink({<<d.counter, d.sequence>> : d \in {e \in docs : e.job = j}})
    BY <1>1 DEF RevertCommit
  <1>6. job'[j].status = "failed" /\ \A k \in Jobs \ {j} : job'[k] = job[k]
    BY <1>1 DEF IInv, RevertCommit, TypeOK, JobRow
  <1>7. QED
    BY <1>2, <1>3, <1>4, <1>5, <1>6

\* Only a revert makes a job fail.
LEMMA OnlyRevertFails ==
    ASSUME IInv, [Next]_vars, NEW j \in Jobs,
           job[j].status = "active", job'[j].status = "failed"
    PROVE  \E r \in Requests : RevertCommit(r)
  <1>1. ASSUME NEW r \in Requests, ReserveCommit(r)
        PROVE  FALSE
    BY <1>1 DEF ReserveCommit, ActiveJobIndexFree, ActiveJobs
  <1>2. ASSUME NEW i \in Jobs, FinishJob(i)
        PROVE  FALSE
    <2>1. job[i] \in JobRow /\ job' = [job EXCEPT ![i].status = "done"]
      BY <1>2 DEF FinishJob, IInv, TypeOK
    <2>2. job'[i].status = "done" /\ \A k \in Jobs \ {i} : job'[k] = job[k]
      BY <2>1 DEF IInv, TypeOK, JobRow
    <2>3. QED
      BY <2>2
  <1>3. ~ UNCHANGED job
    OBVIOUS
  <1>4. QED
    BY <1>1, <1>2, <1>3
    DEF Next, PlanIssue, PlanReserve, LockCounter, IssueCheck, IssueCommit, LockJob,
        Refuse, Abort, vars

\* A revert takes its own job back and nothing else: the counter returns to
\* the value it had before the job, every other counter and document stays,
\* and only groups linked to the job's documents are pending again.
THEOREM RevertIsExact == Spec => RevertUndoesOnlyItsJob
  <1> DEFINE Exact ==
        \A j \in Jobs : job[j].status = "active" /\ job'[j].status = "failed" =>
          /\ docs' = {d \in docs : d.job # j}
          /\ \A c \in Counters :
                lastSequence'[c] = IF HasRange(j) /\ c = job[j].counter
                                   THEN job[j].firstSequence - 1
                                   ELSE lastSequence[c]
          /\ \A k \in Kinds, g \in Groups :
                link'[k][g] # link[k][g] =>
                    \E d \in docs : d.job = j /\ link[k][g] = <<d.counter, d.sequence>>
  <1>1. IInv /\ [Next]_vars => Exact
    <2> SUFFICES ASSUME IInv, [Next]_vars, NEW j \in Jobs,
                        job[j].status = "active", job'[j].status = "failed"
                 PROVE  /\ docs' = {d \in docs : d.job # j}
                        /\ \A c \in Counters :
                              lastSequence'[c] = IF HasRange(j) /\ c = job[j].counter
                                                 THEN job[j].firstSequence - 1
                                                 ELSE lastSequence[c]
                        /\ \A k \in Kinds, g \in Groups :
                              link'[k][g] # link[k][g] =>
                                 \E d \in docs :
                                    d.job = j /\ link[k][g] = <<d.counter, d.sequence>>
      OBVIOUS
    <2>1. PICK r \in Requests : RevertCommit(r)
      BY OnlyRevertFails
    <2>2. PICK i \in Jobs, c \in Counters :
              /\ ActiveJobs = {i} /\ c = job[i].counter
              /\ lastSequence' =
                    IF HasRange(i) THEN [lastSequence EXCEPT ![c] = job[i].firstSequence - 1]
                                   ELSE lastSequence
              /\ docs' = {d \in docs : d.job # i}
              /\ Unlink({<<d.counter, d.sequence>> : d \in {e \in docs : e.job = i}})
      BY <2>1, RevertEffect
    <2>3. i = j
      BY <2>2 DEF ActiveJobs
    <2>4. \A x \in Counters :
             lastSequence'[x] = IF HasRange(j) /\ x = job[j].counter
                                THEN job[j].firstSequence - 1 ELSE lastSequence[x]
      BY <2>2, <2>3 DEF IInv, TypeOK
    <2>5. ASSUME NEW k \in Kinds, NEW g \in Groups, link'[k][g] # link[k][g]
          PROVE  \E d \in docs : d.job = j /\ link[k][g] = <<d.counter, d.sequence>>
      <3>1. link[k][g] \in {<<d.counter, d.sequence>> : d \in {e \in docs : e.job = j}}
        BY <2>2, <2>3, <2>5 DEF Unlink
      <3>2. QED
        BY <3>1
    <2>6. QED
      BY <2>2, <2>3, <2>4, <2>5
  <1>2. QED
    BY <1>1, Invariant, PTL DEF Spec, RevertUndoesOnlyItsJob

-----------------------------------------------------------------------------
(* Links and documents *)

\* The groups that have a document of kind k, the numbers they point at, and
\* the numbers of the documents of that kind.
LinkedTo(k) == {g \in Groups : link[k][g] # Null}

NumbersLinked(k) == {link[k][g] : g \in LinkedTo(k)}

NumbersOf(k) == {<<d.counter, d.sequence>> : d \in {e \in docs : KindOf[e.counter] = k}}

\* LinksMatchDocuments for one kind.
LinksOf(k) ==
    /\ NumbersLinked(k) = NumbersOf(k)
    /\ \A g, h \in LinkedTo(k) : link[k][g] = link[k][h] => g = h

\* LinksMatchDocuments, kind by kind.
LEMMA LinksByKind == LinksMatchDocuments <=> \A k \in Kinds : LinksOf(k)
  BY DEF LinksMatchDocuments, LinksOf, LinkedTo, NumbersLinked, NumbersOf

\* As many numbers as groups, one each: every number of the range is given.
LEMMA NumbersAllGiven ==
    ASSUME NEW P \in SUBSET Groups, NEW base \in Nat,
           NEW number \in [P -> (base + 1)..(base + Cardinality(P))],
           \A g, h \in P : number[g] = number[h] => g = h
    PROVE  \A n \in (base + 1)..(base + Cardinality(P)) : \E g \in P : number[g] = n
  <1>1. PICK size \in Nat : size = Cardinality(P)
    BY PlanSize
  <1> DEFINE T == (base + 1)..(base + size)
  <1>2. IsFiniteSet(T) /\ Cardinality(T) = size
    <2>1. base + 1 \in Int /\ base + size \in Int
      BY <1>1
    <2>2. /\ IsFiniteSet(T)
          /\ Cardinality(T) = IF base + 1 > base + size THEN 0
                              ELSE base + size - (base + 1) + 1
      BY <2>1, FS_Interval
    <2>3. QED
      BY <2>2, <1>1
  <1> HIDE DEF T
  <1>3. number \in [P -> T]
    BY <1>1 DEF T
  <1>4. number \in Injection(P, T)
    BY <1>3 DEF Injection, IsInjective
  <1>5. number \in Surjection(P, T)
    BY <1>1, <1>2, <1>4, FS_Injection
  <1>6. QED
    BY <1>5, <1>1 DEF Surjection, T

\* Issuing documents links each group of the plan to one of the new documents.
LEMMA IssueLinks ==
    ASSUME IInv, LinksMatchDocuments, NEW c \in Counters, NEW P \in SUBSET Groups,
           NEW owner, IssueDocuments(c, P, owner)
    PROVE  LinksMatchDocuments'
  <1> USE CounterLockAssumption
  <1>1. PICK base \in Nat : base = lastSequence[c]
    BY DEF IInv, TypeOK
  <1>2. PICK size \in Nat : size = Cardinality(P)
    BY PlanSize
  <1> DEFINE range == (base + 1)..(base + size)
             new == NewDocuments(c, P, owner)
  <1>3. PICK number \in [P -> range] :
           /\ \A g, h \in P : number[g] = number[h] => g = h
           /\ link' = [link EXCEPT ![KindOf[c]] =
                         [g \in Groups |-> IF g \in P THEN <<c, number[g]>> ELSE @[g]]]
    BY <1>1, <1>2 DEF IssueDocuments
  <1>4. \A n \in range : \E g \in P : number[g] = n
    BY <1>1, <1>2, <1>3, NumbersAllGiven
  <1>5. docs' = docs \cup new /\ P \subseteq Unlinked(KindOf[c]) /\ range \cap TakenIn(c) = {}
    BY <1>1, <1>2 DEF IssueDocuments, NewDocuments, FirstOf, LastOf
  <1>6. /\ \A d \in new : d.counter = c /\ d.sequence \in range
        /\ \A n \in range : [counter |-> c, sequence |-> n, job |-> owner] \in new
    BY <1>1, <1>2, NewDocumentsAre DEF FirstOf, LastOf
  <1>7. PICK k \in Kinds : k = KindOf[c]
    OBVIOUS
  <1>8. \A x \in Kinds : LinksOf(x)
    BY LinksByKind
  <1> HIDE DEF new, range
  <1>9. /\ \A g \in P : link'[k][g] = <<c, number[g]>> /\ link[k][g] = Null
        /\ \A g \in Groups \ P : link'[k][g] = link[k][g]
        /\ \A x \in Kinds \ {k} : link'[x] = link[x]
    BY <1>3, <1>5, <1>7 DEF IInv, TypeOK, Unlinked
  <1>10. \A g \in P : number[g] \in range /\ number[g] \in Nat /\ <<c, number[g]>> # Null
    <2>1. range \subseteq Nat
      BY DEF range
    <2>2. \A g \in P : number[g] \in range
      BY <1>3
    <2>3. \A n \in Nat : <<c, n>> \in Counters \X Nat
      OBVIOUS
    <2>4. \A n \in Nat : <<c, n>> # Null
      BY <2>3
    <2>5. QED
      BY <2>1, <2>2, <2>4
  <1>11. ASSUME NEW x \in Kinds \ {k}
         PROVE  LinksOf(x)'
    <2>1. NumbersOf(x)' = NumbersOf(x)
      BY <1>5, <1>6, <1>7, <1>11 DEF NumbersOf
    <2>2. LinkedTo(x)' = LinkedTo(x) /\ NumbersLinked(x)' = NumbersLinked(x)
      BY <1>9 DEF LinkedTo, NumbersLinked
    <2>3. QED
      BY <2>1, <2>2, <1>8, <1>9 DEF LinksOf
  <1>12. LinksOf(k)'
    <2>1. LinkedTo(k)' = LinkedTo(k) \cup P
      <3>1. \A g \in Groups : link'[k][g] # Null <=> link[k][g] # Null \/ g \in P
        BY <1>9, <1>10
      <3>2. QED
        BY <3>1 DEF LinkedTo
    <2>2. LinkedTo(k) \cap P = {}
      BY <1>9 DEF LinkedTo
    <2>3. \A g \in LinkedTo(k) : link'[k][g] = link[k][g] /\ link[k][g] \in NumbersOf(k)
      BY <2>2, <1>8, <1>9 DEF LinksOf, NumbersLinked, LinkedTo
    <2>4. NumbersOf(k)' = NumbersOf(k) \cup {<<c, n>> : n \in range}
      <3>1. NumbersOf(k)' = NumbersOf(k) \cup {<<d.counter, d.sequence>> : d \in new}
        BY <1>5, <1>6, <1>7 DEF NumbersOf
      <3>2. {<<d.counter, d.sequence>> : d \in new} = {<<c, n>> : n \in range}
        <4>1. ASSUME NEW n \in range
              PROVE  <<c, n>> \in {<<d.counter, d.sequence>> : d \in new}
          <5>1. [counter |-> c, sequence |-> n, job |-> owner] \in new
            BY <1>6
          <5>2. QED
            BY <5>1
        <4>2. ASSUME NEW d \in new
              PROVE  <<d.counter, d.sequence>> \in {<<c, n>> : n \in range}
          BY <1>6
        <4>3. QED
          BY <4>1, <4>2
      <3>3. QED
        BY <3>1, <3>2
    <2>5. NumbersLinked(k)' = NumbersLinked(k) \cup {<<c, n>> : n \in range}
      <3>1. {link'[k][g] : g \in P} = {<<c, n>> : n \in range}
        <4>1. ASSUME NEW g \in P
              PROVE  link'[k][g] \in {<<c, n>> : n \in range}
          <5>1. link'[k][g] = <<c, number[g]>> /\ number[g] \in range
            BY <1>9, <1>10
          <5>2. QED
            BY <5>1
        <4>2. ASSUME NEW n \in range
              PROVE  <<c, n>> \in {link'[k][g] : g \in P}
          <5>1. PICK g \in P : number[g] = n
            BY <1>4
          <5>2. link'[k][g] = <<c, n>>
            BY <5>1, <1>9
          <5>3. QED
            BY <5>2
        <4>3. QED
          BY <4>1, <4>2
      <3>2. {link'[k][g] : g \in LinkedTo(k)} = NumbersLinked(k)
        BY <2>3 DEF NumbersLinked
      <3>3. QED
        BY <3>1, <3>2, <2>1 DEF NumbersLinked
    <2>6. \A n \in range : <<c, n>> \notin NumbersOf(k)
      <3>1. ASSUME NEW n \in range, <<c, n>> \in NumbersOf(k)
            PROVE  FALSE
        <4>1. PICK d \in docs : <<d.counter, d.sequence>> = <<c, n>>
          BY <3>1 DEF NumbersOf
        <4>2. n \in TakenIn(c)
          BY <4>1 DEF TakenIn
        <4>3. QED
          BY <4>2, <1>5
      <3>2. QED
        BY <3>1
    <2>7. ASSUME NEW g \in LinkedTo(k)', NEW h \in LinkedTo(k)', link'[k][g] = link'[k][h]
          PROVE  g = h
      <3>1. CASE g \in LinkedTo(k) /\ h \in LinkedTo(k)
        BY <3>1, <2>3, <2>7, <1>8 DEF LinksOf
      <3>2. CASE g \in P /\ h \in P
        <4>1. <<c, number[g]>> = <<c, number[h]>>
          BY <3>2, <2>7, <1>9
        <4>2. number[g] = number[h]
          BY <4>1
        <4>3. QED
          BY <4>2, <3>2, <1>3
      <3>3. CASE (g \in P /\ h \in LinkedTo(k)) \/ (h \in P /\ g \in LinkedTo(k))
        <4>1. ASSUME NEW x \in P
              PROVE  link'[k][x] \notin NumbersOf(k)
          <5>1. link'[k][x] = <<c, number[x]>> /\ number[x] \in range
            BY <1>9, <1>10
          <5>2. <<c, number[x]>> \notin NumbersOf(k)
            BY <5>1, <2>6
          <5>3. QED
            BY <5>1, <5>2
        <4>2. \A x \in LinkedTo(k) : link'[k][x] \in NumbersOf(k)
          BY <2>3
        <4>3. QED
          BY <4>1, <4>2, <3>3, <2>7
      <3>4. QED
        BY <3>1, <3>2, <3>3, <2>1
    <2>8. QED
      BY <2>4, <2>5, <2>7, <1>8 DEF LinksOf
  <1>13. \A x \in Kinds : LinksOf(x)'
    BY <1>11, <1>12
  <1>14. QED
    BY <1>13 DEF LinksMatchDocuments, LinksOf, LinkedTo, NumbersLinked, NumbersOf

\* A revert unlinks exactly the groups whose documents it deletes.
LEMMA RevertLinks ==
    ASSUME IInv, LinksMatchDocuments, NEW r \in Requests, RevertCommit(r)
    PROVE  LinksMatchDocuments'
  <1>1. PICK j \in Jobs, c \in Counters :
          /\ docs' = {d \in docs : d.job # j}
          /\ Unlink({<<d.counter, d.sequence>> : d \in {e \in docs : e.job = j}})
    BY RevertEffect
  <1> DEFINE gone == {<<d.counter, d.sequence>> : d \in {e \in docs : e.job = j}}
  <1>2. link' = [k \in Kinds |-> [g \in Groups |->
                   IF link[k][g] \in gone THEN Null ELSE link[k][g]]]
    BY <1>1 DEF Unlink
  <1>3. \A d \in docs : <<d.counter, d.sequence>> \in gone <=> d.job = j
    <2>1. \A d, e \in docs : d.counter \in Counters
                               /\ (d.counter = e.counter /\ d.sequence = e.sequence => d = e)
      BY DEF IInv, TypeOK, Document, NoGaps
    <2>2. QED
      BY <2>1
  <1> HIDE DEF gone
  <1>4. ASSUME NEW k \in Kinds
        PROVE  LinksOf(k)'
    <2>1. LinksOf(k)
      BY LinksByKind
    <2>2. NumbersOf(k)' = NumbersOf(k) \ gone
      BY <1>1, <1>3 DEF NumbersOf
    <2>3. \A g \in Groups : link'[k][g] = IF link[k][g] \in gone THEN Null ELSE link[k][g]
      BY <1>2
    <2>4. LinkedTo(k)' = {g \in LinkedTo(k) : link[k][g] \notin gone}
      BY <2>3 DEF LinkedTo
    <2>5. \A g \in LinkedTo(k)' : g \in LinkedTo(k) /\ link'[k][g] = link[k][g]
      BY <2>3, <2>4 DEF LinkedTo
    <2>6. NumbersLinked(k)' = NumbersLinked(k) \ gone
      BY <2>4, <2>5 DEF NumbersLinked
    <2>7. QED
      BY <2>1, <2>2, <2>5, <2>6 DEF LinksOf
  <1>5. QED
    BY <1>4 DEF LinksMatchDocuments, LinksOf, LinkedTo, NumbersLinked, NumbersOf

\* A settlement's link and its document always say the same number: every
\* linked group has its own document, and no document is left without a group.
THEOREM LinksAlwaysMatch == Spec => []LinksMatchDocuments
  <1>1. Init => LinksMatchDocuments
    BY DEF Init, LinksMatchDocuments
  <1>2. IInv /\ LinksMatchDocuments /\ [Next]_vars => LinksMatchDocuments'
    <2> SUFFICES ASSUME IInv, LinksMatchDocuments, [Next]_vars
                 PROVE  LinksMatchDocuments'
      OBVIOUS
    <2>1. ASSUME NEW r \in Requests, IssueCommit(r)
          PROVE  LinksMatchDocuments'
      <3>1. PICK c \in Counters : c = tx[r].counter
        BY <2>1 DEF IInv, IssueCommit, TransactionShape
      <3>2. PICK P \in SUBSET Groups : P = tx[r].plan
        BY DEF IInv, TypeOK, Transaction
      <3>3. QED
        BY <2>1, <3>1, <3>2, IssueLinks DEF IssueCommit
    <2>2. ASSUME NEW r \in Requests, ReserveCommit(r)
          PROVE  LinksMatchDocuments'
      <3>1. PICK c \in Counters : c = tx[r].counter
        BY <2>2 DEF IInv, ReserveCommit, TransactionShape
      <3>2. PICK P \in SUBSET Groups : P = tx[r].plan
        BY DEF IInv, TypeOK, Transaction
      <3>3. PICK j : j = tx[r].job
        OBVIOUS
      <3>4. QED
        BY <2>2, <3>1, <3>2, <3>3, IssueLinks DEF ReserveCommit
    <2>3. ASSUME NEW r \in Requests, RevertCommit(r)
          PROVE  LinksMatchDocuments'
      BY <2>3, RevertLinks
    <2>4. CASE UNCHANGED <<docs, link>>
      BY <2>4 DEF LinksMatchDocuments
    <2>5. QED
      BY <2>1, <2>2, <2>3, <2>4
      DEF Next, PlanIssue, PlanReserve, LockCounter, IssueCheck, LockJob, Refuse, Abort,
          FinishJob, vars
  <1>3. QED
    BY <1>1, <1>2, Invariant, PTL DEF Spec

-----------------------------------------------------------------------------
(* The refinement of NumberBook *)

\* The book the refinement reads: who issued each number, and the open ranges.
BookBy == [c \in Counters |-> [n \in 1..lastSequence[c] |-> OwnerOf(c, n)]]

BookOpen == [j \in Jobs |-> OpenRange(j)]

NoRange == [counter |-> Null, size |-> 0]

\* The last n entries of the book of c are the job's and go.
TakenOff(j, c, n) ==
    /\ \A i \in (lastSequence[c] - n + 1)..lastSequence[c] : BookBy[c][i] = j
    /\ lastSequence' = [lastSequence EXCEPT ![c] = @ - n]
    /\ BookBy' = [BookBy EXCEPT ![c] = [i \in 1..(lastSequence[c] - n) |-> BookBy[c][i]]]

\* A function that differs from another in one point.
LEMMA OneChanged ==
    ASSUME NEW S, NEW f, NEW g, NEW x \in S, NEW v,
           f = [y \in S |-> f[y]], g = [y \in S |-> g[y]],
           g[x] = v, \A y \in S \ {x} : g[y] = f[y]
    PROVE  g = [f EXCEPT ![x] = v]
  OBVIOUS

\* Only the range of job j changes in the book.
LEMMA RangeSet ==
    ASSUME NEW j \in Jobs, NEW v, OpenRange(j)' = v,
           \A k \in Jobs \ {j} : OpenRange(k)' = OpenRange(k)
    PROVE  BookOpen' = [BookOpen EXCEPT ![j] = v]
  <1>1. /\ BookOpen = [k \in Jobs |-> BookOpen[k]]
        /\ BookOpen' = [k \in Jobs |-> BookOpen'[k]]
    BY DEF BookOpen
  <1>2. \A k \in Jobs : BookOpen[k] = OpenRange(k)
    BY DEF BookOpen
  <1>3. \A k \in Jobs : BookOpen'[k] = OpenRange(k)'
    BY DEF BookOpen
  <1>4. QED
    BY <1>1, <1>2, <1>3, OneChanged

\* A document that is the only one with its number is the one CHOOSE finds.
LEMMA OwnerChosen ==
    ASSUME NEW S, NEW d \in S,
           \A e \in S : e.counter = d.counter /\ e.sequence = d.sequence => e = d
    PROVE  (CHOOSE e \in S : e.counter = d.counter /\ e.sequence = d.sequence) = d
  OBVIOUS

\* The book names the owner of each number: that of its document.
LEMMA OwnerOfDocument ==
    ASSUME NoGaps, NEW d \in docs, d.counter \in Counters
    PROVE  OwnerOf(d.counter, d.sequence) = d.job
  <1>1. \A e \in docs : e.counter = d.counter /\ e.sequence = d.sequence => e = d
    BY DEF NoGaps
  <1>2. QED
    BY <1>1, OwnerChosen DEF OwnerOf

\* The same after a step.
LEMMA OwnerOfDocumentNext ==
    ASSUME NoGaps', NEW d \in docs', d.counter \in Counters
    PROVE  OwnerOf(d.counter, d.sequence)' = d.job
  <1>1. \A e \in docs' : e.counter = d.counter /\ e.sequence = d.sequence => e = d
    BY DEF NoGaps
  <1>2. (CHOOSE e \in docs' : e.counter = d.counter /\ e.sequence = d.sequence) = d
    BY <1>1, OwnerChosen
  <1>3. QED
    BY <1>2 DEF OwnerOf

\* A number keeps its owner in a step that keeps its document.
LEMMA OwnerKept ==
    ASSUME NoGaps, NoGaps', NEW c \in Counters, NEW n \in 1..lastSequence[c],
           \A d \in docs : d.counter = c /\ d.sequence = n => d \in docs'
    PROVE  OwnerOf(c, n)' = OwnerOf(c, n)
  <1>1. n \in TakenIn(c)
    BY DEF NoGaps
  <1>2. PICK d \in docs : d.counter = c /\ d.sequence = n
    BY <1>1, TakenMeans
  <1>3. QED
    BY <1>2, OwnerOfDocument, OwnerOfDocumentNext

\* What a job that is not active, or one that is, has open in the book.
LEMMA OpenRangeIs ==
    ASSUME IInv, NEW j \in Jobs
    PROVE  /\ job[j].status # "active" => OpenRange(j) = NoRange
           /\ job[j].status = "active" =>
                 /\ OpenRange(j).counter = job[j].counter
                 /\ OpenRange(j).size = IF HasRange(j)
                       THEN job[j].lastSequence - job[j].firstSequence + 1 ELSE 0
                 /\ job[j].counter \in Counters
                 /\ OpenRange(j) # NoRange
  <1>1. job[j].status = "active" => job[j].counter \in Counters
    BY DEF IInv, DocumentsOfJobs, ActiveJobs
  <1>2. QED
    BY <1>1, CounterLockAssumption DEF OpenRange, NoRange

\* Issuing adds as many entries as the plan has groups, all of the owner.
LEMMA IssueAdds ==
    ASSUME IInv, IInv', NEW c \in Counters, NEW P \in SUBSET Groups, NEW owner,
           IssueDocuments(c, P, owner)
    PROVE  /\ lastSequence' = [lastSequence EXCEPT ![c] = @ + Cardinality(P)]
           /\ BookBy' = [BookBy EXCEPT ![c] =
                 [i \in 1..(lastSequence[c] + Cardinality(P)) |->
                    IF i <= lastSequence[c] THEN BookBy[c][i] ELSE owner]]
  <1>1. PICK size \in Nat : size = Cardinality(P)
    BY PlanSize
  <1>2. PICK base \in Nat : base = lastSequence[c]
    BY DEF IInv, TypeOK
  <1>3. /\ docs' = docs \cup NewDocuments(c, P, owner)
        /\ lastSequence' = [lastSequence EXCEPT ![c] = base + size]
        /\ lastSequence'[c] = base + size
        /\ \A x \in Counters \ {c} : lastSequence'[x] = lastSequence[x]
    BY <1>1, <1>2, IssueEffect DEF IInv, LastOf
  <1>4. ASSUME NEW x \in Counters, NEW n \in 1..lastSequence[x]
        PROVE  OwnerOf(x, n)' = OwnerOf(x, n)
    BY <1>3, OwnerKept DEF IInv
  <1>5. ASSUME NEW n \in (base + 1)..(base + size)
        PROVE  OwnerOf(c, n)' = owner
    <2>1. [counter |-> c, sequence |-> n, job |-> owner] \in docs'
      BY <1>1, <1>2, <1>3, NewDocumentsAre DEF FirstOf, LastOf
    <2>2. QED
      BY <2>1, OwnerOfDocumentNext DEF IInv
  <1> DEFINE page == [i \in 1..(base + size) |->
                        IF i <= base THEN BookBy[c][i] ELSE owner]
  <1>6. BookBy'[c] = page
    <2>1. BookBy'[c] = [n \in 1..(base + size) |-> OwnerOf(c, n)']
      BY <1>3 DEF BookBy
    <2>2. BookBy[c] = [n \in 1..base |-> OwnerOf(c, n)]
      BY <1>2 DEF BookBy
    <2>3. ASSUME NEW n \in 1..(base + size)
          PROVE  OwnerOf(c, n)' = page[n]
      <3>1. CASE n <= base
        <4>1. n \in 1..base
          BY <3>1
        <4>2. OwnerOf(c, n)' = OwnerOf(c, n)
          BY <4>1, <1>2, <1>4
        <4>3. page[n] = OwnerOf(c, n)
          BY <3>1, <4>1, <2>2
        <4>4. QED
          BY <4>2, <4>3
      <3>2. CASE n > base
        <4>1. n \in (base + 1)..(base + size) /\ ~ n <= base
          BY <3>2
        <4>2. OwnerOf(c, n)' = owner
          BY <4>1, <1>5
        <4>3. QED
          BY <4>1, <4>2
      <3>3. QED
        BY <3>1, <3>2
    <2>4. QED
      BY <2>1, <2>3
  <1>7. ASSUME NEW x \in Counters \ {c}
        PROVE  BookBy'[x] = BookBy[x]
    BY <1>3, <1>4 DEF BookBy
  <1>8. BookBy' = [BookBy EXCEPT ![c] = page]
    <2>1. /\ BookBy = [x \in Counters |-> BookBy[x]]
          /\ BookBy' = [x \in Counters |-> BookBy'[x]]
      BY DEF BookBy
    <2> HIDE DEF page
    <2>2. QED
      BY <2>1, <1>6, <1>7
  <1>9. QED
    BY <1>1, <1>2, <1>3, <1>8

\* An individual generation is an Issue of the book, on no open range.
LEMMA IssueIsAStep ==
    ASSUME IInv, IInv', NEW r \in Requests, IssueCommit(r)
    PROVE  Book!Next \/ UNCHANGED <<lastSequence, BookBy, BookOpen>>
  <1>1. PICK c \in Counters : c = tx[r].counter
    BY DEF IInv, IssueCommit, TransactionShape
  <1>2. PICK P \in SUBSET Groups : P = tx[r].plan
    BY DEF IInv, TypeOK, Transaction
  <1>3. PICK n \in Nat : n = Cardinality(P) /\ (n = 0 <=> P = {})
    BY PlanSize
  <1>4. n \in 0..Cardinality(Groups)
    BY <1>3, CounterLockAssumption, FS_Subset, FS_CardinalityType
  <1>5. IssueDocuments(c, P, Null) /\ UNCHANGED job /\ tx[r].at = "checked"
    BY <1>1, <1>2 DEF IssueCommit
  <1>6. /\ lastSequence' = [lastSequence EXCEPT ![c] = @ + n]
        /\ BookBy' = [BookBy EXCEPT ![c] =
              [i \in 1..(lastSequence[c] + n) |->
                 IF i <= lastSequence[c] THEN BookBy[c][i] ELSE Null]]
    BY <1>3, <1>5, IssueAdds
  <1>7. UNCHANGED BookOpen
    BY <1>5 DEF BookOpen, OpenRange, HasRange
  <1>8. \A j \in Jobs : BookOpen[j].counter # c
    <2>1. ASSUME NEW j \in Jobs, OpenRange(j).counter = c
          PROVE  FALSE
      <3>1. job[j].status = "active"
        BY <2>1, OpenRangeIs, CounterLockAssumption DEF NoRange
      <3>2. QED
        BY <2>1, <3>1, <1>1, <1>5, OpenRangeIs DEF IInv, CheckStillTrue, ActiveJobs
    <2>2. QED
      BY <2>1 DEF BookOpen
  <1>9. CASE n > 0
    <2>1. Book!Issue(c, n)
      BY <1>6, <1>7, <1>8, <1>9 DEF Book!Issue, Book!Add, BookBy, BookOpen
    <2>2. QED
      BY <2>1, <1>4 DEF Book!Next
  <1>10. CASE n = 0
    <2>1. lastSequence[c] \in Nat
      BY DEF IInv, TypeOK
    <2>2. UNCHANGED lastSequence
      BY <2>1, <1>6, <1>10 DEF IInv, TypeOK
    <2>3. UNCHANGED docs
      <3>1. Cardinality(P) = 0
        BY <1>3, <1>10
      <3>2. (lastSequence[c] + 1)..(lastSequence[c] + Cardinality(P)) = {}
        BY <2>1, <3>1
      <3>3. QED
        BY <1>5, <3>2 DEF IssueDocuments
    <2>4. QED
      BY <2>2, <2>3, <1>7 DEF BookBy, OwnerOf
  <1>11. QED
    BY <1>9, <1>10

\* The creation of a job is a Reserve of the book.
LEMMA ReserveIsAStep ==
    ASSUME IInv, IInv', NEW r \in Requests, ReserveCommit(r)
    PROVE  Book!Next
  <1>1. PICK c \in Counters : c = tx[r].counter
    BY DEF IInv, ReserveCommit, TransactionShape
  <1>2. PICK P \in SUBSET Groups : P = tx[r].plan
    BY DEF IInv, TypeOK, Transaction
  <1>3. PICK j \in Jobs : j = tx[r].job
    BY DEF IInv, ReserveCommit, TransactionShape
  <1>4. PICK n \in Nat : n = Cardinality(P) /\ (n = 0 <=> P = {})
    BY PlanSize
  <1>5. n \in 0..Cardinality(Groups)
    BY <1>4, CounterLockAssumption, FS_Subset, FS_CardinalityType
  <1>6. PICK base \in Nat : base = lastSequence[c]
    BY DEF IInv, TypeOK
  <1>7. /\ IssueDocuments(c, P, j) /\ ActiveJobs = {}
        /\ job' = [job EXCEPT ![j] =
                     [status |-> "active", counter |-> c,
                      firstSequence |-> IF P = {} THEN 0 ELSE base + 1,
                      lastSequence |-> IF P = {} THEN 0 ELSE base + n]]
    BY <1>1, <1>2, <1>3, <1>4, <1>6 DEF ReserveCommit, ActiveJobIndexFree
  <1>8. /\ lastSequence' = [lastSequence EXCEPT ![c] = @ + n]
        /\ BookBy' = [BookBy EXCEPT ![c] =
              [i \in 1..(lastSequence[c] + n) |->
                 IF i <= lastSequence[c] THEN BookBy[c][i] ELSE j]]
    BY <1>4, <1>7, IssueAdds
  <1>9. \A i \in Jobs : BookOpen[i] = NoRange
    BY <1>7, OpenRangeIs DEF ActiveJobs, BookOpen
  <1>10. BookOpen' = [BookOpen EXCEPT ![j] = [counter |-> c, size |-> n]]
    <2>1. job'[j] = [status |-> "active", counter |-> c,
                     firstSequence |-> IF P = {} THEN 0 ELSE base + 1,
                     lastSequence |-> IF P = {} THEN 0 ELSE base + n]
      BY <1>7 DEF IInv, TypeOK
    <2>2. \A i \in Jobs \ {j} : job'[i] = job[i]
      BY <1>7 DEF IInv, TypeOK
    <2>3. OpenRange(j)' = [counter |-> c, size |-> n]
      <3>1. CASE P = {}
        BY <2>1, <3>1, <1>4 DEF OpenRange, HasRange
      <3>2. CASE P # {}
        <4>1. base + 1 # 0 /\ base + n - (base + 1) + 1 = n
          BY <1>4
        <4>2. QED
          BY <2>1, <3>2, <4>1 DEF OpenRange, HasRange
      <3>3. QED
        BY <3>1, <3>2
    <2>4. \A i \in Jobs \ {j} : OpenRange(i)' = OpenRange(i)
      BY <2>2 DEF OpenRange, HasRange
    <2>5. QED
      BY <2>3, <2>4, RangeSet
  <1>11. Book!Reserve(j, c, n)
    BY <1>8, <1>9, <1>10 DEF Book!Reserve, Book!Add, Book!NotOpen, BookBy, BookOpen, NoRange
  <1>12. QED
    BY <1>5, <1>11 DEF Book!Next

\* A job that ends well closes its range and keeps its numbers.
LEMMA FinishIsAStep ==
    ASSUME IInv, IInv', NEW j \in Jobs, FinishJob(j)
    PROVE  Book!Next
  <1>1. /\ job[j].status = "active"
        /\ UNCHANGED <<lastSequence, docs>>
        /\ job'[j].status = "done" /\ \A k \in Jobs \ {j} : job'[k] = job[k]
    BY DEF FinishJob, IInv, TypeOK, JobRow
  <1>2. OpenRange(j)' = NoRange /\ OpenRange(j) # NoRange
    BY <1>1, OpenRangeIs DEF OpenRange, NoRange
  <1>3. \A k \in Jobs \ {j} : OpenRange(k)' = OpenRange(k)
    BY <1>1 DEF OpenRange, HasRange
  <1>4. BookOpen' = [BookOpen EXCEPT ![j] = NoRange]
    BY <1>2, <1>3, RangeSet
  <1>5. UNCHANGED BookBy
    BY <1>1 DEF BookBy, OwnerOf
  <1>6. Book!Close(j)
    BY <1>1, <1>2, <1>4, <1>5 DEF Book!Close, Book!NotOpen, BookBy, BookOpen, NoRange
  <1>7. QED
    BY <1>6 DEF Book!Next

\* A revert hands back the last entries of the book, which are the job's.
LEMMA RevertIsAStep ==
    ASSUME IInv, IInv', NEW r \in Requests, RevertCommit(r)
    PROVE  Book!Next
  <1>1. PICK j \in Jobs, c \in Counters :
           /\ ActiveJobs = {j} /\ c = job[j].counter
           /\ lastSequence' =
                 IF HasRange(j) THEN [lastSequence EXCEPT ![c] = job[j].firstSequence - 1]
                                ELSE lastSequence
           /\ docs' = {d \in docs : d.job # j}
           /\ job'[j].status = "failed"
           /\ \A k \in Jobs \ {j} : job'[k] = job[k]
    BY RevertEffect
  <1>2. job[j].status = "active"
    BY <1>1 DEF ActiveJobs
  <1>3. PICK base \in Nat : base = lastSequence[c]
    BY DEF IInv, TypeOK
  <1>4. PICK n \in Nat :
           /\ OpenRange(j) = [counter |-> c, size |-> n] /\ n <= base
           /\ lastSequence' = [lastSequence EXCEPT ![c] = base - n]
           /\ {d \in docs : d.job = j} =
                 {[counter |-> c, sequence |-> i, job |-> j] : i \in (base - n + 1)..base}
    <2>1. CASE HasRange(j)
      <3>1. PICK first \in Nat \ {0} : first = job[j].firstSequence
        BY <2>1, <1>1, RangeOfJob
      <3>2. /\ first <= base /\ job[j].lastSequence = base
            /\ {d \in docs : d.job = j} =
                  {[counter |-> c, sequence |-> i, job |-> j] : i \in first..base}
        BY <2>1, <3>1, <1>1, <1>3, RangeOfJob
      <3>3. /\ base - first + 1 \in Nat /\ base - first + 1 <= base
            /\ base - (base - first + 1) = first - 1
            /\ base - (base - first + 1) + 1 = first
        BY <3>2
      <3>4. OpenRange(j) = [counter |-> c, size |-> base - first + 1]
        BY <2>1, <3>1, <3>2, <1>1, <1>2 DEF OpenRange
      <3>5. lastSequence' = [lastSequence EXCEPT ![c] = base - (base - first + 1)]
        BY <2>1, <3>1, <3>3, <1>1
      <3>6. {d \in docs : d.job = j} =
               {[counter |-> c, sequence |-> i, job |-> j] :
                   i \in (base - (base - first + 1) + 1)..base}
        BY <3>2, <3>3
      <3>7. QED
        BY <3>3, <3>4, <3>5, <3>6
    <2>2. CASE ~ HasRange(j)
      <3>1. OpenRange(j) = [counter |-> c, size |-> 0]
        BY <2>2, <1>1, <1>2 DEF OpenRange
      <3>2. lastSequence' = [lastSequence EXCEPT ![c] = base - 0]
        BY <2>2, <1>1, <1>3 DEF IInv, TypeOK
      <3>3. {d \in docs : d.job = j} = {}
        BY <2>2, <1>1 DEF IInv, DocumentsOfJobs
      <3>4. (base - 0 + 1)..base = {}
        OBVIOUS
      <3>5. {d \in docs : d.job = j} =
               {[counter |-> c, sequence |-> i, job |-> j] : i \in (base - 0 + 1)..base}
        BY <3>3, <3>4
      <3>6. 0 \in Nat /\ 0 <= base
        OBVIOUS
      <3>7. QED
        BY <3>1, <3>2, <3>5, <3>6
    <2>3. QED
      BY <2>1, <2>2
  <1>5. ASSUME NEW i \in (base - n + 1)..base
        PROVE  BookBy[c][i] = j
    <2>1. [counter |-> c, sequence |-> i, job |-> j] \in docs
      BY <1>4
    <2>2. OwnerOf(c, i) = j
      BY <2>1, OwnerOfDocument DEF IInv
    <2>3. i \in 1..base
      BY <1>4
    <2>4. QED
      BY <2>2, <2>3, <1>3 DEF BookBy
  <1>6. ASSUME NEW x \in Counters, NEW i \in 1..lastSequence[x],
               x = c => i \in 1..(base - n)
        PROVE  OwnerOf(x, i)' = OwnerOf(x, i)
    <2>1. ASSUME NEW d \in docs, d.counter = x, d.sequence = i
          PROVE  d \in docs'
      <3>1. CASE d.job = j
        <4>1. d \in {[counter |-> c, sequence |-> m, job |-> j] : m \in (base - n + 1)..base}
          BY <3>1, <1>4
        <4>2. x = c /\ i \in (base - n + 1)..base
          BY <4>1, <2>1
        <4>3. QED
          BY <4>2, <1>4, <1>6
      <3>2. CASE d.job # j
        BY <3>2, <1>1
      <3>3. QED
        BY <3>1, <3>2
    <2>2. QED
      BY <2>1, OwnerKept DEF IInv
  <1>7. /\ lastSequence'[c] = base - n
        /\ \A x \in Counters \ {c} : lastSequence'[x] = lastSequence[x]
    BY <1>4 DEF IInv, TypeOK
  <1> DEFINE page == [i \in 1..(base - n) |-> BookBy[c][i]]
  <1>8. BookBy'[c] = page
    <2>1. BookBy'[c] = [i \in 1..(base - n) |-> OwnerOf(c, i)']
      BY <1>7 DEF BookBy
    <2>2. BookBy[c] = [i \in 1..base |-> OwnerOf(c, i)]
      BY <1>3 DEF BookBy
    <2>3. ASSUME NEW i \in 1..(base - n)
          PROVE  OwnerOf(c, i)' = page[i]
      <3>1. i \in 1..base
        BY <1>4
      <3>2. OwnerOf(c, i)' = OwnerOf(c, i)
        BY <3>1, <1>3, <1>6
      <3>3. QED
        BY <3>1, <3>2, <2>2
    <2>4. QED
      BY <2>1, <2>3
  <1>9. ASSUME NEW x \in Counters \ {c}
        PROVE  BookBy'[x] = BookBy[x]
    BY <1>6, <1>7 DEF BookBy
  <1>10. BookBy' = [BookBy EXCEPT ![c] = page]
    <2>1. /\ BookBy = [x \in Counters |-> BookBy[x]]
          /\ BookBy' = [x \in Counters |-> BookBy'[x]]
      BY DEF BookBy
    <2> HIDE DEF page
    <2>2. QED
      BY <2>1, <1>8, <1>9
  <1>11. BookOpen' = [BookOpen EXCEPT ![j] = NoRange] /\ BookOpen[j] # NoRange
    <2>1. OpenRange(j)' = NoRange
      BY <1>1 DEF OpenRange, NoRange
    <2>2. \A k \in Jobs \ {j} : OpenRange(k)' = OpenRange(k)
      BY <1>1 DEF OpenRange, HasRange
    <2>3. BookOpen[j] # NoRange
      BY <1>2, OpenRangeIs DEF BookOpen
    <2>4. QED
      BY <2>1, <2>2, <2>3, RangeSet
  <1>12. BookOpen[j].counter = c /\ BookOpen[j].size = n
    BY <1>4 DEF BookOpen
  <1>13. Book!HandBack(j)
    <2>1. \A i \in (lastSequence[c] - n + 1)..lastSequence[c] : BookBy[c][i] = j
      BY <1>3, <1>5
    <2>2. lastSequence' = [lastSequence EXCEPT ![c] = @ - n]
      BY <1>3, <1>4
    <2>3. BookBy' = [BookBy EXCEPT ![c] = [i \in 1..(lastSequence[c] - n) |-> BookBy[c][i]]]
      BY <1>3, <1>10
    <2>4. TakenOff(j, c, n)
      BY <2>1, <2>2, <2>3 DEF TakenOff
    <2>5. TakenOff(j, BookOpen[j].counter, BookOpen[j].size)
      BY <2>4, <1>12
    <2>6. QED
      BY <2>5, <1>11
      DEF TakenOff, Book!HandBack, Book!Remove, Book!NotOpen, BookBy, BookOpen, NoRange
  <1>14. QED
    BY <1>13 DEF Book!Next

\* Whatever the transactions do, the committed numbers are those of the book:
\* issued on top of it, a range opened only while none is, and taken off it
\* only from the end.
THEOREM ImplementsBook == Spec => ImplementsNumberBook
  <1>1. Init => Book!Init
    <2> SUFFICES ASSUME Init PROVE Book!Init
      OBVIOUS
    <2>1. lastSequence = [c \in Counters |-> 0]
      BY DEF Init
    <2>2. BookBy = [c \in Counters |-> [i \in 1..0 |-> Null]]
      <3>1. \A c \in Counters : [n \in 1..lastSequence[c] |-> OwnerOf(c, n)] = [i \in 1..0 |-> Null]
        BY <2>1
      <3>2. QED
        BY <3>1 DEF BookBy
    <2>3. BookOpen = [j \in Jobs |-> NoRange]
      BY DEF Init, BookOpen, OpenRange, NoRange
    <2>4. QED
      BY <2>1, <2>2, <2>3 DEF Book!Init, Book!NotOpen, BookBy, BookOpen, NoRange
  <1>2. IInv /\ IInv' /\ [Next]_vars => [Book!Next]_(Book!vars)
    <2> SUFFICES ASSUME IInv, IInv', [Next]_vars
                 PROVE  Book!Next \/ UNCHANGED Book!vars
      OBVIOUS
    <2>1. ASSUME UNCHANGED <<lastSequence, BookBy, BookOpen>>
          PROVE  UNCHANGED Book!vars
      BY <2>1 DEF Book!vars, BookBy, BookOpen
    <2>2. CASE UNCHANGED <<lastSequence, docs, job>>
      BY <2>1, <2>2 DEF BookBy, BookOpen, OwnerOf, OpenRange, HasRange
    <2>3. ASSUME NEW r \in Requests, IssueCommit(r)
          PROVE  Book!Next \/ UNCHANGED Book!vars
      BY <2>1, <2>3, IssueIsAStep
    <2>4. ASSUME NEW r \in Requests, ReserveCommit(r)
          PROVE  Book!Next
      BY <2>4, ReserveIsAStep
    <2>5. ASSUME NEW r \in Requests, RevertCommit(r)
          PROVE  Book!Next
      BY <2>5, RevertIsAStep
    <2>6. ASSUME NEW j \in Jobs, FinishJob(j)
          PROVE  Book!Next
      BY <2>6, FinishIsAStep
    <2>7. QED
      BY <2>2, <2>3, <2>4, <2>5, <2>6
      DEF Next, PlanIssue, PlanReserve, LockCounter, IssueCheck, LockJob, Refuse, Abort, vars
  <1>3. QED
    BY <1>1, <1>2, Invariant, NextIInv, PTL DEF Spec, Book!Spec, ImplementsNumberBook
=============================================================================
