-------------------------- MODULE BatchConversion ---------------------------
(***************************************************************************)
(* How the PDF service makes the PDFs of one batch (renderBatch): all its   *)
(* documents as one .docx, converted at once and split back by page, or,   *)
(* where that cannot be done, each on its own.  A message that is not      *)
(* deleted in time comes again, so several deliveries of it may be at      *)
(* work, and write the same blobs, each in its own way; one may come after *)
(* the backend is over with the job, and deletes the blobs it works with.  *)
(*                                                                         *)
(* How a job gets there is module BulkJob's, here it is done or reverted;   *)
(* what becomes of its template is module RenderService's.                 *)
(***************************************************************************)
EXTENDS Integers, SequencesExt

CONSTANTS
    Inputs,        \* what the input blob may hold: sequences of documents
    Layouts,       \* templates, by what mergeDocuments looks at
    MaxAttempts,   \* deliveries of the message that are worked on
    MaxDeliveries, \* bound: deliveries of the message
    MaxFaults,     \* bound: failures of LibreOffice, Storage or the process
    Null

\* A document's file name, whether it is the relative path of a PDF, whether
\* its data fits the template, and the pages it fills.
IsDocument(d) == d.safe \in BOOLEAN /\ d.fits \in BOOLEAN /\ d.pages \in Nat \ {0}

\* A layout: its sections, whether another header comes first or on even
\* pages, where it counts the pages, the number it starts at and whether its
\* headers have markers.
AllLayouts == [sections : 1 .. 2, varies : BOOLEAN, counts : SUBSET {"body", "header"},
               start : {Null, 1, 3}, markers : BOOLEAN]

VARIABLES
    input,    \* what the batch's input blob held, or Null
    stored,   \* that blob is there
    job,      \* what became of the batch's job
    layout,   \* the layout of its template
    message,  \* what its text is
    run,      \* what each delivery does
    queued,   \* the message is in the queue
    poison,   \* there is a copy of it in the poison queue
    blobs,    \* the pages of each PDF under outputPrefix, by name
    results,  \* the results sent
    faults

vars == <<input, stored, job, layout, message, run, queued, poison, blobs, results, faults>>

batchIs == <<input, stored, job, layout, message>>

deliveryVars == <<run, queued, poison, results, faults>>

Deliveries == 1 .. MaxDeliveries

\* parseWorkMessage: a render-batch, or what is refused, and of that what still
\* says which batch of which job it is (reportTarget).
Messages == {"render-batch", "names its batch", "names nothing"}

NamesItsBatch == message # "names nothing"

-----------------------------------------------------------------------------
(* What LibreOffice makes of a document, alone or merged *)

\* The number of page n.
Number(first, n) == IF first = Null THEN n ELSE first + n - 1

\* A page states its number and the total, and its header somebody's data.
Alone(l, d) ==
    [n \in 1 .. d.pages |->
        [of |-> d.name, number |-> Number(l.start, n),
         total |-> IF l.counts = {} THEN Null ELSE d.pages,
         header |-> IF l.markers THEN d.name ELSE Null]]

BatchConversionAssumption ==
    /\ \A batch \in Inputs :
          /\ batch \in Seq({batch[i] : i \in DOMAIN batch})
          /\ \A i \in DOMAIN batch : IsDocument(batch[i])
    /\ Layouts \subseteq AllLayouts
    /\ MaxAttempts \in Nat \ {0} /\ MaxDeliveries \in Nat /\ MaxFaults \in Nat
    /\ MaxAttempts <= MaxDeliveries
    /\ Null \notin {"INVALID_MESSAGE", "TEMPLATE_RENDER_FAILED"}
    /\ \A l \in Layouts : \A batch \in Inputs :
          \A i \in DOMAIN batch : Alone(l, batch[i]) # Null

PagesBefore(batch, i) == FoldLeft(LAMBDA sum, d : sum + d.pages, 0, SubSeq(batch, 1, i - 1))

\* Every document restarts the count, and counts up to the bookmark at the end
\* of its section; in the body the count is of the whole file; and a marker in a
\* header is filled outside the loop, with nothing.
Merged(l, batch) ==
    FlattenSeq([i \in DOMAIN batch |->
        [n \in 1 .. batch[i].pages |->
            LET section == l.sections * (i - 1) + 1
            IN  [of |-> batch[i].name, number |-> Number(l.start, n),
                 total |-> CASE l.counts = {} -> Null
                             [] "body" \in l.counts -> PagesBefore(batch, Len(batch) + 1)
                             [] section \in DOMAIN batch -> Number(l.start, batch[section].pages)
                             [] OTHER -> Null,
                 header |-> IF l.markers THEN "undefined" ELSE Null]]])

-----------------------------------------------------------------------------
(* Merging and splitting *)

\* mergeDocuments: the layouts it reproduces.
Mergeable(l) ==
    /\ l.sections = 1 /\ ~l.varies
    /\ "body" \notin l.counts
    /\ l.start \in {Null, 1}
    /\ ~l.markers

\* Where each document starts, of those whose destination is in the file.
StartPages(batch, lost) ==
    LET found == SelectSeq([i \in DOMAIN batch |-> i], LAMBDA i : i \notin lost)
    IN  [k \in DOMAIN found |-> PagesBefore(batch, found[k]) + 1]

CanSplit(starts, count) ==
    /\ Len(starts) = count /\ starts[1] = 1
    /\ \A i \in 2 .. count : starts[i] > starts[i - 1]

\* splitPdf: the pages from each start to the next.
Split(pdf, starts) ==
    [i \in 1 .. Len(starts) |->
        SubSeq(pdf, starts[i], IF i = Len(starts) THEN Len(pdf) ELSE starts[i + 1] - 1)]

\* parseBatchInput.
Valid(batch) ==
    /\ batch # <<>>
    /\ \A i \in DOMAIN batch : batch[i].safe
    /\ \A i, j \in DOMAIN batch : batch[i].name = batch[j].name => i = j

-----------------------------------------------------------------------------
(* One delivery *)

Fault == faults < MaxFaults /\ faults' = faults + 1

Off == [at |-> "off", pdfs |-> <<>>, tries |-> <<>>, pending |-> {}]

\* Uploads that were started go on when another one fails.
Working == {"reading", "merging", "rendering", "converting", "again", "uploading"}

Failed(code, name) == [status |-> "FAILED", code |-> code, name |-> name]

Permanent == {"INVALID_MESSAGE", "TEMPLATE_RENDER_FAILED"}

\* handleMessage: a result is sent, or the message is left for another delivery.
\* A failure that might not have been is kept for diagnosis.
Fail(r, code, name) ==
    IF code \in Permanent \/ r >= MaxAttempts
    THEN /\ results' = results \cup {Failed(code, name)}
         /\ run' = [run EXCEPT ![r].at = IF code \in Permanent THEN "answered" ELSE "poisoning"]
    ELSE run' = [run EXCEPT ![r].at = "left"] /\ UNCHANGED results

\* The batch's input is a blob of the containers the service may read.
InputFound == stored

\* Seen more often than allowed: who received it before died, or is still at it.
Exhausted(r) == r > MaxAttempts

\* Nobody received the message after this delivery, whose receipt deletes it.
HasReceipt(r) == r = MaxDeliveries \/ run[r + 1].at = "off"

\* The message is received, the first time or after its visibility timeout.
Receive(r) ==
    /\ queued /\ run[r].at = "off"
    /\ \A earlier \in 1 .. (r - 1) : run[earlier].at # "off"
    /\ run' = [run EXCEPT ![r].at = "reading"]
    /\ UNCHANGED <<batchIs, queued, poison, blobs, results, faults>>

\* A message that is none is kept too, and reported if it says whose it is.
Discard(r) ==
    /\ run[r].at = "reading" /\ message # "render-batch"
    /\ results' = IF NamesItsBatch THEN results \cup {Failed("INVALID_MESSAGE", Null)} ELSE results
    /\ run' = [run EXCEPT ![r].at = "poisoning"]
    /\ UNCHANGED <<batchIs, queued, poison, blobs, faults>>

\* One attempt too many reports the batch failed, done though it may be.
Exhaust(r) ==
    /\ run[r].at = "reading" /\ message = "render-batch" /\ Exhausted(r)
    /\ results' = results \cup {Failed("PDF_CONVERSION_FAILED", Null)}
    /\ run' = [run EXCEPT ![r].at = "poisoning"]
    /\ UNCHANGED <<batchIs, queued, poison, blobs, faults>>

Read(r) ==
    /\ run[r].at = "reading" /\ message = "render-batch" /\ ~Exhausted(r)
    /\ \/ /\ IF ~InputFound \/ ~Valid(input) THEN Fail(r, "INVALID_MESSAGE", Null)
             ELSE run' = [run EXCEPT ![r].at = "merging"] /\ UNCHANGED results
          /\ UNCHANGED faults
       \/ Fail(r, "PDF_STORAGE_UNAVAILABLE", Null) /\ Fault
    /\ UNCHANGED <<batchIs, queued, poison, blobs>>

Uploading(r, pdfs) ==
    run' = [run EXCEPT ![r].at = "uploading", ![r].pdfs = pdfs, ![r].pending = DOMAIN pdfs]

\* convertMerged: one document alone, data that does not fit, a layout that is
\* not reproduced, a failed conversion and a file that cannot be split safely
\* all leave it to convertEach.
ConvertMerged(r) ==
    /\ run[r].at = "merging"
    /\ \/ /\ Len(input) >= 2 /\ Mergeable(layout)
          /\ \A i \in DOMAIN input : input[i].fits
          /\ \E lost \in SUBSET DOMAIN input :
                LET starts == StartPages(input, lost)
                IN  IF CanSplit(starts, Len(input))
                    THEN Uploading(r, Split(Merged(layout, input), starts))
                    ELSE run' = [run EXCEPT ![r].at = "rendering"]
          /\ UNCHANGED faults
       \/ /\ Len(input) < 2 \/ ~Mergeable(layout) \/ \E i \in DOMAIN input : ~input[i].fits
          /\ run' = [run EXCEPT ![r].at = "rendering"]
          /\ UNCHANGED faults
       \/ /\ Len(input) >= 2 /\ Mergeable(layout) /\ Fault
          /\ run' = [run EXCEPT ![r].at = "rendering"]
    /\ UNCHANGED <<batchIs, queued, poison, blobs, results>>

\* convertEach fills every template before it converts any.
Render(r) ==
    /\ run[r].at = "rendering"
    /\ LET unfit == {i \in DOMAIN input : ~input[i].fits}
       IN  IF unfit = {} THEN run' = [run EXCEPT ![r].at = "converting"] /\ UNCHANGED results
           ELSE \E i \in unfit : /\ \A j \in unfit : i <= j
                                 /\ Fail(r, "TEMPLATE_RENDER_FAILED", input[i].name)
    /\ UNCHANGED <<batchIs, queued, poison, blobs, faults>>

\* All of them in one process, which fails or is killed as a whole, or skips some.
ConvertEach(r) ==
    /\ run[r].at = "converting"
    /\ \E skipped \in SUBSET DOMAIN input :
          /\ IF skipped = {} THEN UNCHANGED faults ELSE Fault
          /\ run' = [run EXCEPT ![r] =
                [@ EXCEPT !.at = "again",
                          !.pdfs = [i \in DOMAIN input |->
                              IF i \in skipped THEN Null ELSE Alone(layout, input[i])],
                          !.tries = [i \in DOMAIN input |-> IF i \in skipped THEN 1 ELSE 0]]]
    /\ UNCHANGED <<batchIs, queued, poison, blobs, results>>

ToRetry(r) == {i \in DOMAIN run[r].pdfs : run[r].pdfs[i] = Null /\ run[r].tries[i] = 1}

\* A document that was skipped is converted once more, alone.
Retry(r) ==
    \E i \in ToRetry(r) :
        /\ \A j \in ToRetry(r) : i <= j
        /\ \/ run' = [run EXCEPT ![r].pdfs[i] = Alone(layout, input[i])] /\ UNCHANGED faults
           \/ run' = [run EXCEPT ![r].tries[i] = 2] /\ Fault

ConvertAgain(r) ==
    /\ run[r].at = "again"
    /\ IF ToRetry(r) # {} THEN Retry(r) /\ UNCHANGED results
       ELSE LET failed == {i \in DOMAIN input : run[r].pdfs[i] = Null}
            IN  /\ IF failed = {} THEN Uploading(r, run[r].pdfs) /\ UNCHANGED results
                   ELSE \E i \in failed : /\ \A j \in failed : i <= j
                                          /\ Fail(r, "PDF_CONVERSION_FAILED", input[i].name)
                /\ UNCHANGED faults
    /\ UNCHANGED <<batchIs, queued, poison, blobs>>

\* The uploads end in any order, those of a delivery that failed too.
Upload(r) ==
    /\ \E i \in run[r].pending :
          /\ blobs' = [name \in DOMAIN blobs \cup {input[i].name} |->
                          IF name = input[i].name THEN run[r].pdfs[i] ELSE blobs[name]]
          /\ run' = [run EXCEPT ![r].pending = @ \ {i}]
    /\ UNCHANGED <<batchIs, queued, poison, results, faults>>

\* One of them fails, and with it the delivery.
UploadFails(r) ==
    /\ run[r].at = "uploading" /\ run[r].pending # {} /\ Fault
    /\ Fail(r, "PDF_STORAGE_UNAVAILABLE", Null)
    /\ UNCHANGED <<batchIs, queued, poison, blobs>>

\* All are there.
Report(r) ==
    /\ run[r].at = "uploading" /\ run[r].pending = {}
    /\ results' = results \cup {[status |-> "DONE", code |-> Null, name |-> Null]}
    /\ run' = [run EXCEPT ![r].at = "answered"]
    /\ UNCHANGED <<batchIs, queued, poison, blobs, faults>>

Poison(r) ==
    /\ run[r].at = "poisoning"
    /\ poison' = TRUE
    /\ run' = [run EXCEPT ![r].at = "answered"]
    /\ UNCHANGED <<batchIs, queued, blobs, results, faults>>

\* The message is deleted after its result is sent, by who received it last.
Delete(r) ==
    /\ run[r].at = "answered"
    /\ queued' = (queued /\ ~HasReceipt(r))
    /\ run' = [run EXCEPT ![r].at = "over"]
    /\ UNCHANGED <<batchIs, poison, blobs, results, faults>>

\* The process ends, before or after it has answered.
Stop(r) ==
    /\ run[r].at \in Working \cup {"poisoning", "answered"} /\ Fault
    /\ run' = [run EXCEPT ![r].at = "over", ![r].pending = {}]
    /\ UNCHANGED <<batchIs, queued, poison, blobs, results>>

-----------------------------------------------------------------------------
(* The backend is over with the job *)

\* It is done when its ZIP is made, of all its batches.
JobDone ==
    /\ job = "going" /\ \E result \in results : result.status = "DONE"
    /\ job' = "done"
    /\ UNCHANGED <<input, stored, layout, message, deliveryVars, blobs>>

\* It is reverted for any reason: this batch, another one, the watchdog.
JobReverted ==
    /\ job = "going" /\ job' = "reverted"
    /\ UNCHANGED <<input, stored, layout, message, deliveryVars, blobs>>

\* Then its blobs are deleted, as many as can be.
CleanInput ==
    /\ job # "going" /\ stored /\ stored' = FALSE
    /\ UNCHANGED <<input, job, layout, message, deliveryVars, blobs>>

CleanPdfs ==
    /\ job # "going"
    /\ \E names \in (SUBSET DOMAIN blobs) \ {{}} :
          blobs' = [name \in DOMAIN blobs \ names |-> blobs[name]]
    /\ UNCHANGED <<batchIs, deliveryVars>>

-----------------------------------------------------------------------------
Init ==
    /\ input \in Inputs \cup {Null} /\ layout \in Layouts
    /\ stored = (input # Null) /\ job = "going"
    /\ message \in Messages /\ (message # "render-batch" => input = Null)
    /\ run = [r \in Deliveries |-> Off] /\ queued = TRUE /\ poison = FALSE
    /\ blobs = <<>> /\ results = {} /\ faults = 0

Next ==
    \/ \E r \in Deliveries :
          \/ Receive(r) \/ Discard(r) \/ Exhaust(r) \/ Read(r) \/ ConvertMerged(r)
          \/ Render(r) \/ ConvertEach(r) \/ ConvertAgain(r) \/ Upload(r)
          \/ UploadFails(r) \/ Report(r) \/ Poison(r) \/ Delete(r) \/ Stop(r)
    \/ JobDone \/ JobReverted \/ CleanInput \/ CleanPdfs

Spec == Init /\ [][Next]_vars

-----------------------------------------------------------------------------
(* Properties *)

TypeOK ==
    /\ input \in Inputs \cup {Null} /\ layout \in Layouts /\ message \in Messages
    /\ stored \in BOOLEAN /\ job \in {"going", "done", "reverted"}
    /\ queued \in BOOLEAN /\ poison \in BOOLEAN
    /\ \A r \in Deliveries :
          /\ run[r].at \in {"off", "poisoning", "answered", "left", "over"} \cup Working
          /\ run[r].pending \subseteq DOMAIN run[r].pdfs
    /\ faults \in 0 .. MaxFaults

\* A PDF holds the pages of the document it is named after, as it would be
\* converted alone: its numbers, its total, its data.  Whatever way it was made,
\* and whichever delivery wrote it last, early or late.
OwnPages ==
    /\ DOMAIN blobs # {} => DOMAIN blobs \subseteq {input[i].name : i \in DOMAIN input}
    /\ \A name \in DOMAIN blobs : \A i \in DOMAIN input :
          input[i].name = name => blobs[name] = Alone(layout, input[i])

\* A batch reported done has all its PDFs, and only those, for as long as its
\* job waits for them: until its ZIP is made or it is reverted.
DoneIsThere ==
    job = "going" =>
        \A result \in results :
            result.status = "DONE" => DOMAIN blobs = {input[i].name : i \in DOMAIN input}

\* A failure that names a document names one that cannot be filled, or one that
\* LibreOffice skipped in the batch and again alone.
FailureIsOfItsDocument ==
    \A result \in results :
        result.name # Null =>
            \E i \in DOMAIN input :
                /\ input[i].name = result.name
                /\ \/ result.code = "TEMPLATE_RENDER_FAILED" /\ ~input[i].fits
                   \/ /\ result.code = "PDF_CONVERSION_FAILED"
                      /\ \E r \in Deliveries : DOMAIN run[r].tries # {} /\ run[r].tries[i] = 2

\* A message only leaves the queue done, refused for what it says or for an input
\* that is not there, or with a copy of it kept: whatever fails, and at whichever
\* delivery.
NoMessageLost ==
    ~queued => \/ poison
               \/ \E result \in results : result.status = "DONE" \/ result.code \in Permanent

\* Nothing fails around the batch, and its documents fit.
Faultless ==
    faults = 0 /\ input # Null /\ Valid(input) /\ \A i \in DOMAIN input : input[i].fits

\* One attempt too many was made: no document is blamed for it.
IsExhausted(result) ==
    /\ result.code = "PDF_CONVERSION_FAILED" /\ result.name = Null
    /\ \E r \in Deliveries : Exhausted(r) /\ run[r].at # "off"

\* No batch fails of itself: when nothing fails around it and its documents fit,
\* whatever its layout and whatever LibreOffice loses of a merged file, it is done
\* (render.ts, worker.ts).  It is reported otherwise only by a delivery that comes
\* when the attempts are exhausted, or when its job is over and its input deleted.
FaultlessIsDone ==
    Faultless =>
        \A result \in results :
            \/ result.status = "DONE"
            \/ IsExhausted(result)
            \/ result.code = "INVALID_MESSAGE" /\ job # "going"

\* A batch is never both done and refused for its contents, whichever of its
\* deliveries answers (worker.ts, handleMessage); what says that its input is not
\* there only says it of a job that is over, which no result changes.
DoneIsNotRefused ==
    \A one, two \in results :
        one.status = "DONE" => /\ two.code # "TEMPLATE_RENDER_FAILED"
                               /\ two.code = "INVALID_MESSAGE" => job # "going"

\* What a batch promises those who wait for it.
BatchIsTrue ==
    /\ OwnPages /\ DoneIsThere /\ FailureIsOfItsDocument /\ NoMessageLost
    /\ FaultlessIsDone /\ DoneIsNotRefused
=============================================================================
