------------------------- MODULE PaymentOrdersScreen ------------------------
(***************************************************************************)
(* "Generar" of the payment orders screen, PaymentOrdersPage with the      *)
(* dialog of one order and the panel of the ZIP: the Excel is loaded,      *)
(* reviewed (reading it saves nothing) and its orders are generated one at *)
(* a time or by a bulk job.  The Excel may be read again at any time: by   *)
(* its button, after something it offered was refused, and when a job ends.*)
(*                                                                         *)
(* A property stands for the periods of one order.  How the screen follows *)
(* a job is JobScreen; here a job starts and ends.  The history, the       *)
(* downloads and the notices are left out.                                 *)
(***************************************************************************)
EXTENDS Naturals

CONSTANTS
    Files, Properties,
    Lists,       \* Lists[f]: the properties in file f
    BadFiles,    \* files with invalid rows
    MaxReviews,  \* bound: how often an Excel is read
    MaxFaults,   \* bound: requests that fail
    Null

\* Who asks for a review: its button, a refusal, the end of a job.
Askers == {"button", "refusal", "job"}

Previews == [file : Files, offers : SUBSET Properties]

Reads == [file : Files, offers : SUBSET Properties, answer : {"wait", "ok", "fail"}]

PaymentOrdersScreenAssumption ==
    /\ Lists \in [Files -> SUBSET Properties]
    /\ Null \notin Reads
    /\ BadFiles \subseteq Files
    /\ MaxReviews \in Nat /\ MaxFaults \in Nat

VARIABLES
    eligible,    \* properties an order may be issued for
    ordered,     \* properties with an order
    job,         \* the job this screen follows: its properties, or Null
    file, step, preview, issued,
    toGenerate,  \* the candidate of the open dialog
    reviewing,   \* isReviewing
    reviews,     \* reviews[w]: the read in flight that w asked for
    list,        \* the list of orders in flight, asked when a job ended
    issue,       \* the order being generated
    handedBack,  \* history: properties of the jobs that failed
    reads, faults

backend == <<eligible, ordered, handedBack>>
screen  == <<file, step, preview, issued, toGenerate, reviewing>>
calls   == <<reviews, list, issue>>
bounds  == <<reads, faults>>
vars    == <<backend, job, screen, calls, bounds>>

TypeOK ==
    /\ eligible \subseteq Properties /\ ordered \subseteq Properties
    /\ handedBack \subseteq Properties
    /\ job \in (SUBSET Properties) \cup {Null}
    /\ file \in Files \cup {Null}
    /\ step \in {"upload", "review", "generate"}
    /\ preview \in Previews \cup {Null}
    \* issued[p]: the file whose candidate p was issued for.
    /\ issued \in [Properties -> Files \cup {Null}]
    /\ toGenerate \in Properties \cup {Null}
    /\ reviewing \in BOOLEAN
    /\ reviews \in [Askers -> Reads \cup {Null}]
    /\ list \in [of : SUBSET Properties, file : Files \cup {Null},
                 found : SUBSET Properties, answer : {"wait", "ok", "fail"}]
                \cup {Null}
    /\ issue \in [of : Properties, answer : {"wait", "ok", "refused", "fail"}]
                 \cup {Null}
    /\ toGenerate = Null => issue = Null
    /\ reads \in 0 .. MaxReviews /\ faults \in 0 .. MaxFaults

Init ==
    /\ eligible = Properties /\ ordered = {} /\ handedBack = {} /\ job = Null
    /\ file = Null /\ step = "upload" /\ preview = Null
    /\ issued = [p \in Properties |-> Null]
    /\ toGenerate = Null /\ reviewing = FALSE
    /\ reviews = [w \in Askers |-> Null] /\ list = Null /\ issue = Null
    /\ reads = 0 /\ faults = 0

-----------------------------------------------------------------------------
(* The backend *)

Issuable == eligible \ ordered

\* Paid, prescribed or replaced by somebody else.
Withdraw(p) ==
    /\ p \in Issuable
    /\ eligible' = eligible \ {p}
    /\ UNCHANGED <<ordered, handedBack, job, screen, calls, bounds>>

ServeReview(w) ==
    /\ reviews[w] # Null
    /\ reviews[w].answer = "wait"
    /\ reviews' = [reviews EXCEPT ![w].answer = "ok",
                                  ![w].offers = Lists[reviews[w].file] \cap Issuable]
    /\ UNCHANGED <<backend, job, screen, list, issue, bounds>>

ServeList ==
    /\ list # Null /\ list.answer = "wait"
    /\ list' = [list EXCEPT !.answer = "ok", !.found = ordered]
    /\ UNCHANGED <<backend, job, screen, reviews, issue, bounds>>

\* No order when nothing of the candidate qualifies any more.
ServeIssue ==
    /\ issue # Null /\ issue.answer = "wait"
    /\ IF job # Null
       THEN issue' = [issue EXCEPT !.answer = "fail"] /\ UNCHANGED ordered
       ELSE /\ issue' = [issue EXCEPT !.answer = IF issue.of \in Issuable
                                                 THEN "ok" ELSE "refused"]
            /\ ordered' = IF issue.of \in Issuable THEN ordered \cup {issue.of}
                                                   ELSE ordered
    /\ UNCHANGED <<eligible, handedBack, job, screen, reviews, list, bounds>>

Fails ==
    /\ faults < MaxFaults
    /\ faults' = faults + 1
    /\ \/ /\ \E w \in Askers :
                /\ reviews[w] # Null /\ reviews[w].answer # "fail"
                /\ reviews' = [reviews EXCEPT ![w].answer = "fail"]
          /\ UNCHANGED <<list, issue>>
       \/ /\ list # Null /\ list.answer # "fail"
          /\ list' = [list EXCEPT !.answer = "fail"]
          /\ UNCHANGED <<reviews, issue>>
       \/ /\ issue # Null /\ issue.answer # "fail"
          /\ issue' = [issue EXCEPT !.answer = "fail"]
          /\ UNCHANGED <<reviews, list>>
    /\ UNCHANGED <<backend, job, screen, reads>>

-----------------------------------------------------------------------------
(* The screen *)

Candidates == IF preview = Null THEN {} ELSE preview.offers

Pending == {p \in Candidates : issued[p] = Null}

\* The drop zone, which a review does not lock, and "Cambiar archivo".
StartOver(next) ==
    /\ toGenerate = Null
    /\ \/ step = "upload"
       \/ step = "review" /\ next = Null /\ ~reviewing
    /\ file' = next
    /\ preview' = Null
    /\ issued' = [p \in Properties |-> Null]
    /\ step' = "upload"
    /\ UNCHANGED <<backend, job, toGenerate, reviewing, calls, bounds>>

\* review.  Bound: one read in flight of each asker.
Review(w) ==
    /\ reads < MaxReviews
    /\ reads' = reads + 1
    /\ reviews[w] = Null
    /\ reviewing' = TRUE
    /\ reviews' = [reviews EXCEPT ![w] = [file |-> file, offers |-> {},
                                          answer |-> "wait"]]

HandleReview ==
    /\ step = "upload" /\ file # Null /\ ~reviewing
    /\ Review("button")
    /\ UNCHANGED <<backend, job, file, step, preview, issued, toGenerate, list,
                   issue, faults>>

\* Volver and Continuar.
Turn ==
    /\ toGenerate = Null
    /\ \/ step = "review" /\ Candidates # {} /\ ~reviewing /\ step' = "generate"
       \/ step = "generate" /\ step' = "review"
    /\ UNCHANGED <<backend, job, file, preview, issued, toGenerate, reviewing,
                   calls, bounds>>

\* Where each asker leaves the screen.  Invalid rows stay in "Cargar".
StepAfter(w, found) ==
    CASE w = "button"  -> IF found /\ reviews[w].file \notin BadFiles
                          THEN "review" ELSE step
      [] w = "refusal" -> IF found THEN "review" ELSE "upload"
      [] w = "job"     -> IF found THEN step ELSE "upload"

\* A mutant: only a read that works ends the wait.
WaitsUnlessFound(found) == ~found

\* The finally of review.
StillReviewing(found) == FALSE

DeliverReview(w) ==
    /\ reviews[w] # Null
    /\ reviews[w].answer # "wait"
    /\ LET found == reviews[w].answer = "ok"
       IN /\ preview' = IF found THEN [file |-> reviews[w].file,
                                       offers |-> reviews[w].offers]
                                 ELSE Null
          /\ step' = StepAfter(w, found)
          /\ reviewing' = StillReviewing(found)
    /\ reviews' = [reviews EXCEPT ![w] = Null]
    /\ UNCHANGED <<backend, job, file, issued, toGenerate, list, issue, bounds>>

\* reviewAgain
Refused ==
    IF file = Null THEN UNCHANGED <<reviews, reviewing, reads>>
    ELSE Review("refusal")

OpenDialog(p) ==
    /\ step = "generate" /\ toGenerate = Null /\ job = Null
    /\ p \in Pending
    /\ toGenerate' = p
    /\ UNCHANGED <<backend, job, file, step, preview, issued, reviewing, calls,
                   bounds>>

CloseDialog ==
    /\ toGenerate # Null /\ issue = Null
    /\ toGenerate' = Null
    /\ UNCHANGED <<backend, job, file, step, preview, issued, reviewing, calls,
                   bounds>>

\* handleGenerate
Generate ==
    /\ toGenerate # Null /\ issue = Null
    /\ issue' = [of |-> toGenerate, answer |-> "wait"]
    /\ UNCHANGED <<backend, job, screen, reviews, list, bounds>>

DeliverIssue ==
    /\ issue # Null /\ issue.answer # "wait"
    /\ issue' = Null
    /\ \/ /\ issue.answer = "ok"
          /\ issued' = [issued EXCEPT ![issue.of] =
                           IF preview = Null THEN file ELSE preview.file]
          /\ toGenerate' = Null
          /\ UNCHANGED <<reviews, reviewing, reads>>
       \/ /\ issue.answer = "refused"
          /\ Refused
          /\ toGenerate' = Null
          /\ UNCHANGED issued
       \/ /\ issue.answer = "fail"
          /\ UNCHANGED <<issued, toGenerate, reviews, reviewing, reads>>
    /\ UNCHANGED <<backend, job, file, step, preview, list, faults>>

\* PaymentOrderZipPanel: the backend takes all its numbers or refuses.
StartJob ==
    /\ step = "generate" /\ toGenerate = Null /\ job = Null
    /\ Pending # {}
    /\ IF Pending \subseteq Issuable
       THEN /\ job' = Pending
            /\ ordered' = ordered \cup Pending
            /\ UNCHANGED <<reviews, reviewing, reads>>
       ELSE /\ Refused
            /\ UNCHANGED <<job, ordered>>
    /\ UNCHANGED <<eligible, handedBack, file, step, preview, issued, toGenerate, list, issue,
                   faults>>

\* The job ends; a failed one gives its numbers back.
JobFails ==
    /\ job # Null
    /\ ordered' = ordered \ job
    /\ handedBack' = handedBack \cup job
    /\ job' = Null
    /\ UNCHANGED <<eligible, screen, calls, bounds>>

\* What a finished ZIP does to the screen, with what it shows by then.
JobEnds ==
    /\ job # Null
    /\ list = Null
    /\ job' = Null
    /\ list' = [of |-> Pending, file |-> IF preview = Null THEN file
                                                           ELSE preview.file,
                found |-> {}, answer |-> "wait"]
    /\ IF file = Null THEN UNCHANGED <<reviews, reviewing, reads>>
                      ELSE Review("job")
    /\ UNCHANGED <<backend, file, step, preview, issued, toGenerate, issue, faults>>

\* issuedFromOrders
WithOrder(l) == l.of \cap l.found

\* Under what the screen issued itself.
DeliverList ==
    /\ list # Null /\ list.answer # "wait"
    /\ list' = Null
    /\ issued' = [p \in Properties |->
          IF /\ list.answer = "ok"
             /\ p \in WithOrder(list)
             /\ issued[p] = Null
          THEN list.file ELSE issued[p]]
    /\ UNCHANGED <<backend, job, file, step, preview, toGenerate, reviewing,
                   reviews, issue, bounds>>

-----------------------------------------------------------------------------

Next ==
    \/ \E p \in Properties : Withdraw(p) \/ OpenDialog(p)
    \/ \E w \in Askers : ServeReview(w) \/ DeliverReview(w)
    \/ \E f \in Files \cup {Null} : StartOver(f)
    \/ ServeList \/ ServeIssue \/ Fails
    \/ HandleReview \/ Turn \/ CloseDialog \/ Generate \/ DeliverIssue
    \/ StartJob \/ JobFails \/ JobEnds \/ DeliverList

Spec == Init /\ [][Next]_vars

-----------------------------------------------------------------------------
(* Properties *)

\* What the screen marks as generated has an order, though the list that tells
\* it was asked before the Excel, the review or the job it is about changed.
\* Only a job that fails after the list was read leaves a mark without one.
IssuedHasOrder ==
    \A p \in Properties : issued[p] # Null => p \in ordered \cup handedBack

\* Whoever asks for the Excel to be read, and however the reads cross and fail,
\* the screen waits only while a read is on its way: "Cargar" and "Revisar" do
\* not stay locked.
WaitingHasARead == reviewing => \E w \in Askers : reviews[w] # Null
=============================================================================
