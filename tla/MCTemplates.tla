---------------------------- MODULE MCTemplates -----------------------------
(***************************************************************************)
(* The templates for TLC: the backend, the screen, the marking, and the PDF *)
(* service that fills them, one document at a time and by batches.  What   *)
(* one of them needs of another it models itself, so they share nothing    *)
(* and their state graphs are put side by side, not multiplied: the        *)
(* initial state says which part runs, and the variables of the others     *)
(* stay as they are.  The screen is there twice: with more calls that      *)
(* cross, and with a fault.                                                *)
(***************************************************************************)
EXTENDS Templates, TLC

CONSTANTS blank, full, par, r0a, r1a, r1b, r2a, r2b,
          q1, q2, slot, batch, path

VARIABLES
    part,
    \* TemplatesScreen
    live, versions, active, made, stored, page, visit, shownDraft, marking, step, content,
    known, replacing, saving, discardOpen, discarding, preview, previewKey,
    uploading, shown, listError, toActivate, activating, calls, last, givenUp,
    savedDrafts, strays, uploads, screenFaults,
    \* GuidedMarking
    docx, selections, removed, pending,
    \* RenderService
    held, idle, cache, handler, client, changes, serviceFaults,
    \* BatchConversion
    input, inputStored, job, layout, message, run, queued, poison, pdfs, results, batchFaults

screenVars == <<live, versions, active, made, stored, page, visit, shownDraft, marking, step,
                content, known, replacing, saving, discardOpen, discarding, preview,
                previewKey, uploading, shown, listError, toActivate, activating,
                calls, last, givenUp, savedDrafts, strays, uploads, screenFaults>>
markingVars == <<docx, selections, removed, pending>>
serviceVars == <<held, idle, cache, handler, client, changes, serviceFaults>>
batchVars == <<input, inputStored, job, layout, message, run, queued, poison, pdfs, results,
               batchFaults>>
pdfVars == <<serviceVars, batchVars>>
allVars == <<part, vars, screenVars, markingVars, pdfVars>>

\* Two requests at a time and one draft: the smallest instance in which two
\* uploads, or an upload and the save of a draft, take the same number.  The
\* draft is marked into the first of the two contents.
MCMarked == [d \in Drafts |-> CHOOSE c \in Contents : TRUE]

\* Two drafts.  Three calls that cross; or two, with a fault, a second version
\* and a file that needs no marking.
Crossing == INSTANCE TemplatesScreen WITH
                MaxDrafts <- 2, Markings <- {blank, full}, Blank <- blank,
                Whole <- {}, Full <- {full}, MaxCalls <- 3, MaxLate <- 1,
                MaxVersions <- 1, MaxVisits <- 2, MaxFaults <- 0,
                draft <- shownDraft, saved <- savedDrafts, faults <- screenFaults

Failing == INSTANCE TemplatesScreen WITH
                MaxDrafts <- 2, Markings <- {blank, full}, Blank <- blank,
                Whole <- {1}, Full <- {full}, MaxCalls <- 2, MaxLate <- 1,
                MaxVersions <- 2, MaxVisits <- 2, MaxFaults <- 1,
                draft <- shownDraft, saved <- savedDrafts, faults <- screenFaults

\* A document with a paragraph of two runs and a table of a heading and two
\* rows; unmarked, or marked by hand with whole tags or with one that is cut;
\* of a type with a table or with a list.
BlockOrder == <<par, r0a, r1a, r1b, r2a, r2b>>
InTable(r, c) == [table |-> 0, row |-> r, col |-> c]
Cells == (par :> Null) @@ (r0a :> InTable(0, 0)) @@ (r1a :> InTable(1, 0))
         @@ (r1b :> InTable(1, 1)) @@ (r2a :> InTable(2, 0)) @@ (r2b :> InTable(2, 1))

Char(is, name) == [is |-> is, name |-> name]
A == Char("word", "")
Unmarked == [b \in {BlockOrder[i] : i \in 1 .. 6} |->
                IF b = par THEN <<<<A>>, <<Char("space", ""), A>>>> ELSE <<<<A>>>>]
ByHand == [Unmarked EXCEPT
              ![par] = <<<<Char("field", "number")>>>>,
              ![r1a] = <<<<Char("open", "rows"), Char("field", "year")>>>>,
              ![r1b] = <<<<A, Char("close", "rows")>>>>]

Catalogs ==
    [LIQUIDACION |-> [scalars |-> {"number", "owners"}, rows |-> {"year", "capital"},
                      list |-> <<>>, required |-> {"number", "rows"}],
     MANDAMIENTO |-> [scalars |-> {"number"}, rows |-> {},
                      list |-> <<"id", "separator">>,
                      required |-> {"number", "liquidations"}]]

Marking == INSTANCE GuidedMarking WITH
               Files <- {[type |-> "LIQUIDACION", runs |-> Unmarked, split |-> {}],
                         [type |-> "LIQUIDACION", runs |-> ByHand, split |-> {}],
                         [type |-> "LIQUIDACION", runs |-> ByHand, split |-> {r1a}],
                         [type |-> "MANDAMIENTO", runs |-> Unmarked, split |-> {}]},
               Blocks <- BlockOrder, Cell <- Cells, Catalog <- Catalogs,
               MaxMarks <- 2, file <- docx

\* Two requests for one slot, while a batch uses the cache, which only has room
\* for one of the two contents of a blob; one of them is no template.
Service == INSTANCE RenderService WITH
               Requests <- {q1, q2}, Batches <- {batch}, Slots <- {slot}, Blobs <- {path},
               Broken <- Contents \ {CHOOSE c \in Contents : TRUE}, CacheSize <- 1,
               MaxChanges <- 1, MaxFaults <- 1,
               stored <- held, faults <- serviceFaults

\* Batches of one and two documents; with data that does not fit, a name that is
\* no PDF's, one name twice, and of none; and every reason not to merge.
Doc(name, pages) == [name |-> name, safe |-> TRUE, fits |-> TRUE, pages |-> pages]
BatchInputs ==
    {<<Doc("x", 2)>>, <<Doc("x", 2), Doc("y", 1)>>,
     <<Doc("x", 1), [Doc("y", 1) EXCEPT !.fits = FALSE]>>,
     <<Doc("x", 1), [Doc("y", 1) EXCEPT !.safe = FALSE]>>, <<Doc("x", 1), Doc("x", 2)>>, <<>>}

PlainLayout == [sections |-> 1, varies |-> FALSE, counts |-> {}, start |-> Null, markers |-> FALSE]
Counted == [PlainLayout EXCEPT !.counts = {"header"}]
BatchLayouts ==
    {PlainLayout, Counted, [Counted EXCEPT !.start = 1], [Counted EXCEPT !.start = 3],
     [Counted EXCEPT !.sections = 2], [PlainLayout EXCEPT !.counts = {"body"}],
     [PlainLayout EXCEPT !.markers = TRUE], [PlainLayout EXCEPT !.varies = TRUE]}

\* Two faults in each: every batch of one or two documents and every layout, with
\* one attempt and a delivery too many; three documents and every layout, delivered
\* once; two attempts for two batches, one with data that does not fit.
Batch == INSTANCE BatchConversion WITH
             Inputs <- BatchInputs, Layouts <- BatchLayouts, MaxAttempts <- 1, MaxDeliveries <- 2,
             MaxFaults <- 2, stored <- inputStored, blobs <- pdfs, faults <- batchFaults

Long == INSTANCE BatchConversion WITH
            Inputs <- {<<Doc("x", 1), Doc("y", 2), Doc("z", 1)>>}, Layouts <- BatchLayouts,
            MaxAttempts <- 1, MaxDeliveries <- 1, MaxFaults <- 2,
            stored <- inputStored, blobs <- pdfs, faults <- batchFaults

Retried == INSTANCE BatchConversion WITH
               Inputs <- {<<Doc("x", 2), Doc("y", 1)>>,
                          <<Doc("x", 1), [Doc("y", 1) EXCEPT !.fits = FALSE]>>},
               Layouts <- {Counted}, MaxAttempts <- 2, MaxDeliveries <- 2, MaxFaults <- 2,
               stored <- inputStored, blobs <- pdfs, faults <- batchFaults

\* The bounds are those the modules ask for.
ASSUME Bounds ==
    /\ Crossing!TemplatesScreenAssumption /\ Failing!TemplatesScreenAssumption
    /\ Service!RenderServiceAssumption /\ Batch!BatchConversionAssumption
    /\ Long!BatchConversionAssumption /\ Retried!BatchConversionAssumption

MCInit ==
    /\ part \in {"backend", "crossing", "failing", "marking", "service", "batch", "long",
                "retried"}
    /\ Init
    /\ IF part = "failing" THEN Failing!Init ELSE Crossing!Init
    /\ IF part = "marking" THEN Marking!Init
       ELSE docx = Null /\ selections = {} /\ removed = {} /\ pending = Null
    /\ IF part = "service" THEN Service!Init
       ELSE /\ held = Null /\ idle = {} /\ cache = <<>> /\ handler = Null
            /\ client = Null /\ changes = 0 /\ serviceFaults = 0
    /\ CASE part = "batch" -> Batch!Init
         [] part = "long" -> Long!Init
         [] part = "retried" -> Retried!Init
         [] OTHER ->
            /\ input = Null /\ inputStored = FALSE /\ job = Null
            /\ layout = Null /\ message = Null /\ run = Null
            /\ queued = FALSE /\ poison = FALSE /\ pdfs = <<>> /\ results = {} /\ batchFaults = 0

MCNext ==
    \/ /\ part = "backend" /\ Next
       /\ UNCHANGED <<part, screenVars, markingVars, pdfVars>>
    \/ /\ part = "crossing" /\ Crossing!Next
       /\ UNCHANGED <<part, vars, markingVars, pdfVars>>
    \/ /\ part = "failing" /\ Failing!Next
       /\ UNCHANGED <<part, vars, markingVars, pdfVars>>
    \/ /\ part = "marking" /\ Marking!Next
       /\ UNCHANGED <<part, vars, screenVars, pdfVars>>
    \/ /\ part = "service" /\ Service!Next
       /\ UNCHANGED <<part, vars, screenVars, markingVars, batchVars>>
    \/ /\ part = "batch" /\ Batch!Next
       /\ UNCHANGED <<part, vars, screenVars, markingVars, serviceVars>>
    \/ /\ part = "long" /\ Long!Next
       /\ UNCHANGED <<part, vars, screenVars, markingVars, serviceVars>>
    \/ /\ part = "retried" /\ Retried!Next
       /\ UNCHANGED <<part, vars, screenVars, markingVars, serviceVars>>

MCSpec == MCInit /\ [][MCNext]_allVars

-----------------------------------------------------------------------------

\* The screen and the marking: their variables have their types, a preview is of
\* the marking that would be saved, the text shown with its markers in place is
\* the text that is written, and a screen that waits has a call on its way:
\* nothing it disables stays so for want of an answer.  The PDF service: every PDF
\* is of the template and of the document it was asked for, no slot is lost, and
\* a batch is only refused for what is in it, or when its job is over or its
\* attempts are exhausted.
PartIsTrue ==
    CASE part = "backend" -> TRUE
      [] part = "crossing" -> Crossing!TypeOK /\ Crossing!PreviewIsCurrent
                              /\ Crossing!WaitingHasACall
      [] part = "failing" -> Failing!TypeOK /\ Failing!PreviewIsCurrent
                             /\ Failing!WaitingHasACall
      [] part = "marking" -> Marking!TypeOK /\ Marking!ShownIsWritten
      [] part = "service" -> Service!TypeOK /\ Service!ServiceIsTrue
      [] part = "batch" -> Batch!TypeOK /\ Batch!BatchIsTrue
      [] part = "long" -> Long!TypeOK /\ Long!BatchIsTrue
      [] part = "retried" -> Retried!TypeOK /\ Retried!BatchIsTrue

\* A marking is kept: the browser brings back what was marked whatever closed
\* the screen, the file it is saved to reads back as marked, and the backend
\* refuses of it nothing that the screen let be done, but the last row, a tag cut
\* in two in the document and a marker written by hand in the example row.
MarkingKept ==
    CASE part \in {"backend", "service", "batch", "long", "retried"} -> TRUE
      [] part \in {"crossing", "failing"} -> Crossing!MarkingKept
      [] part = "marking" -> /\ Marking!OnlyLastRowRefused
                             /\ Marking!SavedReadsBack
                             /\ Marking!ReadyIsSaved
=============================================================================
