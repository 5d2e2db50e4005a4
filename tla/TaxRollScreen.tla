---------------------------- MODULE TaxRollScreen ---------------------------
(***************************************************************************)
(* The screen that loads a tax roll, TaxRollUploadPage, against the import *)
(* it calls: what TaxRollService.import does with a file and its record in *)
(* the history.  An import is one transaction; the screen learns of it in  *)
(* a later step, and meanwhile its drop zone still takes files.            *)
(*                                                                         *)
(* A period is what a row of a file is about.  The history table of the    *)
(* screen is left out, and so are the rows an import skips as EN_FIRME     *)
(* (Settlements models them).                                              *)
(***************************************************************************)
EXTENDS Naturals, Sequences

CONSTANTS
    Files, Periods,
    Covers,      \* Covers[f]: the periods in file f
    NameOf,      \* NameOf[f]: its name
    BadFiles,    \* files refused for what they hold
    MaxImports,  \* bound: requests
    MaxFaults,   \* bound: requests that fail
    Null

Results == [id : 1 .. MaxImports, file : Files, conflicts : SUBSET Periods]

\* kept: the file it sent is still the one in the drop zone.
Requests ==
    [file : Files, replace : BOOLEAN, previous : 1 .. MaxImports \cup {Null},
     kept : BOOLEAN, answer : {"wait", "ok", "refused", "fail"},
     result : Results \cup {Null}]

TaxRollScreenAssumption ==
    /\ Covers \in [Files -> (SUBSET Periods) \ {{}}]
    /\ BadFiles \subseteq Files
    /\ MaxImports \in Nat /\ MaxFaults \in Nat
    /\ Null \notin Requests

VARIABLES
    current,     \* current[p]: the file the current settlement of p is from
    imports,     \* tax_roll_imports: the file each entry is about, by id
    job,         \* a bulk job is active
    file,        \* the file in the drop zone
    spent,       \* file = spentFile: the button is off
    result,      \* the outcome shown: [id, file, conflicts], or Null
    leaving,     \* its card is on the way out
    dialog,      \* the dialog that confirms a replacement is open
    call,        \* the request in flight, or Null
    sent, faults

backend == <<current, imports, job>>
screen  == <<file, spent, result, leaving, dialog>>
bounds  == <<sent, faults>>
vars    == <<backend, screen, call, bounds>>

TypeOK ==
    /\ current \in [Periods -> Files \cup {Null}]
    /\ imports \in Seq(Files) /\ Len(imports) <= MaxImports
    /\ job \in BOOLEAN
    /\ file \in Files \cup {Null}
    /\ spent \in BOOLEAN /\ (spent => file # Null)
    /\ result \in Results \cup {Null}
    /\ leaving \in BOOLEAN /\ dialog \in BOOLEAN
    /\ call \in Requests \cup {Null}
    /\ sent \in 0 .. MaxImports /\ faults \in 0 .. MaxFaults

Init ==
    /\ current = [p \in Periods |-> Null]
    /\ imports = <<>>
    /\ job = FALSE
    /\ file = Null /\ spent = FALSE
    /\ result = Null /\ leaving = FALSE /\ dialog = FALSE
    /\ call = Null
    /\ sent = 0 /\ faults = 0

-----------------------------------------------------------------------------
(* The backend *)

JobStartsOrEnds ==
    /\ job' = ~job
    /\ UNCHANGED <<current, imports, screen, call, bounds>>

\* persistTaxRoll: a file with conflicts is saved only when its replacement
\* was confirmed, and then they are conflicts no more.
Conflicts(c) ==
    IF c.replace THEN {} ELSE {p \in Covers[c.file] : current[p] # Null}

\* recordImport: the entry being continued, if its file has the same name.
Entry(c) ==
    IF /\ c.previous # Null
       /\ NameOf[imports[c.previous]] = NameOf[c.file]
    THEN c.previous ELSE Len(imports) + 1

Answered(answer, outcome) ==
    call' = [call EXCEPT !.answer = answer, !.result = outcome]

Import ==
    /\ call # Null
    /\ call.answer = "wait"
    /\ \/ /\ call.file \in BadFiles \/ job
          /\ Answered("refused", Null)
          /\ UNCHANGED <<current, imports>>
       \/ /\ call.file \notin BadFiles /\ ~job
          /\ LET conflicts == Conflicts(call)
                 id == Entry(call)
             IN /\ current' = [p \in Periods |->
                       IF conflicts = {} /\ p \in Covers[call.file]
                       THEN call.file ELSE current[p]]
                /\ imports' = [i \in 1 .. (IF id > Len(imports) THEN id
                                           ELSE Len(imports)) |->
                                 IF i = id THEN call.file ELSE imports[i]]
                /\ Answered("ok", [id |-> id, file |-> call.file,
                                   conflicts |-> conflicts])
    /\ UNCHANGED <<job, screen, bounds>>

\* No answer arrives; the import may be done.
Fails ==
    /\ call # Null /\ call.answer # "fail"
    /\ faults < MaxFaults
    /\ faults' = faults + 1
    /\ Answered("fail", Null)
    /\ UNCHANGED <<backend, screen, sent>>

-----------------------------------------------------------------------------
(* The screen *)

\* resetOutcome
NoOutcome == result' = Null /\ leaving' = FALSE

\* The drop zone, which no request locks; the dialog covers it.  Picking the
\* same file again makes it another File.
Choose(f) ==
    /\ ~dialog
    /\ file' = f
    /\ spent' = FALSE
    /\ NoOutcome
    /\ call' = IF call = Null THEN Null ELSE [call EXCEPT !.kept = FALSE]
    /\ UNCHANGED <<backend, dialog, bounds>>

Request(replace, previous) ==
    /\ sent < MaxImports
    /\ sent' = sent + 1
    /\ call' = [file |-> file, replace |-> replace, previous |-> previous,
                kept |-> TRUE, answer |-> "wait", result |-> Null]

Processing == call # Null /\ ~call.replace
Confirming == call # Null /\ call.replace

\* handleProcess
Process ==
    /\ file # Null /\ ~spent
    /\ ~Processing /\ ~dialog
    /\ NoOutcome
    /\ Request(FALSE, Null)
    /\ UNCHANGED <<backend, file, spent, dialog, faults>>

\* "Reemplazar" on the result card.
Reopen ==
    /\ result # Null
    /\ result.conflicts # {}
    /\ ~dialog
    /\ dialog' = TRUE
    /\ UNCHANGED <<backend, file, spent, result, leaving, call, bounds>>

\* The card is closed or swiped away, and is gone once its animation ends.
CloseCard ==
    /\ result # Null /\ ~leaving /\ ~dialog
    /\ leaving' = TRUE
    /\ UNCHANGED <<backend, file, spent, result, dialog, call, bounds>>

CardGone ==
    /\ leaving
    /\ NoOutcome
    /\ UNCHANGED <<backend, file, spent, dialog, call, bounds>>

MayClose == dialog /\ ~Confirming

Cancel ==
    /\ MayClose
    /\ dialog' = FALSE
    /\ UNCHANGED <<backend, file, spent, result, leaving, call, bounds>>

\* handleConfirmReplace: the file now in the drop zone.
Confirm ==
    /\ dialog /\ ~Confirming
    /\ file # Null
    /\ Request(TRUE, IF result = Null THEN Null ELSE result.id)
    /\ UNCHANGED <<backend, screen, faults>>

\* setSpentFile of the file that was sent.
Spend(c) == spent' = (c.kept /\ file # Null)

DeliverAnswer ==
    /\ call # Null /\ call.answer # "wait"
    /\ call' = Null
    /\ \/ /\ call.answer = "ok"
          /\ result' = call.result
          /\ IF call.replace THEN UNCHANGED spent ELSE Spend(call)
          /\ dialog' = (~call.replace /\ call.result.conflicts # {})
       \/ /\ call.answer = "refused"
          /\ Spend(call)
          /\ dialog' = FALSE
          /\ UNCHANGED result
       \/ /\ call.answer = "fail"
          /\ dialog' = FALSE
          /\ UNCHANGED <<result, spent>>
    /\ UNCHANGED <<backend, file, leaving, bounds>>

-----------------------------------------------------------------------------

Next ==
    \/ JobStartsOrEnds \/ Import \/ Fails
    \/ \E f \in Files \cup {Null} : Choose(f)
    \/ Process \/ Reopen \/ CloseCard \/ CardGone \/ Cancel \/ Confirm
    \/ DeliverAnswer

Spec == Init /\ [][Next]_vars

-----------------------------------------------------------------------------
(* Properties *)

\* The dialog is open as long as a replacement is on its way, so nothing else
\* can be sent meanwhile.
ConfirmingIsModal == Confirming => dialog
=============================================================================
