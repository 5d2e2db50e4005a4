------------------------- MODULE SettlementsScreen -------------------------
(***************************************************************************)
(* The screen Liquidaciones of one tab (SettlementsPage and its sheet),    *)
(* against SettlementsService.search and changeStatus and the individual   *)
(* PDF, with Slompsim open beside it.                                      *)
(*                                                                         *)
(* A request is three steps: the click that sends it, the backend that     *)
(* handles it and the answer that lands, in any order with the others.     *)
(* Two rows of the table may be one property and period: the import of a   *)
(* roll replaces the first by the second.  A payment order (and so         *)
(* PRESCRITA) is not modelled; texts and toasts neither.                   *)
(***************************************************************************)
EXTENDS SettlementGroups

CONSTANTS
    Reissued,    \* settlement -> the one the next roll replaces it by, or itself
    Criteria,    \* what can be searched
    Finds,       \* the properties each criterion finds
    MaxCalls,    \* bound: requests of the tab
    MaxOthers,   \* bound: changes other actors make
    MaxFaults    \* bound: requests that fail or lose their answer

SettlementsScreenAssumption ==
    /\ Reissued \in [Settlement -> Settlement]
    /\ PeriodOf \in [Settlement -> Nat]
    /\ Null \notin Nat /\ Null \notin Settlement /\ Null \notin Criteria
    /\ \A s \in Settlement :
          /\ PropertyOf[Reissued[s]] = PropertyOf[s]
          /\ PeriodOf[Reissued[s]] = PeriodOf[s]
    /\ DOMAIN Finds = Criteria
    /\ {MaxCalls, MaxOthers, MaxFaults} \subseteq Nat

VARIABLES
    stored,      \* the table: [current, status, res, aged, missing] of each
    counter,     \* the last resolution number
    job,         \* the number of the bulk job that runs, or Null
    results,     \* the rows of the list: a set of groups
    listState,
    searched,    \* searched.current
    selected,    \* selectedId
    sheetId,     \* sheetEntryId
    editing,     \* editingId
    saving,      \* statusChangeId
    failed,      \* failedStatusChange when it offers a retry, or Null
    dialog,      \* isPdfDialogOpen
    generating,  \* isGeneratingPdf
    slompsim,    \* the panel of Slompsim is open
    effect,      \* the search of what Slompsim applied that counts, 0 if none
    calls,       \* requests on their way
    sent, others, faults,   \* counted against the bounds
    clock,       \* history: events of the backend so far
    readAt,      \* when the list that shows was read
    wroteAt,     \* the last change this tab made
    otherAt,     \* the last change another actor made
    behind,      \* the list missed a change of this tab
    reverted     \* a number was taken back

table   == <<stored, counter, job>>
list    == <<results, listState, searched>>
sheet   == <<selected, sheetId, editing, saving, failed>>
pdf     == <<dialog, generating>>
panel   == <<slompsim, effect>>
bounds  == <<sent, others, faults>>
history == <<clock, readAt, wroteAt, otherAt, behind, reverted>>
vars == <<table, list, sheet, pdf, panel, calls, bounds, history>>

Statuses == {"VIGENTE", "EN_FIRME", "PAGADA"}

Searches == {"search", "refresh", "applied"}

TypeOK ==
    /\ stored \in [Settlement -> [current : BOOLEAN, status : Statuses,
                                  res : Nat \cup {Null}, aged : BOOLEAN,
                                  missing : BOOLEAN]]
    /\ counter \in Nat /\ job \in Nat \cup {Null}
    /\ searched \in Criteria \cup {Null}
    /\ \A g \in results :
          /\ g.id \in DOMAIN g.settlements /\ DOMAIN g.settlements \subseteq Settlement
          /\ \A h \in results : h.id = g.id => h = g
    /\ listState \in {"idle", "loading", "results", "empty", "invalid", "error"}
    /\ {selected, sheetId, editing, saving} \subseteq Settlement \cup {Null}
    /\ failed \in [row : Settlement, to : Statuses] \cup {Null}
    /\ {dialog, generating, slompsim, behind, reverted} \subseteq BOOLEAN
    /\ effect \in 0 .. sent
    /\ \A c \in calls :
          /\ c.id \in 1 .. sent
          /\ c.kind \in Searches \cup {"status", "pdf", "confirm"}
          /\ c.state \in {"sent", "done", "refused", "lost"}

Init ==
    /\ stored = [s \in Settlement |->
                   [current |-> \A t \in Settlement : Reissued[t] = s => t = s,
                    status |-> "VIGENTE", res |-> Null, aged |-> FALSE,
                    missing |-> FALSE]]
    /\ counter = 0 /\ job = Null
    /\ results = {} /\ listState = "idle" /\ searched = Null
    /\ selected = Null /\ sheetId = Null /\ editing = Null /\ saving = Null
    /\ failed = Null /\ dialog = FALSE /\ generating = FALSE
    /\ slompsim = FALSE /\ effect = 0 /\ calls = {}
    /\ sent = 0 /\ others = 0 /\ faults = 0
    /\ clock = 0 /\ readAt = 0 /\ wroteAt = 0 /\ otherAt = 0
    /\ behind = FALSE /\ reverted = FALSE

-----------------------------------------------------------------------------
(***************************************************************************)
(* The backend                                                             *)
(***************************************************************************)

\* allowedStatuses, without a payment order.
Allowed(s) == {s.status, IF s.aged THEN "EN_FIRME" ELSE "VIGENTE", "PAGADA"}

Current(P) == {s \in Settlement : PropertyOf[s] \in P /\ stored[s].current}

Group(members) ==
    [id |-> Trigger(members), res |-> stored[Trigger(members)].res,
     missing |-> MissingOf(stored, members),
     status |-> StatusOf({stored[s].status : s \in members}),
     settlements |-> [s \in members |->
                        [status |-> stored[s].status,
                         allowed |-> Allowed(stored[s])]]]

\* SettlementsService.search.
Found(criteria) == {Group(m) : m \in Buckets(stored, Current(Finds[criteria]))}

Pending(p) == {s \in Current({p}) : stored[s].res = Null}

\* The members of the settlement's group, of its resolution or a future one.
GroupMembers(s) ==
    IF stored[s].res # Null
    THEN {t \in Current({PropertyOf[s]}) : stored[t].res = stored[s].res}
    ELSE FutureGroup(Pending(PropertyOf[s]), s)

\* missingPeriodsOfGroup, read after the change.
MissingOfGroup(s, table2) == MissingOf(table2, GroupMembers(s))

Answer(c, state, said) ==
    calls' = (calls \ {c}) \cup
             {[c EXCEPT !.state = state, !.said = said, !.at = clock + 1]}

HandleSearch(c) ==
    /\ c.kind \in Searches /\ c.state = "sent"
    /\ clock' = clock + 1
    /\ Answer(c, "done", Found(c.of))
    /\ UNCHANGED <<table, readAt, wroteAt, otherAt, behind, reverted>>

\* SettlementsService.changeStatus.
HandleStatus(c) ==
    /\ c.kind = "status" /\ c.state = "sent"
    /\ clock' = clock + 1
    /\ IF ~stored[c.of].current \/ c.to \notin Allowed(stored[c.of])
       THEN /\ Answer(c, "refused", Null)
            /\ UNCHANGED <<stored, wroteAt>>
       ELSE LET changed == [stored EXCEPT ![c.of].status = c.to]
            IN /\ stored' = changed
               /\ Answer(c, "done",
                         [status |-> c.to, allowed |-> Allowed(changed[c.of]),
                          missing |-> MissingOfGroup(c.of, changed)])
               /\ wroteAt' = clock + 1
    /\ UNCHANGED <<counter, job, readAt, otherAt, behind, reverted>>

\* GenerateLiquidationPdfService: the resolution the first time, no number
\* while a bulk job runs.
HandlePdf(c) ==
    /\ c.kind = "pdf" /\ c.state = "sent"
    /\ clock' = clock + 1
    /\ \/ /\ ~stored[c.of].current \/ (stored[c.of].res = Null /\ job # Null)
          /\ Answer(c, "refused", Null)
          /\ UNCHANGED <<stored, counter, wroteAt>>
       \/ /\ stored[c.of].current /\ stored[c.of].res # Null
          /\ Answer(c, "done", FALSE)
          /\ UNCHANGED <<stored, counter, wroteAt>>
       \/ /\ stored[c.of].current /\ stored[c.of].res = Null /\ job = Null
          /\ counter' = counter + 1
          /\ stored' = [s \in Settlement |->
                          IF s \in FutureGroup(Pending(PropertyOf[c.of]), c.of)
                          THEN [stored[s] EXCEPT !.res = counter + 1]
                          ELSE stored[s]]
          /\ Answer(c, "done", TRUE)
          /\ wroteAt' = clock + 1
    /\ UNCHANGED <<job, readAt, otherAt, behind, reverted>>

\* AssistantChangesService.confirm, of one settlement.
HandleConfirm(c) ==
    /\ c.kind = "confirm" /\ c.state = "sent"
    /\ clock' = clock + 1
    /\ IF ~stored[c.of].current \/ c.to \notin Allowed(stored[c.of])
       THEN /\ Answer(c, "refused", Null)
            /\ UNCHANGED <<stored, wroteAt>>
       ELSE /\ stored' = [stored EXCEPT ![c.of].status = c.to]
            /\ Answer(c, "done", Null)
            /\ wroteAt' = clock + 1
    /\ UNCHANGED <<counter, job, readAt, otherAt, behind, reverted>>

Handle(c) ==
    /\ HandleSearch(c) \/ HandleStatus(c) \/ HandlePdf(c) \/ HandleConfirm(c)
    /\ UNCHANGED <<list, sheet, pdf, panel, bounds>>

\* The request, or its answer, is lost: the tab sees it fail.
Lose(c) ==
    /\ c.state \in {"sent", "done"} /\ faults < MaxFaults
    /\ faults' = faults + 1
    /\ calls' = (calls \ {c}) \cup {[c EXCEPT !.state = "lost"]}
    /\ behind' = (behind \/ (c.state = "done" /\ c.kind \notin Searches))
    /\ UNCHANGED <<table, list, sheet, pdf, panel, sent, others, clock, readAt,
                   wroteAt, otherAt, reverted>>

-----------------------------------------------------------------------------
(***************************************************************************)
(* Other actors                                                            *)
(***************************************************************************)

Other ==
    /\ others < MaxOthers
    /\ others' = others + 1 /\ clock' = clock + 1 /\ otherAt' = clock + 1
    /\ UNCHANGED <<list, sheet, pdf, panel, calls, sent, faults, readAt,
                   wroteAt, behind>>

\* Another tab changes a status.
OtherChanges(s, to) ==
    /\ Other
    /\ stored[s].current /\ to \in Allowed(stored[s]) \ {stored[s].status}
    /\ stored' = [stored EXCEPT ![s].status = to]
    /\ UNCHANGED <<counter, job, reverted>>

\* Sixty days pass, with the sweep of the resolutions that are firm.
SixtyDays ==
    /\ Other
    /\ \E s \in Settlement : stored[s].res # Null /\ ~stored[s].aged
    /\ stored' = [s \in Settlement |->
                    IF stored[s].res = Null THEN stored[s]
                    ELSE [stored[s] EXCEPT
                            !.aged = TRUE,
                            !.status = IF @ = "VIGENTE" THEN "EN_FIRME" ELSE @]]
    /\ UNCHANGED <<counter, job, reverted>>

\* A tax roll replaces a settlement, or no longer brings it.
Import(s) ==
    /\ Other
    /\ stored[s].current
    /\ \/ /\ Reissued[s] # s
          /\ stored' = [stored EXCEPT ![s].current = FALSE,
                                      ![Reissued[s]].current = TRUE]
       \/ /\ ~stored[s].missing
          /\ stored' = [stored EXCEPT ![s].missing = TRUE]
    /\ UNCHANGED <<counter, job, reverted>>

\* A bulk job gives the settlement's future group its number.
JobIssues(s) ==
    /\ Other
    /\ job = Null /\ stored[s].current /\ stored[s].res = Null
    /\ counter' = counter + 1 /\ job' = counter + 1
    /\ stored' = [t \in Settlement |->
                    IF t \in FutureGroup(Pending(PropertyOf[s]), s)
                    THEN [stored[t] EXCEPT !.res = counter + 1] ELSE stored[t]]
    /\ UNCHANGED reverted

\* It ends: its number stays, or is taken back.
JobEnds ==
    /\ Other
    /\ job # Null /\ job' = Null
    /\ \/ UNCHANGED <<stored, counter, reverted>>
       \/ /\ counter' = counter - 1
          /\ stored' = [s \in Settlement |->
                          IF stored[s].res = job
                          THEN [stored[s] EXCEPT !.res = Null] ELSE stored[s]]
          /\ reverted' = TRUE

-----------------------------------------------------------------------------
(***************************************************************************)
(* The screen                                                              *)
(***************************************************************************)

\* sheetEntry: the row of the list the sheet shows, if the list has it.
Entry(id) == {g \in results : g.id = id}

HasEntry == Entry(sheetId) # {}
SheetEntry == CHOOSE g \in results : g.id = sheetId

\* The rest of the page is inert while its dialog is open.
Click == ~dialog /\ UNCHANGED <<table, faults, others, clock, readAt, wroteAt,
                                otherAt, behind, reverted>>

\* A request about a criterion or a settlement; of a change also the status it
\* asks and the sheet, of a PDF whether it is the first and the dialog asked.
Request(kind, of, to, sheetOf, first, asked) ==
    [id |-> sent + 1, kind |-> kind, of |-> of, to |-> to, sheet |-> sheetOf,
     first |-> first, asked |-> asked, state |-> "sent", said |-> Null, at |-> 0]

Read(kind, criteria) == Request(kind, criteria, Null, Null, FALSE, FALSE)

Pdf(asked) == Request("pdf", sheetId, Null, Null, SheetEntry.res = Null, asked)

\* A click that sends a request.
Send(call) ==
    /\ sent < MaxCalls /\ sent' = sent + 1
    /\ calls' = calls \cup {call}

\* One that the page sends by itself.
SendAfter(landed, kind) ==
    /\ sent' = sent + 1
    /\ calls' = (calls \ {landed}) \cup {Read(kind, searched)}

\* handleSearch, from the bar (criteria written, or Null when it is blank) or
\* from "Reintentar"; the bar is locked while one is on its way.
Search(criteria) ==
    /\ Click /\ listState # "loading"
    /\ failed' = Null /\ selected' = Null /\ sheetId' = Null /\ editing' = Null
    /\ IF criteria = Null
       THEN /\ listState' = "invalid"
            /\ UNCHANGED <<calls, sent>>
       ELSE /\ listState' = "loading"
            /\ Send(Read("search", criteria))
    /\ UNCHANGED <<results, searched, saving, pdf, panel>>

LandSearch(c) ==
    /\ c.kind = "search" /\ c.state \in {"done", "lost"}
    /\ calls' = calls \ {c}
    /\ IF c.state = "done"
       THEN /\ results' = c.said
            /\ searched' = c.of
            /\ listState' = IF c.said = {} THEN "empty" ELSE "results"
            /\ readAt' = c.at
            /\ behind' = (c.at < wroteAt)
       ELSE /\ listState' = "error"
            /\ UNCHANGED <<results, searched, readAt, behind>>
    /\ UNCHANGED <<table, sheet, pdf, panel, bounds, clock, wroteAt, otherAt,
                   reverted>>

\* The list again, after a first PDF (refreshResults) or what Slompsim applied.
LandAgain(c) ==
    /\ c.kind \in {"refresh", "applied"} /\ c.state \in {"done", "lost"}
    /\ calls' = calls \ {c}
    /\ \/ /\ c.kind = "applied" /\ c.id # effect   \* cancelled
          /\ UNCHANGED <<results, listState, readAt, behind>>
       \/ /\ c.kind = "refresh" \/ c.id = effect
          /\ c.state = "done"
          /\ results' = c.said
          /\ readAt' = c.at
          /\ behind' = (c.at < wroteAt \/ c.of # searched)
          /\ UNCHANGED listState
       \/ /\ c.kind = "refresh" \/ c.id = effect
          /\ c.state = "lost"
          /\ listState' = IF c.kind = "applied" THEN "error" ELSE listState
          /\ behind' = TRUE
          /\ UNCHANGED <<results, readAt>>
    /\ UNCHANGED <<table, searched, sheet, pdf, panel, bounds, clock, wroteAt,
                   otherAt, reverted>>

\* closeSheet.
CloseSheet ==
    /\ Click /\ selected # Null
    /\ selected' = Null /\ editing' = Null
    /\ UNCHANGED <<list, sheetId, saving, failed, pdf, panel, calls, sent>>

\* handleToggle, of a row that is not the open one.
Open(id) ==
    /\ Click /\ listState = "results" /\ id # selected
    /\ selected' = id /\ sheetId' = id /\ editing' = Null /\ failed' = Null
    /\ slompsim' = FALSE
    /\ UNCHANGED <<list, saving, pdf, effect, calls, sent>>

\* Opening Slompsim closes the sheet.
OpenSlompsim ==
    /\ Click /\ ~slompsim
    /\ slompsim' = TRUE /\ selected' = Null /\ editing' = Null
    /\ UNCHANGED <<list, sheetId, saving, failed, pdf, effect, calls, sent>>

\* The Administrator confirms a proposal of Slompsim, reviewed before.
Confirm(s, to) ==
    /\ Click /\ slompsim /\ stored[s].current
    /\ to \in Allowed(stored[s]) \ {stored[s].status}
    /\ Send(Request("confirm", s, to, Null, FALSE, FALSE))
    /\ UNCHANGED <<list, sheet, pdf, panel>>

\* What it applied grows: the effect searches again, the last one counts.
LandConfirm(c) ==
    /\ c.kind = "confirm" /\ c.state \in {"done", "refused", "lost"}
    /\ IF c.state = "done" /\ searched # Null
       THEN /\ SendAfter(c, "applied")
            /\ effect' = sent + 1
       ELSE /\ calls' = calls \ {c}
            /\ UNCHANGED <<sent, effect>>
    /\ UNCHANGED <<table, list, sheet, pdf, slompsim, others, faults, history>>

\* The pencil of a period, with no other being edited.
Edit(s) ==
    /\ Click /\ selected # Null /\ HasEntry
    /\ s \in DOMAIN SheetEntry.settlements /\ editing = Null
    /\ editing' = s
    /\ UNCHANGED <<list, selected, sheetId, saving, failed, pdf, panel, calls, sent>>

CancelEdit ==
    /\ Click /\ selected # Null /\ editing # Null /\ saving # editing
    /\ editing' = Null
    /\ UNCHANGED <<list, selected, sheetId, saving, failed, pdf, panel, calls, sent>>

\* handleStatusChange, from the selector of the period.
Save(to) ==
    /\ Click /\ selected # Null /\ HasEntry
    /\ editing \in DOMAIN SheetEntry.settlements /\ saving # editing
    /\ to \in SheetEntry.settlements[editing].allowed
    /\ IF to = SheetEntry.settlements[editing].status
       THEN /\ editing' = Null
            /\ UNCHANGED <<saving, failed, calls, sent>>
       ELSE /\ saving' = editing /\ failed' = Null
            /\ Send(Request("status", editing, to, sheetId, FALSE, FALSE))
            /\ UNCHANGED editing
    /\ UNCHANGED <<list, selected, sheetId, pdf, panel>>

\* The same from the notice of one that failed, whatever sheet shows it.
RetrySave ==
    /\ Click /\ selected # Null /\ HasEntry /\ failed # Null
    /\ saving' = failed.row /\ failed' = Null
    /\ Send(Request("status", failed.row, failed.to, sheetId, FALSE, FALSE))
    /\ UNCHANGED <<list, selected, sheetId, editing, pdf, panel>>

\* withPeriodChanged.
WithPeriodChanged(g, s, said) ==
    LET settlements ==
          [t \in DOMAIN g.settlements |->
             IF t = s THEN [status |-> said.status, allowed |-> said.allowed]
                      ELSE g.settlements[t]]
    IN [g EXCEPT !.settlements = settlements,
                 !.status = StatusOf({settlements[t].status : t \in DOMAIN settlements}),
                 !.missing = said.missing]

\* The row that takes the change is the one of the sheet that sent it.
ChangedIn(c) == c.sheet

\* History: the answer crosses a newer list, or one of an older change, or the
\* sheet that sent it is not of the row that changed.
Crosses(c) ==
    \/ readAt > c.at
    \/ \E d \in calls : d.kind = "status" /\ d.at \in 1 .. c.at - 1
    \/ \A g \in Entry(c.sheet) : c.of \notin DOMAIN g.settlements

LandStatus(c) ==
    /\ c.kind = "status" /\ c.state \in {"done", "refused", "lost"}
    /\ calls' = calls \ {c}
    /\ saving' = Null
    /\ IF c.state = "done"
       THEN /\ results' = {IF g.id = ChangedIn(c) THEN WithPeriodChanged(g, c.of, c.said)
                                                 ELSE g : g \in results}
            /\ editing' = Null
            /\ behind' = (behind \/ Crosses(c))
            /\ UNCHANGED failed
       ELSE /\ failed' = IF c.state = "lost" THEN [row |-> c.of, to |-> c.to] ELSE Null
            /\ UNCHANGED <<results, editing, behind>>
    /\ UNCHANGED <<table, listState, searched, selected, sheetId, pdf, panel,
                   bounds, clock, readAt, wroteAt, otherAt, reverted>>

\* handleGenerateFromSheet: asks first, unless the row has its resolution.
AsksFirst == SheetEntry.res = Null

Generate ==
    /\ Click /\ selected # Null /\ HasEntry /\ ~generating
    /\ IF AsksFirst
       THEN /\ dialog' = TRUE
            /\ UNCHANGED <<generating, calls, sent>>
       ELSE /\ generating' = TRUE
            /\ Send(Pdf(FALSE))
            /\ UNCHANGED dialog
    /\ UNCHANGED <<list, sheet, panel>>

\* "Generar" of the dialog: handleGeneratePdf.
GenerateAsked ==
    /\ dialog /\ ~generating /\ HasEntry
    /\ generating' = TRUE
    /\ Send(Pdf(TRUE))
    /\ UNCHANGED <<table, list, sheet, dialog, panel, others, faults, history>>

CancelDialog ==
    /\ dialog /\ ~generating
    /\ dialog' = FALSE
    /\ UNCHANGED <<table, list, sheet, generating, panel, calls, bounds, history>>

\* A first PDF gave the row its resolution: the list is read again.  Whether it
\* is the first is known since the click: if the row had its resolution then and
\* a job took it back meanwhile, the new number does not reach the list.
LandPdf(c) ==
    /\ c.kind = "pdf" /\ c.state \in {"done", "refused", "lost"}
    /\ generating' = FALSE
    /\ IF c.state = "done"
       THEN /\ dialog' = FALSE
            /\ behind' = (behind \/ (c.said /\ ~c.first))
            /\ IF c.first /\ searched # Null
               THEN SendAfter(c, "refresh")
               ELSE /\ calls' = calls \ {c}
                    /\ UNCHANGED sent
       ELSE /\ calls' = calls \ {c}
            /\ UNCHANGED <<dialog, sent, behind>>
    /\ UNCHANGED <<table, list, sheet, panel, others, faults, clock, readAt,
                   wroteAt, otherAt, reverted>>

Next ==
    \/ \E c \in calls :
          \/ Handle(c) \/ Lose(c)
          \/ LandSearch(c) \/ LandAgain(c) \/ LandConfirm(c) \/ LandStatus(c)
          \/ LandPdf(c)
    \/ \E c \in Criteria \cup {Null} : Search(c)
    \/ \E s \in Settlement :
          \/ Import(s) \/ JobIssues(s) \/ Edit(s)
          \/ \E to \in Statuses : OtherChanges(s, to) \/ Confirm(s, to)
    \/ \E g \in results : Open(g.id)
    \/ \E to \in Statuses : Save(to)
    \/ SixtyDays \/ JobEnds \/ CloseSheet \/ OpenSlompsim \/ CancelEdit
    \/ RetrySave \/ Generate \/ GenerateAsked \/ CancelDialog

Spec == Init /\ [][Next]_vars

-----------------------------------------------------------------------------
(***************************************************************************)
(* Properties                                                              *)
(***************************************************************************)

\* Nothing is on its way, nobody else changed a settlement since the list was
\* read, and the list missed no change of this tab (an answer that was lost,
\* one that crossed another, a retry pressed in the sheet of another row, a
\* number given to a row that had another when its PDF was asked): then the
\* list is what its search would find now, row by row, with each period's state
\* and options, the row's state and its missing periods.  The answer of a change
\* and the search compute them apart (withPeriodChanged,
\* missingPeriodsOfGroup).
ListIsTrue ==
    calls = {} /\ ~behind /\ otherAt < readAt /\ listState = "results"
        => results = Found(searched)

\* A number is issued from this screen only after its dialog asked, as long as
\* no bulk job took a number back: "The first PDF of a liquidation issues its
\* resolution, which can't be undone, so it is confirmed"
\* (GeneratePdfDialog.tsx:9-11).
IssuedAfterAsking ==
    \A c \in calls :
        c.kind = "pdf" /\ c.state = "done" /\ c.said /\ ~c.asked => reverted

\* What says it waits has a request that will end it, and never two panels on
\* the right (SettlementsPage.tsx:69).
NothingHangs ==
    /\ listState = "loading" => \E c \in calls : c.kind = "search"
    /\ saving # Null => \E c \in calls : c.kind = "status" /\ c.of = saving
    /\ generating => \E c \in calls : c.kind = "pdf"
    /\ ~(slompsim /\ selected # Null)
    /\ editing # Null => selected # Null

ScreenIsTrue == ListIsTrue /\ IssuedAfterAsking /\ NothingHangs
=============================================================================
