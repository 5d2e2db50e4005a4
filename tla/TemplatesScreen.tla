-------------------------- MODULE TemplatesScreen --------------------------
(***************************************************************************)
(* The screen of the templates: TemplatesPage with the upload and the      *)
(* history of DocumentTemplates, GuidedMarking with its two dialogs, and   *)
(* the draft this browser remembers (templateDraftStorage).  The backend   *)
(* is what the screen sees of Templates: the drafts that are live and the  *)
(* versions, one of them active.                                           *)
(*                                                                         *)
(* Every request is a call with its own moment at the backend and its own  *)
(* answer, in any order.  A screen that is gone still gets the answers of  *)
(* what it asked, except those it aborts.  The marking is a value: what    *)
(* may be marked is GuidedMarking.  One document type, one tab.            *)
(***************************************************************************)
EXTENDS Naturals, FiniteSets

CONSTANTS
    MaxDrafts,   \* bound: files uploaded
    Markings,    \* what the lawyer may have marked
    Blank,       \* the marking with nothing in it
    Whole,       \* drafts whose file brings every required marker
    Full,        \* markings with every required marker
    MaxCalls,    \* bound: calls in flight
    MaxLate,     \* bound: those of them that a screen leaves behind
    MaxVersions, \* bound: versions
    MaxVisits,   \* bound: how often the screen is entered
    MaxFaults,   \* bound: calls that fail, drafts that expire
    Null

TemplatesScreenAssumption ==
    /\ MaxDrafts \in Nat /\ Whole \subseteq 1 .. MaxDrafts
    /\ Blank \in Markings /\ Full \subseteq Markings
    /\ MaxCalls \in Nat \ {0} /\ MaxLate \in Nat /\ MaxVersions \in Nat
    /\ MaxVisits \in Nat \ {0} /\ MaxFaults \in Nat
    /\ Null \notin Markings \cup Nat
    /\ Null \notin [draft : 1 .. MaxDrafts, marking : Markings]

VARIABLES
    \* the backend
    live,        \* drafts that exist and have not expired
    versions,    \* how many versions there are
    active,      \* the active version, or 0
    made,        \* the draft and marking each is made of; Null: another lawyer's
    \* the browser
    stored,      \* the draft in localStorage, or Null
    page,        \* the page that is on
    visit,       \* which visit it is
    \* GuidedMarking
    draft, marking, step, content, known, replacing, saving, discardOpen,
    discarding, preview, previewKey,
    \* DocumentTemplates
    uploading, shown, listError, toActivate, activating,
    calls,
    \* history
    last,        \* the draft that was last open, and its marking
    givenUp,     \* drafts the lawyer asked to discard
    saved,       \* drafts a save was answered for
    strays,      \* drafts whose upload answered after its screen had gone
    uploads,     \* how many drafts were uploaded
    faults

backend == <<live, versions, active, made>>
editor  == <<draft, marking, step, content, known, replacing, saving,
             discardOpen, discarding, preview, previewKey>>
list    == <<uploading, shown, listError, toActivate, activating>>
history == <<last, givenUp, saved, strays, uploads>>
vars == <<backend, stored, page, visit, editor, list, calls, history, faults>>

DraftIds == 1 .. MaxDrafts
Versions == 0 .. MaxVersions

MarkingOf(d, m) == [draft |-> d, marking |-> m]

Complete(d, m) == d \in Whole \/ m \in Full

Kinds == {"content", "list", "listToSave", "listAgain", "preview", "save",
          "cancel", "upload", "history", "activate"}

Call(kind, d, m) ==
    [kind |-> kind, visit |-> visit, draft |-> d, marking |-> m, sure |-> FALSE,
     version |-> 0, twin |-> FALSE, answer |-> "wait"]

NoPreview == [status |-> "loading", of |-> Null]

TypeOK ==
    /\ live \subseteq DraftIds
    /\ versions \in Versions /\ active \in 0 .. versions
    /\ made \in [1 .. MaxVersions -> [draft : DraftIds, marking : Markings] \cup {Null}]
    /\ stored \in [draft : DraftIds, marking : Markings] \cup {Null}
    /\ page \in {"list", "marking", "away"} /\ visit \in 1 .. MaxVisits
    /\ draft \in DraftIds \cup {Null} /\ (page = "marking" <=> draft # Null)
    /\ marking \in Markings /\ step \in {"mark", "review"}
    /\ content \in {"loading", "ready", "error"}
    /\ known \in Versions \cup {Null} /\ replacing \in Versions
    /\ \A b \in {saving, discardOpen, discarding, uploading, listError,
                 activating} : b \in BOOLEAN
    /\ preview \in [status : {"loading", "error", "ready"},
                    of : Markings \cup {Null}]
    /\ previewKey \in Markings \cup {Null}
    /\ shown \in Versions \cup {Null} /\ toActivate \in Versions
    /\ calls \subseteq
          [kind : Kinds, visit : 1 .. MaxVisits, draft : DraftIds \cup {Null},
           marking : Markings, sure : BOOLEAN, version : Versions,
           twin : BOOLEAN,
           answer : {"wait", "ok", "gone", "refused", "fail"}]
    /\ Cardinality(calls) <= MaxCalls
    /\ last \in [draft : DraftIds, marking : Markings] \cup {Null}
    /\ givenUp \subseteq DraftIds /\ strays \subseteq DraftIds
    /\ saved \subseteq DraftIds
    /\ uploads \in 0 .. MaxDrafts
    /\ faults \in 0 .. MaxFaults

-----------------------------------------------------------------------------
(* Calls *)

Waiting(kind) == {c \in calls : c.kind = kind /\ c.visit = visit}

\* The calls kept, and one more; one like it may be on its way already.
With(kept, new) ==
    LET one == IF new \in kept THEN [new EXCEPT !.twin = TRUE] ELSE new
    IN /\ one \notin kept
       /\ Cardinality(kept) < MaxCalls
       /\ calls' = kept \cup {one}

Send(new) == With(calls, new)

\* Two more, of which there is none.
SendBoth(kept, new) ==
    /\ Cardinality(kept) + 2 <= MaxCalls
    /\ calls' = kept \cup new

\* What is left when this visit no longer hears some kinds.
Unheard(kinds) == {c \in calls : c.kind \notin kinds \/ c.visit # visit}

Taken(c) == calls' = calls \ {c}

Fault ==
    /\ faults < MaxFaults
    /\ faults' = faults + 1

-----------------------------------------------------------------------------
(* The backend *)

Answered(c, answer) ==
    LET done == [c EXCEPT !.answer = answer, !.twin = FALSE]
    IN With(calls \ {c}, done)

\* One more version, which is the active one.
Store(of) ==
    /\ versions < MaxVersions
    /\ versions' = versions + 1 /\ active' = versions + 1
    /\ made' = [made EXCEPT ![versions + 1] = of]

\* The file is the active one: for sure when it is the same marking of the same
\* draft, and perhaps when another draft, or somebody else, brought it.
SameFile(c)  == active # 0 /\ made[active] = MarkingOf(c.draft, c.marking)
MayBeSame(c) == active # 0 /\ \A m \in Markings : made[active] # MarkingOf(c.draft, m)

\* The end of saveDraft: ok, although the draft could not be removed.
Saved(c) ==
    /\ saved' = saved \cup {c.draft}
    /\ \/ live' = live \ {c.draft} /\ UNCHANGED faults
       \/ Fault /\ UNCHANGED live
    /\ Answered(c, "ok")

\* storeVersion: the same file again is not a new version, and no other is
\* replaced unasked.
StoreVersion(c) ==
    \/ /\ SameFile(c) \/ MayBeSame(c)
       /\ Saved(c)
       /\ UNCHANGED <<versions, active, made>>
    \/ /\ ~SameFile(c) /\ active # 0 /\ ~c.sure
       /\ Answered(c, "refused")
       /\ UNCHANGED <<backend, saved, faults>>
    \/ /\ ~SameFile(c) /\ (active = 0 \/ c.sure)
       /\ Store(MarkingOf(c.draft, c.marking))
       /\ Saved(c)

\* saveDraft
ServeSave(c) ==
    \/ /\ c.draft \notin live
       /\ Answered(c, "gone")
       /\ UNCHANGED <<backend, saved, faults>>
    \/ /\ c.draft \in live /\ ~Complete(c.draft, c.marking)
       /\ Answered(c, "fail")
       /\ UNCHANGED <<backend, saved, faults>>
    \/ /\ c.draft \in live /\ Complete(c.draft, c.marking)
       /\ StoreVersion(c)

ServeOther(c) ==
    /\ \/ /\ c.kind \in {"content", "preview"}
          /\ Answered(c, IF c.draft \in live THEN "ok" ELSE "gone")
          /\ UNCHANGED backend
       \/ /\ c.kind \in {"list", "listToSave", "listAgain", "history"}
          /\ With(calls \ {c}, [c EXCEPT !.answer = "ok", !.version = active,
                                       !.twin = FALSE])
          /\ UNCHANGED backend
       \/ /\ c.kind = "cancel"
          /\ live' = live \ {c.draft}
          /\ Answered(c, "ok")
          /\ UNCHANGED <<versions, active, made>>
       \/ /\ c.kind = "upload"
          /\ live' = live \cup {c.draft}
          /\ Answered(c, "ok")
          /\ UNCHANGED <<versions, active, made>>
       \/ /\ c.kind = "activate"
          /\ active' = c.version
          /\ Answered(c, "ok")
          /\ UNCHANGED <<live, versions, made>>
    /\ UNCHANGED <<saved, faults>>

Serve(c) ==
    /\ c.answer = "wait"
    /\ \/ c.kind = "save" /\ ServeSave(c)
       \/ ServeOther(c)
    /\ UNCHANGED <<stored, page, visit, editor, list, last, givenUp, strays, uploads>>

\* No answer arrives, whether it was served or not.
Fails(c) ==
    /\ c.answer # "fail"
    /\ Fault
    /\ Answered(c, "fail")
    /\ UNCHANGED <<backend, stored, page, visit, editor, list, history>>

\* 24 hours pass.
Expires(d) ==
    /\ d \in live
    /\ Fault
    /\ live' = live \ {d}
    /\ UNCHANGED <<versions, active, made, stored, page, visit, editor, list, calls,
                   history>>

\* Another lawyer saves a version.
OtherSaves ==
    /\ Fault
    /\ Store(Null)
    /\ UNCHANGED <<live, stored, page, visit, editor, list, calls, history>>

-----------------------------------------------------------------------------
(* TemplatesPage *)

ResetEditor(d, m) ==
    /\ draft' = d /\ marking' = m
    /\ step' = "mark" /\ content' = "loading" /\ known' = Null
    /\ replacing' = 0 /\ saving' = FALSE
    /\ discardOpen' = FALSE /\ discarding' = FALSE
    /\ preview' = NoPreview /\ previewKey' = Null

ResetList ==
    /\ uploading' = FALSE /\ shown' = Null /\ listError' = FALSE
    /\ toActivate' = 0 /\ activating' = FALSE

Init ==
    /\ live = {} /\ versions = 0 /\ active = 0
    /\ made = [v \in 1 .. MaxVersions |-> Null]
    /\ stored = Null
    /\ page = "list" /\ visit = 1
    /\ draft = Null /\ marking = Blank /\ step = "mark" /\ content = "loading"
    /\ known = Null /\ replacing = 0 /\ saving = FALSE
    /\ discardOpen = FALSE /\ discarding = FALSE
    /\ preview = NoPreview /\ previewKey = Null
    /\ uploading = FALSE /\ shown = Null /\ listError = FALSE
    /\ toActivate = 0 /\ activating = FALSE
    /\ calls = {Call("history", Null, Blank)}
    /\ last = Null /\ givenUp = {} /\ saved = {} /\ strays = {} /\ uploads = 0
    /\ faults = 0

\* What a screen aborts, or no longer hears, when it goes.  The versions a save
\* waits for are not among them: the save goes on.
Heard == {"content", "list", "preview", "history", "activate"}

\* GuidedMarking mounts: it reads the document and the versions.
Opening(d) == {Call("content", d, Blank), Call("list", d, Blank)}

Modal == replacing # 0 \/ discardOpen \/ toActivate # 0

\* Another screen of the panel; also with the browser's own buttons.
Leave ==
    /\ page # "away"
    /\ page' = "away"
    /\ ResetEditor(Null, Blank) /\ ResetList
    /\ calls' = Unheard(Heard)
    /\ Cardinality(calls') <= MaxLate
    /\ UNCHANGED <<backend, stored, visit, history, faults>>

\* readStoredDraft, when the page mounts.
Enter ==
    /\ page = "away" /\ visit < MaxVisits
    /\ visit' = visit + 1
    /\ ResetList
    /\ LET d == IF stored = Null THEN Null ELSE stored.draft
           call(kind) == [Call(kind, d, Blank) EXCEPT !.visit = visit + 1]
       IN IF stored = Null
          THEN /\ page' = "list"
               /\ ResetEditor(Null, Blank)
               /\ Send(call("history"))
               /\ UNCHANGED last
          ELSE /\ page' = "marking"
               /\ ResetEditor(d, stored.marking)
               /\ SendBoth(calls, {call("content"), call("list")})
               /\ last' = stored
    /\ UNCHANGED <<backend, stored, givenUp, saved, strays, uploads, faults>>

\* A mutant: whatever draft is stored.
ForgottenAny(d) == Null

\* forgetStoredDraft: only its own draft.
Forgotten(d) == IF stored # Null /\ stored.draft = d THEN Null ELSE stored

\* leave, then handleExit: the page goes back to the list whatever it shows,
\* if it is still the page that opened the draft.
Exit(c) ==
    /\ stored' = Forgotten(c.draft)
    /\ IF c.visit = visit /\ page = "marking"
       THEN /\ page' = "list"
            /\ ResetEditor(Null, Blank) /\ ResetList
            /\ With(Unheard(Heard) \ {c}, Call("history", Null, Blank))
       ELSE /\ Taken(c)
            /\ UNCHANGED <<page, editor, list>>
    /\ UNCHANGED <<backend, visit, history, faults>>

-----------------------------------------------------------------------------
(* DocumentTemplates *)

\* handleContinue
Upload ==
    /\ page = "list" /\ ~uploading /\ ~Modal
    /\ uploads < MaxDrafts
    /\ uploads' = uploads + 1
    /\ uploading' = TRUE
    /\ Send(Call("upload", uploads + 1, Blank))
    /\ UNCHANGED <<backend, stored, page, visit, editor, shown, listError,
                   toActivate, activating, last, givenUp, saved, strays, faults>>

\* onDraftCreated stores the draft, the screen there or not.
DeliverUpload(c) ==
    /\ c.kind = "upload" /\ c.answer # "wait"
    /\ LET d == c.draft
           here == c.visit = visit /\ page = "list"
       IN \/ /\ c.answer = "ok"
             /\ stored' = MarkingOf(d, Blank)
             /\ IF here
                THEN /\ page' = "marking"
                     /\ ResetEditor(d, Blank) /\ ResetList
                     /\ SendBoth(calls \ {c}, Opening(d))
                     /\ last' = MarkingOf(d, Blank)
                     /\ UNCHANGED strays
                ELSE /\ Taken(c)
                     /\ strays' = strays \cup {d}
                     /\ UNCHANGED <<page, editor, list, last>>
          \/ /\ c.answer = "fail"
             /\ uploading' = IF here THEN FALSE ELSE uploading
             /\ Taken(c)
             /\ UNCHANGED <<stored, page, editor, shown, listError, toActivate,
                            activating, last, strays>>
    /\ UNCHANGED <<backend, visit, givenUp, saved, uploads, faults>>

\* The history, when it is read at first and again.
DeliverHistory(c) ==
    /\ c.kind = "history" /\ c.answer # "wait"
    /\ IF c.answer = "ok"
       THEN shown' = c.version /\ listError' = FALSE
       ELSE listError' = TRUE /\ UNCHANGED shown
    /\ Taken(c)
    /\ UNCHANGED <<backend, stored, page, visit, editor, uploading, toActivate,
                   activating, history, faults>>

\* Reintentar: the error stays until an answer arrives.
Reload ==
    /\ page = "list" /\ listError /\ ~Modal /\ Waiting("history") = {}
    /\ Send(Call("history", Null, Blank))
    /\ UNCHANGED <<backend, stored, page, visit, editor, list, history, faults>>

\* askToActivate; versions are never deleted.
AskToActivate(v) ==
    /\ page = "list" /\ ~Modal
    /\ shown \notin {Null, v} /\ v \in 1 .. shown
    /\ toActivate' = v
    /\ UNCHANGED <<backend, stored, page, visit, editor, uploading, shown,
                   listError, activating, calls, history, faults>>

CloseActivate ==
    /\ toActivate # 0 /\ ~activating
    /\ toActivate' = 0
    /\ UNCHANGED <<backend, stored, page, visit, editor, uploading, shown,
                   listError, activating, calls, history, faults>>

\* handleActivate
Activate ==
    /\ toActivate # 0 /\ ~activating
    /\ activating' = TRUE
    /\ Send([Call("activate", Null, Blank) EXCEPT !.version = toActivate])
    /\ UNCHANGED <<backend, stored, page, visit, editor, uploading, shown,
                   listError, toActivate, history, faults>>

DeliverActivate(c) ==
    /\ c.kind = "activate" /\ c.answer # "wait"
    /\ activating' = FALSE
    /\ IF c.answer = "ok"
       THEN /\ toActivate' = 0
            /\ With(calls \ {c}, Call("history", Null, Blank))
       ELSE /\ Taken(c)
            /\ UNCHANGED toActivate
    /\ UNCHANGED <<backend, stored, page, visit, editor, uploading, shown,
                   listError, history, faults>>

-----------------------------------------------------------------------------
(* GuidedMarking *)

\* The answer of c is for the marking that is on.
Hears(c) == page = "marking" /\ c.visit = visit /\ c.draft = draft

DeliverContent(c) ==
    /\ c.kind = "content"
    /\ \/ /\ c.answer \in {"ok", "fail"}
          /\ content' = IF c.answer = "ok" THEN "ready" ELSE "error"
          /\ Taken(c)
          /\ UNCHANGED <<backend, stored, page, visit, draft, marking, step, known,
                         replacing, saving, discardOpen, discarding, preview,
                         previewKey, list, history, faults>>
       \/ /\ c.answer = "gone"
          /\ Exit(c)

\* Reintentar, which reads both again.
Retry ==
    /\ page = "marking" /\ content = "error" /\ ~Modal
    /\ content' = "loading"
    /\ SendBoth(Unheard({"content", "list"}), Opening(draft))
    /\ UNCHANGED <<backend, stored, page, visit, draft, marking, step, known,
                   replacing, saving, discardOpen, discarding, preview,
                   previewKey, list, history, faults>>

\* The versions, read with the document; without them, when saving.
DeliverList(c) ==
    /\ c.kind = "list" /\ c.answer # "wait"
    /\ known' = IF c.answer = "ok" THEN c.version ELSE known
    /\ Taken(c)
    /\ UNCHANGED <<backend, stored, page, visit, draft, marking, step, content,
                   replacing, saving, discardOpen, discarding, preview,
                   previewKey, list, history, faults>>

\* A mark or a row, put or taken away: storeDraft follows.
Edit(m) ==
    /\ page = "marking" /\ step = "mark" /\ content = "ready" /\ ~Modal
    /\ m # marking
    /\ marking' = m
    /\ stored' = MarkingOf(draft, m)
    /\ last' = MarkingOf(draft, m)
    /\ UNCHANGED <<backend, page, visit, draft, step, content, known, replacing,
                   saving, discardOpen, discarding, preview, previewKey, list,
                   calls, givenUp, saved, strays, uploads, faults>>

\* A mutant: the preview that is there is good enough.
AskedBefore == previewKey # Null

\* runPreview: not the same one twice.
SamePreview == previewKey = marking

\* goTo("review")
Review ==
    /\ page = "marking" /\ step = "mark" /\ content = "ready" /\ ~Modal
    /\ step' = "review"
    /\ IF SamePreview THEN UNCHANGED <<preview, previewKey, calls>>
       ELSE /\ preview' = NoPreview
            /\ previewKey' = marking
            /\ With(Unheard({"preview"}), Call("preview", draft, marking))
    /\ UNCHANGED <<backend, stored, page, visit, draft, marking, content, known,
                   replacing, saving, discardOpen, discarding, list, history, faults>>

\* Its Reintentar.
PreviewAgain ==
    /\ page = "marking" /\ step = "review" /\ preview.status = "error" /\ ~Modal
    /\ preview' = NoPreview
    /\ previewKey' = marking
    /\ With(Unheard({"preview"}), Call("preview", draft, marking))
    /\ UNCHANGED <<backend, stored, page, visit, draft, marking, step, content,
                   known, replacing, saving, discardOpen, discarding, list,
                   history, faults>>

DeliverPreview(c) ==
    /\ c.kind = "preview"
    /\ \/ /\ c.answer \in {"ok", "fail"}
          /\ IF c.answer = "ok"
             THEN /\ preview' = [status |-> "ready", of |-> c.marking]
                  /\ UNCHANGED previewKey
             ELSE /\ preview' = [status |-> "error", of |-> Null]
                  /\ previewKey' = Null
          /\ Taken(c)
          /\ UNCHANGED <<backend, stored, page, visit, draft, marking, step,
                         content, known, replacing, saving, discardOpen,
                         discarding, list, history, faults>>
       \/ /\ c.answer = "gone"
          /\ Exit(c)

\* goTo("mark")
BackToMark ==
    /\ page = "marking" /\ step = "review" /\ ~saving /\ ~Modal
    /\ step' = "mark"
    /\ UNCHANGED <<backend, stored, page, visit, draft, marking, content, known,
                   replacing, saving, discardOpen, discarding, preview,
                   previewKey, list, calls, history, faults>>

Save(m, sure) == [Call("save", draft, m) EXCEPT !.sure = sure]

\* requestSave, with the versions at hand or after reading them.
RequestSave ==
    /\ page = "marking" /\ step = "review" /\ content = "ready"
    /\ ~saving /\ ~Modal
    /\ Complete(draft, marking)
    /\ \/ /\ known = Null
          /\ Send(Call("listToSave", draft, marking))
          /\ UNCHANGED <<saving, replacing>>
       \/ /\ known = 0
          /\ saving' = TRUE
          /\ Send(Save(marking, FALSE))
          /\ UNCHANGED replacing
       \/ /\ known \notin {Null, 0}
          /\ replacing' = known
          /\ UNCHANGED <<saving, calls>>
    /\ UNCHANGED <<backend, stored, page, visit, draft, marking, step, content,
                   known, discardOpen, discarding, preview, previewKey, list,
                   history, faults>>

\* The rest of requestSave, with the marking of the click: without an active
\* version it saves, the screen there or not.
DeliverListToSave(c) ==
    /\ c.kind = "listToSave"
    /\ c.answer # "wait"
    /\ LET saves == c.answer # "fail" /\ c.version = 0
       IN /\ IF saves
             THEN With(calls \ {c}, [Call("save", c.draft, c.marking)
                                       EXCEPT !.visit = c.visit])
             ELSE Taken(c)
          /\ saving' = IF saves /\ Hears(c) THEN TRUE ELSE saving
    /\ IF c.answer # "fail" /\ Hears(c)
       THEN /\ known' = c.version
            /\ replacing' = IF c.version = 0 THEN replacing ELSE c.version
       ELSE UNCHANGED <<known, replacing>>
    /\ UNCHANGED <<backend, stored, page, visit, draft, marking, step, content,
                   discardOpen, discarding, preview, previewKey, list, history,
                   faults>>

\* The dialog: save(true).
Confirm ==
    /\ replacing # 0 /\ ~saving
    /\ saving' = TRUE
    /\ Send(Save(marking, TRUE))
    /\ UNCHANGED <<backend, stored, page, visit, draft, marking, step, content,
                   known, replacing, discardOpen, discarding, preview,
                   previewKey, list, history, faults>>

CloseReplace ==
    /\ replacing # 0 /\ ~saving
    /\ replacing' = 0
    /\ UNCHANGED <<backend, stored, page, visit, draft, marking, step, content,
                   known, saving, discardOpen, discarding, preview, previewKey,
                   list, calls, history, faults>>

\* The finally of save.
SavingAfter(c) == IF Hears(c) THEN FALSE ELSE saving

\* save: saved and gone end the marking; a version that became active
\* meanwhile is read to be asked about.
DeliverSave(c) ==
    /\ c.kind = "save"
    /\ \/ /\ c.answer \in {"ok", "gone"}
          /\ Exit(c)
       \/ /\ c.answer = "refused"
          /\ With(calls \ {c}, [Call("listAgain", c.draft, c.marking)
                                 EXCEPT !.visit = c.visit])
          /\ UNCHANGED <<backend, stored, page, visit, editor, list, history, faults>>
       \/ /\ c.answer = "fail"
          /\ Taken(c)
          /\ saving' = SavingAfter(c)
          /\ UNCHANGED <<backend, stored, page, visit, draft, marking, step,
                         content, known, replacing, discardOpen, discarding,
                         preview, previewKey, list, history, faults>>

DeliverListAgain(c) ==
    /\ c.kind = "listAgain" /\ c.answer # "wait"
    /\ IF c.answer = "ok" /\ Hears(c)
       THEN /\ known' = c.version
            /\ replacing' = IF c.version # 0 THEN c.version
                                                    ELSE replacing
       ELSE UNCHANGED <<known, replacing>>
    /\ saving' = SavingAfter(c)
    /\ Taken(c)
    /\ UNCHANGED <<backend, stored, page, visit, draft, marking, step, content,
                   discardOpen, discarding, preview, previewKey, list, history,
                   faults>>

\* discard
Discard ==
    /\ discarding' = TRUE
    /\ givenUp' = givenUp \cup {draft}
    /\ Send(Call("cancel", draft, marking))

\* requestCancel: asks first when there is something to lose.
RequestCancel ==
    /\ page = "marking" /\ ~saving /\ ~discarding /\ ~Modal
    /\ IF marking = Blank
       THEN Discard /\ UNCHANGED discardOpen
       ELSE discardOpen' = TRUE /\ UNCHANGED <<discarding, givenUp, calls>>
    /\ UNCHANGED <<backend, stored, page, visit, draft, marking, step, content,
                   known, replacing, saving, preview, previewKey, list, last,
                   saved, strays, uploads, faults>>

\* The dialog, either way.
AnswerDiscard(sure) ==
    /\ discardOpen /\ ~discarding
    /\ IF sure
       THEN Discard /\ UNCHANGED discardOpen
       ELSE discardOpen' = FALSE /\ UNCHANGED <<discarding, givenUp, calls>>
    /\ UNCHANGED <<backend, stored, page, visit, draft, marking, step, content,
                   known, replacing, saving, preview, previewKey, list, last,
                   saved, strays, uploads, faults>>

\* Whatever the answer.
DeliverCancel(c) ==
    /\ c.kind = "cancel" /\ c.answer # "wait"
    /\ Exit(c)

-----------------------------------------------------------------------------

Deliver(c) ==
    \/ DeliverUpload(c) \/ DeliverHistory(c) \/ DeliverActivate(c)
    \/ DeliverContent(c) \/ DeliverList(c) \/ DeliverPreview(c)
    \/ DeliverListToSave(c) \/ DeliverSave(c) \/ DeliverListAgain(c)
    \/ DeliverCancel(c)

Next ==
    \/ \E c \in calls : Serve(c) \/ Fails(c) \/ Deliver(c)
    \/ \E d \in live : Expires(d)
    \/ Upload \/ OtherSaves \/ Leave \/ Enter
    \/ Reload \/ CloseActivate \/ Activate
    \/ \E v \in 1 .. MaxVersions : AskToActivate(v)
    \/ \E m \in Markings : Edit(m)
    \/ Retry \/ Review \/ PreviewAgain \/ BackToMark
    \/ RequestSave \/ Confirm \/ CloseReplace
    \/ RequestCancel \/ \E sure \in BOOLEAN : AnswerDiscard(sure)

Spec == Init /\ [][Next]_vars

-----------------------------------------------------------------------------
(* Properties *)

\* The preview of the step "Revisar y guardar" is of the marking that would be
\* saved, whatever was edited and asked again while earlier ones were rendered.
PreviewIsCurrent ==
    page = "marking" /\ step = "review" /\ preview.status = "ready" =>
        preview.of = marking

\* The screen waits only while something it hears is on its way: nothing it
\* disables stays so after the answers, the refusals and the failures.
WaitingHasACall ==
    /\ page = "marking" =>
        /\ content = "loading" => Waiting("content") # {}
        /\ saving => Waiting("save") \cup Waiting("listAgain") # {}
        /\ discarding => Waiting("cancel") # {}
        /\ step = "review" /\ preview.status = "loading" => Waiting("preview") # {}
    /\ page = "list" =>
        /\ uploading => Waiting("upload") # {}
        /\ activating => Waiting("activate") # {}
        /\ shown = Null /\ ~listError => Waiting("history") # {}

\* A marking is not lost while its draft lives, no save of it was answered and the
\* lawyer has not discarded it: the browser brings it back, whatever closed it
\* and in whatever order the answers came.  Only the late answer of an upload
\* whose screen had been left takes its place.
MarkingKept ==
    last # Null /\ last.draft \in (live \ givenUp) \ saved =>
        stored = last \/ (stored # Null /\ stored.draft \in strays)
=============================================================================
