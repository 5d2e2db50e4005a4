------------------------------ MODULE Templates -----------------------------
(***************************************************************************)
(* The Word templates of one municipality, of one document type: the       *)
(* versions with the active one among them, and the drafts of the guided   *)
(* marking.  A version is a row and a blob: the blob is written inside the *)
(* transaction that inserts the row, at a path made of the version number, *)
(* and is deleted by path when that transaction fails.  A draft is a row   *)
(* and a folder of blobs: the original, and the previews that were asked.  *)
(*                                                                         *)
(* A request is one step per await.  The transaction of a version holds    *)
(* the row of the municipality FOR UPDATE and is ended by Prisma when it   *)
(* takes more than 15 seconds, the upload in flight or not.                *)
(***************************************************************************)
EXTENDS Naturals, Sequences, FiniteSets

CONSTANTS
    Requests,    \* requests that may be in flight at the same time
    Contents,    \* contents of .docx files that pass the validation
    Drafts,      \* draft ids (randomUUID), each created once
    Marked,      \* Marked[d]: what the lawyer's marking of draft d produces
    MaxVersion,  \* bound: versions saved
    MaxFaults,   \* bound: failures of Storage, the database or the process
    Null

ASSUME TemplatesAssumption ==
    /\ Marked \in [Drafts -> Contents]
    /\ MaxVersion \in Nat /\ MaxFaults \in Nat
    /\ Null \notin Contents /\ Null \notin Drafts /\ Null \notin Requests

VARIABLES
    saved,      \* the committed rows, by version: [content, active]
    blob,       \* blob[v]: what Storage holds at the path of version v
    lock,       \* the request that holds the municipality's row, or Null
    draft,      \* draft[d]: the row of the draft
    kept,       \* kept[d]: the blobs of the draft's folder
    sweep,      \* sweep[d]: how far the hourly sweep is with the draft
    req,        \* what each request is doing
    cancelled,  \* history: drafts their owner asked to cancel
    undone,     \* history: versions whose transaction was rolled back after
                \* its upload had begun
    abandoned,  \* history: drafts whose creation was cut short
    faults

vars == <<saved, blob, lock, draft, kept, sweep, req, cancelled, undone,
          abandoned, faults>>

Versions == 1 .. MaxVersion

Idle == [at |-> "idle", content |-> Null, draft |-> Null, version |-> 0,
         sure |-> TRUE, off |-> {}]

\* A saved version: the file it was saved with, and whether it is in use.
Row == [content : Contents, active : BOOLEAN]

Request ==
    [at : {"idle", "compare", "wait", "send", "sent", "commit", "late",
           "clean", "turn", "turned", "row", "open",
           "previewopen", "previewsend", "blobs", "droprow"},
     content : Contents \cup {Null}, draft : Drafts \cup {Null},
     version : 0 .. MaxVersion, sure : BOOLEAN, off : SUBSET Versions]

TypeOK ==
    /\ saved \in Seq(Row)
    /\ Len(saved) <= MaxVersion
    /\ blob \in [Versions -> Contents \cup {Null}]
    /\ lock \in Requests \cup {Null}
    /\ draft \in [Drafts -> {"unborn", "live", "expired", "gone"}]
    /\ kept \in [Drafts -> SUBSET {"original", "preview"}]
    /\ sweep \in [Drafts -> {"no", "blobs", "row"}]
    /\ req \in [Requests -> Request]
    /\ cancelled \in SUBSET Drafts
    /\ undone \in SUBSET Versions
    /\ abandoned \in SUBSET Drafts
    /\ faults \in 0 .. MaxFaults

Init ==
    /\ saved = <<>>
    /\ blob = [v \in Versions |-> Null]
    /\ lock = Null
    /\ draft = [d \in Drafts |-> "unborn"]
    /\ kept = [d \in Drafts |-> {}]
    /\ sweep = [d \in Drafts |-> "no"]
    /\ req = [r \in Requests |-> Idle]
    /\ cancelled = {} /\ undone = {} /\ abandoned = {}
    /\ faults = 0

-----------------------------------------------------------------------------
(* Helpers *)

Active == {v \in DOMAIN saved : saved[v].active}

HasRow(d) == draft[d] \in {"live", "expired"}

At(r, place) == req[r].at = place

Goto(r, place) == req' = [req EXCEPT ![r].at = place]

Finish(r) == req' = [req EXCEPT ![r] = Idle]

Begin(r, started) ==
    /\ At(r, "idle")
    /\ req' = [req EXCEPT ![r] = started]

Fault ==
    /\ faults < MaxFaults
    /\ faults' = faults + 1

rows    == <<saved, lock>>
folders == <<draft, kept, sweep>>
history == <<cancelled, undone, abandoned>>

-----------------------------------------------------------------------------
(* A version: upload, or the save of a draft *)

\* upload: the file is checked and its images are reduced, without an await
\* that matters here.
Upload(r, c) ==
    /\ Begin(r, [Idle EXCEPT !.at = "compare", !.content = c])
    /\ UNCHANGED <<rows, blob, folders, history, faults>>

\* saveDraft: the row of the draft is read, and it must not have expired.
SaveOpens(r, d, sure) ==
    /\ draft[d] = "live"
    /\ Begin(r, [Idle EXCEPT !.at = "open", !.draft = d, !.sure = sure])
    /\ UNCHANGED <<rows, blob, folders, history, faults>>

\* Then its original: gone means "not found".
SaveMarks(r) ==
    /\ At(r, "open")
    /\ IF "original" \in kept[req[r].draft]
       THEN req' = [req EXCEPT ![r].at = "compare",
                               ![r].content = Marked[req[r].draft]]
       ELSE Finish(r)
    /\ UNCHANGED <<rows, blob, folders, history, faults>>

\* What follows a version that is in place: the draft it came from goes.
Stored(r) ==
    IF req[r].draft = Null THEN Finish(r) ELSE Goto(r, "blobs")

\* Mutant: a save that is refused removes its draft all the same.
RefuseRemoves(r) == Stored(r)

Refuse(r) == Finish(r)

\* storeVersion, before its transaction: the same file as the active version
\* is not a new version, and another one is replaced only when confirmed.
Compare(r) ==
    /\ At(r, "compare")
    /\ \/ /\ \E v \in Active : saved[v].content = req[r].content
          /\ Stored(r)
       \/ /\ \A v \in Active : saved[v].content # req[r].content
          /\ Active # {} /\ ~req[r].sure
          /\ Refuse(r)
       \/ /\ \A v \in Active : saved[v].content # req[r].content
          /\ Active = {} \/ req[r].sure
          /\ Goto(r, "wait")
    /\ UNCHANGED <<rows, blob, folders, history, faults>>

\* Mutant: the municipality is not locked.
UnlockedAlways == TRUE

Unlocked == lock = Null

\* Mutant: the number of the last version.
LastVersion == IF saved = <<>> THEN 1 ELSE Len(saved)

NextVersion == Len(saved) + 1

\* lockMunicipality, and the next version number.
Lock(r) ==
    /\ At(r, "wait")
    /\ Unlocked
    /\ Len(saved) < MaxVersion
    /\ lock' = r
    /\ req' = [req EXCEPT ![r].at = "send", ![r].version = NextVersion]
    /\ UNCHANGED <<saved, blob, folders, history, faults>>

Put(r) == blob' = [blob EXCEPT ![req[r].version] = req[r].content]

Send(r) ==
    /\ At(r, "send")
    /\ Put(r)
    /\ Goto(r, "sent")
    /\ UNCHANGED <<rows, folders, history, faults>>

\* storage.upload throws; the write may have happened.  The transaction is
\* rolled back, and uploadedPath is not set: nothing is deleted.
SendFails(r) ==
    /\ At(r, "send")
    /\ Fault
    /\ Put(r) \/ UNCHANGED blob
    /\ lock' = Null
    /\ undone' = undone \cup {req[r].version}
    /\ Finish(r)
    /\ UNCHANGED <<saved, folders, cancelled, abandoned>>

\* updateMany: the versions it turns off.
Deactivate(r) ==
    /\ At(r, "sent")
    /\ req' = [req EXCEPT ![r].at = "commit", ![r].off = Active]
    /\ UNCHANGED <<rows, blob, folders, history, faults>>

Off(s, off) ==
    [v \in DOMAIN s |-> IF v \in off THEN [s[v] EXCEPT !.active = FALSE]
                                     ELSE s[v]]

\* create, and the commit of the transaction.
Commit(r) ==
    /\ At(r, "commit")
    /\ saved' = Append(Off(saved, req[r].off),
                       [content |-> req[r].content, active |-> TRUE])
    /\ lock' = Null
    /\ Stored(r)
    /\ UNCHANGED <<blob, folders, history, faults>>

\* A statement after the upload fails, or the 15 seconds pass before one.
RollBack(r) ==
    /\ At(r, "sent") \/ At(r, "commit")
    /\ Fault
    /\ lock' = Null
    /\ undone' = undone \cup {req[r].version}
    /\ Goto(r, "clean")
    /\ UNCHANGED <<saved, blob, folders, cancelled, abandoned>>

\* The 15 seconds pass during the upload: the lock goes, the upload goes on,
\* and the first statement after it fails.
TimesOut(r) ==
    /\ At(r, "send")
    /\ Fault
    /\ lock' = Null
    /\ undone' = undone \cup {req[r].version}
    /\ Goto(r, "late")
    /\ UNCHANGED <<saved, blob, folders, cancelled, abandoned>>

SendLate(r) ==
    /\ At(r, "late")
    /\ Put(r)
    /\ Goto(r, "clean")
    /\ UNCHANGED <<rows, folders, history, faults>>

\* The catch deletes what is at the path, and ignores a failure to do so.
Clean(r) ==
    /\ At(r, "clean")
    /\ blob' = [blob EXCEPT ![req[r].version] = Null]
    /\ Finish(r)
    /\ UNCHANGED <<rows, folders, history, faults>>

CleanFails(r) ==
    /\ At(r, "clean")
    /\ Finish(r)
    /\ UNCHANGED <<rows, blob, folders, history, faults>>

-----------------------------------------------------------------------------
(* activate: back to another version *)

Activate(r, v) ==
    /\ v \in DOMAIN saved
    /\ Begin(r, [Idle EXCEPT !.at = "turn", !.version = v])
    /\ UNCHANGED <<rows, blob, folders, history, faults>>

\* Lock, read the target, and turn the active one off; an active target is
\* answered as it is.
TurnOff(r) ==
    /\ At(r, "turn")
    /\ Unlocked
    /\ IF saved[req[r].version].active
       THEN Finish(r) /\ UNCHANGED lock
       ELSE /\ lock' = r
            /\ req' = [req EXCEPT ![r].at = "turned", ![r].off = Active]
    /\ UNCHANGED <<saved, blob, folders, history, faults>>

TurnOn(r) ==
    /\ At(r, "turned")
    /\ saved' = [Off(saved, req[r].off) EXCEPT ![req[r].version].active = TRUE]
    /\ lock' = Null
    /\ Finish(r)
    /\ UNCHANGED <<blob, folders, history, faults>>

-----------------------------------------------------------------------------
(* Drafts *)

Fresh(d) ==
    /\ draft[d] = "unborn" /\ kept[d] = {} /\ d \notin abandoned
    /\ \A other \in Requests : req[other].draft # d

\* createDraft: the original first.
Create(r, d) ==
    /\ Fresh(d)
    /\ Begin(r, [Idle EXCEPT !.at = "row", !.draft = d])
    /\ kept' = [kept EXCEPT ![d] = {"original"}]
    /\ UNCHANGED <<rows, blob, draft, sweep, history, faults>>

\* Its upload throws, the blob written or not: nothing is inserted.
CreateLands(r, d) ==
    /\ At(r, "idle")
    /\ Fresh(d)
    /\ Fault
    /\ kept' = [kept EXCEPT ![d] = {"original"}]
    /\ abandoned' = abandoned \cup {d}
    /\ UNCHANGED <<rows, blob, draft, sweep, req, cancelled, undone>>

CreateRow(r) ==
    /\ At(r, "row")
    /\ draft' = [draft EXCEPT ![req[r].draft] = "live"]
    /\ Finish(r)
    /\ UNCHANGED <<rows, blob, kept, sweep, history, faults>>

\* The row cannot be inserted: the original is deleted, and a failure to
\* delete it is ignored.
CreateFails(r) ==
    /\ At(r, "row")
    /\ Fault
    /\ draft' = [draft EXCEPT ![req[r].draft] = "gone"]
    /\ \/ kept' = [kept EXCEPT ![req[r].draft] = {}] /\ UNCHANGED abandoned
       \/ abandoned' = abandoned \cup {req[r].draft} /\ UNCHANGED kept
    /\ Finish(r)
    /\ UNCHANGED <<rows, blob, sweep, cancelled, undone>>

\* previewDraft: the row, the original, and a blob the PDF service reads.
PreviewOpens(r, d) ==
    /\ draft[d] = "live"
    /\ Begin(r, [Idle EXCEPT !.at = "previewopen", !.draft = d])
    /\ UNCHANGED <<rows, blob, folders, history, faults>>

PreviewReads(r) ==
    /\ At(r, "previewopen")
    /\ IF "original" \in kept[req[r].draft]
       THEN Goto(r, "previewsend")
       ELSE Finish(r)
    /\ UNCHANGED <<rows, blob, folders, history, faults>>

PreviewSends(r) ==
    /\ At(r, "previewsend")
    /\ kept' = [kept EXCEPT ![req[r].draft] = @ \cup {"preview"}]
    /\ Finish(r)
    /\ UNCHANGED <<rows, blob, draft, sweep, history, faults>>

\* cancelDraft: an expired draft too.
Cancel(r, d) ==
    /\ HasRow(d)
    /\ Begin(r, [Idle EXCEPT !.at = "blobs", !.draft = d])
    /\ cancelled' = cancelled \cup {d}
    /\ UNCHANGED <<rows, blob, folders, undone, abandoned, faults>>

\* removeDraft: the blobs, then the row.
RemoveBlobs(r) ==
    /\ At(r, "blobs")
    /\ kept' = [kept EXCEPT ![req[r].draft] = {}]
    /\ Goto(r, "droprow")
    /\ UNCHANGED <<rows, blob, draft, sweep, history, faults>>

\* Mutant: the failure of deletePrefix is ignored, and the row goes.
FailureIgnored(r) == Goto(r, "droprow")

Failure(r) == Finish(r)

\* deletePrefix deletes blob by blob: it may fail halfway.
RemoveBlobsFails(r) ==
    /\ At(r, "blobs")
    /\ Fault
    /\ \E rest \in SUBSET kept[req[r].draft] :
          kept' = [kept EXCEPT ![req[r].draft] = rest]
    /\ Failure(r)
    /\ UNCHANGED <<rows, blob, draft, sweep, history>>

RemoveRow(r) ==
    /\ At(r, "droprow")
    /\ draft' = [draft EXCEPT ![req[r].draft] = "gone"]
    /\ Finish(r)
    /\ UNCHANGED <<rows, blob, kept, sweep, history, faults>>

\* 24 hours pass.
Expire(d) ==
    /\ draft[d] = "live"
    /\ draft' = [draft EXCEPT ![d] = "expired"]
    /\ UNCHANGED <<rows, blob, kept, sweep, req, history, faults>>

\* Mutant: only the drafts whose original is still there.
ExpiredWithFile == {d \in Drafts : draft[d] = "expired" /\ "original" \in kept[d]}

Expired == {d \in Drafts : draft[d] = "expired"}

\* sweepDrafts: the list of the expired drafts, then removeDraft of each.
SweepStarts ==
    /\ \A d \in Drafts : sweep[d] = "no"
    /\ Expired # {}
    /\ sweep' = [d \in Drafts |-> IF d \in Expired THEN "blobs" ELSE "no"]
    /\ UNCHANGED <<rows, blob, draft, kept, req, history, faults>>

SweepBlobs(d) ==
    /\ sweep[d] = "blobs"
    /\ kept' = [kept EXCEPT ![d] = {}]
    /\ sweep' = [sweep EXCEPT ![d] = "row"]
    /\ UNCHANGED <<rows, blob, draft, req, history, faults>>

SweepFails(d) ==
    /\ sweep[d] = "blobs"
    /\ Fault
    /\ \E rest \in SUBSET kept[d] : kept' = [kept EXCEPT ![d] = rest]
    /\ sweep' = [sweep EXCEPT ![d] = "no"]
    /\ UNCHANGED <<rows, blob, draft, req, history>>

SweepRow(d) ==
    /\ sweep[d] = "row"
    /\ draft' = [draft EXCEPT ![d] = "gone"]
    /\ sweep' = [sweep EXCEPT ![d] = "no"]
    /\ UNCHANGED <<rows, blob, kept, req, history, faults>>

\* The process stops: every request ends where it is, Postgres rolls the
\* open transaction back, and uploads in flight land or not.
Sending == {r \in Requests : req[r].at \in {"send", "late"}}

Stop ==
    /\ \E r \in Requests : ~At(r, "idle")
    /\ Fault
    /\ \E landed \in SUBSET Sending :
          /\ \A r, s \in landed : req[r].version = req[s].version => r = s
          /\ blob' = [v \in Versions |->
                        IF \E r \in landed : req[r].version = v
                        THEN req[CHOOSE r \in landed :
                                    req[r].version = v].content
                        ELSE blob[v]]
    /\ undone' = undone \cup
          {req[r].version : r \in {s \in Requests : req[s].at \in
                                    {"send", "sent", "commit", "late"}}}
    /\ abandoned' = abandoned \cup
          {req[r].draft : r \in {s \in Requests : At(s, "row")}}
    /\ req' = [r \in Requests |-> Idle]
    /\ lock' = Null
    /\ sweep' = [d \in Drafts |-> "no"]
    /\ UNCHANGED <<saved, draft, kept, cancelled>>

-----------------------------------------------------------------------------

Version(r) ==
    \/ \E c \in Contents : Upload(r, c)
    \/ \E d \in Drafts, sure \in BOOLEAN : SaveOpens(r, d, sure)
    \/ SaveMarks(r) \/ Compare(r) \/ Lock(r) \/ Send(r) \/ SendFails(r)
    \/ Deactivate(r) \/ Commit(r) \/ RollBack(r) \/ TimesOut(r)
    \/ SendLate(r) \/ Clean(r) \/ CleanFails(r)
    \/ \E v \in Versions : Activate(r, v)
    \/ TurnOff(r) \/ TurnOn(r)

Draft(r) ==
    \/ \E d \in Drafts : Create(r, d) \/ CreateLands(r, d)
    \/ \E d \in Drafts : PreviewOpens(r, d) \/ Cancel(r, d)
    \/ CreateRow(r) \/ CreateFails(r)
    \/ PreviewReads(r) \/ PreviewSends(r)
    \/ RemoveBlobs(r) \/ RemoveBlobsFails(r) \/ RemoveRow(r)

Sweep ==
    \/ SweepStarts
    \/ \E d \in Drafts :
          Expire(d) \/ SweepBlobs(d) \/ SweepFails(d) \/ SweepRow(d)

Next ==
    \/ \E r \in Requests : Version(r) \/ Draft(r)
    \/ Sweep
    \/ Stop

Spec == Init /\ [][Next]_vars

\* The timer of the sweep fires every hour, and Storage and the database
\* answer: the failures are as many as MaxFaults allows.
Fairness ==
    /\ WF_vars(SweepStarts)
    /\ \A d \in Drafts : WF_vars(SweepBlobs(d)) /\ WF_vars(SweepRow(d))

FairSpec == Spec /\ Fairness

-----------------------------------------------------------------------------
(* Properties *)

\* Once a version is saved there is exactly one active version, whatever
\* uploads, saves of drafts, activations, failed transactions and stops cross.
OneActive == saved # <<>> => Cardinality(Active) = 1

\* The file of a version is the one its row was saved with, unless a
\* transaction that had taken the same number was rolled back: neither another
\* version, nor an activation, nor a draft writes or deletes it.
FileKept ==
    \A v \in DOMAIN saved : blob[v] = saved[v].content \/ v \in undone

\* A draft is deleted before it expires only if its owner cancelled it or its
\* content is a saved version: a save that is refused, fails or is cut short
\* leaves the draft to try again.
DraftKeptUntilSaved ==
    [][\A d \in Drafts :
          draft[d] = "live" /\ draft'[d] = "gone" =>
              \/ d \in cancelled
              \/ \E v \in DOMAIN saved : saved[v].content = Marked[d]]_vars

\* The original of a draft always has a row from which it will be cleaned,
\* except while the draft is being created or when its creation was cut short.
OriginalHasRow ==
    \A d \in Drafts :
        "original" \in kept[d] =>
            \/ HasRow(d)
            \/ d \in abandoned
            \/ \E r \in Requests : At(r, "row") /\ req[r].draft = d

\* The types, and nothing in Storage that nobody will clean.
Inv == TypeOK /\ OriginalHasRow

-----------------------------------------------------------------------------
(* The inductive invariant behind them *)

\* The row of the municipality is held by the request between Lock and the end
\* of its transaction, which is about the next version, and by no other.
LockHeld ==
    \A r \in Requests :
        /\ lock = r <=> req[r].at \in {"send", "sent", "commit", "turned"}
        /\ req[r].at \in {"send", "sent", "commit"} => req[r].version = NextVersion
        /\ req[r].at \in {"turn", "turned"} => req[r].version \in DOMAIN saved
        /\ req[r].at \in {"commit", "turned"} => req[r].off = Active

\* What a request stores is a file, the marking of its draft if it has one, and
\* it stays at its path, unless that path is of a transaction rolled back.
UploadsLand ==
    \A r \in Requests :
        /\ req[r].at \in {"compare", "wait", "send", "sent", "commit"} =>
              /\ req[r].content \in Contents
              /\ req[r].draft # Null => req[r].content = Marked[req[r].draft]
        /\ req[r].at \in {"sent", "commit"} =>
              blob[req[r].version] = req[r].content \/ req[r].version \in undone
        /\ req[r].at \in {"late", "clean"} => req[r].version \in undone

SavedFrom(d) == \E v \in DOMAIN saved : saved[v].content = Marked[d]

\* A request has a draft whose row was inserted, but the one that creates it; it
\* removes it only cancelled or saved, the original before the row.
DraftsInUse ==
    \A r \in Requests :
        LET d == req[r].draft
        IN  /\ req[r].at \in {"idle", "turn", "turned"} => d = Null
            /\ req[r].at \in {"open", "row", "previewopen", "previewsend", "blobs",
                               "droprow"} => d # Null
            /\ req[r].at = "row" =>
                  draft[d] = "unborn" /\ \A s \in Requests \ {r} : req[s].draft # d
            /\ req[r].at # "row" /\ d # Null => draft[d] # "unborn"
            /\ req[r].at \in {"blobs", "droprow"} => d \in cancelled \/ SavedFrom(d)
            /\ req[r].at = "droprow" => "original" \notin kept[d]

\* The sweep removes expired drafts only, the original before the row.
SweptAreOver ==
    \A d \in Drafts :
        /\ sweep[d] # "no" => draft[d] \in {"expired", "gone"}
        /\ sweep[d] = "row" => "original" \notin kept[d]

IInv ==
    /\ TypeOK
    /\ LockHeld
    /\ UploadsLand
    /\ DraftsInUse
    /\ SweptAreOver
    /\ OneActive
    /\ FileKept
    /\ OriginalHasRow

-----------------------------------------------------------------------------

\* An expired draft is eventually removed, by its owner or by the sweep, though
\* Storage may fail and the process may stop on the way.
ExpiredAreSwept ==
    \A d \in Drafts : draft[d] = "expired" ~> draft[d] = "gone"
=============================================================================
