------------------------- MODULE TemplatesProofs --------------------------
(***************************************************************************)
(* Proofs about Templates for every set of requests, contents and drafts,  *)
(* and any bounds, and about its screen (TemplatesScreen, instance Screen) *)
(* for every set of markings.                                              *)
(***************************************************************************)
EXTENDS Templates, FiniteSetTheorems, SequenceTheorems, TLAPS

-----------------------------------------------------------------------------
(* The requests *)

\* Every request but r is as it was.
Others(r) == \A s \in Requests \ {r} : req'[s] = req[s]

\* The request r keeps what it knows.
SameFields(r) ==
    /\ req'[r].content = req[r].content /\ req'[r].draft = req[r].draft
    /\ req'[r].version = req[r].version /\ req'[r].off = req[r].off

Places == {"idle", "compare", "wait", "send", "sent", "commit", "late", "clean", "turn",
           "turned", "row", "open", "previewopen", "previewsend", "blobs", "droprow"}

\* A request that is not running.
LEMMA IdleIs ==
    /\ Idle \in Request
    /\ Idle.at = "idle" /\ Idle.draft = Null /\ Idle.version = 0 /\ Idle.off = {}
  BY TemplatesAssumption DEF Idle, Request, Versions

\* A request ends.
LEMMA FinishIs ==
    ASSUME TypeOK, NEW r \in Requests, Finish(r)
    PROVE  /\ req' \in [Requests -> Request] /\ Others(r)
           /\ req'[r] = Idle
  BY IdleIs DEF TypeOK, Finish, Others

\* A request goes on, and keeps what it knows.
LEMMA GotoIs ==
    ASSUME TypeOK, NEW r \in Requests, NEW place \in Places, Goto(r, place)
    PROVE  /\ req' \in [Requests -> Request] /\ Others(r)
           /\ req'[r].at = place /\ SameFields(r)
  <1>1. req[r] \in Request /\ req' = [req EXCEPT ![r] = [req[r] EXCEPT !.at = place]]
    BY DEF TypeOK, Goto
  <1>2. LET e == [req[r] EXCEPT !.at = place]
        IN  /\ e \in Request /\ e.at = place
            /\ e.content = req[r].content /\ e.draft = req[r].draft
            /\ e.version = req[r].version /\ e.off = req[r].off
    BY <1>1 DEF Request, Places
  <1>3. req'[r] = [req[r] EXCEPT !.at = place]
    BY <1>1 DEF TypeOK
  <1>4. QED
    BY <1>1, <1>2, <1>3 DEF TypeOK, Others, SameFields

\* A request begins.
LEMMA BeginIs ==
    ASSUME TypeOK, NEW r \in Requests, NEW e \in Request, Begin(r, e)
    PROVE  /\ req' \in [Requests -> Request] /\ Others(r)
           /\ req'[r] = e /\ req[r].at = "idle"
  BY DEF TypeOK, Begin, Others, At

\* The marking of a draft is taken.
LEMMA SaveMarksIs ==
    ASSUME TypeOK, DraftsInUse, NEW r \in Requests, SaveMarks(r)
    PROVE  /\ req' \in [Requests -> Request] /\ Others(r)
           /\ req[r].at = "open"
           /\ \/ req'[r] = Idle
              \/ /\ req'[r].at = "compare" /\ req'[r].draft = req[r].draft
                 /\ req'[r].content = Marked[req[r].draft] /\ req'[r].content \in Contents
                 /\ req'[r].version = req[r].version /\ req'[r].off = req[r].off
  <1>1. req[r].at = "open" /\ req[r] \in Request /\ req[r].draft \in Drafts
    BY DEF SaveMarks, At, TypeOK, DraftsInUse, Request
  <1>2. PICK c \in Contents : c = Marked[req[r].draft]
    BY <1>1, TemplatesAssumption
  <1>3. CASE Finish(r)
    BY <1>1, <1>3, FinishIs
  <1>4. CASE req' = [req EXCEPT ![r].at = "compare", ![r].content = Marked[req[r].draft]]
    <2>1. req' = [req EXCEPT ![r] = [req[r] EXCEPT !.at = "compare", !.content = c]]
      BY <1>2, <1>4 DEF TypeOK
    <2>2. LET e == [req[r] EXCEPT !.at = "compare", !.content = c]
          IN  /\ e \in Request /\ e.at = "compare" /\ e.content = c
              /\ e.draft = req[r].draft /\ e.version = req[r].version /\ e.off = req[r].off
      BY <1>1 DEF Request
    <2>3. req'[r] = [req[r] EXCEPT !.at = "compare", !.content = c] /\ Others(r)
      BY <2>1 DEF TypeOK, Others
    <2>4. req' \in [Requests -> Request]
      BY <2>1, <2>2 DEF TypeOK
    <2>5. QED
      BY <1>1, <1>2, <2>2, <2>3, <2>4
  <1>5. QED
    BY <1>3, <1>4 DEF SaveMarks

\* The municipality is locked and the next version number taken.
LEMMA LockIs ==
    ASSUME TypeOK, NEW r \in Requests, Lock(r)
    PROVE  /\ req' \in [Requests -> Request] /\ Others(r)
           /\ req[r].at = "wait" /\ lock = Null /\ lock' = r
           /\ req'[r].at = "send" /\ req'[r].version = NextVersion
           /\ NextVersion \in Versions
           /\ req'[r].content = req[r].content /\ req'[r].draft = req[r].draft
  <1>1. req[r] \in Request /\ req[r].at = "wait" /\ lock = Null /\ lock' = r
    BY DEF Lock, Unlocked, TypeOK, At
  <1>2. PICK v \in Versions : v = NextVersion
    <2>1. Len(saved) \in Nat /\ Len(saved) < MaxVersion
      BY DEF Lock, TypeOK
    <2>2. QED
      BY <2>1, TemplatesAssumption DEF NextVersion, Versions
  <1>3. req' = [req EXCEPT ![r] = [req[r] EXCEPT !.at = "send", !.version = v]]
    BY <1>2 DEF Lock, TypeOK
  <1>4. LET e == [req[r] EXCEPT !.at = "send", !.version = v]
        IN  /\ e \in Request /\ e.at = "send" /\ e.version = v
            /\ e.content = req[r].content /\ e.draft = req[r].draft
    <2>1. v \in 0 .. MaxVersion
      BY TemplatesAssumption DEF Versions
    <2>2. QED
      BY <1>1, <2>1 DEF Request
  <1>5. req'[r] = [req[r] EXCEPT !.at = "send", !.version = v] /\ Others(r)
    BY <1>3 DEF TypeOK, Others
  <1>6. req' \in [Requests -> Request]
    BY <1>3, <1>4 DEF TypeOK
  <1>7. QED
    BY <1>1, <1>2, <1>4, <1>5, <1>6

\* The active versions are versions.
LEMMA ActiveTypes == ASSUME TypeOK PROVE Active \in SUBSET Versions
  <1>1. DOMAIN saved = 1..Len(saved) /\ Len(saved) \in Nat /\ Len(saved) <= MaxVersion
    BY DEF TypeOK
  <1>2. QED
    BY <1>1, TemplatesAssumption DEF Active, Versions

\* The request remembers the versions its update turns off.
LEMMA OffIs ==
    ASSUME TypeOK, NEW r \in Requests, NEW place \in Places,
           req' = [req EXCEPT ![r].at = place, ![r].off = Active]
    PROVE  /\ req' \in [Requests -> Request] /\ Others(r)
           /\ req'[r].at = place /\ req'[r].off = Active
           /\ req'[r].content = req[r].content /\ req'[r].draft = req[r].draft
           /\ req'[r].version = req[r].version
  <1>1. req[r] \in Request
    BY DEF TypeOK
  <1>2. PICK off \in SUBSET Versions : off = Active
    BY ActiveTypes
  <1>3. req' = [req EXCEPT ![r] = [req[r] EXCEPT !.at = place, !.off = off]]
    BY <1>2 DEF TypeOK
  <1>4. LET e == [req[r] EXCEPT !.at = place, !.off = off]
        IN  /\ e \in Request /\ e.at = place /\ e.off = off
            /\ e.content = req[r].content /\ e.draft = req[r].draft
            /\ e.version = req[r].version
    BY <1>1 DEF Request, Places
  <1>5. req'[r] = [req[r] EXCEPT !.at = place, !.off = off] /\ Others(r)
    BY <1>3 DEF TypeOK, Others
  <1>6. req' \in [Requests -> Request]
    BY <1>3, <1>4 DEF TypeOK
  <1>7. QED
    BY <1>2, <1>4, <1>5, <1>6

\* What follows a version that is in place.
LEMMA StoredIs ==
    ASSUME TypeOK, NEW r \in Requests, Stored(r)
    PROVE  /\ req' \in [Requests -> Request] /\ Others(r)
           /\ \/ req'[r] = Idle
              \/ req[r].draft # Null /\ req'[r].at = "blobs" /\ SameFields(r)
  BY FinishIs, GotoIs DEF Stored, Places

-----------------------------------------------------------------------------
(* The rows *)

\* Turning versions off leaves the rows, and their files, as they are.
LEMMA OffRows ==
    ASSUME NEW s \in Seq(Row), NEW off
    PROVE  /\ Off(s, off) \in Seq(Row) /\ Len(Off(s, off)) = Len(s)
           /\ DOMAIN Off(s, off) = DOMAIN s
           /\ \A v \in DOMAIN s :
                 /\ Off(s, off)[v].content = s[v].content
                 /\ Off(s, off)[v].active <=> (s[v].active /\ v \notin off)
  <1>1. Len(s) \in Nat /\ DOMAIN s = 1..Len(s) /\ \A v \in DOMAIN s : s[v] \in Row
    BY ElementOfSeq, LenProperties
  <1>2. Off(s, off) = [v \in 1..Len(s) |->
                         IF v \in off THEN [s[v] EXCEPT !.active = FALSE] ELSE s[v]]
    BY <1>1 DEF Off
  <1>3. \A v \in 1..Len(s) : [s[v] EXCEPT !.active = FALSE] \in Row
    BY <1>1 DEF Row
  <1>4. \A v \in 1..Len(s) : Off(s, off)[v] \in Row
    BY <1>1, <1>2, <1>3
  <1>5. Off(s, off) \in Seq(Row)
    BY <1>1, <1>2, <1>4
  <1>6. DOMAIN Off(s, off) = 1..Len(s)
    BY <1>2
  <1>7. Len(Off(s, off)) = Len(s)
    BY <1>1, <1>5, <1>6, LenProperties
  <1>8. ASSUME NEW v \in 1..Len(s)
        PROVE  /\ Off(s, off)[v].content = s[v].content
               /\ Off(s, off)[v].active <=> (s[v].active /\ v \notin off)
    <2>1. s[v] \in Row
      BY <1>1
    <2>2. /\ [s[v] EXCEPT !.active = FALSE].content = s[v].content
          /\ [s[v] EXCEPT !.active = FALSE].active = FALSE
      BY <2>1 DEF Row
    <2>3. Off(s, off)[v] = IF v \in off THEN [s[v] EXCEPT !.active = FALSE] ELSE s[v]
      BY <1>2
    <2>4. QED
      BY <2>1, <2>2, <2>3 DEF Row
  <1>9. QED
    BY <1>1, <1>5, <1>6, <1>7, <1>8

\* The rows after a version is committed.
LEMMA CommitRows ==
    ASSUME TypeOK, LockHeld, UploadsLand, NEW r \in Requests, Commit(r)
    PROVE  /\ saved' \in Seq(Row) /\ Len(saved') = Len(saved) + 1
           /\ Len(saved) \in Nat /\ DOMAIN saved = 1..Len(saved)
           /\ DOMAIN saved' = 1..(Len(saved) + 1)
           /\ \A v \in DOMAIN saved : saved'[v].content = saved[v].content
           /\ \A v \in DOMAIN saved : ~ saved'[v].active
           /\ saved'[Len(saved) + 1] = [content |-> req[r].content, active |-> TRUE]
  <1>1. PICK off : off = req[r].off /\ off = Active
    BY DEF Commit, At, LockHeld
  <1>2. PICK row \in Row : row = [content |-> req[r].content, active |-> TRUE]
    BY DEF Commit, At, UploadsLand, Row
  <1>3. saved' = Append(Off(saved, off), row) /\ saved \in Seq(Row)
    BY <1>1, <1>2 DEF Commit, TypeOK
  <1>4. /\ Off(saved, off) \in Seq(Row) /\ Len(Off(saved, off)) = Len(saved)
        /\ \A v \in DOMAIN saved :
              /\ Off(saved, off)[v].content = saved[v].content
              /\ Off(saved, off)[v].active <=> (saved[v].active /\ v \notin off)
    BY <1>3, OffRows
  <1>5. Len(saved) \in Nat /\ DOMAIN saved = 1..Len(saved)
    BY <1>3, LenProperties
  <1>6. /\ saved' \in Seq(Row) /\ Len(saved') = Len(saved) + 1
        /\ \A v \in 1..Len(saved) : saved'[v] = Off(saved, off)[v]
        /\ saved'[Len(saved) + 1] = row
    BY <1>3, <1>4, AppendProperties
  <1>7. DOMAIN saved' = 1..(Len(saved) + 1)
    BY <1>6, LenProperties
  <1>8. \A v \in DOMAIN saved : saved[v].active => v \in off
    BY <1>1 DEF Active
  <1>9. QED
    BY <1>2, <1>4, <1>5, <1>6, <1>7, <1>8

\* The rows after an older version is turned on again.
LEMMA TurnOnRows ==
    ASSUME TypeOK, LockHeld, NEW r \in Requests, TurnOn(r)
    PROVE  /\ saved' \in Seq(Row) /\ Len(saved') = Len(saved)
           /\ DOMAIN saved' = DOMAIN saved /\ req[r].version \in DOMAIN saved
           /\ \A v \in DOMAIN saved : saved'[v].content = saved[v].content
           /\ \A v \in DOMAIN saved : saved'[v].active <=> v = req[r].version
  <1>1. PICK off : off = req[r].off /\ off = Active
    BY DEF TurnOn, At, LockHeld
  <1>2. PICK w \in DOMAIN saved : w = req[r].version
    BY DEF TurnOn, At, LockHeld
  <1>3. PICK s : s = Off(saved, off)
    OBVIOUS
  <1>4. saved' = [s EXCEPT ![w].active = TRUE] /\ saved \in Seq(Row)
    BY <1>1, <1>2, <1>3 DEF TurnOn, TypeOK
  <1>5. /\ s \in Seq(Row) /\ Len(s) = Len(saved) /\ DOMAIN s = DOMAIN saved
        /\ \A v \in DOMAIN saved :
              /\ s[v].content = saved[v].content
              /\ s[v].active <=> (saved[v].active /\ v \notin off)
    BY <1>3, <1>4, OffRows
  <1>6. /\ Len(s) \in Nat /\ DOMAIN s = 1..Len(s) /\ \A v \in 1..Len(s) : s[v] \in Row
    BY <1>5, LenProperties, ElementOfSeq
  <1>7. PICK row \in Row : row = [s[w] EXCEPT !.active = TRUE]
                             /\ row.content = s[w].content /\ row.active = TRUE
    <2>1. s[w] \in Row
      BY <1>5, <1>6
    <2>2. LET row == [s[w] EXCEPT !.active = TRUE]
          IN  row \in Row /\ row.content = s[w].content /\ row.active = TRUE
      BY <2>1 DEF Row
    <2>3. QED
      BY <2>2
  <1>8. saved' = [v \in 1..Len(s) |-> IF v = w THEN row ELSE s[v]]
    BY <1>4, <1>6, <1>7
  <1>9. saved' \in Seq(Row) /\ DOMAIN saved' = 1..Len(s)
    BY <1>6, <1>8
  <1>10. Len(saved') = Len(s)
    BY <1>6, <1>9, LenProperties
  <1>11. \A v \in DOMAIN saved : ~ s[v].active
    BY <1>1, <1>5 DEF Active
  <1>12. \A v \in DOMAIN saved :
            /\ saved'[v].content = saved[v].content
            /\ saved'[v].active <=> v = w
    BY <1>2, <1>5, <1>6, <1>7, <1>8, <1>11
  <1>13. QED
    BY <1>2, <1>5, <1>6, <1>9, <1>10, <1>12

-----------------------------------------------------------------------------
(* Type correctness *)

\* The version of a request that has a number is one.
LEMMA VersionTaken ==
    ASSUME IInv, NEW r \in Requests, req[r].at \in {"send", "sent", "commit", "late", "clean"}
    PROVE  req[r].version \in Versions
  <1>1. req[r] \in Request /\ Len(saved) \in Nat
    BY DEF IInv, TypeOK
  <1>2. req[r].version \in 0 .. MaxVersion
    BY <1>1 DEF Request
  <1>3. CASE req[r].at \in {"send", "sent", "commit"}
    BY <1>1, <1>2, <1>3, TemplatesAssumption DEF IInv, LockHeld, NextVersion, Versions
  <1>4. CASE req[r].at \in {"late", "clean"}
    BY <1>4 DEF IInv, UploadsLand, TypeOK
  <1>5. QED
    BY <1>3, <1>4

\* What a request uploads is a file or nothing.
LEMMA PutTypes ==
    ASSUME TypeOK, NEW r \in Requests, Put(r)
    PROVE  blob' \in [Versions -> Contents \cup {Null}]
  <1>1. req[r].content \in Contents \cup {Null}
    BY DEF TypeOK, Request
  <1>2. QED
    BY <1>1 DEF Put, TypeOK

\* A failure is within its bound.
LEMMA FaultTypes ==
    ASSUME TypeOK, Fault
    PROVE  faults' \in 0 .. MaxFaults
  BY TemplatesAssumption DEF Fault, TypeOK

\* Type correctness is preserved by every step of a version.
LEMMA TypeVersion ==
    ASSUME IInv, NEW r \in Requests, Version(r)
    PROVE  TypeOK'
  <1> USE DEF rows, folders, history
  <1>0. TypeOK /\ LockHeld /\ UploadsLand /\ DraftsInUse
    BY DEF IInv
  <1>1. ASSUME req' \in [Requests -> Request], UNCHANGED <<rows, blob, folders, history, faults>>
        PROVE  TypeOK'
    BY <1>0, <1>1 DEF TypeOK
  <1>2. ASSUME NEW c \in Contents, Upload(r, c)
        PROVE  TypeOK'
    <2>1. [Idle EXCEPT !.at = "compare", !.content = c] \in Request
      BY IdleIs DEF Request
    <2>2. QED
      BY <1>0, <1>1, <1>2, <2>1, BeginIs DEF Upload
  <1>3. ASSUME NEW d \in Drafts, NEW sure \in BOOLEAN, SaveOpens(r, d, sure)
        PROVE  TypeOK'
    <2>1. [Idle EXCEPT !.at = "open", !.draft = d, !.sure = sure] \in Request
      BY IdleIs DEF Request
    <2>2. QED
      BY <1>0, <1>1, <1>3, <2>1, BeginIs DEF SaveOpens
  <1>4. ASSUME SaveMarks(r)
        PROVE  TypeOK'
    BY <1>0, <1>1, <1>4, SaveMarksIs DEF SaveMarks
  <1>5. ASSUME Compare(r)
        PROVE  TypeOK'
    BY <1>0, <1>1, <1>5, StoredIs, FinishIs, GotoIs DEF Compare, Refuse, Places
  <1>6. ASSUME Lock(r)
        PROVE  TypeOK'
    <2>1. req' \in [Requests -> Request] /\ lock' \in Requests
      BY <1>0, <1>6, LockIs
    <2>2. UNCHANGED <<saved, blob, folders, history, faults>>
      BY <1>6 DEF Lock
    <2>3. QED
      BY <1>0, <2>1, <2>2 DEF TypeOK
  <1>7. ASSUME Send(r) \/ SendLate(r)
        PROVE  TypeOK'
    <2>1. req' \in [Requests -> Request]
      BY <1>0, <1>7, GotoIs DEF Send, SendLate, Places
    <2>2. blob' \in [Versions -> Contents \cup {Null}]
      BY <1>0, <1>7, PutTypes DEF Send, SendLate
    <2>3. QED
      BY <1>0, <1>7, <2>1, <2>2 DEF Send, SendLate, TypeOK
  <1>8. ASSUME SendFails(r)
        PROVE  TypeOK'
    <2>1. req' \in [Requests -> Request]
      BY <1>0, <1>8, FinishIs DEF SendFails
    <2>2. blob' \in [Versions -> Contents \cup {Null}]
      <3>1. CASE Put(r)
        BY <1>0, <3>1, PutTypes
      <3>2. CASE UNCHANGED blob
        BY <1>0, <3>2 DEF TypeOK
      <3>3. QED
        BY <1>8, <3>1, <3>2 DEF SendFails
    <2>3. req[r].version \in Versions /\ faults' \in 0 .. MaxFaults
      BY <1>0, <1>8, VersionTaken, FaultTypes DEF SendFails, At
    <2>4. QED
      BY <1>0, <1>8, <2>1, <2>2, <2>3 DEF SendFails, TypeOK
  <1>9. ASSUME Deactivate(r)
        PROVE  TypeOK'
    BY <1>0, <1>1, <1>9, OffIs DEF Deactivate, Places
  <1>10. ASSUME Commit(r)
         PROVE  TypeOK'
    <2>1. req' \in [Requests -> Request]
      BY <1>0, <1>10, StoredIs DEF Commit
    <2>2. saved' \in Seq(Row) /\ Len(saved') = Len(saved) + 1
      BY <1>0, <1>10, CommitRows
    <2>3. req[r].version = Len(saved) + 1 /\ req[r].version \in Versions
      BY <1>0, <1>10, VersionTaken DEF Commit, At, LockHeld, NextVersion
    <2>4. Len(saved') <= MaxVersion
      BY <2>2, <2>3, TemplatesAssumption DEF Versions
    <2>5. QED
      BY <1>0, <1>10, <2>1, <2>2, <2>4 DEF Commit, TypeOK
  <1>11. ASSUME RollBack(r) \/ TimesOut(r)
         PROVE  TypeOK'
    <2>1. req' \in [Requests -> Request]
      BY <1>0, <1>11, GotoIs DEF RollBack, TimesOut, Places
    <2>2. req[r].version \in Versions /\ faults' \in 0 .. MaxFaults
      BY <1>0, <1>11, VersionTaken, FaultTypes DEF RollBack, TimesOut, At
    <2>3. QED
      BY <1>0, <1>11, <2>1, <2>2 DEF RollBack, TimesOut, TypeOK
  <1>12. ASSUME Clean(r) \/ CleanFails(r)
         PROVE  TypeOK'
    <2>1. req' \in [Requests -> Request]
      BY <1>0, <1>12, FinishIs DEF Clean, CleanFails
    <2>2. QED
      BY <1>0, <1>12, <2>1 DEF Clean, CleanFails, TypeOK
  <1>13. ASSUME NEW v \in Versions, Activate(r, v)
         PROVE  TypeOK'
    <2>1. [Idle EXCEPT !.at = "turn", !.version = v] \in Request
      <3>1. v \in 0 .. MaxVersion
        BY TemplatesAssumption DEF Versions
      <3>2. QED
        BY <3>1, IdleIs DEF Request
    <2>2. QED
      BY <1>0, <1>1, <1>13, <2>1, BeginIs DEF Activate
  <1>14. ASSUME TurnOff(r)
         PROVE  TypeOK'
    <2>1. req' \in [Requests -> Request] /\ lock' \in {r, lock}
      BY <1>0, <1>14, FinishIs, OffIs DEF TurnOff, Places
    <2>2. QED
      BY <1>0, <1>14, <2>1 DEF TurnOff, TypeOK
  <1>15. ASSUME TurnOn(r)
         PROVE  TypeOK'
    <2>1. req' \in [Requests -> Request]
      BY <1>0, <1>15, FinishIs DEF TurnOn
    <2>2. saved' \in Seq(Row) /\ Len(saved') = Len(saved)
      BY <1>0, <1>15, TurnOnRows
    <2>3. QED
      BY <1>0, <1>15, <2>1, <2>2 DEF TurnOn, TypeOK
  <1>16. QED
    BY <1>2, <1>3, <1>4, <1>5, <1>6, <1>7, <1>8, <1>9, <1>10, <1>11, <1>12, <1>13, <1>14, <1>15
    DEF Version

\* And by every step of a draft, of the sweep, and by a stop.
LEMMA TypeStep == IInv /\ [Next]_vars => TypeOK'
  <1> SUFFICES ASSUME IInv, [Next]_vars PROVE TypeOK'
    OBVIOUS
  <1> USE DEF rows, folders, history
  <1>0. TypeOK /\ LockHeld /\ UploadsLand /\ DraftsInUse
    BY DEF IInv
  <1>1. ASSUME NEW r \in Requests, Version(r)
        PROVE  TypeOK'
    BY <1>1, TypeVersion
  <1>2. ASSUME NEW r \in Requests, NEW d \in Drafts, Create(r, d)
        PROVE  TypeOK'
    <2>1. [Idle EXCEPT !.at = "row", !.draft = d] \in Request
      BY IdleIs DEF Request
    <2>2. req' \in [Requests -> Request]
      BY <1>0, <1>2, <2>1, BeginIs DEF Create
    <2>3. QED
      BY <1>0, <1>2, <2>2 DEF Create, TypeOK
  <1>3. ASSUME NEW r \in Requests, NEW d \in Drafts, CreateLands(r, d)
        PROVE  TypeOK'
    BY <1>0, <1>3, FaultTypes DEF CreateLands, TypeOK
  <1>4. ASSUME NEW r \in Requests, NEW d \in Drafts, PreviewOpens(r, d)
        PROVE  TypeOK'
    <2>1. [Idle EXCEPT !.at = "previewopen", !.draft = d] \in Request
      BY IdleIs DEF Request
    <2>2. req' \in [Requests -> Request]
      BY <1>0, <1>4, <2>1, BeginIs DEF PreviewOpens
    <2>3. QED
      BY <1>0, <1>4, <2>2 DEF PreviewOpens, TypeOK
  <1>5. ASSUME NEW r \in Requests, NEW d \in Drafts, Cancel(r, d)
        PROVE  TypeOK'
    <2>1. [Idle EXCEPT !.at = "blobs", !.draft = d] \in Request
      BY IdleIs DEF Request
    <2>2. req' \in [Requests -> Request]
      BY <1>0, <1>5, <2>1, BeginIs DEF Cancel
    <2>3. QED
      BY <1>0, <1>5, <2>2 DEF Cancel, TypeOK
  <1>6. ASSUME NEW r \in Requests, CreateRow(r) \/ PreviewSends(r) \/ RemoveRow(r)
        PROVE  TypeOK'
    <2>1. req' \in [Requests -> Request]
      BY <1>0, <1>6, FinishIs DEF CreateRow, PreviewSends, RemoveRow
    <2>2. QED
      BY <1>0, <1>6, <2>1 DEF CreateRow, PreviewSends, RemoveRow, TypeOK
  <1>7. ASSUME NEW r \in Requests, CreateFails(r)
        PROVE  TypeOK'
    <2>1. req' \in [Requests -> Request] /\ faults' \in 0 .. MaxFaults
      BY <1>0, <1>7, FinishIs, FaultTypes DEF CreateFails
    <2>2. req[r].draft \in Drafts
      BY <1>0, <1>7 DEF CreateFails, At, DraftsInUse, TypeOK, Request
    <2>3. QED
      BY <1>0, <1>7, <2>1, <2>2 DEF CreateFails, TypeOK
  <1>8. ASSUME NEW r \in Requests, PreviewReads(r)
        PROVE  TypeOK'
    <2>1. req' \in [Requests -> Request]
      BY <1>0, <1>8, FinishIs, GotoIs DEF PreviewReads, Places
    <2>2. QED
      BY <1>0, <1>8, <2>1 DEF PreviewReads, TypeOK
  <1>9. ASSUME NEW r \in Requests, RemoveBlobs(r)
         PROVE  TypeOK'
    <2>1. req' \in [Requests -> Request]
      BY <1>0, <1>9, GotoIs DEF RemoveBlobs, Places
    <2>2. QED
      BY <1>0, <1>9, <2>1 DEF RemoveBlobs, TypeOK
  <1>10. ASSUME NEW r \in Requests, RemoveBlobsFails(r)
         PROVE  TypeOK'
    <2>1. req' \in [Requests -> Request] /\ faults' \in 0 .. MaxFaults
      BY <1>0, <1>10, FinishIs, FaultTypes DEF RemoveBlobsFails, Failure
    <2>2. req[r].draft \in Drafts
      BY <1>0, <1>10 DEF RemoveBlobsFails, At, DraftsInUse, TypeOK, Request
    <2>3. QED
      BY <1>0, <1>10, <2>1, <2>2 DEF RemoveBlobsFails, TypeOK
  <1>11. ASSUME SweepStarts
         PROVE  TypeOK'
    BY <1>0, <1>11 DEF SweepStarts, TypeOK
  <1>12. ASSUME NEW d \in Drafts, Expire(d) \/ SweepBlobs(d) \/ SweepRow(d)
         PROVE  TypeOK'
    BY <1>0, <1>12 DEF Expire, SweepBlobs, SweepRow, TypeOK
  <1>13. ASSUME NEW d \in Drafts, SweepFails(d)
         PROVE  TypeOK'
    BY <1>0, <1>13, FaultTypes DEF SweepFails, TypeOK
  <1>14. ASSUME Stop
         PROVE  TypeOK'
    <2>1. req' \in [Requests -> Request] /\ faults' \in 0 .. MaxFaults
      BY <1>0, <1>14, IdleIs, FaultTypes DEF Stop
    <2>2. blob' \in [Versions -> Contents \cup {Null}]
      <3>1. PICK landed \in SUBSET Sending :
               blob' = [v \in Versions |->
                          IF \E r \in landed : req[r].version = v
                          THEN req[CHOOSE r \in landed : req[r].version = v].content
                          ELSE blob[v]]
        BY <1>14 DEF Stop
      <3>2. ASSUME NEW v \in Versions, \E r \in landed : req[r].version = v
            PROVE  req[CHOOSE r \in landed : req[r].version = v].content \in Contents \cup {Null}
        <4>1. (CHOOSE r \in landed : req[r].version = v) \in Requests
          BY <3>2 DEF Sending
        <4>2. \A r \in Requests : req[r].content \in Contents \cup {Null}
          BY <1>0 DEF TypeOK, Request
        <4>3. QED
          BY <4>1, <4>2
      <3>3. QED
        BY <3>1, <3>2, <1>0 DEF TypeOK
    <2>3. undone' \in SUBSET Versions
      BY <1>0, <1>14, VersionTaken DEF Stop, TypeOK
    <2>4. abandoned' \in SUBSET Drafts
      <3>1. \A r \in Requests : At(r, "row") => req[r].draft \in Drafts
        BY <1>0 DEF At, DraftsInUse, TypeOK, Request
      <3>2. QED
        BY <1>0, <1>14, <3>1 DEF Stop, TypeOK
    <2>5. QED
      BY <1>0, <1>14, <2>1, <2>2, <2>3, <2>4 DEF Stop, TypeOK
  <1>15. CASE UNCHANGED vars
    BY <1>0, <1>15 DEF TypeOK, vars
  <1>16. QED
    BY <1>1, <1>2, <1>3, <1>4, <1>5, <1>6, <1>7, <1>8, <1>9, <1>10, <1>11, <1>12, <1>13,
       <1>14, <1>15 DEF Next, Draft, Sweep

-----------------------------------------------------------------------------
(* The lock of the municipality *)

\* The places where a request knows of a version.
Numbered == {"send", "sent", "commit", "turn", "turned"}

\* What a request knows when it begins with a draft.
Taking(place, d) == [Idle EXCEPT !.at = place, !.draft = d]

TakingSure(place, d, sure) == [Idle EXCEPT !.at = place, !.draft = d, !.sure = sure]

LEMMA TakingIs ==
    ASSUME NEW place \in Places, NEW d \in Drafts
    PROVE  /\ Taking(place, d) \in Request
           /\ Taking(place, d).at = place /\ Taking(place, d).draft = d
  <1>1. PICK o \in Request : o = Idle
    BY IdleIs
  <1>2. [o EXCEPT !.at = place, !.draft = d] \in Request
    BY DEF Request, Places
  <1>3. /\ [o EXCEPT !.at = place, !.draft = d].at = place
        /\ [o EXCEPT !.at = place, !.draft = d].draft = d
    BY DEF Request
  <1>4. QED
    BY <1>1, <1>2, <1>3 DEF Taking

\* And when it is told what to do of the version that would be replaced.
LEMMA TakingSureIs ==
    ASSUME NEW place \in Places, NEW d \in Drafts, NEW sure \in BOOLEAN
    PROVE  /\ TakingSure(place, d, sure) \in Request
           /\ TakingSure(place, d, sure).at = place /\ TakingSure(place, d, sure).draft = d
  <1>1. PICK o \in Request : o = Idle
    BY IdleIs
  <1>2. [o EXCEPT !.at = place, !.draft = d, !.sure = sure] \in Request
    BY DEF Request, Places
  <1>3. /\ [o EXCEPT !.at = place, !.draft = d, !.sure = sure].at = place
        /\ [o EXCEPT !.at = place, !.draft = d, !.sure = sure].draft = d
    BY DEF Request
  <1>4. QED
    BY <1>1, <1>2, <1>3 DEF TakingSure

\* A request that begins an upload.
LEMMA UploadIs ==
    ASSUME TypeOK, NEW r \in Requests, NEW c \in Contents, Upload(r, c)
    PROVE  /\ Others(r) /\ req[r].at = "idle"
           /\ req'[r].at = "compare" /\ req'[r].content = c /\ req'[r].draft = Null
  <1>1. PICK o \in Request : o = Idle /\ o.draft = Null
    BY IdleIs
  <1>2. PICK e \in Request : /\ e = [o EXCEPT !.at = "compare", !.content = c]
                             /\ e.at = "compare" /\ e.content = c /\ e.draft = o.draft
    <2>1. [o EXCEPT !.at = "compare", !.content = c] \in Request
      BY DEF Request
    <2>2. /\ [o EXCEPT !.at = "compare", !.content = c].at = "compare"
          /\ [o EXCEPT !.at = "compare", !.content = c].content = c
          /\ [o EXCEPT !.at = "compare", !.content = c].draft = o.draft
      BY DEF Request
    <2>3. QED
      BY <2>1, <2>2
  <1>3. Begin(r, e)
    BY <1>1, <1>2 DEF Upload
  <1>4. QED
    BY <1>1, <1>2, <1>3, BeginIs

\* Where each of them begins.
LEMMA DraftTaken ==
    ASSUME TypeOK, NEW r \in Requests, NEW d \in Drafts
    PROVE  /\ \A sure \in BOOLEAN : SaveOpens(r, d, sure) =>
                 /\ Others(r) /\ req[r].at = "idle"
                 /\ req'[r].at = "open" /\ req'[r].draft = d
           /\ Create(r, d) =>
                 /\ Others(r) /\ req[r].at = "idle"
                 /\ req'[r].at = "row" /\ req'[r].draft = d
           /\ PreviewOpens(r, d) =>
                 /\ Others(r) /\ req[r].at = "idle"
                 /\ req'[r].at = "previewopen" /\ req'[r].draft = d
           /\ Cancel(r, d) =>
                 /\ Others(r) /\ req[r].at = "idle"
                 /\ req'[r].at = "blobs" /\ req'[r].draft = d
  <1>1. "open" \in Places /\ "row" \in Places /\ "previewopen" \in Places /\ "blobs" \in Places
    BY DEF Places
  <1>2. ASSUME NEW sure \in BOOLEAN, SaveOpens(r, d, sure)
        PROVE  /\ Others(r) /\ req[r].at = "idle"
               /\ req'[r].at = "open" /\ req'[r].draft = d
    <2>1. Begin(r, TakingSure("open", d, sure))
      BY <1>2 DEF SaveOpens, TakingSure
    <2>2. QED
      BY <1>1, <2>1, TakingSureIs, BeginIs
  <1>3. ASSUME Create(r, d)
        PROVE  /\ Others(r) /\ req[r].at = "idle"
               /\ req'[r].at = "row" /\ req'[r].draft = d
    <2>1. Begin(r, Taking("row", d))
      BY <1>3 DEF Create, Taking
    <2>2. QED
      BY <1>1, <2>1, TakingIs, BeginIs
  <1>4. ASSUME PreviewOpens(r, d)
        PROVE  /\ Others(r) /\ req[r].at = "idle"
               /\ req'[r].at = "previewopen" /\ req'[r].draft = d
    <2>1. Begin(r, Taking("previewopen", d))
      BY <1>4 DEF PreviewOpens, Taking
    <2>2. QED
      BY <1>1, <2>1, TakingIs, BeginIs
  <1>5. ASSUME Cancel(r, d)
        PROVE  /\ Others(r) /\ req[r].at = "idle"
               /\ req'[r].at = "blobs" /\ req'[r].draft = d
    <2>1. Begin(r, Taking("blobs", d))
      BY <1>5 DEF Cancel, Taking
    <2>2. QED
      BY <1>1, <2>1, TakingIs, BeginIs
  <1>6. QED
    BY <1>2, <1>3, <1>4, <1>5

\* What the steps of a version do to the request that takes them, when it has
\* no number before or after.
LEMMA UnnumberedVersion ==
    ASSUME IInv, NEW r \in Requests,
           \/ \E c \in Contents : Upload(r, c)
           \/ \E d \in Drafts, sure \in BOOLEAN : SaveOpens(r, d, sure)
           \/ SaveMarks(r) \/ Compare(r) \/ SendLate(r) \/ Clean(r) \/ CleanFails(r)
    PROVE  /\ Others(r) /\ UNCHANGED rows
           /\ req[r].at \notin Numbered /\ req'[r].at \notin Numbered
  <1> USE DEF Numbered
  <1>0. TypeOK /\ DraftsInUse
    BY DEF IInv
  <1>1. ASSUME NEW c \in Contents, Upload(r, c)
        PROVE  /\ Others(r) /\ UNCHANGED rows
               /\ req[r].at \notin Numbered /\ req'[r].at \notin Numbered
    <2>1. UNCHANGED rows
      <3>1. UNCHANGED <<rows, blob, folders, history, faults>>
        BY <1>1 DEF Upload
      <3>2. QED
        BY <3>1
    <2>2. QED
      BY <1>0, <1>1, <2>1, UploadIs
  <1>2. ASSUME NEW d \in Drafts, NEW sure \in BOOLEAN, SaveOpens(r, d, sure)
        PROVE  /\ Others(r) /\ UNCHANGED rows
               /\ req[r].at \notin Numbered /\ req'[r].at \notin Numbered
    <2>1. UNCHANGED rows
      <3>1. UNCHANGED <<rows, blob, folders, history, faults>>
        BY <1>2 DEF SaveOpens
      <3>2. QED
        BY <3>1
    <2>2. QED
      BY <1>0, <1>2, <2>1, DraftTaken
  <1>3. CASE SaveMarks(r)
    BY <1>0, <1>3, SaveMarksIs, IdleIs DEF SaveMarks
  <1>4. CASE Compare(r)
    BY <1>0, <1>4, StoredIs, FinishIs, GotoIs, IdleIs DEF Compare, Refuse, At, Places
  <1>5. CASE SendLate(r)
    BY <1>0, <1>5, GotoIs DEF SendLate, At, Places
  <1>6. CASE Clean(r) \/ CleanFails(r)
    BY <1>0, <1>6, FinishIs, IdleIs DEF Clean, CleanFails, At
  <1>7. QED
    BY <1>1, <1>2, <1>3, <1>4, <1>5, <1>6

\* The same of the steps of a draft.
LEMMA UnnumberedDraft ==
    ASSUME IInv, NEW r \in Requests, Draft(r)
    PROVE  /\ Others(r) /\ UNCHANGED <<rows, blob>>
           /\ req'[r] = req[r] \/ (req[r].at \notin Numbered /\ req'[r].at \notin Numbered)
           /\ undone' = undone
           /\ \/ req'[r] = req[r]
              \/ req'[r].at \in {"idle", "row", "previewopen", "previewsend", "blobs", "droprow"}
  <1> USE DEF Numbered, folders, history
  <1> DEFINE Quiet ==
        /\ Others(r) /\ UNCHANGED <<rows, blob>>
        /\ req'[r] = req[r] \/ (req[r].at \notin Numbered /\ req'[r].at \notin Numbered)
        /\ undone' = undone
        /\ \/ req'[r] = req[r]
           \/ req'[r].at \in {"idle", "row", "previewopen", "previewsend", "blobs", "droprow"}
  <1>0. TypeOK
    BY DEF IInv
  <1>2. ASSUME NEW d \in Drafts, Create(r, d) \/ PreviewOpens(r, d) \/ Cancel(r, d)
        PROVE  Quiet
    <2>1. UNCHANGED <<rows, blob, undone>>
      BY <1>2 DEF Create, PreviewOpens, Cancel
    <2>2. /\ Others(r) /\ req[r].at = "idle"
          /\ req'[r].at \in {"row", "previewopen", "blobs"}
      BY <1>0, <1>2, DraftTaken
    <2>3. QED
      BY <2>1, <2>2
  <1>3. ASSUME NEW d \in Drafts, CreateLands(r, d)
        PROVE  Quiet
    BY <1>3 DEF CreateLands, Others
  <1>4. ASSUME CreateRow(r) \/ PreviewSends(r) \/ RemoveRow(r) \/ CreateFails(r) \/ RemoveBlobsFails(r)
        PROVE  Quiet
    <2>1. Finish(r) /\ UNCHANGED <<rows, blob, undone>>
      BY <1>4 DEF CreateRow, PreviewSends, RemoveRow, CreateFails, RemoveBlobsFails, Failure
    <2>2. req[r].at \notin Numbered
      BY <1>4 DEF CreateRow, PreviewSends, RemoveRow, CreateFails, RemoveBlobsFails, At
    <2>3. QED
      BY <1>0, <2>1, <2>2, FinishIs, IdleIs
  <1>5. ASSUME PreviewReads(r) \/ RemoveBlobs(r)
        PROVE  Quiet
    <2>1. /\ Finish(r) \/ Goto(r, "previewsend") \/ Goto(r, "droprow")
          /\ UNCHANGED <<rows, blob, undone>>
      BY <1>5 DEF PreviewReads, RemoveBlobs
    <2>2. req[r].at \notin Numbered
      BY <1>5 DEF PreviewReads, RemoveBlobs, At
    <2>3. QED
      BY <1>0, <2>1, <2>2, FinishIs, GotoIs, IdleIs DEF Places
  <1>6. QED
    BY <1>2, <1>3, <1>4, <1>5 DEF Draft

\* What the sweep and the passing of time leave alone.
LEMMA SweepLeaves ==
    ASSUME Sweep
    PROVE  UNCHANGED <<rows, blob, req, cancelled, undone, abandoned>>
  BY DEF Sweep, SweepStarts, Expire, SweepBlobs, SweepFails, SweepRow, folders, history

\* A version turned on again begins with one that exists.
LEMMA ActivateIs ==
    ASSUME TypeOK, NEW r \in Requests, NEW v \in Versions, Activate(r, v)
    PROVE  /\ Others(r) /\ req[r].at = "idle" /\ v \in DOMAIN saved
           /\ req'[r].at = "turn" /\ req'[r].version = v /\ req'[r].draft = Null
  <1>1. v \in 0 .. MaxVersion
    BY TemplatesAssumption DEF Versions
  <1>2. LET e == [Idle EXCEPT !.at = "turn", !.version = v]
        IN  e \in Request /\ e.at = "turn" /\ e.version = v /\ e.draft = Null
    BY <1>1, IdleIs DEF Request
  <1>3. QED
    BY <1>2, BeginIs DEF Activate

\* The lock is held by one request, from its number to the end of its transaction.
LEMMA LockStep == IInv /\ [Next]_vars => LockHeld'
  <1> SUFFICES ASSUME IInv, [Next]_vars PROVE LockHeld'
    OBVIOUS
  <1> USE TemplatesAssumption DEF rows
  <1>0. TypeOK /\ LockHeld /\ UploadsLand
    BY DEF IInv
  <1> DEFINE Holding == {"send", "sent", "commit", "turned"}
  <1>1. ASSUME NEW r \in Requests, Others(r), UNCHANGED rows,
               req[r].at \notin Numbered, req'[r].at \notin Numbered
        PROVE  LockHeld'
    BY <1>0, <1>1 DEF LockHeld, Others, NextVersion, Active, Numbered
  <1>2. ASSUME NEW r \in Requests, Others(r), UNCHANGED saved, req[r].at \in Holding,
               lock' = Null, req'[r].at \notin Numbered
        PROVE  LockHeld'
    BY <1>0, <1>2 DEF LockHeld, Others, NextVersion, Active, Numbered
  <1>3. ASSUME NEW r \in Requests, Others(r), UNCHANGED rows,
               req[r].at \in {"send", "sent"}, req'[r].at \in {"sent", "commit"},
               req'[r].version = req[r].version, req'[r].at = "commit" => req'[r].off = Active
        PROVE  LockHeld'
    BY <1>0, <1>3 DEF LockHeld, Others, NextVersion, Active
  <1>4. ASSUME NEW r \in Requests,
               \/ \E c \in Contents : Upload(r, c)
               \/ \E d \in Drafts, sure \in BOOLEAN : SaveOpens(r, d, sure)
               \/ SaveMarks(r) \/ Compare(r) \/ SendLate(r) \/ Clean(r) \/ CleanFails(r)
        PROVE  LockHeld'
    BY <1>1, <1>4, UnnumberedVersion
  <1>5. ASSUME NEW r \in Requests, Lock(r)
        PROVE  LockHeld'
    <2>1. /\ Others(r) /\ UNCHANGED saved /\ lock = Null /\ lock' = r
          /\ req[r].at = "wait" /\ req'[r].at = "send" /\ req'[r].version = NextVersion
      BY <1>0, <1>5, LockIs DEF Lock
    <2>2. QED
      BY <1>0, <2>1 DEF LockHeld, Others, NextVersion, Active
  <1>6. ASSUME NEW r \in Requests, Send(r)
        PROVE  LockHeld'
    BY <1>0, <1>3, <1>6, GotoIs DEF Send, At, Places, SameFields
  <1>7. ASSUME NEW r \in Requests, Deactivate(r)
        PROVE  LockHeld'
    BY <1>0, <1>3, <1>7, OffIs DEF Deactivate, At, Places
  <1>8. ASSUME NEW r \in Requests, SendFails(r)
        PROVE  LockHeld'
    BY <1>0, <1>2, <1>8, FinishIs, IdleIs DEF SendFails, At, Numbered
  <1>9. ASSUME NEW r \in Requests, RollBack(r) \/ TimesOut(r)
        PROVE  LockHeld'
    BY <1>0, <1>2, <1>9, GotoIs DEF RollBack, TimesOut, At, Places, Numbered
  <1>10. ASSUME NEW r \in Requests, Commit(r)
         PROVE  LockHeld'
    <2>1. /\ Others(r) /\ lock = r /\ lock' = Null /\ req'[r].at \in {"idle", "blobs"}
      BY <1>0, <1>10, StoredIs, IdleIs DEF Commit, At, LockHeld
    <2>2. DOMAIN saved \subseteq DOMAIN saved'
      <3>1. /\ Len(saved) \in Nat /\ DOMAIN saved = 1..Len(saved)
            /\ DOMAIN saved' = 1..(Len(saved) + 1)
        BY <1>0, <1>10, CommitRows
      <3>2. QED
        BY <3>1
    <2>3. \A s \in Requests \ {r} : req[s].at \notin Holding
      BY <1>0, <2>1 DEF LockHeld
    <2>4. QED
      BY <1>0, <2>1, <2>2, <2>3 DEF LockHeld, Others
  <1>11. ASSUME NEW r \in Requests, NEW v \in Versions, Activate(r, v)
         PROVE  LockHeld'
    <2>1. /\ Others(r) /\ req[r].at = "idle" /\ v \in DOMAIN saved
          /\ req'[r].at = "turn" /\ req'[r].version = v
      BY <1>0, <1>11, ActivateIs
    <2>2. UNCHANGED <<saved, lock>>
      BY <1>11 DEF Activate
    <2>3. QED
      BY <1>0, <2>1, <2>2 DEF LockHeld, Others, NextVersion, Active
  <1>12. ASSUME NEW r \in Requests, TurnOff(r)
         PROVE  LockHeld'
    <2>1. req[r].at = "turn" /\ lock = Null /\ UNCHANGED saved
      BY <1>12 DEF TurnOff, At, Unlocked
    <2>2. CASE Finish(r) /\ UNCHANGED lock
      <3>1. Others(r) /\ req'[r].at = "idle"
        BY <1>0, <2>2, FinishIs, IdleIs
      <3>2. QED
        BY <1>0, <2>1, <2>2, <3>1 DEF LockHeld, Others, NextVersion, Active
    <2>3. CASE lock' = r /\ req' = [req EXCEPT ![r].at = "turned", ![r].off = Active]
      <3>1. /\ Others(r) /\ req'[r].at = "turned" /\ req'[r].off = Active
            /\ req'[r].version = req[r].version
        BY <1>0, <2>3, OffIs DEF Places
      <3>2. lock' = r
        BY <2>3
      <3>3. QED
        BY <1>0, <2>1, <3>1, <3>2 DEF LockHeld, Others, NextVersion, Active
    <2>4. QED
      BY <1>12, <2>2, <2>3 DEF TurnOff
  <1>13. ASSUME NEW r \in Requests, TurnOn(r)
         PROVE  LockHeld'
    <2>1. Others(r) /\ lock = r /\ lock' = Null /\ req'[r].at = "idle"
      BY <1>0, <1>13, FinishIs, IdleIs DEF TurnOn, At, LockHeld
    <2>2. DOMAIN saved' = DOMAIN saved
      BY <1>0, <1>13, TurnOnRows
    <2>3. \A s \in Requests \ {r} : req[s].at \notin Holding
      BY <1>0, <2>1 DEF LockHeld
    <2>4. QED
      BY <1>0, <2>1, <2>2, <2>3 DEF LockHeld, Others
  <1>14. ASSUME NEW r \in Requests, Draft(r)
         PROVE  LockHeld'
    <2>1. CASE req'[r] = req[r]
      BY <1>0, <1>14, <2>1, UnnumberedDraft DEF LockHeld, Others, NextVersion, Active
    <2>2. CASE req'[r] # req[r]
      BY <1>1, <1>14, <2>2, UnnumberedDraft
    <2>3. QED
      BY <2>1, <2>2
  <1>15. ASSUME Stop
         PROVE  LockHeld'
    <2>1. lock' = Null /\ \A r \in Requests : req'[r].at = "idle"
      BY <1>15, IdleIs DEF Stop
    <2>2. QED
      BY <2>1 DEF LockHeld
  <1>16. CASE UNCHANGED <<rows, req>>
    BY <1>0, <1>16 DEF LockHeld, NextVersion, Active
  <1>17. QED
    BY <1>4, <1>5, <1>6, <1>7, <1>8, <1>9, <1>10, <1>11, <1>12, <1>13, <1>14, <1>15, <1>16,
       SweepLeaves DEF Next, Version, vars

-----------------------------------------------------------------------------
(* The files *)

\* The rows change only when a version is committed or turned on again.
LEMMA RowsChange ==
    ASSUME [Next]_vars
    PROVE  \/ saved' = saved
           \/ \E r \in Requests : Commit(r) \/ TurnOn(r)
  <1> USE DEF rows
  <1>1. ASSUME NEW r \in Requests, Version(r)
        PROVE  saved' = saved \/ Commit(r) \/ TurnOn(r)
    BY <1>1, Zenon DEF Version, Upload, SaveOpens, SaveMarks, Compare, Lock, Send, SendFails,
       Deactivate, RollBack, TimesOut, SendLate, Clean, CleanFails, Activate, TurnOff
  <1>2. ASSUME NEW r \in Requests, Draft(r)
        PROVE  saved' = saved
    BY <1>2, Zenon DEF Draft, Create, CreateLands, CreateRow, CreateFails, PreviewOpens,
       PreviewReads, PreviewSends, Cancel, RemoveBlobs, RemoveBlobsFails, RemoveRow
  <1>3. CASE Sweep
    BY <1>3, SweepLeaves
  <1>4. CASE Stop
    BY <1>4 DEF Stop
  <1>5. CASE UNCHANGED vars
    BY <1>5 DEF vars
  <1>6. QED
    BY <1>1, <1>2, <1>3, <1>4, <1>5 DEF Next

\* Every version stays, with its file.
LEMMA RowsStay ==
    ASSUME IInv, [Next]_vars
    PROVE  \A v \in DOMAIN saved : v \in DOMAIN saved' /\ saved'[v].content = saved[v].content
  <1>0. TypeOK /\ LockHeld /\ UploadsLand
    BY DEF IInv
  <1>1. CASE saved' = saved
    BY <1>1
  <1>2. ASSUME NEW r \in Requests, Commit(r)
        PROVE  \A v \in DOMAIN saved : v \in DOMAIN saved' /\ saved'[v].content = saved[v].content
    <2>1. /\ Len(saved) \in Nat /\ DOMAIN saved = 1..Len(saved)
          /\ DOMAIN saved' = 1..(Len(saved) + 1)
          /\ \A v \in DOMAIN saved : saved'[v].content = saved[v].content
      BY <1>0, <1>2, CommitRows
    <2>2. \A v \in 1..Len(saved) : v \in 1..(Len(saved) + 1)
      BY <2>1
    <2>3. QED
      BY <2>1, <2>2
  <1>3. ASSUME NEW r \in Requests, TurnOn(r)
        PROVE  \A v \in DOMAIN saved : v \in DOMAIN saved' /\ saved'[v].content = saved[v].content
    BY <1>0, <1>3, TurnOnRows
  <1>4. QED
    BY <1>1, <1>2, <1>3, RowsChange

\* What a file is written to, or deleted from: the next version, by the request
\* that holds the lock, or a version whose transaction was rolled back.
LEMMA BlobsChange ==
    ASSUME IInv, [Next]_vars
    PROVE  /\ undone \subseteq undone'
           /\ \A v \in Versions : blob'[v] = blob[v] \/ v = NextVersion \/ v \in undone
  <1> USE DEF rows
  <1> DEFINE Only ==
        /\ undone \subseteq undone'
        /\ \A v \in Versions : blob'[v] = blob[v] \/ v = NextVersion \/ v \in undone
  <1>0. TypeOK /\ LockHeld /\ UploadsLand
    BY DEF IInv
  <1>1. ASSUME UNCHANGED blob, undone \subseteq undone'
        PROVE  Only
    BY <1>1
  <1>2. ASSUME NEW r \in Requests, At(r, "send"), Put(r) \/ UNCHANGED blob, undone \subseteq undone'
        PROVE  Only
    <2>1. req[r].version = NextVersion
      BY <1>0, <1>2 DEF At, LockHeld
    <2>2. QED
      BY <1>0, <1>2, <2>1 DEF Put, TypeOK
  <1>3. ASSUME NEW r \in Requests, SendLate(r) \/ Clean(r)
        PROVE  Only
    <2>1. req[r].version \in undone /\ undone' = undone
      BY <1>0, <1>3, Zenon DEF SendLate, Clean, At, UploadsLand, history
    <2>2. QED
      BY <1>0, <1>3, <2>1 DEF SendLate, Clean, Put, TypeOK
  <1>4. ASSUME NEW r \in Requests, Version(r)
        PROVE  Only
    <2>1. CASE Send(r) \/ SendFails(r)
      <3>1. At(r, "send") /\ (Put(r) \/ UNCHANGED blob) /\ undone \subseteq undone'
        BY <2>1, Zenon DEF Send, SendFails, history
      <3>2. QED
        BY <1>2, <3>1
    <2>2. CASE SendLate(r) \/ Clean(r)
      BY <1>3, <2>2
    <2>3. CASE RollBack(r) \/ TimesOut(r)
      BY <1>1, <2>3, Zenon DEF RollBack, TimesOut
    <2>4. CASE Version(r) /\ ~ (Send(r) \/ SendFails(r) \/ SendLate(r) \/ Clean(r)
                                  \/ RollBack(r) \/ TimesOut(r))
      <3>1. UNCHANGED blob /\ undone' = undone
        BY <2>4, Zenon DEF Version, Upload, SaveOpens, SaveMarks, Compare, Lock, Deactivate,
           Commit, CleanFails, Activate, TurnOff, TurnOn, history
      <3>2. QED
        BY <1>1, <3>1
    <2>5. QED
      BY <1>4, <2>1, <2>2, <2>3, <2>4
  <1>5. ASSUME NEW r \in Requests, Draft(r)
        PROVE  Only
    BY <1>1, <1>5, UnnumberedDraft
  <1>6. CASE Sweep
    BY <1>1, <1>6, SweepLeaves
  <1>7. CASE Stop
    <2>1. PICK landed \in SUBSET Sending :
             blob' = [v \in Versions |->
                        IF \E r \in landed : req[r].version = v
                        THEN req[CHOOSE r \in landed : req[r].version = v].content
                        ELSE blob[v]]
      BY <1>7 DEF Stop
    <2>2. \A r \in Sending : req[r].version = NextVersion \/ req[r].version \in undone
      BY <1>0 DEF Sending, LockHeld, UploadsLand
    <2>3. ASSUME NEW v \in Versions
          PROVE  blob'[v] = blob[v] \/ v = NextVersion \/ v \in undone
      <3>1. CASE \E r \in landed : req[r].version = v
        BY <2>2, <3>1
      <3>2. CASE ~ \E r \in landed : req[r].version = v
        BY <2>1, <3>2
      <3>3. QED
        BY <3>1, <3>2
    <2>4. QED
      BY <1>7, <2>3 DEF Stop
  <1>8. CASE UNCHANGED vars
    BY <1>1, <1>8 DEF vars
  <1>9. QED
    BY <1>4, <1>5, <1>6, <1>7, <1>8 DEF Next

\* What a request stores: the clauses of UploadsLand for one request.
Lands(e, b, u) ==
    /\ e.at \in {"compare", "wait", "send", "sent", "commit"} =>
          /\ e.content \in Contents
          /\ e.draft # Null => e.content = Marked[e.draft]
    /\ e.at \in {"sent", "commit"} => b[e.version] = e.content \/ e.version \in u
    /\ e.at \in {"late", "clean"} => e.version \in u

LEMMA LandsIs == UploadsLand <=> \A r \in Requests : Lands(req[r], blob, undone)
  BY Zenon DEF UploadsLand, Lands

LEMMA LandsIsNext == UploadsLand' <=> \A r \in Requests : Lands(req'[r], blob', undone')
  BY Zenon DEF UploadsLand, Lands

\* The requests that do not take the step store what they did.
LEMMA OthersLand ==
    ASSUME IInv, [Next]_vars, NEW r \in Requests, Others(r),
           \/ UNCHANGED blob
           \/ req[r].at = "send"
           \/ /\ req[r].at \in {"late", "clean"}
              /\ \A v \in Versions \ {req[r].version} : blob'[v] = blob[v]
    PROVE  \A s \in Requests \ {r} : Lands(req'[s], blob', undone')
  <1> SUFFICES ASSUME NEW s \in Requests \ {r}
               PROVE  Lands(req'[s], blob', undone')
    OBVIOUS
  <1>0. TypeOK /\ LockHeld /\ UploadsLand
    BY DEF IInv
  <1>1. Lands(req[s], blob, undone) /\ req'[s] = req[s]
    BY <1>0, LandsIs DEF Others
  <1>2. undone \subseteq undone'
    BY BlobsChange
  <1>3. req[s].at \in {"sent", "commit"} =>
            blob'[req[s].version] = blob[req[s].version] \/ req[s].version \in undone'
    <2> SUFFICES ASSUME req[s].at \in {"sent", "commit"}, ~ UNCHANGED blob
                 PROVE  blob'[req[s].version] = blob[req[s].version] \/ req[s].version \in undone
      BY <1>2
    <2>1. lock = s /\ req[s].version = NextVersion /\ req[s].version \in Versions
      BY <1>0, VersionTaken DEF LockHeld
    <2>2. /\ req[r].at \in {"late", "clean"}
          /\ \A v \in Versions \ {req[r].version} : blob'[v] = blob[v]
      BY <1>0, <2>1 DEF LockHeld
    <2>3. req[r].version \in undone
      BY <1>0, <2>2 DEF UploadsLand
    <2>4. QED
      BY <2>1, <2>2, <2>3
  <1>4. QED
    BY <1>1, <1>2, <1>3, Zenon DEF Lands

\* What is stored, and what is recorded to be stored, is true of every request.
LEMMA UploadsStep == IInv /\ [Next]_vars => UploadsLand'
  <1> SUFFICES ASSUME IInv, [Next]_vars PROVE UploadsLand'
    OBVIOUS
  <1> USE DEF rows
  <1>0. TypeOK /\ LockHeld /\ UploadsLand /\ DraftsInUse
    BY DEF IInv
  <1>1. ASSUME NEW r \in Requests, Others(r), Lands(req'[r], blob', undone'),
               \/ UNCHANGED blob
               \/ req[r].at = "send"
               \/ /\ req[r].at \in {"late", "clean"}
                  /\ \A v \in Versions \ {req[r].version} : blob'[v] = blob[v]
        PROVE  UploadsLand'
    <2>1. \A s \in Requests \ {r} : Lands(req'[s], blob', undone')
      BY <1>1, OthersLand
    <2>2. QED
      BY <1>1, <2>1, LandsIsNext
  <1> DEFINE Elsewhere == {"idle", "turn", "turned", "row", "open", "previewopen",
                           "previewsend", "blobs", "droprow"}
  <1>2. \A e, b, u : e.at \in Elsewhere => Lands(e, b, u)
    BY DEF Lands
  <1>3. Idle.at \in Elsewhere
    BY IdleIs
  <1>4. ASSUME NEW r \in Requests
        PROVE  Lands(req[r], blob, undone)
    BY <1>0, LandsIs
  <1>5. ASSUME NEW r \in Requests, NEW c \in Contents, Upload(r, c)
        PROVE  UploadsLand'
    <2>1. Lands(req'[r], blob', undone')
      BY <1>0, <1>5, UploadIs DEF Lands
    <2>2. Others(r)
      BY <1>0, <1>5, UploadIs
    <2>3. UNCHANGED blob
      BY <1>5, Zenon DEF Upload
    <2>4. QED
      BY <1>1, <2>1, <2>2, <2>3
  <1>6. ASSUME NEW r \in Requests, NEW d \in Drafts, NEW sure \in BOOLEAN, SaveOpens(r, d, sure)
        PROVE  UploadsLand'
    <2>1. Others(r) /\ req'[r].at \in Elsewhere
      BY <1>0, <1>6, DraftTaken
    <2>2. UNCHANGED blob
      BY <1>6, Zenon DEF SaveOpens
    <2>3. QED
      BY <1>1, <1>2, <2>1, <2>2
  <1>7. ASSUME NEW r \in Requests, SaveMarks(r)
        PROVE  UploadsLand'
    <2>1. Others(r) /\ Lands(req'[r], blob', undone')
      <3>1. CASE req'[r] = Idle
        BY <1>0, <1>2, <1>3, <1>7, <3>1, SaveMarksIs
      <3>2. CASE req'[r] # Idle
        BY <1>0, <1>7, <3>2, SaveMarksIs DEF Lands
      <3>3. QED
        BY <3>1, <3>2
    <2>2. UNCHANGED blob
      BY <1>7, Zenon DEF SaveMarks
    <2>3. QED
      BY <1>1, <2>1, <2>2
  <1>8. ASSUME NEW r \in Requests, Compare(r)
        PROVE  UploadsLand'
    <2>1. UNCHANGED <<blob, undone>> /\ req[r].at = "compare"
      BY <1>8, Zenon DEF Compare, At, history
    <2>2. Stored(r) \/ Finish(r) \/ Goto(r, "wait")
      BY <1>8, Zenon DEF Compare, Refuse
    <2>3. CASE Stored(r) \/ Finish(r)
      BY <1>0, <1>1, <1>2, <1>3, <2>1, <2>3, StoredIs, FinishIs
    <2>4. CASE Goto(r, "wait")
      <3>1. Others(r) /\ req'[r].at = "wait" /\ SameFields(r)
        BY <1>0, <2>4, GotoIs DEF Places
      <3>2. Lands(req'[r], blob', undone')
        BY <1>4, <2>1, <3>1 DEF Lands, SameFields
      <3>3. QED
        BY <1>1, <2>1, <3>1, <3>2
    <2>5. QED
      BY <2>2, <2>3, <2>4
  <1>9. ASSUME NEW r \in Requests, Lock(r)
        PROVE  UploadsLand'
    <2>1. /\ Others(r) /\ req[r].at = "wait" /\ req'[r].at = "send"
          /\ req'[r].content = req[r].content /\ req'[r].draft = req[r].draft
      BY <1>0, <1>9, LockIs
    <2>2. UNCHANGED blob
      BY <1>9, Zenon DEF Lock
    <2>3. Lands(req'[r], blob', undone')
      BY <1>4, <2>1 DEF Lands
    <2>4. QED
      BY <1>1, <2>1, <2>2, <2>3
  <1>10. ASSUME NEW r \in Requests, Send(r)
         PROVE  UploadsLand'
    <2>1. Others(r) /\ req[r].at = "send" /\ req'[r].at = "sent" /\ SameFields(r)
      BY <1>0, <1>10, GotoIs DEF Send, At, Places
    <2>2. req[r].version \in Versions
      BY <2>1, VersionTaken
    <2>3. blob'[req[r].version] = req[r].content
      BY <1>0, <1>10, <2>2 DEF Send, Put, TypeOK
    <2>4. Lands(req'[r], blob', undone')
      BY <1>4, <2>1, <2>3 DEF Lands, SameFields
    <2>5. QED
      BY <1>1, <2>1, <2>4
  <1>11. ASSUME NEW r \in Requests, SendFails(r)
         PROVE  UploadsLand'
    <2>1. Others(r) /\ req[r].at = "send" /\ req'[r] = Idle
      BY <1>0, <1>11, FinishIs DEF SendFails, At
    <2>2. QED
      BY <1>1, <1>2, <1>3, <2>1
  <1>12. ASSUME NEW r \in Requests, Deactivate(r)
         PROVE  UploadsLand'
    <2>1. /\ Others(r) /\ req'[r].at = "commit"
          /\ req'[r].content = req[r].content /\ req'[r].draft = req[r].draft
          /\ req'[r].version = req[r].version
      BY <1>0, <1>12, OffIs DEF Deactivate, Places
    <2>2. UNCHANGED <<blob, undone>> /\ req[r].at = "sent"
      BY <1>12, Zenon DEF Deactivate, At, history
    <2>3. Lands(req'[r], blob', undone')
      BY <1>4, <2>1, <2>2 DEF Lands
    <2>4. QED
      BY <1>1, <2>1, <2>2, <2>3
  <1>13. ASSUME NEW r \in Requests, Commit(r)
         PROVE  UploadsLand'
    <2>1. Stored(r) /\ UNCHANGED blob
      BY <1>13, Zenon DEF Commit
    <2>2. QED
      BY <1>0, <1>1, <1>2, <1>3, <2>1, StoredIs
  <1>14. ASSUME NEW r \in Requests, RollBack(r) \/ TimesOut(r)
         PROVE  UploadsLand'
    <2>1. /\ UNCHANGED blob /\ undone' = undone \cup {req[r].version}
          /\ Goto(r, "clean") \/ Goto(r, "late")
      BY <1>14, Zenon DEF RollBack, TimesOut
    <2>2. Others(r) /\ req'[r].at \in {"late", "clean"} /\ SameFields(r)
      BY <1>0, <2>1, GotoIs DEF Places
    <2>3. Lands(req'[r], blob', undone')
      BY <2>1, <2>2 DEF Lands, SameFields
    <2>4. QED
      BY <1>1, <2>1, <2>2, <2>3
  <1>15. ASSUME NEW r \in Requests, SendLate(r)
         PROVE  UploadsLand'
    <2>1. /\ Others(r) /\ req[r].at = "late" /\ req'[r].at = "clean" /\ SameFields(r)
          /\ undone' = undone
      BY <1>0, <1>15, GotoIs DEF SendLate, At, Places, history
    <2>2. \A v \in Versions \ {req[r].version} : blob'[v] = blob[v]
      BY <1>0, <1>15 DEF SendLate, Put, TypeOK
    <2>3. Lands(req'[r], blob', undone')
      BY <1>4, <2>1 DEF Lands, SameFields
    <2>4. QED
      BY <1>1, <2>1, <2>2, <2>3
  <1>16. ASSUME NEW r \in Requests, Clean(r) \/ CleanFails(r)
         PROVE  UploadsLand'
    <2>1. Others(r) /\ req[r].at = "clean" /\ req'[r] = Idle
      BY <1>0, <1>16, FinishIs DEF Clean, CleanFails, At
    <2>2. \A v \in Versions \ {req[r].version} : blob'[v] = blob[v]
      BY <1>0, <1>16 DEF Clean, CleanFails, TypeOK
    <2>3. QED
      BY <1>1, <1>2, <1>3, <2>1, <2>2
  <1>17. ASSUME NEW r \in Requests, NEW v \in Versions, Activate(r, v)
         PROVE  UploadsLand'
    <2>1. Others(r) /\ req'[r].at \in Elsewhere
      BY <1>0, <1>17, ActivateIs
    <2>2. UNCHANGED blob
      BY <1>17, Zenon DEF Activate
    <2>3. QED
      BY <1>1, <1>2, <2>1, <2>2
  <1>18. ASSUME NEW r \in Requests, TurnOff(r) \/ TurnOn(r)
         PROVE  UploadsLand'
    <2>1. Others(r) /\ req'[r].at \in Elsewhere
      BY <1>0, <1>3, <1>18, FinishIs, OffIs DEF TurnOff, TurnOn, Places
    <2>2. UNCHANGED blob
      BY <1>18, Zenon DEF TurnOff, TurnOn
    <2>3. QED
      BY <1>1, <1>2, <2>1, <2>2
  <1>19. ASSUME NEW r \in Requests, Draft(r)
         PROVE  UploadsLand'
    <2>1. Others(r) /\ UNCHANGED <<blob, undone>>
      BY <1>19, UnnumberedDraft
    <2>2. Lands(req'[r], blob', undone')
      <3>1. CASE req'[r] = req[r]
        BY <1>4, <2>1, <3>1
      <3>2. CASE req'[r].at \in Elsewhere
        BY <1>2, <3>2
      <3>3. QED
        BY <1>19, <3>1, <3>2, UnnumberedDraft
    <2>3. QED
      BY <1>1, <2>1, <2>2
  <1>20. ASSUME Stop
         PROVE  UploadsLand'
    <2>1. \A r \in Requests : req'[r].at \in Elsewhere
      BY <1>3, <1>20 DEF Stop
    <2>2. QED
      BY <1>2, <2>1, LandsIsNext
  <1>21. CASE UNCHANGED <<blob, req, undone>>
    BY <1>0, <1>21, LandsIs, LandsIsNext
  <1>22. QED
    BY <1>5, <1>6, <1>7, <1>8, <1>9, <1>10, <1>11, <1>12, <1>13, <1>14, <1>15, <1>16, <1>17,
       <1>18, <1>19, <1>20, <1>21, SweepLeaves DEF Next, Version, vars

\* The file of a version stays, for every step.
LEMMA FilesStep == IInv /\ [Next]_vars => FileKept'
  <1> SUFFICES ASSUME IInv, [Next]_vars, NEW v \in DOMAIN saved'
               PROVE  blob'[v] = saved'[v].content \/ v \in undone'
    BY DEF FileKept
  <1>0. TypeOK /\ LockHeld /\ UploadsLand /\ FileKept
    BY DEF IInv
  <1>1. Len(saved) \in Nat /\ DOMAIN saved = 1..Len(saved) /\ DOMAIN saved \subseteq Versions
    BY <1>0, TemplatesAssumption DEF TypeOK, Versions
  <1>2. CASE v \in DOMAIN saved
    <2>1. saved'[v].content = saved[v].content
      BY <1>2, RowsStay
    <2>2. blob[v] = saved[v].content \/ v \in undone
      BY <1>0, <1>2 DEF FileKept
    <2>3. v # NextVersion
      BY <1>1, <1>2 DEF NextVersion
    <2>4. undone \subseteq undone' /\ (blob'[v] = blob[v] \/ v \in undone)
      BY <1>1, <1>2, <2>3, BlobsChange
    <2>5. QED
      BY <2>1, <2>2, <2>4
  <1>3. ASSUME v \notin DOMAIN saved, NEW r \in Requests, Commit(r)
        PROVE  blob'[v] = saved'[v].content \/ v \in undone'
    <2>1. v = Len(saved) + 1 /\ saved'[v] = [content |-> req[r].content, active |-> TRUE]
      <3>1. /\ DOMAIN saved' = 1..(Len(saved) + 1)
            /\ saved'[Len(saved) + 1] = [content |-> req[r].content, active |-> TRUE]
        BY <1>0, <1>3, CommitRows
      <3>2. v = Len(saved) + 1
        BY <1>1, <1>3, <3>1
      <3>3. QED
        BY <3>1, <3>2
    <2>2. req[r].at = "commit" /\ UNCHANGED blob
      BY <1>3, Zenon DEF Commit, At
    <2>3. req[r].version = v
      BY <1>0, <2>1, <2>2 DEF LockHeld, NextVersion
    <2>4. blob[v] = req[r].content \/ v \in undone
      BY <1>0, <2>2, <2>3 DEF UploadsLand
    <2>5. undone \subseteq undone'
      BY BlobsChange
    <2>6. QED
      BY <2>1, <2>2, <2>4, <2>5
  <1>4. ASSUME v \notin DOMAIN saved, NEW r \in Requests, TurnOn(r)
        PROVE  FALSE
    BY <1>0, <1>4, TurnOnRows
  <1>5. QED
    BY <1>2, <1>3, <1>4, RowsChange

\* One version is active, for every step.
LEMMA ActiveStep == IInv /\ [Next]_vars => OneActive'
  <1> SUFFICES ASSUME IInv, [Next]_vars PROVE OneActive'
    OBVIOUS
  <1>0. TypeOK /\ LockHeld /\ UploadsLand /\ OneActive
    BY DEF IInv
  <1>1. CASE saved' = saved
    BY <1>0, <1>1 DEF OneActive, Active
  <1>2. ASSUME NEW r \in Requests, Commit(r)
        PROVE  OneActive'
    <2>1. PICK n : n = Len(saved) + 1
      OBVIOUS
    <2>2. /\ Len(saved) \in Nat /\ DOMAIN saved = 1..Len(saved)
          /\ DOMAIN saved' = 1..n
          /\ \A v \in DOMAIN saved : ~ saved'[v].active
          /\ saved'[n] = [content |-> req[r].content, active |-> TRUE]
      BY <1>0, <1>2, <2>1, CommitRows
    <2>3. Active' = {n}
      <3>1. saved'[n].active /\ n \in DOMAIN saved'
        BY <2>1, <2>2
      <3>2. \A v \in DOMAIN saved' : v = n \/ v \in DOMAIN saved
        BY <2>1, <2>2
      <3>3. QED
        BY <2>2, <3>1, <3>2 DEF Active
    <2>4. QED
      BY <2>3, FS_Singleton DEF OneActive
  <1>3. ASSUME NEW r \in Requests, TurnOn(r)
        PROVE  OneActive'
    <2>1. PICK w : w = req[r].version
      OBVIOUS
    <2>2. /\ DOMAIN saved' = DOMAIN saved /\ w \in DOMAIN saved
          /\ \A v \in DOMAIN saved : saved'[v].active <=> v = w
      BY <1>0, <1>3, <2>1, TurnOnRows
    <2>3. Active' = {w}
      BY <2>2 DEF Active
    <2>4. QED
      BY <2>3, FS_Singleton DEF OneActive
  <1>4. QED
    BY <1>1, <1>2, <1>3, RowsChange

-----------------------------------------------------------------------------
(* The drafts *)

\* A draft that is saved stays saved.
LEMMA SavedStays ==
    ASSUME IInv, [Next]_vars, NEW d \in Drafts, SavedFrom(d)
    PROVE  SavedFrom(d)'
  <1>1. PICK v \in DOMAIN saved : saved[v].content = Marked[d]
    BY DEF SavedFrom
  <1>2. v \in DOMAIN saved' /\ saved'[v].content = Marked[d]
    BY <1>1, RowsStay
  <1>3. QED
    BY <1>2 DEF SavedFrom

\* The steps of a version leave the drafts alone.
LEMMA VersionLeaves ==
    ASSUME NEW r \in Requests, Version(r)
    PROVE  UNCHANGED <<draft, kept, sweep, cancelled, abandoned>>
  <1>1. UNCHANGED folders /\ cancelled' = cancelled /\ abandoned' = abandoned
    <2>1. CASE SendFails(r) \/ RollBack(r) \/ TimesOut(r)
      BY <2>1, Zenon DEF SendFails, RollBack, TimesOut
    <2>2. CASE ~ (SendFails(r) \/ RollBack(r) \/ TimesOut(r))
      <3>1. UNCHANGED folders /\ UNCHANGED history
        BY <2>2, Zenon DEF Version, Upload, SaveOpens, SaveMarks, Compare, Lock, Send, Deactivate,
           Commit, SendLate, Clean, CleanFails, Activate, TurnOff, TurnOn
      <3>2. QED
        BY <3>1 DEF history
    <2>3. QED
      BY <2>1, <2>2
  <1>2. QED
    BY <1>1 DEF folders

\* The clauses of DraftsInUse for one request.
UseOf(r) ==
    LET d == req[r].draft
    IN  /\ req[r].at \in {"idle", "turn", "turned"} => d = Null
        /\ req[r].at \in {"open", "row", "previewopen", "previewsend", "blobs",
                           "droprow"} => d # Null
        /\ req[r].at = "row" =>
              draft[d] = "unborn" /\ \A s \in Requests \ {r} : req[s].draft # d
        /\ req[r].at # "row" /\ d # Null => draft[d] # "unborn"
        /\ req[r].at \in {"blobs", "droprow"} => d \in cancelled \/ SavedFrom(d)
        /\ req[r].at = "droprow" => "original" \notin kept[d]

LEMMA UseIs == DraftsInUse <=> \A r \in Requests : UseOf(r)
  BY Zenon DEF DraftsInUse, UseOf

LEMMA UseIsNext == DraftsInUse' <=> \A r \in Requests : UseOf(r)'
  BY Zenon DEF DraftsInUse, UseOf

\* The draft a request has is one.
LEMMA DraftOf ==
    ASSUME TypeOK, NEW r \in Requests
    PROVE  req[r].draft \in Drafts \cup {Null}
  BY DEF TypeOK, Request

\* A step of one request, or of none, leaves the other requests with drafts
\* whose row is there.
LEMMA OthersUse ==
    ASSUME IInv, [Next]_vars, NEW r \in Requests, Others(r),
           \A d \in Drafts : (draft[d] = "unborn" /\ draft'[d] # "unborn") =>
                                req[r].at = "row" /\ d = req[r].draft,
           \A d \in Drafts : draft'[d] = "unborn" => draft[d] = "unborn",
           cancelled \subseteq cancelled',
           \A d \in Drafts : "original" \in kept'[d] => "original" \in kept[d] \/ Fresh(d),
           \/ req'[r].draft \in {Null, req[r].draft}
           \/ req'[r].draft \in Drafts
              /\ (draft[req'[r].draft] # "unborn" \/ Fresh(req'[r].draft))
    PROVE  \A s \in Requests \ {r} : UseOf(s)'
  <1> SUFFICES ASSUME NEW s \in Requests \ {r}
               PROVE  UseOf(s)'
    OBVIOUS
  <1>0. TypeOK /\ DraftsInUse
    BY DEF IInv
  <1>1. req'[s] = req[s] /\ UseOf(s)
    BY <1>0, UseIs DEF Others
  <1>2. PICK d : d = req[s].draft
    OBVIOUS
  <1>3. d \in Drafts \cup {Null}
    BY <1>0, <1>2, DraftOf
  <1>4. CASE d = Null
    BY <1>1, <1>2, <1>4 DEF UseOf
  <1>5. CASE d \in Drafts
    <2>1. ~ Fresh(d)
      BY <1>2 DEF Fresh
    <2>2. req[s].at = "row" =>
              /\ draft'[d] = "unborn"
              /\ \A t \in Requests \ {s} : req'[t].draft # d
      <3> SUFFICES ASSUME req[s].at = "row"
                   PROVE  /\ draft'[d] = "unborn"
                          /\ \A t \in Requests \ {s} : req'[t].draft # d
        OBVIOUS
      <3>1. draft[d] = "unborn" /\ \A t \in Requests \ {s} : req[t].draft # d
        BY <1>1, <1>2 DEF UseOf
      <3>2. draft'[d] = "unborn"
        BY <1>5, <3>1
      <3>3. req'[r].draft # d
        BY <1>3, <1>5, <2>1, <3>1, TemplatesAssumption
      <3>4. \A t \in Requests \ {r, s} : req'[t].draft # d
        BY <3>1 DEF Others
      <3>5. QED
        BY <3>2, <3>3, <3>4
    <2>3. req[s].at # "row" => draft'[d] # "unborn"
      BY <1>1, <1>2, <1>5, TemplatesAssumption DEF UseOf
    <2>4. req[s].at \in {"blobs", "droprow"} => d \in cancelled' \/ SavedFrom(d)'
      BY <1>1, <1>2, <1>5, SavedStays DEF UseOf
    <2>5. req[s].at = "droprow" => "original" \notin kept'[d]
      BY <1>1, <1>2, <1>5, <2>1 DEF UseOf
    <2>6. QED
      BY <1>1, <1>2, <1>5, <2>2, <2>3, <2>4, <2>5 DEF UseOf
  <1>6. QED
    BY <1>3, <1>4, <1>5

\* What a step of a version does with the draft of its request: nothing, or it
\* reads one whose row is there, or it goes on to remove one that is saved.
TakesNone(r) ==
    \/ req'[r] = Idle
    \/ req'[r].at \in {"compare", "turn"} /\ req'[r].draft = Null
    \/ /\ req'[r].at = "open" /\ req'[r].draft \in Drafts
       /\ draft[req'[r].draft] # "unborn"
    \/ /\ req[r].at # "row" /\ req'[r].draft = req[r].draft
       /\ req'[r].at \in {"compare", "wait", "send", "sent", "commit", "late", "clean"}
    \/ req[r].at = "turn" /\ req'[r].at = "turned" /\ req'[r].draft = req[r].draft
    \/ /\ req[r].at # "row" /\ req'[r].at = "blobs" /\ req'[r].draft = req[r].draft
       /\ req[r].draft # Null
       /\ \A d \in Drafts : d = req[r].draft => SavedFrom(d)'

LEMMA VersionTakes ==
    ASSUME IInv, [Next]_vars, NEW r \in Requests, Version(r)
    PROVE  Others(r) /\ TakesNone(r)
  <1>0. TypeOK /\ LockHeld /\ UploadsLand /\ DraftsInUse
    BY DEF IInv
  <1>1. ASSUME NEW c \in Contents, Upload(r, c)
        PROVE  Others(r) /\ TakesNone(r)
    BY <1>0, <1>1, UploadIs DEF TakesNone
  <1>2. ASSUME NEW d \in Drafts, NEW sure \in BOOLEAN, SaveOpens(r, d, sure)
        PROVE  Others(r) /\ TakesNone(r)
    <2>1. draft[d] # "unborn"
      <3>1. draft[d] = "live"
        BY <1>2, Zenon DEF SaveOpens
      <3>2. QED
        BY <3>1
    <2>2. QED
      BY <1>0, <1>2, <2>1, DraftTaken DEF TakesNone
  <1>3. ASSUME SaveMarks(r)
        PROVE  Others(r) /\ TakesNone(r)
    BY <1>0, <1>3, SaveMarksIs DEF TakesNone
  <1>4. ASSUME Compare(r)
        PROVE  Others(r) /\ TakesNone(r)
    <2>1. req[r].at = "compare" /\ saved' = saved
      BY <1>4, Zenon DEF Compare, At, rows
    <2>2. CASE Stored(r) /\ \E v \in Active : saved[v].content = req[r].content
      <3>1. \A d \in Drafts : d = req[r].draft => SavedFrom(d)
        <4> SUFFICES ASSUME NEW d \in Drafts, d = req[r].draft
                     PROVE  SavedFrom(d)
          OBVIOUS
        <4>1. req[r].content = Marked[d]
          BY <1>0, <2>1, TemplatesAssumption DEF UploadsLand
        <4>2. QED
          BY <2>2, <4>1 DEF SavedFrom, Active
      <3>2. \A d \in Drafts : d = req[r].draft => SavedFrom(d)'
        BY <3>1, SavedStays
      <3>3. QED
        BY <1>0, <2>1, <2>2, <3>2, StoredIs DEF TakesNone, SameFields
    <2>3. CASE Finish(r)
      BY <1>0, <2>3, FinishIs DEF TakesNone
    <2>4. CASE Goto(r, "wait")
      BY <1>0, <2>1, <2>4, GotoIs DEF TakesNone, SameFields, Places
    <2>5. QED
      BY <1>4, <2>2, <2>3, <2>4, Zenon DEF Compare, Refuse
  <1>5. ASSUME Lock(r)
        PROVE  Others(r) /\ TakesNone(r)
    BY <1>0, <1>5, LockIs DEF TakesNone
  <1>6. ASSUME Send(r)
        PROVE  Others(r) /\ TakesNone(r)
    BY <1>0, <1>6, GotoIs DEF Send, At, Places, TakesNone, SameFields
  <1>7. ASSUME SendFails(r) \/ Clean(r) \/ CleanFails(r) \/ TurnOn(r)
        PROVE  Others(r) /\ TakesNone(r)
    <2>1. Finish(r)
      BY <1>7, Zenon DEF SendFails, Clean, CleanFails, TurnOn
    <2>2. QED
      BY <1>0, <2>1, FinishIs DEF TakesNone
  <1>8. ASSUME Deactivate(r)
        PROVE  Others(r) /\ TakesNone(r)
    <2>1. /\ Others(r) /\ req'[r].at = "commit" /\ req'[r].draft = req[r].draft
      BY <1>0, <1>8, OffIs DEF Deactivate, Places
    <2>2. req[r].at = "sent"
      BY <1>8, Zenon DEF Deactivate, At
    <2>3. QED
      BY <2>1, <2>2 DEF TakesNone
  <1>9. ASSUME Commit(r)
        PROVE  Others(r) /\ TakesNone(r)
    <2>1. req[r].at = "commit" /\ Stored(r)
      BY <1>9, Zenon DEF Commit, At
    <2>2. \A d \in Drafts : d = req[r].draft => SavedFrom(d)'
      <3> SUFFICES ASSUME NEW d \in Drafts, d = req[r].draft
                   PROVE  SavedFrom(d)'
        OBVIOUS
      <3>1. req[r].content = Marked[d]
        BY <1>0, <2>1, TemplatesAssumption DEF UploadsLand
      <3>2. PICK n : n = Len(saved) + 1
        OBVIOUS
      <3>3. n \in DOMAIN saved' /\ saved'[n].content = Marked[d]
        <4>1. /\ DOMAIN saved' = 1..n /\ Len(saved) \in Nat
              /\ saved'[n] = [content |-> req[r].content, active |-> TRUE]
          BY <1>0, <1>9, <3>2, CommitRows
        <4>2. QED
          BY <3>1, <3>2, <4>1
      <3>4. QED
        BY <3>3 DEF SavedFrom
    <2>3. QED
      BY <1>0, <2>1, <2>2, StoredIs DEF TakesNone, SameFields
  <1>10. ASSUME RollBack(r) \/ TimesOut(r) \/ SendLate(r)
         PROVE  Others(r) /\ TakesNone(r)
    <2>1. /\ Goto(r, "clean") \/ Goto(r, "late")
          /\ At(r, "send") \/ At(r, "sent") \/ At(r, "commit") \/ At(r, "late")
      BY <1>10, Zenon DEF RollBack, TimesOut, SendLate
    <2>2. Others(r) /\ req'[r].at \in {"clean", "late"} /\ SameFields(r)
      BY <1>0, <2>1, GotoIs DEF Places
    <2>3. QED
      BY <2>1, <2>2 DEF TakesNone, SameFields, At
  <1>11. ASSUME NEW v \in Versions, Activate(r, v)
         PROVE  Others(r) /\ TakesNone(r)
    BY <1>0, <1>11, ActivateIs DEF TakesNone
  <1>12. ASSUME TurnOff(r)
         PROVE  Others(r) /\ TakesNone(r)
    <2>1. CASE Finish(r)
      BY <1>0, <2>1, FinishIs DEF TakesNone
    <2>2. CASE req' = [req EXCEPT ![r].at = "turned", ![r].off = Active]
      <3>1. Others(r) /\ req'[r].at = "turned" /\ req'[r].draft = req[r].draft
        BY <1>0, <2>2, OffIs DEF Places
      <3>2. req[r].at = "turn"
        BY <1>12, Zenon DEF TurnOff, At
      <3>3. QED
        BY <3>1, <3>2 DEF TakesNone
    <2>3. QED
      BY <1>12, <2>1, <2>2, Zenon DEF TurnOff
  <1>13. QED
    BY <1>1, <1>2, <1>3, <1>4, <1>5, <1>6, <1>7, <1>8, <1>9, <1>10, <1>11, <1>12 DEF Version

\* A request that creates a draft is not at a step of a version.
LEMMA NotCreating ==
    ASSUME NEW r \in Requests, Version(r)
    PROVE  req[r].at # "row"
  <1> USE DEF At
  <1>1. \/ At(r, "idle") \/ At(r, "open") \/ At(r, "compare") \/ At(r, "wait") \/ At(r, "send")
        \/ At(r, "sent") \/ At(r, "commit") \/ At(r, "late") \/ At(r, "clean") \/ At(r, "turn")
        \/ At(r, "turned")
    BY Zenon DEF Version, Begin, Upload, SaveOpens, SaveMarks, Compare, Lock, Send, SendFails,
       Deactivate, Commit, RollBack, TimesOut, SendLate, Clean, CleanFails, Activate, TurnOff,
       TurnOn
  <1>2. QED
    BY <1>1

\* What an ended request has.
LEMMA IdleUse ==
    ASSUME NEW r \in Requests, req'[r] = Idle
    PROVE  UseOf(r)' /\ req'[r].draft = Null
  BY IdleIs DEF UseOf

\* The drafts in use, after a step of a version.
LEMMA DraftsVersion ==
    ASSUME IInv, [Next]_vars, NEW r \in Requests, Version(r)
    PROVE  DraftsInUse'
  <1>0. TypeOK /\ DraftsInUse /\ UseOf(r)
    BY UseIs DEF IInv
  <1>1. Others(r) /\ TakesNone(r)
    BY VersionTakes
  <1>2. UNCHANGED <<draft, kept, cancelled>>
    BY VersionLeaves
  <1>3. \/ req'[r].draft \in {Null, req[r].draft}
        \/ req'[r].draft \in Drafts /\ draft[req'[r].draft] # "unborn"
    BY <1>1, IdleIs DEF TakesNone
  <1>4. \A s \in Requests \ {r} : UseOf(s)'
    BY <1>1, <1>2, <1>3, OthersUse
  <1>5. UseOf(r)'
    <2>1. CASE req'[r] = Idle
      BY <2>1, IdleUse
    <2>2. CASE req'[r].at \in {"compare", "turn"} /\ req'[r].draft = Null
      BY <2>2 DEF UseOf
    <2>3. CASE /\ req'[r].at = "open" /\ req'[r].draft \in Drafts
               /\ draft[req'[r].draft] # "unborn"
      BY <1>2, <2>3, TemplatesAssumption DEF UseOf
    <2>4. CASE /\ req[r].at # "row" /\ req'[r].draft = req[r].draft
               /\ req'[r].at \in {"compare", "wait", "send", "sent", "commit", "late", "clean"}
      BY <1>0, <1>2, <2>4 DEF UseOf
    <2>5. CASE req[r].at = "turn" /\ req'[r].at = "turned" /\ req'[r].draft = req[r].draft
      BY <1>0, <2>5 DEF UseOf
    <2>6. CASE /\ req[r].at # "row" /\ req'[r].at = "blobs" /\ req'[r].draft = req[r].draft
               /\ req[r].draft # Null
               /\ \A d \in Drafts : d = req[r].draft => SavedFrom(d)'
      <3>1. PICK d \in Drafts : d = req[r].draft
        BY <1>0, <2>6, DraftOf
      <3>2. SavedFrom(d)'
        BY <2>6, <3>1
      <3>3. draft'[d] # "unborn"
        BY <1>0, <1>2, <2>6, <3>1 DEF UseOf
      <3>4. QED
        BY <2>6, <3>1, <3>2, <3>3 DEF UseOf
    <2>7. QED
      BY <1>1, <2>1, <2>2, <2>3, <2>4, <2>5, <2>6 DEF TakesNone
  <1>6. QED
    BY <1>4, <1>5, UseIsNext

\* The drafts in use, after a step of a draft.
LEMMA DraftsDraft ==
    ASSUME IInv, [Next]_vars, NEW r \in Requests, Draft(r)
    PROVE  DraftsInUse'
  <1> USE TemplatesAssumption
  <1>0. TypeOK /\ DraftsInUse /\ UseOf(r)
    BY UseIs DEF IInv
  <1>a. ASSUME UseOf(r)', \A s \in Requests \ {r} : UseOf(s)'
        PROVE  DraftsInUse'
    BY <1>a, UseIsNext
  <1>1. ASSUME NEW d \in Drafts, Create(r, d)
        PROVE  DraftsInUse'
    <2>1. Others(r) /\ req'[r].at = "row" /\ req'[r].draft = d
      BY <1>0, <1>1, DraftTaken
    <2>2. Fresh(d) /\ kept' = [kept EXCEPT ![d] = {"original"}]
      BY <1>1, Zenon DEF Create
    <2>3. UNCHANGED <<draft, history>>
      <3>1. UNCHANGED <<rows, blob, draft, sweep, history, faults>>
        BY <1>1, Zenon DEF Create
      <3>2. QED
        BY <3>1
    <2>4. \A e \in Drafts : "original" \in kept'[e] => "original" \in kept[e] \/ Fresh(e)
      BY <1>0, <2>2 DEF TypeOK
    <2>5. cancelled' = cancelled
      BY <2>3 DEF history
    <2>6. \A s \in Requests \ {r} : UseOf(s)'
      BY <2>1, <2>2, <2>3, <2>4, <2>5, OthersUse
    <2>7. draft'[d] = "unborn" /\ \A s \in Requests \ {r} : req'[s].draft # d
      BY <2>1, <2>2, <2>3 DEF Fresh, Others
    <2>8. UseOf(r)'
      BY <2>1, <2>7 DEF UseOf
    <2>9. QED
      BY <1>a, <2>6, <2>8
  <1>2. ASSUME NEW d \in Drafts, CreateLands(r, d)
        PROVE  DraftsInUse'
    <2>1. /\ Fresh(d) /\ kept' = [kept EXCEPT ![d] = {"original"}]
          /\ UNCHANGED <<draft, req, cancelled>>
      BY <1>2 DEF CreateLands
    <2>2. Others(r) /\ req'[r] = req[r]
      BY <2>1 DEF Others
    <2>3. \A e \in Drafts : "original" \in kept'[e] => "original" \in kept[e] \/ Fresh(e)
      BY <1>0, <2>1 DEF TypeOK
    <2>4. \A s \in Requests \ {r} : UseOf(s)'
      BY <2>1, <2>2, <2>3, OthersUse
    <2>5. UseOf(r)'
      <3>1. PICK e : e = req[r].draft
        OBVIOUS
      <3>2. e \in Drafts \cup {Null} /\ e # d
        BY <1>0, <2>1, <3>1, DraftOf DEF Fresh
      <3>3. req[r].at = "row" => \A s \in Requests \ {r} : req'[s].draft # e
        BY <1>0, <2>1, <3>1 DEF UseOf
      <3>4. e \in Drafts => (kept'[e] = kept[e] /\ (SavedFrom(e) => SavedFrom(e)'))
        BY <1>0, <2>1, <3>2, SavedStays DEF TypeOK
      <3>5. e # Null => e \in Drafts
        BY <3>2
      <3>6. req[r].at \in {"row", "blobs", "droprow"} => e # Null
        BY <1>0, <3>1 DEF UseOf
      <3>7. QED
        BY <1>0, <2>1, <2>2, <3>1, <3>3, <3>4, <3>5, <3>6 DEF UseOf
    <2>6. QED
      BY <1>a, <2>4, <2>5
  <1>3. ASSUME NEW d \in Drafts, PreviewOpens(r, d)
        PROVE  DraftsInUse'
    <2>1. Others(r) /\ req'[r].at = "previewopen" /\ req'[r].draft = d
      BY <1>0, <1>3, DraftTaken
    <2>2. draft[d] # "unborn"
      <3>1. draft[d] = "live"
        BY <1>3, Zenon DEF PreviewOpens
      <3>2. QED
        BY <3>1
    <2>3. UNCHANGED <<draft, kept, cancelled>>
      <3>1. UNCHANGED folders /\ UNCHANGED history
        BY <1>3, Zenon DEF PreviewOpens
      <3>2. QED
        BY <3>1 DEF folders, history
    <2>4. \A s \in Requests \ {r} : UseOf(s)'
      BY <2>1, <2>2, <2>3, OthersUse
    <2>5. UseOf(r)'
      BY <2>1, <2>2, <2>3 DEF UseOf
    <2>6. QED
      BY <1>a, <2>4, <2>5
  <1>4. ASSUME NEW d \in Drafts, Cancel(r, d)
        PROVE  DraftsInUse'
    <2>1. Others(r) /\ req'[r].at = "blobs" /\ req'[r].draft = d
      BY <1>0, <1>4, DraftTaken
    <2>2. draft[d] # "unborn"
      <3>1. HasRow(d)
        BY <1>4, Zenon DEF Cancel
      <3>2. QED
        BY <3>1 DEF HasRow
    <2>3. UNCHANGED <<draft, kept>> /\ cancelled' = cancelled \cup {d}
      <3>1. UNCHANGED folders /\ cancelled' = cancelled \cup {d}
        BY <1>4, Zenon DEF Cancel
      <3>2. QED
        BY <3>1 DEF folders
    <2>4. \A s \in Requests \ {r} : UseOf(s)'
      BY <2>1, <2>2, <2>3, OthersUse
    <2>5. UseOf(r)'
      BY <2>1, <2>2, <2>3 DEF UseOf
    <2>6. QED
      BY <1>a, <2>4, <2>5
  <1>5. ASSUME CreateRow(r) \/ CreateFails(r) \/ RemoveRow(r)
        PROVE  DraftsInUse'
    <2>1. PICK d \in Drafts : d = req[r].draft
      BY <1>0, <1>5, DraftOf DEF CreateRow, CreateFails, RemoveRow, At, UseOf
    <2>2. /\ Others(r) /\ req'[r] = Idle /\ req[r].at \in {"row", "droprow"}
          /\ cancelled' = cancelled
      BY <1>0, <1>5, FinishIs DEF CreateRow, CreateFails, RemoveRow, At, history
    <2>3. /\ draft' = [draft EXCEPT ![d] = "live"] \/ draft' = [draft EXCEPT ![d] = "gone"]
          /\ kept' = [kept EXCEPT ![d] = {}] \/ kept' = kept
      BY <1>5, <2>1 DEF CreateRow, CreateFails, RemoveRow
    <2>4. req[r].at = "droprow" => draft[d] # "unborn"
      BY <1>0, <2>1 DEF UseOf
    <2>5. /\ \A e \in Drafts : (draft[e] = "unborn" /\ draft'[e] # "unborn") =>
                                  req[r].at = "row" /\ e = req[r].draft
          /\ \A e \in Drafts : draft'[e] = "unborn" => draft[e] = "unborn"
      BY <1>0, <2>1, <2>2, <2>3, <2>4 DEF TypeOK
    <2>6. \A e \in Drafts : "original" \in kept'[e] => "original" \in kept[e] \/ Fresh(e)
      BY <1>0, <2>3 DEF TypeOK
    <2>7. UseOf(r)' /\ req'[r].draft = Null
      BY <2>2, IdleUse
    <2>8. \A s \in Requests \ {r} : UseOf(s)'
      BY <2>2, <2>5, <2>6, <2>7, OthersUse
    <2>9. QED
      BY <1>a, <2>7, <2>8
  <1>6. ASSUME PreviewReads(r)
        PROVE  DraftsInUse'
    <2>1. /\ req[r].at = "previewopen" /\ (Finish(r) \/ Goto(r, "previewsend"))
          /\ UNCHANGED <<draft, kept, cancelled>>
      BY <1>6 DEF PreviewReads, At, folders, history
    <2>2. /\ Others(r) /\ req'[r].draft \in {Null, req[r].draft}
      BY <1>0, <2>1, FinishIs, GotoIs, IdleIs DEF Places, SameFields
    <2>3. \A s \in Requests \ {r} : UseOf(s)'
      BY <2>1, <2>2, OthersUse
    <2>4. UseOf(r)'
      <3>1. CASE Finish(r)
        BY <1>0, <3>1, FinishIs, IdleUse
      <3>2. CASE Goto(r, "previewsend")
        <4>1. req'[r].at = "previewsend" /\ req'[r].draft = req[r].draft
          BY <1>0, <3>2, GotoIs DEF Places, SameFields
        <4>2. QED
          BY <1>0, <2>1, <4>1 DEF UseOf
      <3>3. QED
        BY <2>1, <3>1, <3>2
    <2>5. QED
      BY <1>a, <2>3, <2>4
  <1>7. ASSUME PreviewSends(r) \/ RemoveBlobsFails(r)
        PROVE  DraftsInUse'
    <2>1. PICK d \in Drafts : d = req[r].draft
      BY <1>0, <1>7, DraftOf DEF PreviewSends, RemoveBlobsFails, At, UseOf
    <2>2. Finish(r) /\ UNCHANGED <<draft, cancelled>>
      BY <1>7 DEF PreviewSends, RemoveBlobsFails, Failure, history
    <2>3. \A e \in Drafts : "original" \in kept'[e] => "original" \in kept[e] \/ Fresh(e)
      <3>1. CASE PreviewSends(r)
        <4>1. kept' = [kept EXCEPT ![d] = kept[d] \cup {"preview"}]
          BY <1>0, <2>1, <3>1 DEF PreviewSends, TypeOK
        <4>2. QED
          BY <1>0, <4>1 DEF TypeOK
      <3>2. CASE RemoveBlobsFails(r)
        <4>1. PICK rest \in SUBSET kept[d] : kept' = [kept EXCEPT ![d] = rest]
          BY <2>1, <3>2 DEF RemoveBlobsFails
        <4>2. QED
          BY <1>0, <4>1 DEF TypeOK
      <3>3. QED
        BY <1>7, <3>1, <3>2
    <2>4. Others(r) /\ req'[r] = Idle /\ UseOf(r)' /\ req'[r].draft = Null
      BY <1>0, <2>2, FinishIs, IdleUse
    <2>5. \A s \in Requests \ {r} : UseOf(s)'
      BY <2>2, <2>3, <2>4, OthersUse
    <2>6. QED
      BY <1>a, <2>4, <2>5
  <1>8. ASSUME RemoveBlobs(r)
        PROVE  DraftsInUse'
    <2>1. PICK d \in Drafts : d = req[r].draft
      BY <1>0, <1>8, DraftOf DEF RemoveBlobs, At, UseOf
    <2>2. /\ req[r].at = "blobs" /\ UNCHANGED <<draft, cancelled>>
          /\ kept' = [kept EXCEPT ![d] = {}]
      BY <1>8, <2>1 DEF RemoveBlobs, At, history
    <2>3. Others(r) /\ req'[r].at = "droprow" /\ req'[r].draft = d
      BY <1>0, <1>8, <2>1, GotoIs DEF RemoveBlobs, Places, SameFields
    <2>4. /\ \A e \in Drafts : "original" \in kept'[e] => "original" \in kept[e] \/ Fresh(e)
          /\ kept'[d] = {}
      BY <1>0, <2>2 DEF TypeOK
    <2>5. \A s \in Requests \ {r} : UseOf(s)'
      BY <2>1, <2>2, <2>3, <2>4, OthersUse
    <2>6. draft'[d] # "unborn" /\ (d \in cancelled' \/ SavedFrom(d)')
      BY <1>0, <2>1, <2>2, SavedStays DEF UseOf
    <2>7. UseOf(r)'
      BY <2>3, <2>4, <2>6 DEF UseOf
    <2>8. QED
      BY <1>a, <2>5, <2>7
  <1>9. QED
    BY <1>1, <1>2, <1>3, <1>4, <1>5, <1>6, <1>7, <1>8 DEF Draft

\* What the sweep and the passing of time do to the drafts.
LEMMA SweepDoes ==
    ASSUME IInv, Sweep
    PROVE  \A d \in Drafts :
              /\ draft[d] = "unborn" <=> draft'[d] = "unborn"
              /\ "original" \in kept'[d] => "original" \in kept[d]
  <1>0. TypeOK /\ SweptAreOver
    BY DEF IInv
  <1>1. CASE SweepStarts
    BY <1>1 DEF SweepStarts
  <1>2. ASSUME NEW d \in Drafts, Expire(d) \/ SweepBlobs(d) \/ SweepRow(d)
        PROVE  \A e \in Drafts :
                  /\ draft[e] = "unborn" <=> draft'[e] = "unborn"
                  /\ "original" \in kept'[e] => "original" \in kept[e]
    BY <1>0, <1>2 DEF Expire, SweepBlobs, SweepRow, SweptAreOver, TypeOK
  <1>3. ASSUME NEW d \in Drafts, SweepFails(d)
        PROVE  \A e \in Drafts :
                  /\ draft[e] = "unborn" <=> draft'[e] = "unborn"
                  /\ "original" \in kept'[e] => "original" \in kept[e]
    <2>1. PICK rest \in SUBSET kept[d] : kept' = [kept EXCEPT ![d] = rest]
      BY <1>3 DEF SweepFails
    <2>2. QED
      BY <1>0, <1>3, <2>1 DEF SweepFails, TypeOK
  <1>4. QED
    BY <1>1, <1>2, <1>3 DEF Sweep

\* The drafts in use, for every step.
LEMMA DraftsStep == IInv /\ [Next]_vars => DraftsInUse'
  <1> SUFFICES ASSUME IInv, [Next]_vars PROVE DraftsInUse'
    OBVIOUS
  <1>0. TypeOK /\ DraftsInUse
    BY DEF IInv
  <1>1. ASSUME NEW r \in Requests, Version(r) \/ Draft(r)
        PROVE  DraftsInUse'
    BY <1>1, DraftsVersion, DraftsDraft
  <1>2. ASSUME UNCHANGED <<req, cancelled>>,
               \A d \in Drafts :
                  /\ draft[d] = "unborn" <=> draft'[d] = "unborn"
                  /\ "original" \in kept'[d] => "original" \in kept[d]
        PROVE  DraftsInUse'
    <2> SUFFICES ASSUME NEW s \in Requests
                 PROVE  UseOf(s)'
      BY UseIsNext
    <2>1. UseOf(s) /\ req'[s] = req[s]
      BY <1>0, <1>2, UseIs
    <2>2. PICK d : d = req[s].draft
      OBVIOUS
    <2>3. d \in Drafts \cup {Null}
      BY <1>0, <2>2, DraftOf
    <2>4. CASE d = Null
      BY <2>1, <2>2, <2>4 DEF UseOf
    <2>5. CASE d \in Drafts
      <3>1. /\ req[s].at = "row" => /\ draft'[d] = "unborn"
                                    /\ \A t \in Requests \ {s} : req'[t].draft # d
            /\ req[s].at # "row" /\ d # Null => draft'[d] # "unborn"
            /\ req[s].at = "droprow" => "original" \notin kept'[d]
        BY <1>2, <2>1, <2>2, <2>5 DEF UseOf
      <3>2. req[s].at \in {"blobs", "droprow"} => d \in cancelled' \/ SavedFrom(d)'
        BY <1>2, <2>1, <2>2, <2>5, SavedStays DEF UseOf
      <3>3. QED
        BY <2>1, <2>2, <3>1, <3>2 DEF UseOf
    <2>6. QED
      BY <2>3, <2>4, <2>5
  <1>3. CASE Sweep
    BY <1>2, <1>3, SweepDoes, SweepLeaves
  <1>4. CASE Stop
    <2>1. \A r \in Requests : req'[r] = Idle
      BY <1>4 DEF Stop
    <2>2. QED
      BY <2>1, IdleUse, UseIsNext
  <1>5. CASE UNCHANGED vars
    BY <1>2, <1>5 DEF vars
  <1>6. QED
    BY <1>1, <1>3, <1>4, <1>5 DEF Next

-----------------------------------------------------------------------------
(* What is swept, and what is left behind *)

\* What a step of a draft does: an original comes only with a fresh id, a row
\* goes only cancelled, saved, or before it was inserted.
LEMMA DraftDoes ==
    ASSUME IInv, [Next]_vars, NEW r \in Requests, Draft(r), NEW d \in Drafts
    PROVE  /\ "original" \in kept'[d] => "original" \in kept[d] \/ Fresh(d)
           /\ draft'[d] # draft[d] =>
                 \/ draft'[d] = "live" /\ draft[d] = "unborn"
                 \/ draft'[d] = "gone" /\ draft[d] = "unborn"
                    /\ ("original" \in kept'[d] => d \in abandoned')
                 \/ draft'[d] = "gone" /\ "original" \notin kept'[d]
                    /\ (d \in cancelled \/ SavedFrom(d))
           /\ abandoned \subseteq abandoned'
           /\ sweep' = sweep
  <1> DEFINE Does ==
        /\ "original" \in kept'[d] => "original" \in kept[d] \/ Fresh(d)
        /\ draft'[d] # draft[d] =>
              \/ draft'[d] = "live" /\ draft[d] = "unborn"
              \/ draft'[d] = "gone" /\ draft[d] = "unborn"
                 /\ ("original" \in kept'[d] => d \in abandoned')
              \/ draft'[d] = "gone" /\ "original" \notin kept'[d]
                 /\ (d \in cancelled \/ SavedFrom(d))
        /\ abandoned \subseteq abandoned'
        /\ sweep' = sweep
  <1> USE DEF folders, history
  <1>0. TypeOK /\ DraftsInUse /\ UseOf(r)
    BY UseIs DEF IInv
  <1>1. ASSUME NEW e \in Drafts, Create(r, e)
        PROVE  Does
    <2>1. /\ Fresh(e) /\ kept' = [kept EXCEPT ![e] = {"original"}]
          /\ UNCHANGED <<draft, sweep, history>>
      <3>1. /\ Fresh(e) /\ kept' = [kept EXCEPT ![e] = {"original"}]
            /\ UNCHANGED <<rows, blob, draft, sweep, history, faults>>
        BY <1>1, Zenon DEF Create
      <3>2. QED
        BY <3>1
    <2>2. QED
      BY <1>0, <2>1 DEF TypeOK
  <1>2. ASSUME NEW e \in Drafts, CreateLands(r, e)
        PROVE  Does
    <2>1. /\ Fresh(e) /\ kept' = [kept EXCEPT ![e] = {"original"}]
          /\ UNCHANGED <<draft, sweep>> /\ abandoned \subseteq abandoned'
      BY <1>2 DEF CreateLands
    <2>2. QED
      BY <1>0, <2>1 DEF TypeOK
  <1>3. ASSUME NEW e \in Drafts, PreviewOpens(r, e) \/ Cancel(r, e)
        PROVE  Does
    <2>1. UNCHANGED folders /\ abandoned' = abandoned
      <3>1. CASE PreviewOpens(r, e)
        <4>1. UNCHANGED <<rows, blob, folders, history, faults>>
          BY <3>1, Zenon DEF PreviewOpens
        <4>2. QED
          BY <4>1
      <3>2. CASE Cancel(r, e)
        <4>1. UNCHANGED <<rows, blob, folders, undone, abandoned, faults>>
          BY <3>2, Zenon DEF Cancel
        <4>2. QED
          BY <4>1
      <3>3. QED
        BY <1>3, <3>1, <3>2
    <2>2. QED
      BY <2>1
  <1>4. ASSUME CreateRow(r) \/ CreateFails(r) \/ RemoveRow(r) \/ PreviewReads(r)
               \/ PreviewSends(r) \/ RemoveBlobs(r) \/ RemoveBlobsFails(r)
        PROVE  Does
    <2>1. req[r].at \in {"row", "previewopen", "previewsend", "blobs", "droprow"}
      BY <1>4 DEF CreateRow, CreateFails, RemoveRow, PreviewReads, PreviewSends, RemoveBlobs,
         RemoveBlobsFails, At
    <2>2. PICK e \in Drafts : e = req[r].draft
      BY <1>0, <2>1, DraftOf DEF UseOf
    <2>3. CASE CreateRow(r)
      <3>1. /\ req[r].at = "row" /\ draft' = [draft EXCEPT ![e] = "live"]
            /\ UNCHANGED <<kept, sweep, abandoned>>
        BY <2>2, <2>3 DEF CreateRow, At
      <3>2. draft[e] = "unborn"
        BY <1>0, <2>2, <3>1 DEF UseOf
      <3>3. QED
        BY <1>0, <3>1, <3>2 DEF TypeOK
    <2>4. CASE CreateFails(r)
      <3>1. /\ req[r].at = "row" /\ draft' = [draft EXCEPT ![e] = "gone"] /\ sweep' = sweep
            /\ \/ kept' = [kept EXCEPT ![e] = {}] /\ abandoned' = abandoned
               \/ kept' = kept /\ abandoned' = abandoned \cup {e}
        BY <2>2, <2>4 DEF CreateFails, At
      <3>2. draft[e] = "unborn"
        BY <1>0, <2>2, <3>1 DEF UseOf
      <3>3. QED
        BY <1>0, <3>1, <3>2 DEF TypeOK
    <2>5. CASE RemoveRow(r)
      <3>1. /\ req[r].at = "droprow" /\ draft' = [draft EXCEPT ![e] = "gone"]
            /\ UNCHANGED <<kept, sweep, abandoned>>
        BY <2>2, <2>5 DEF RemoveRow, At
      <3>2. "original" \notin kept[e] /\ (e \in cancelled \/ SavedFrom(e))
        BY <1>0, <2>2, <3>1 DEF UseOf
      <3>3. QED
        BY <1>0, <3>1, <3>2 DEF TypeOK
    <2>6. CASE PreviewReads(r)
      BY <2>6 DEF PreviewReads
    <2>7. CASE PreviewSends(r)
      <3>1. kept' = [kept EXCEPT ![e] = kept[e] \cup {"preview"}]
        BY <1>0, <2>2, <2>7 DEF PreviewSends, TypeOK
      <3>2. UNCHANGED <<draft, sweep, abandoned>>
        BY <2>7 DEF PreviewSends
      <3>3. QED
        BY <1>0, <3>1, <3>2 DEF TypeOK
    <2>8. CASE RemoveBlobs(r)
      <3>1. kept' = [kept EXCEPT ![e] = {}] /\ UNCHANGED <<draft, sweep, abandoned>>
        BY <2>2, <2>8 DEF RemoveBlobs
      <3>2. QED
        BY <1>0, <3>1 DEF TypeOK
    <2>9. CASE RemoveBlobsFails(r)
      <3>1. PICK rest \in SUBSET kept[e] : kept' = [kept EXCEPT ![e] = rest]
        BY <2>2, <2>9 DEF RemoveBlobsFails
      <3>2. UNCHANGED <<draft, sweep, abandoned>>
        BY <2>9 DEF RemoveBlobsFails
      <3>3. QED
        BY <1>0, <3>1, <3>2 DEF TypeOK
    <2>10. QED
      BY <1>4, <2>3, <2>4, <2>5, <2>6, <2>7, <2>8, <2>9
  <1>5. QED
    BY <1>1, <1>2, <1>3, <1>4 DEF Draft

\* The sweep goes on with drafts that are over, for every step.
LEMMA SweptStep == IInv /\ [Next]_vars => SweptAreOver'
  <1> SUFFICES ASSUME IInv, [Next]_vars, NEW d \in Drafts
               PROVE  /\ sweep'[d] # "no" => draft'[d] \in {"expired", "gone"}
                      /\ sweep'[d] = "row" => "original" \notin kept'[d]
    BY DEF SweptAreOver
  <1>0. /\ TypeOK
        /\ sweep[d] # "no" => draft[d] \in {"expired", "gone"}
        /\ sweep[d] = "row" => "original" \notin kept[d]
    BY DEF IInv, SweptAreOver
  <1>1. ASSUME NEW r \in Requests, Version(r)
        PROVE  /\ sweep'[d] # "no" => draft'[d] \in {"expired", "gone"}
               /\ sweep'[d] = "row" => "original" \notin kept'[d]
    BY <1>0, <1>1, VersionLeaves
  <1>2. ASSUME NEW r \in Requests, Draft(r)
        PROVE  /\ sweep'[d] # "no" => draft'[d] \in {"expired", "gone"}
               /\ sweep'[d] = "row" => "original" \notin kept'[d]
    BY <1>0, <1>2, DraftDoes DEF Fresh
  <1>3. CASE SweepStarts
    BY <1>0, <1>3 DEF SweepStarts, Expired, TypeOK
  <1>4. ASSUME NEW e \in Drafts, Expire(e) \/ SweepBlobs(e) \/ SweepRow(e)
        PROVE  /\ sweep'[d] # "no" => draft'[d] \in {"expired", "gone"}
               /\ sweep'[d] = "row" => "original" \notin kept'[d]
    BY <1>0, <1>4 DEF Expire, SweepBlobs, SweepRow, TypeOK
  <1>5. ASSUME NEW e \in Drafts, SweepFails(e)
        PROVE  /\ sweep'[d] # "no" => draft'[d] \in {"expired", "gone"}
               /\ sweep'[d] = "row" => "original" \notin kept'[d]
    <2>1. PICK rest \in SUBSET kept[e] : kept' = [kept EXCEPT ![e] = rest]
      BY <1>5 DEF SweepFails
    <2>2. QED
      BY <1>0, <1>5, <2>1 DEF SweepFails, TypeOK
  <1>6. CASE Stop
    BY <1>6 DEF Stop
  <1>7. CASE UNCHANGED vars
    BY <1>0, <1>7 DEF vars
  <1>8. QED
    BY <1>1, <1>2, <1>3, <1>4, <1>5, <1>6, <1>7 DEF Next, Sweep

\* The original of a draft has a row, for every step.
LEMMA RowStep == IInv /\ [Next]_vars => OriginalHasRow'
  <1> DEFINE Behind(d) ==
        HasRow(d) \/ d \in abandoned \/ \E r \in Requests : At(r, "row") /\ req[r].draft = d
  <1> SUFFICES ASSUME IInv, [Next]_vars, NEW d \in Drafts, "original" \in kept'[d]
               PROVE  Behind(d)'
    BY DEF OriginalHasRow
  <1>0. TypeOK /\ DraftsInUse /\ SweptAreOver /\ ("original" \in kept[d] => Behind(d))
    BY DEF IInv, OriginalHasRow
  <1> HIDE DEF Behind
  <1>1. ASSUME NEW r \in Requests, Version(r)
        PROVE  Behind(d)'
    <2>1. UNCHANGED <<draft, kept, abandoned>> /\ Others(r) /\ req[r].at # "row"
      BY <1>1, VersionLeaves, VersionTakes, NotCreating
    <2>2. QED
      BY <1>0, <2>1 DEF Behind, HasRow, At, Others
  <1>2. ASSUME NEW r \in Requests, Draft(r)
        PROVE  Behind(d)'
    <2>1. /\ "original" \in kept[d] \/ Fresh(d)
          /\ abandoned \subseteq abandoned'
          /\ draft'[d] # draft[d] => draft'[d] = "live" \/ d \in abandoned'
      BY <1>2, DraftDoes
    <2>2. Others(r)
      BY <1>2, UnnumberedDraft
    <2>3. CASE Fresh(d) /\ "original" \notin kept[d]
      <3>1. \/ Create(r, d) \/ CreateLands(r, d)
        <4>1. ASSUME NEW e \in Drafts, Create(r, e)
              PROVE  e = d
          <5>1. kept' = [kept EXCEPT ![e] = {"original"}]
            BY <4>1, Zenon DEF Create
          <5>2. QED
            BY <1>0, <2>3, <5>1 DEF TypeOK
        <4>2. ASSUME NEW e \in Drafts, CreateLands(r, e)
              PROVE  e = d
          BY <1>0, <2>3, <4>2 DEF TypeOK, CreateLands
        <4>3. ASSUME NEW e \in Drafts, PreviewOpens(r, e) \/ Cancel(r, e)
              PROVE  FALSE
          <5>1. UNCHANGED folders
            <6>1. CASE PreviewOpens(r, e)
              <7>1. UNCHANGED <<rows, blob, folders, history, faults>>
                BY <6>1, Zenon DEF PreviewOpens
              <7>2. QED
                BY <7>1
            <6>2. CASE Cancel(r, e)
              <7>1. UNCHANGED <<rows, blob, folders, undone, abandoned, faults>>
                BY <6>2, Zenon DEF Cancel
              <7>2. QED
                BY <7>1
            <6>3. QED
              BY <4>3, <6>1, <6>2
          <5>2. QED
            BY <2>3, <5>1 DEF folders
        <4>4. ASSUME \/ CreateRow(r) \/ CreateFails(r) \/ RemoveRow(r) \/ PreviewReads(r)
                     \/ PreviewSends(r) \/ RemoveBlobs(r) \/ RemoveBlobsFails(r)
              PROVE  FALSE
          <5>1. req[r].draft # d
            BY <2>3 DEF Fresh
          <5>2. kept'[d] \in SUBSET kept[d]
            BY <1>0, <4>4, <5>1 DEF CreateRow, CreateFails, RemoveRow, PreviewReads, PreviewSends,
               RemoveBlobs, RemoveBlobsFails, TypeOK, folders
          <5>3. QED
            BY <2>3, <5>2
        <4>5. QED
          BY <1>2, <4>1, <4>2, <4>3, <4>4 DEF Draft
      <3>2. CASE Create(r, d)
        BY <1>0, <3>2, DraftTaken DEF Behind, At
      <3>3. CASE CreateLands(r, d)
        BY <3>3 DEF CreateLands, Behind
      <3>4. QED
        BY <3>1, <3>2, <3>3
    <2>4. CASE "original" \in kept[d]
      <3>1. CASE HasRow(d) \/ d \in abandoned
        <4>1. CASE draft'[d] # draft[d]
          BY <2>1, <4>1 DEF Behind, HasRow
        <4>2. CASE draft'[d] = draft[d]
          BY <2>1, <3>1, <4>2 DEF Behind, HasRow
        <4>3. QED
          BY <4>1, <4>2
      <3>2. ASSUME NEW s \in Requests, At(s, "row"), req[s].draft = d
            PROVE  Behind(d)'
        <4>1. CASE s # r
          BY <2>2, <3>2, <4>1 DEF Behind, At, Others
        <4>2. CASE s = r
          <5>1. CASE req'[r] = req[r]
            BY <3>2, <4>2, <5>1 DEF Behind, At
          <5>2. CASE CreateRow(r) \/ CreateFails(r)
            BY <1>0, <3>2, <4>2, <5>2 DEF CreateRow, CreateFails, Behind, HasRow, TypeOK
          <5>3. req'[r] = req[r] \/ CreateRow(r) \/ CreateFails(r)
            <6>1. At(r, "row")
              BY <3>2, <4>2
            <6>2. ASSUME NEW e \in Drafts, Create(r, e) \/ PreviewOpens(r, e) \/ Cancel(r, e)
                  PROVE  FALSE
              BY <1>0, <6>1, <6>2, DraftTaken DEF At
            <6>3. ASSUME NEW e \in Drafts, CreateLands(r, e)
                  PROVE  FALSE
              BY <6>1, <6>3 DEF CreateLands, At
            <6>4. ~ (RemoveRow(r) \/ PreviewReads(r) \/ PreviewSends(r) \/ RemoveBlobs(r)
                       \/ RemoveBlobsFails(r))
              BY <6>1 DEF RemoveRow, PreviewReads, PreviewSends, RemoveBlobs, RemoveBlobsFails, At
            <6>5. QED
              BY <1>2, <6>2, <6>3, <6>4 DEF Draft
          <5>4. QED
            BY <5>1, <5>2, <5>3
        <4>3. QED
          BY <4>1, <4>2
      <3>3. QED
        BY <1>0, <2>4, <3>1, <3>2 DEF Behind
    <2>5. QED
      BY <2>1, <2>3, <2>4
  <1>3. CASE Sweep
    <2>1. "original" \in kept[d] /\ UNCHANGED <<req, abandoned>>
      BY <1>3, SweepDoes, SweepLeaves
    <2>2. HasRow(d) => HasRow(d)'
      <3>1. CASE SweepStarts
        BY <3>1 DEF SweepStarts, HasRow
      <3>2. ASSUME NEW e \in Drafts, Expire(e) \/ SweepBlobs(e) \/ SweepFails(e)
            PROVE  HasRow(d) => HasRow(d)'
        BY <1>0, <3>2 DEF Expire, SweepBlobs, SweepFails, HasRow, TypeOK
      <3>3. ASSUME NEW e \in Drafts, SweepRow(e)
            PROVE  HasRow(d) => HasRow(d)'
        BY <1>0, <2>1, <3>3 DEF SweepRow, HasRow, TypeOK, SweptAreOver
      <3>4. QED
        BY <1>3, <3>1, <3>2, <3>3 DEF Sweep
    <2>3. QED
      BY <1>0, <2>1, <2>2 DEF Behind, At
  <1>4. CASE Stop
    <2>1. /\ UNCHANGED <<draft, kept>>
          /\ abandoned' = abandoned \cup
                {req[r].draft : r \in {s \in Requests : At(s, "row")}}
      BY <1>4 DEF Stop
    <2>2. QED
      BY <1>0, <2>1 DEF Behind, HasRow
  <1>5. CASE UNCHANGED vars
    BY <1>0, <1>5 DEF vars, Behind, HasRow, At
  <1>6. QED
    BY <1>1, <1>2, <1>3, <1>4, <1>5 DEF Next

-----------------------------------------------------------------------------
(* The invariant *)

LEMMA InitIInv == Init => IInv
  <1> SUFFICES ASSUME Init PROVE IInv
    OBVIOUS
  <1> USE TemplatesAssumption DEF Init
  <1>1. saved \in Seq(Row) /\ Len(saved) = 0 /\ DOMAIN saved = {}
    BY EmptySeq, LenProperties
  <1>2. req \in [Requests -> Request] /\ \A r \in Requests : req[r] = Idle
    BY IdleIs
  <1>3. TypeOK
    BY <1>1, <1>2 DEF TypeOK
  <1>4. LockHeld
    BY <1>2, IdleIs DEF LockHeld
  <1>5. UploadsLand
    BY <1>2, IdleIs DEF UploadsLand
  <1>6. DraftsInUse
    BY <1>2, IdleIs DEF DraftsInUse
  <1>7. SweptAreOver /\ OneActive /\ FileKept /\ OriginalHasRow
    BY <1>1 DEF SweptAreOver, OneActive, FileKept, OriginalHasRow
  <1>8. QED
    BY <1>3, <1>4, <1>5, <1>6, <1>7 DEF IInv

LEMMA NextIInv == IInv /\ [Next]_vars => IInv'
  BY TypeStep, LockStep, UploadsStep, DraftsStep, SweptStep, ActiveStep, FilesStep, RowStep
  DEF IInv

\* The inductive invariant of templates.service.ts: the row of the municipality
\* is held from the version number to the end of the transaction, what is
\* uploaded lands at the path of its version, and a draft is removed original
\* first, by its owner, by the save it became or by the sweep.
THEOREM InductiveInvariant == Spec => []IInv
  BY InitIInv, NextIInv, PTL DEF Spec

\* The types of the model, and that nothing stays in Storage that nobody will
\* clean: the original of a draft has a row, or is being created, or its creation
\* was cut short.
THEOREM NothingLeftBehind == Spec => []Inv
  <1>1. IInv => Inv
    BY DEF IInv, Inv
  <1>2. QED
    BY <1>1, InductiveInvariant, PTL

\* Once a version is saved exactly one is active, whatever uploads, saves,
\* activations, failed transactions and stops cross.
THEOREM AlwaysOneActive == Spec => []OneActive
  <1>1. IInv => OneActive
    BY DEF IInv
  <1>2. QED
    BY <1>1, InductiveInvariant, PTL

\* The file of a version is the one its row was saved with, unless a transaction
\* that had taken its number was rolled back.
THEOREM FilesAreKept == Spec => []FileKept
  <1>1. IInv => FileKept
    BY DEF IInv
  <1>2. QED
    BY <1>1, InductiveInvariant, PTL

\* A draft goes before it expires only when its owner cancelled it or its content
\* is a saved version.
THEOREM DraftsStay == Spec => DraftKeptUntilSaved
  <1> DEFINE Kept ==
        \A d \in Drafts :
            draft[d] = "live" /\ draft'[d] = "gone" =>
                \/ d \in cancelled
                \/ \E v \in DOMAIN saved : saved[v].content = Marked[d]
  <1>1. ASSUME IInv, [Next]_vars
        PROVE  Kept
    <2> SUFFICES ASSUME NEW d \in Drafts, draft[d] = "live", draft'[d] = "gone"
                 PROVE  d \in cancelled \/ SavedFrom(d)
      BY DEF SavedFrom
    <2>0. TypeOK /\ SweptAreOver
      BY <1>1 DEF IInv
    <2>1. ASSUME NEW r \in Requests, Version(r)
          PROVE  FALSE
      BY <2>1, VersionLeaves
    <2>2. ASSUME NEW r \in Requests, Draft(r)
          PROVE  d \in cancelled \/ SavedFrom(d)
      BY <1>1, <2>2, DraftDoes
    <2>3. CASE Sweep
      <3>1. CASE SweepStarts
        BY <3>1 DEF SweepStarts
      <3>2. ASSUME NEW e \in Drafts, Expire(e) \/ SweepBlobs(e) \/ SweepFails(e)
            PROVE  FALSE
        BY <2>0, <3>2 DEF Expire, SweepBlobs, SweepFails, TypeOK
      <3>3. ASSUME NEW e \in Drafts, SweepRow(e)
            PROVE  FALSE
        BY <2>0, <3>3 DEF SweepRow, SweptAreOver, TypeOK
      <3>4. QED
        BY <2>3, <3>1, <3>2, <3>3 DEF Sweep
    <2>4. CASE Stop
      BY <2>4 DEF Stop
    <2>5. CASE UNCHANGED vars
      BY <2>5 DEF vars
    <2>6. QED
      BY <1>1, <2>1, <2>2, <2>3, <2>4, <2>5 DEF Next
  <1>2. IInv /\ [Next]_vars => [Kept]_vars
    BY <1>1
  <1>3. QED
    BY <1>2, InductiveInvariant, PTL DEF Spec, DraftKeptUntilSaved
-----------------------------------------------------------------------------
(* The screen *)

CONSTANTS MaxDrafts, Markings, Blank, Whole, Full, MaxCalls, MaxLate, MaxVersions, MaxVisits

VARIABLES
    live, versions, active, made, stored, page, visit, shownDraft, marking, step, content,
    known, replacing, saving, discardOpen, discarding, preview, previewKey,
    uploading, shown, listError, toActivate, activating, calls, last, givenUp, savedDrafts,
    strays, uploads, screenFaults

Screen == INSTANCE TemplatesScreen WITH
              draft <- shownDraft, saved <- savedDrafts, faults <- screenFaults

MarkingT == [draft : Screen!DraftIds, marking : Markings] \cup {Null}

BackT(alive, ver, act, of) ==
    /\ alive \subseteq Screen!DraftIds /\ ver \in Screen!Versions /\ act \in 0 .. ver
    /\ of \in [1 .. MaxVersions -> MarkingT]

EditorT(p, d, m, st, con, kn, rep, sav, dop, dis, pre, key) ==
    /\ p \in {"list", "marking", "away"}
    /\ d \in Screen!DraftIds \cup {Null} /\ (p = "marking" <=> d # Null)
    /\ m \in Markings /\ st \in {"mark", "review"} /\ con \in {"loading", "ready", "error"}
    /\ kn \in Screen!Versions \cup {Null} /\ rep \in Screen!Versions
    /\ sav \in BOOLEAN /\ dop \in BOOLEAN /\ dis \in BOOLEAN
    /\ pre \in [status : {"loading", "error", "ready"}, of : Markings \cup {Null}]
    /\ key \in Markings \cup {Null}

\* What the list offers is a version there is.
ListT(upl, sh, err, to, act, ver) ==
    /\ upl \in BOOLEAN /\ err \in BOOLEAN /\ act \in BOOLEAN
    /\ sh \in Screen!Versions \cup {Null} /\ to \in Screen!Versions
    /\ (sh # Null => sh <= ver) /\ to <= ver

HistT(s, v, l, over, str, n, f) ==
    /\ s \in MarkingT /\ l \in MarkingT /\ v \in 1 .. MaxVisits
    /\ over \subseteq Screen!DraftIds /\ str \subseteq Screen!DraftIds
    /\ n \in 0 .. MaxDrafts /\ f \in 0 .. MaxFaults

CallSet ==
    [kind : Screen!Kinds, visit : 1 .. MaxVisits, draft : Screen!DraftIds \cup {Null},
     marking : Markings, sure : BOOLEAN, version : Screen!Versions, twin : BOOLEAN,
     answer : {"wait", "ok", "gone", "refused", "fail"}]

CallsT(C) == C \subseteq CallSet /\ IsFiniteSet(C) /\ Cardinality(C) <= MaxCalls

\* What one call is about: the marking that is on, the visit that is on, or a
\* draft that was uploaded.
CallOK(c, v, p, d, n, ver) ==
    /\ c.version <= ver
    /\ c.draft = Null \/ c.draft \in 1 .. n
    /\ c.kind = "upload" => c.draft # Null
    /\ c.kind \in {"content", "list", "preview"} =>
          c.visit = v /\ p = "marking" /\ c.draft = d
    /\ c.kind \in {"history", "activate"} => c.visit = v /\ p # "away"

CallsOK(C, v, p, d, n, ver) == \A c \in C : CallOK(c, v, p, d, n, ver)

\* Nothing else is known of a draft whose upload has not been answered.
UploadsOK(C, d, s, l) ==
    \A c \in C : c.kind = "upload" =>
        /\ c.draft # d
        /\ s # Null => s.draft # c.draft
        /\ l # Null => l.draft # c.draft
        /\ \A e \in C : e.draft = c.draft => e = c

DraftsOK(d, s, l, n) ==
    /\ d # Null => d \in 1 .. n
    /\ s # Null => s.draft \in 1 .. n
    /\ l # Null => l.draft \in 1 .. n

\* The marking that is on is the last one.
LastOK(p, d, m, l) == p = "marking" => l = [draft |-> d, marking |-> m]

\* The draft of an answer that ends a marking is gone, or it was saved or given up.
AnswersOK(C, alive, over) ==
    \A c \in C :
        /\ c.answer = "gone" => c.draft \notin alive
        /\ c.kind = "save" /\ c.answer = "ok" => c.draft \in over
        /\ c.kind = "cancel" => c.draft \in over

\* A draft that is stored and is not the last one was never opened.
StraysOK(C, s, l) ==
    s # Null /\ (l = Null \/ l.draft # s.draft) => \A c \in C : c.draft # s.draft

\* MarkingKept
KeptOK(s, l, alive, over, str) ==
    l # Null /\ l.draft \in alive \ over => s = l \/ (s # Null /\ s.draft \in str)

Going(C, v, kinds) == \E c \in C : c.kind \in kinds /\ c.visit = v

MarkWaits(C, v, p, d, con, sav, dis) ==
    p = "marking" =>
        /\ con = "loading" => Going(C, v, {"content"})
        /\ sav => \E c \in C : c.kind \in {"save", "listAgain"} /\ c.visit = v /\ c.draft = d
        /\ dis => Going(C, v, {"cancel"})

ListWaits(C, v, p, upl, act, sh, err) ==
    p = "list" =>
        /\ upl => Going(C, v, {"upload"})
        /\ act => Going(C, v, {"activate"})
        /\ sh = Null /\ ~err => Going(C, v, {"history"})

\* One preview at a time is rendered, of the marking it was asked for.
PreviewOK(C, v, p, m, st, pre, key) ==
    p = "marking" =>
        /\ \A c, e \in C : c.kind = "preview" /\ e.kind = "preview" => c = e
        /\ \A c \in C : c.kind = "preview" => c.marking = key
        /\ pre.status = "loading" /\ key # Null => Going(C, v, {"preview"})
        /\ pre.status = "ready" => pre.of = key
        /\ pre.status = "error" => key = Null
        /\ st = "review" => key = m \/ pre.status = "error"

\* Each dialog is of its page.
DialogsOK(p, dop, to) == (dop => p = "marking") /\ (p = "away" => to = 0)

ScreenInv ==
    /\ BackT(live, versions, active, made)
    /\ EditorT(page, shownDraft, marking, step, content, known, replacing, saving,
               discardOpen, discarding, preview, previewKey)
    /\ ListT(uploading, shown, listError, toActivate, activating, versions)
    /\ HistT(stored, visit, last, givenUp \cup savedDrafts, strays, uploads, screenFaults)
    /\ CallsT(calls)
    /\ CallsOK(calls, visit, page, shownDraft, uploads, versions)
    /\ UploadsOK(calls, shownDraft, stored, last)
    /\ DraftsOK(shownDraft, stored, last, uploads)
    /\ LastOK(page, shownDraft, marking, last)
    /\ AnswersOK(calls, live, givenUp \cup savedDrafts)
    /\ StraysOK(calls, stored, last)
    /\ KeptOK(stored, last, live, givenUp \cup savedDrafts, strays)
    /\ MarkWaits(calls, visit, page, shownDraft, content, saving, discarding)
    /\ ListWaits(calls, visit, page, uploading, activating, shown, listError)
    /\ PreviewOK(calls, visit, page, marking, step, preview, previewKey)
    /\ DialogsOK(page, discardOpen, toActivate)

-----------------------------------------------------------------------------
(* Its calls *)

\* The library's Cardinality, by the name the instance has for it.
LEMMA SameCardinality ==
    \A S : Screen!Cardinality(S) = Cardinality(S)
  <1>1. \A S : Screen!IsFiniteSet(S) <=> IsFiniteSet(S)
    BY DEF Screen!IsFiniteSet, IsFiniteSet
  <1>2. QED
    BY <1>1 DEF Screen!Cardinality, Cardinality

LEMMA Bounds ==
    ASSUME Screen!TemplatesScreenAssumption
    PROVE  /\ MaxDrafts \in Nat /\ MaxCalls \in Nat \ {0} /\ MaxVersions \in Nat
           /\ MaxVisits \in Nat \ {0} /\ MaxFaults \in Nat /\ Blank \in Markings
           /\ Null \notin Nat /\ Null \notin Markings /\ Null \notin Screen!DraftIds
           /\ Null \notin Screen!Versions /\ 0 \in Screen!Versions
           /\ Screen!DraftIds = 1 .. MaxDrafts
           /\ Null \notin [draft : Screen!DraftIds, marking : Markings]
  BY DEF Screen!TemplatesScreenAssumption, Screen!DraftIds, Screen!Versions

\* The same call, answered or not.
Same(e, c) ==
    e.kind = c.kind /\ e.visit = c.visit /\ e.draft = c.draft /\ e.marking = c.marking

\* A call as it is sent.
LEMMA CallIs ==
    ASSUME Screen!TemplatesScreenAssumption, NEW kind \in Screen!Kinds,
           NEW d \in Screen!DraftIds \cup {Null}, NEW m \in Markings, visit \in 1 .. MaxVisits
    PROVE  LET c == Screen!Call(kind, d, m)
           IN  /\ c \in CallSet
               /\ c.kind = kind /\ c.visit = visit /\ c.draft = d /\ c.marking = m
               /\ c.answer = "wait" /\ c.version = 0
  BY Bounds DEF Screen!Call, CallSet

\* With keeps some calls and adds one.
LEMMA WithIs ==
    ASSUME Screen!TemplatesScreenAssumption, NEW K \in SUBSET CallSet, IsFiniteSet(K),
           NEW e \in CallSet, Screen!With(K, e)
    PROVE  /\ CallsT(calls')
           /\ \E one \in CallSet :
                 /\ calls' = K \cup {one} /\ Same(one, e)
                 /\ one.answer = e.answer /\ one.version = e.version
  <1> DEFINE one == IF e \in K THEN [e EXCEPT !.twin = TRUE] ELSE e
  <1>1. one \notin K /\ Screen!Cardinality(K) < MaxCalls /\ calls' = K \cup {one}
    BY DEF Screen!With
  <1>2. one \in CallSet /\ Same(one, e) /\ one.answer = e.answer /\ one.version = e.version
    BY DEF CallSet, Same
  <1> HIDE DEF one
  <1>3. IsFiniteSet(calls') /\ Cardinality(calls') = Cardinality(K) + 1
    BY <1>1, FS_AddElement
  <1>4. Cardinality(K) \in Nat /\ Cardinality(K) < MaxCalls
    BY <1>1, FS_CardinalityType, SameCardinality
  <1>5. Cardinality(calls') <= MaxCalls
    BY <1>3, <1>4, Bounds
  <1>6. calls' \subseteq CallSet
    BY <1>1, <1>2
  <1>7. QED
    BY <1>1, <1>2, <1>3, <1>5, <1>6 DEF CallsT

\* SendBoth keeps some and adds two.
LEMMA SendBothIs ==
    ASSUME Screen!TemplatesScreenAssumption, NEW K \in SUBSET CallSet, IsFiniteSet(K),
           NEW a \in CallSet, NEW b \in CallSet, Screen!SendBoth(K, {a, b})
    PROVE  CallsT(calls') /\ calls' = K \cup {a, b}
  <1>1. calls' = (K \cup {a}) \cup {b} /\ calls' = K \cup {a, b}
    BY DEF Screen!SendBoth
  <1>2. Cardinality(K) + 2 <= MaxCalls /\ Cardinality(K) \in Nat
    BY FS_CardinalityType, SameCardinality DEF Screen!SendBoth
  <1>3. /\ IsFiniteSet(K \cup {a}) /\ Cardinality(K \cup {a}) \in Nat
        /\ Cardinality(K \cup {a}) <= Cardinality(K) + 1
    <2>1. IsFiniteSet(K \cup {a})
      BY FS_AddElement
    <2>2. Cardinality(K \cup {a}) = IF a \in K THEN Cardinality(K) ELSE Cardinality(K) + 1
      BY FS_AddElement
    <2>3. QED
      BY <1>2, <2>1, <2>2
  <1>4. /\ IsFiniteSet(calls') /\ Cardinality(calls') \in Nat
        /\ Cardinality(calls') <= Cardinality(K \cup {a}) + 1
    <2> DEFINE S == K \cup {a}
    <2>1. IsFiniteSet(calls')
      BY <1>1, <1>3, FS_AddElement
    <2>2. Cardinality(S \cup {b}) = IF b \in S THEN Cardinality(S) ELSE Cardinality(S) + 1
      BY <1>3, FS_AddElement
    <2> HIDE DEF S
    <2>3. Cardinality(calls') = Cardinality(S \cup {b})
      BY <1>1 DEF S
    <2>4. Cardinality(S) \in Nat
      BY <1>3 DEF S
    <2>5. Cardinality(calls') \in Nat /\ Cardinality(calls') <= Cardinality(S) + 1
      BY <2>2, <2>3, <2>4
    <2>6. QED
      BY <2>1, <2>5 DEF S
  <1>5. Cardinality(calls') <= MaxCalls
    BY <1>2, <1>3, <1>4, Bounds
  <1>6. QED
    BY <1>1, <1>4, <1>5 DEF CallsT

LEMMA FewerCalls ==
    ASSUME Screen!TemplatesScreenAssumption, NEW C, CallsT(C), NEW D \in SUBSET C
    PROVE  CallsT(D) /\ IsFiniteSet(D) /\ D \in SUBSET CallSet
  <1>1. IsFiniteSet(D) /\ Cardinality(D) <= Cardinality(C)
    BY FS_Subset DEF CallsT
  <1>2. Cardinality(D) \in Nat /\ Cardinality(C) \in Nat
    BY <1>1, FS_CardinalityType DEF CallsT
  <1>3. QED
    BY <1>1, <1>2, Bounds DEF CallsT

\* What is true of every call is true of fewer of them.
LEMMA FewerKeep ==
    ASSUME NEW C, NEW D \in SUBSET C
    PROVE  /\ \A v, p, d, n, ver : CallsOK(C, v, p, d, n, ver) => CallsOK(D, v, p, d, n, ver)
           /\ \A d, s, l : UploadsOK(C, d, s, l) => UploadsOK(D, d, s, l)
           /\ \A alive, given : AnswersOK(C, alive, given) => AnswersOK(D, alive, given)
           /\ \A s, l : StraysOK(C, s, l) => StraysOK(D, s, l)
  <1>1. \A v, p, d, n, ver : CallsOK(C, v, p, d, n, ver) => CallsOK(D, v, p, d, n, ver)
    BY DEF CallsOK
  <1>2. \A d, s, l : UploadsOK(C, d, s, l) => UploadsOK(D, d, s, l)
    BY DEF UploadsOK
  <1>3. \A alive, given : AnswersOK(C, alive, given) => AnswersOK(D, alive, given)
    BY DEF AnswersOK
  <1>4. \A s, l : StraysOK(C, s, l) => StraysOK(D, s, l)
    BY DEF StraysOK
  <1>5. QED
    BY <1>1, <1>2, <1>3, <1>4

\* And what waits for one of some kinds still does when others go.
LEMMA GoingOn ==
    ASSUME NEW C, NEW D, NEW v
    PROVE  /\ C \subseteq D => \A kinds : Going(C, v, kinds) => Going(D, v, kinds)
           /\ \A c, kinds : C \ {c} \subseteq D /\ (c.kind \notin kinds \/ c.visit # v) =>
                 (Going(C, v, kinds) => Going(D, v, kinds))
  BY DEF Going

\* Whose draft is that of the marking that is on, or of another call.
Speaks(e) ==
    \/ e.draft = Null
    \/ page = "marking" /\ e.draft = shownDraft
    \/ \E c \in calls : c.kind # "upload" /\ c.draft = e.draft

\* While a marking is on it is the last one.
LEMMA LastIsOn ==
    ASSUME Screen!TemplatesScreenAssumption, ScreenInv, page = "marking"
    PROVE  last # Null /\ last.draft = shownDraft
  <1>1. last = [draft |-> shownDraft, marking |-> marking]
    BY DEF ScreenInv, LastOK
  <1>2. shownDraft \in Screen!DraftIds /\ marking \in Markings
    BY DEF ScreenInv, EditorT
  <1>3. last.draft = shownDraft /\ last \in [draft : Screen!DraftIds, marking : Markings]
    BY <1>1, <1>2
  <1>4. QED
    BY <1>3, Bounds

\* One more call, of what is known.
LEMMA MoreKeep ==
    ASSUME Screen!TemplatesScreenAssumption, ScreenInv, NEW K \in SUBSET calls,
           NEW e \in CallSet, NEW D, D = K \cup {e},
           Speaks(e), CallOK(e, visit, page, shownDraft, uploads, versions),
           e.kind # "upload", e.answer = "wait",
           NEW given, givenUp \cup savedDrafts \subseteq given, e.kind = "cancel" => e.draft \in given
    PROVE  /\ CallsOK(D, visit, page, shownDraft, uploads, versions)
           /\ UploadsOK(D, shownDraft, stored, last)
           /\ AnswersOK(D, live, given)
           /\ StraysOK(D, stored, last)
  <1>1. CallsOK(D, visit, page, shownDraft, uploads, versions)
    BY DEF ScreenInv, CallsOK
  <1>2. ASSUME NEW u \in calls, u.kind = "upload" PROVE u.draft # e.draft
    <2>1. u.draft # Null /\ u.draft # shownDraft
      BY <1>2 DEF ScreenInv, CallsOK, CallOK, UploadsOK
    <2>2. \A c \in calls : c.draft = u.draft => c = u
      BY <1>2 DEF ScreenInv, UploadsOK
    <2>3. QED
      BY <1>2, <2>1, <2>2 DEF Speaks
  <1>3. UploadsOK(D, shownDraft, stored, last)
    BY <1>2 DEF ScreenInv, UploadsOK
  <1>4. AnswersOK(D, live, given)
    BY DEF ScreenInv, AnswersOK
  <1>5. ASSUME stored # Null, last = Null \/ last.draft # stored.draft
        PROVE  e.draft # stored.draft
    <2>1. stored.draft # Null
      BY <1>5, Bounds DEF ScreenInv, HistT, MarkingT
    <2>2. page = "marking" => last # Null /\ last.draft = shownDraft
      BY LastIsOn
    <2>3. \A c \in calls : c.draft # stored.draft
      BY <1>5 DEF ScreenInv, StraysOK
    <2>4. QED
      BY <1>5, <2>1, <2>2, <2>3 DEF Speaks
  <1>6. StraysOK(D, stored, last)
    BY <1>5 DEF ScreenInv, StraysOK
  <1>7. QED
    BY <1>1, <1>3, <1>4, <1>6

-----------------------------------------------------------------------------
(* The backend *)

\* A call that changes, but not what it is about, in the same screen.
LEMMA ReplacedKeeps ==
    ASSUME Screen!TemplatesScreenAssumption, ScreenInv, NEW c \in calls, NEW e \in CallSet,
           NEW D, D = (calls \ {c}) \cup {e}, Same(e, c)
    PROVE  /\ \A ver : e.version <= ver /\ CallsOK(calls, visit, page, shownDraft, uploads, ver)
                 => CallsOK(D, visit, page, shownDraft, uploads, ver)
           /\ UploadsOK(D, shownDraft, stored, last)
           /\ StraysOK(D, stored, last)
           /\ MarkWaits(D, visit, page, shownDraft, content, saving, discarding)
           /\ ListWaits(D, visit, page, uploading, activating, shown, listError)
           /\ PreviewOK(D, visit, page, marking, step, preview, previewKey)
  <1> USE DEF Same
  <1>1. \A ver : e.version <= ver /\ CallsOK(calls, visit, page, shownDraft, uploads, ver)
                 => CallsOK(D, visit, page, shownDraft, uploads, ver)
    BY DEF CallsOK, CallOK
  <1>2. UploadsOK(D, shownDraft, stored, last)
    <2>1. UploadsOK(calls, shownDraft, stored, last)
      BY DEF ScreenInv
    <2>2. \A x \in D : (x \in calls /\ x # c) \/ x = e
      OBVIOUS
    <2>3. QED
      BY <2>1, <2>2 DEF UploadsOK
  <1>3. StraysOK(D, stored, last)
    BY DEF ScreenInv, StraysOK
  <1>4. \A kinds : Going(calls, visit, kinds) => Going(D, visit, kinds)
    BY DEF Going
  <1>5. (\E x \in calls : x.kind \in {"save", "listAgain"} /\ x.visit = visit /\ x.draft = shownDraft)
        => \E x \in D : x.kind \in {"save", "listAgain"} /\ x.visit = visit /\ x.draft = shownDraft
    OBVIOUS
  <1>6. MarkWaits(D, visit, page, shownDraft, content, saving, discarding)
    BY <1>4, <1>5 DEF ScreenInv, MarkWaits
  <1>7. ListWaits(D, visit, page, uploading, activating, shown, listError)
    BY <1>4 DEF ScreenInv, ListWaits
  <1>8. PreviewOK(D, visit, page, marking, step, preview, previewKey)
    <2>1. PreviewOK(calls, visit, page, marking, step, preview, previewKey)
      BY DEF ScreenInv
    <2>2. \A x \in D : (x \in calls /\ x # c) \/ x = e
      OBVIOUS
    <2>3. QED
      BY <1>4, <2>1, <2>2 DEF PreviewOK
  <1>9. QED
    BY <1>1, <1>2, <1>3, <1>6, <1>7, <1>8

\* The same call takes its place, with its answer.
LEMMA AnsweredIs ==
    ASSUME Screen!TemplatesScreenAssumption, ScreenInv, NEW c \in calls,
           NEW f \in CallSet, Same(f, c), Screen!With(calls \ {c}, f)
    PROVE  /\ CallsT(calls')
           /\ \E e \in CallSet : /\ calls' = (calls \ {c}) \cup {e} /\ Same(e, c)
                                 /\ e.answer = f.answer /\ e.version = f.version
  <1> DEFINE K == calls \ {c}
  <1>3. K \in SUBSET CallSet /\ IsFiniteSet(K)
    BY FewerCalls DEF ScreenInv
  <1> HIDE DEF K
  <1>4. Screen!With(K, f)
    BY DEF K
  <1>5. /\ CallsT(calls')
        /\ \E one \in CallSet : /\ calls' = K \cup {one} /\ Same(one, f)
                                /\ one.answer = f.answer /\ one.version = f.version
    BY <1>3, <1>4, WithIs
  <1>6. QED
    BY <1>5 DEF K, Same

\* In Answered the version stays.
LEMMA AnswerIs ==
    ASSUME Screen!TemplatesScreenAssumption, ScreenInv, NEW c \in calls,
           NEW answer \in {"wait", "ok", "gone", "refused", "fail"},
           Screen!Answered(c, answer)
    PROVE  /\ CallsT(calls')
           /\ \E e \in CallSet : /\ calls' = (calls \ {c}) \cup {e} /\ Same(e, c)
                                 /\ e.answer = answer /\ e.version = c.version
  <1> DEFINE f == [c EXCEPT !.answer = answer, !.twin = FALSE]
  <1>1. c \in CallSet
    BY DEF ScreenInv, CallsT
  <1>2. f \in CallSet /\ Same(f, c) /\ f.answer = answer /\ f.version = c.version
    BY <1>1 DEF CallSet, Same
  <1>3. Screen!With(calls \ {c}, f)
    BY DEF Screen!Answered
  <1> HIDE DEF f
  <1>4. /\ CallsT(calls')
        /\ \E e \in CallSet : /\ calls' = (calls \ {c}) \cup {e} /\ Same(e, c)
                              /\ e.answer = f.answer /\ e.version = f.version
    BY <1>2, <1>3, AnsweredIs
  <1>5. QED
    BY <1>2, <1>4

\* What the answers say is still so: no draft comes back but that of the upload.
LEMMA AnswersStay ==
    ASSUME ScreenInv, NEW c \in calls, NEW e, Same(e, c), NEW alive, NEW over,
           givenUp \cup savedDrafts \subseteq over,
           alive \subseteq live \/ (c.kind = "upload" /\ alive = live \cup {c.draft}),
           e.answer = "gone" => e.draft \notin alive,
           e.kind = "save" /\ e.answer = "ok" => e.draft \in over
    PROVE  /\ AnswersOK((calls \ {c}) \cup {e}, alive, over)
           /\ KeptOK(stored, last, alive, over, strays)
  <1>1. ASSUME NEW x \in calls \ {c}, x.draft \notin live PROVE x.draft \notin alive
    BY <1>1 DEF ScreenInv, UploadsOK
  <1>2. AnswersOK((calls \ {c}) \cup {e}, alive, over)
    BY <1>1 DEF ScreenInv, AnswersOK, Same
  <1>3. last # Null /\ last.draft \in alive => last.draft \in live
    BY DEF ScreenInv, UploadsOK
  <1>4. KeptOK(stored, last, alive, over, strays)
    BY <1>3 DEF ScreenInv, KeptOK
  <1>5. QED
    BY <1>2, <1>4

\* What is known of the versions is of those there are.
LEMMA OlderVersions ==
    ASSUME ScreenInv, NEW ver \in Nat, versions <= ver
    PROVE  CallsOK(calls, visit, page, shownDraft, uploads, ver)
  <1>1. ASSUME NEW x \in calls PROVE CallOK(x, visit, page, shownDraft, uploads, ver)
    <2>1. CallOK(x, visit, page, shownDraft, uploads, versions)
      BY DEF ScreenInv, CallsOK
    <2>2. x.version \in Nat /\ versions \in Nat
      BY DEF ScreenInv, CallsT, CallSet, BackT, Screen!Versions
    <2>3. x.version <= versions
      BY <2>1 DEF CallOK
    <2>4. x.version <= ver
      BY <2>2, <2>3
    <2>5. QED
      BY <2>1, <2>4 DEF CallOK
  <1>2. QED
    BY <1>1 DEF CallsOK

\* A call is answered: the backend changes as it may, the screen does not.
LEMMA AnsweredKeeps ==
    ASSUME Screen!TemplatesScreenAssumption, ScreenInv, NEW c \in calls, NEW e \in CallSet,
           CallsT(calls'), calls' = (calls \ {c}) \cup {e}, Same(e, c),
           UNCHANGED <<stored, page, visit, Screen!editor, Screen!list, last, givenUp, strays,
                       uploads>>,
           screenFaults' \in 0 .. MaxFaults,
           savedDrafts' \subseteq Screen!DraftIds, savedDrafts \subseteq savedDrafts',
           BackT(live', versions', active', made'), versions <= versions', e.version <= versions',
           live' \subseteq live \/ (c.kind = "upload" /\ live' = live \cup {c.draft}),
           e.answer = "gone" => e.draft \notin live',
           e.kind = "save" /\ e.answer = "ok" => e.draft \in savedDrafts'
    PROVE  ScreenInv'
  <1>1. /\ versions \in Nat /\ versions' \in Nat
        /\ \A x \in CallSet : x.version \in Nat
        /\ shown \in Nat \cup {Null} /\ toActivate \in Nat
    BY DEF BackT, ScreenInv, ListT, CallSet, Screen!Versions
  <1>2. CallsOK(calls, visit, page, shownDraft, uploads, versions')
    BY <1>1, OlderVersions
  <1>3. ListT(uploading, shown, listError, toActivate, activating, versions')
    BY <1>1 DEF ScreenInv, ListT
  <1>4. /\ CallsOK(calls', visit, page, shownDraft, uploads, versions')
        /\ UploadsOK(calls', shownDraft, stored, last)
        /\ StraysOK(calls', stored, last)
        /\ MarkWaits(calls', visit, page, shownDraft, content, saving, discarding)
        /\ ListWaits(calls', visit, page, uploading, activating, shown, listError)
        /\ PreviewOK(calls', visit, page, marking, step, preview, previewKey)
    BY <1>2, ReplacedKeeps
  <1>5. /\ AnswersOK(calls', live', givenUp \cup savedDrafts')
        /\ KeptOK(stored, last, live', givenUp \cup savedDrafts', strays)
    <2> DEFINE over == givenUp \cup savedDrafts'
    <2>1. givenUp \cup savedDrafts \subseteq over
      OBVIOUS
    <2>2. e.kind = "save" /\ e.answer = "ok" => e.draft \in over
      OBVIOUS
    <2> HIDE DEF over
    <2>3. AnswersOK(calls', live', over) /\ KeptOK(stored, last, live', over, strays)
      BY <2>1, <2>2, AnswersStay
    <2>4. QED
      BY <2>3 DEF over
  <1>6. HistT(stored, visit, last, givenUp \cup savedDrafts', strays, uploads, screenFaults')
    BY DEF ScreenInv, HistT
  <1>7. QED
    BY <1>3, <1>4, <1>5, <1>6
       DEF ScreenInv, Screen!editor, Screen!list

LEMMA ServeKeeps ==
    ASSUME Screen!TemplatesScreenAssumption, ScreenInv, NEW c \in calls, Screen!Serve(c)
    PROVE  ScreenInv'
  <1>1. /\ UNCHANGED <<stored, page, visit, Screen!editor, Screen!list, last, givenUp, strays,
                       uploads>>
        /\ screenFaults \in 0 .. MaxFaults /\ savedDrafts \subseteq Screen!DraftIds
    BY DEF Screen!Serve, ScreenInv, HistT
  <1>2. /\ live \subseteq Screen!DraftIds /\ versions \in Screen!Versions /\ versions \in Nat
        /\ active \in 0 .. versions /\ BackT(live, versions, active, made)
        /\ made \in [1 .. MaxVersions -> MarkingT]
        /\ c \in CallSet /\ c.version \in Nat /\ c.version <= versions /\ c.version \in Screen!Versions
        /\ c.draft \in Screen!DraftIds \cup {Null} /\ MaxVersions \in Nat
    <2>1. /\ live \subseteq Screen!DraftIds /\ versions \in Screen!Versions /\ versions \in Nat
          /\ active \in 0 .. versions /\ BackT(live, versions, active, made) /\ MaxVersions \in Nat
          /\ made \in [1 .. MaxVersions -> MarkingT]
      BY Bounds DEF ScreenInv, BackT, Screen!Versions
    <2>2. c \in CallSet /\ c.version <= versions
      BY DEF ScreenInv, CallsT, CallsOK, CallOK
    <2>3. /\ c.version \in Screen!Versions /\ c.version \in Nat
          /\ c.draft \in Screen!DraftIds \cup {Null}
      BY <2>2 DEF CallSet, Screen!Versions
    <2>4. QED
      BY <2>1, <2>2, <2>3
  <1>3. CASE /\ c.kind \in {"content", "preview"}
             /\ Screen!Answered(c, IF c.draft \in live THEN "ok" ELSE "gone")
             /\ UNCHANGED <<Screen!backend, savedDrafts, screenFaults>>
    <2> DEFINE answer == IF c.draft \in live THEN "ok" ELSE "gone"
    <2>1. answer \in {"wait", "ok", "gone", "refused", "fail"}
      OBVIOUS
    <2>2. CallsT(calls') /\ \E e \in CallSet : /\ calls' = (calls \ {c}) \cup {e} /\ Same(e, c)
                                               /\ e.answer = answer /\ e.version = c.version
      BY <1>3, <2>1, AnswerIs
    <2>3. PICK e \in CallSet : /\ calls' = (calls \ {c}) \cup {e} /\ Same(e, c)
                               /\ e.answer = answer /\ e.version = c.version
      BY <2>2
    <2>4. /\ UNCHANGED <<live, versions, active, made, savedDrafts, screenFaults>>
          /\ e.kind # "save"
          /\ e.answer = "gone" => e.draft \notin live
      BY <1>3, <2>3 DEF Screen!backend, Same
    <2> HIDE DEF answer
    <2>5. QED
      BY <1>1, <1>2, <2>2, <2>3, <2>4, AnsweredKeeps
  <1>4. CASE /\ Screen!With(calls \ {c}, [c EXCEPT !.answer = "ok", !.version = active, !.twin = FALSE])
             /\ c.kind \in {"list", "listToSave", "listAgain", "history"}
             /\ UNCHANGED <<Screen!backend, savedDrafts, screenFaults>>
    <2>1. active \in Screen!Versions
      BY <1>2 DEF Screen!Versions
    <2>2. CallsT(calls') /\ \E e \in CallSet : /\ calls' = (calls \ {c}) \cup {e} /\ Same(e, c)
                                               /\ e.answer = "ok" /\ e.version = active
      <3> DEFINE f == [c EXCEPT !.answer = "ok", !.version = active, !.twin = FALSE]
      <3>1. f \in CallSet /\ Same(f, c) /\ f.answer = "ok" /\ f.version = active
        BY <1>2, <2>1 DEF CallSet, Same
      <3>2. Screen!With(calls \ {c}, f)
        BY <1>4
      <3> HIDE DEF f
      <3>3. /\ CallsT(calls')
            /\ \E e \in CallSet : /\ calls' = (calls \ {c}) \cup {e} /\ Same(e, c)
                                  /\ e.answer = f.answer /\ e.version = f.version
        BY <3>1, <3>2, AnsweredIs
      <3>4. QED
        BY <3>1, <3>3
    <2>3. PICK e \in CallSet : /\ calls' = (calls \ {c}) \cup {e} /\ Same(e, c)
                               /\ e.answer = "ok" /\ e.version = active
      BY <2>2
    <2>4. /\ UNCHANGED <<live, versions, active, made, savedDrafts, screenFaults>>
          /\ e.kind # "save" /\ e.version <= versions
      <3>1. active <= versions
        BY <1>2
      <3>2. QED
        BY <1>4, <2>3, <3>1 DEF Screen!backend, Same
    <2>5. QED
      BY <1>1, <1>2, <2>2, <2>3, <2>4, AnsweredKeeps
  <1>5. ASSUME NEW answer \in {"ok", "gone", "refused", "fail"}, Screen!Answered(c, answer),
               live' \subseteq live \/ (c.kind = "upload" /\ live' = live \cup {c.draft}),
               live' \subseteq Screen!DraftIds, versions' \in Screen!Versions,
               active' \in 0 .. versions', versions <= versions',
               made' \in [1 .. MaxVersions -> MarkingT],
               screenFaults' \in 0 .. MaxFaults,
               savedDrafts' \subseteq Screen!DraftIds, savedDrafts \subseteq savedDrafts',
               answer = "gone" => c.draft \notin live',
               c.kind = "save" /\ answer = "ok" => c.draft \in savedDrafts'
        PROVE  ScreenInv'
    <2>1. CallsT(calls') /\ \E e \in CallSet : /\ calls' = (calls \ {c}) \cup {e} /\ Same(e, c)
                                               /\ e.answer = answer /\ e.version = c.version
      BY <1>5, AnswerIs
    <2>2. PICK e \in CallSet : /\ calls' = (calls \ {c}) \cup {e} /\ Same(e, c)
                               /\ e.answer = answer /\ e.version = c.version
      BY <2>1
    <2>3. e.version <= versions'
      <3>1. versions' \in Nat
        BY <1>5 DEF Screen!Versions
      <3>2. QED
        BY <1>2, <1>5, <2>2, <3>1
    <2>4. /\ e.answer = "gone" => e.draft \notin live'
          /\ e.kind = "save" /\ e.answer = "ok" => e.draft \in savedDrafts'
      BY <1>5, <2>2 DEF Same
    <2>5. BackT(live', versions', active', made')
      BY <1>5 DEF BackT
    <2>6. QED
      BY <1>1, <1>5, <2>1, <2>2, <2>3, <2>4, <2>5, AnsweredKeeps
  <1>6. CASE c.kind = "save" /\ Screen!ServeSave(c)
    <2>1. CASE \E answer \in {"gone", "refused", "fail"} :
                  /\ Screen!Answered(c, answer) /\ (answer = "gone" => c.draft \notin live)
                  /\ UNCHANGED <<Screen!backend, savedDrafts, screenFaults>>
      <3>1. PICK answer \in {"gone", "refused", "fail"} :
                  /\ Screen!Answered(c, answer) /\ (answer = "gone" => c.draft \notin live)
                  /\ UNCHANGED <<Screen!backend, savedDrafts, screenFaults>>
        BY <2>1
      <3>2. UNCHANGED <<live, versions, active, made, savedDrafts, screenFaults>> /\ answer # "ok"
        BY <3>1 DEF Screen!backend
      <3>3. QED
        BY <1>1, <1>2, <1>5, <3>1, <3>2
    <2>2. ASSUME Screen!Saved(c), c.draft \in live, versions' \in Screen!Versions,
                 active' \in 0 .. versions', versions <= versions',
                 made' \in [1 .. MaxVersions -> MarkingT]
          PROVE  ScreenInv'
      <3>1. /\ savedDrafts' = savedDrafts \cup {c.draft} /\ Screen!Answered(c, "ok")
            /\ live' \subseteq live
        BY <2>2 DEF Screen!Saved
      <3>2. screenFaults' \in 0 .. MaxFaults
        BY <1>1, <2>2, Bounds DEF Screen!Saved, Screen!Fault
      <3>3. /\ savedDrafts' \subseteq Screen!DraftIds /\ savedDrafts \subseteq savedDrafts'
            /\ c.draft \in savedDrafts' /\ live' \subseteq Screen!DraftIds
        BY <1>1, <1>2, <2>2, <3>1
      <3>4. QED
        BY <1>5, <2>2, <3>1, <3>2, <3>3
    <2>3. CASE /\ Screen!Saved(c) /\ c.draft \in live /\ UNCHANGED <<versions, active, made>>
      BY <1>2, <2>2, <2>3
    <2>4. CASE /\ Screen!Store(Screen!MarkingOf(c.draft, c.marking))
               /\ Screen!Saved(c) /\ c.draft \in live
      <3> DEFINE of == Screen!MarkingOf(c.draft, c.marking)
      <3>1. of \in MarkingT
        BY <1>2, <2>4 DEF MarkingT, Screen!MarkingOf, CallSet
      <3> HIDE DEF of
      <3>2. /\ versions < MaxVersions /\ versions' = versions + 1 /\ active' = versions + 1
            /\ made' = [made EXCEPT ![versions + 1] = of]
        BY <2>4 DEF Screen!Store, of
      <3>3. versions' \in Screen!Versions /\ active' \in 0 .. versions' /\ versions <= versions'
        BY <1>2, <3>2 DEF Screen!Versions
      <3>4. made' \in [1 .. MaxVersions -> MarkingT]
        BY <1>2, <3>1, <3>2
      <3>5. QED
        BY <2>2, <2>4, <3>3, <3>4
    <2>5. QED
      BY <1>6, <2>1, <2>3, <2>4 DEF Screen!ServeSave, Screen!StoreVersion
  <1>7. CASE /\ c.kind = "cancel" /\ live' = live \ {c.draft}
             /\ Screen!Answered(c, "ok")
             /\ UNCHANGED <<versions, active, made, savedDrafts, screenFaults>>
    BY <1>1, <1>2, <1>5, <1>7
  <1>8. CASE /\ c.kind = "upload" /\ live' = live \cup {c.draft}
             /\ Screen!Answered(c, "ok")
             /\ UNCHANGED <<versions, active, made, savedDrafts, screenFaults>>
    <2>1. c.draft \in Screen!DraftIds
      BY <1>2, <1>8 DEF ScreenInv, CallsOK, CallOK
    <2>2. QED
      BY <1>1, <1>2, <1>5, <1>8, <2>1
  <1>9. CASE /\ c.kind = "activate" /\ active' = c.version
             /\ Screen!Answered(c, "ok")
             /\ UNCHANGED <<live, versions, made, savedDrafts, screenFaults>>
    <2>1. active' \in 0 .. versions'
      BY <1>2, <1>9
    <2>2. QED
      BY <1>1, <1>2, <1>5, <1>9, <2>1
  <1>10. QED
    BY <1>3, <1>4, <1>6, <1>7, <1>8, <1>9 DEF Screen!Serve, Screen!ServeOther

LEMMA FailsKeeps ==
    ASSUME Screen!TemplatesScreenAssumption, ScreenInv, NEW c \in calls, Screen!Fails(c)
    PROVE  ScreenInv'
  <1>1. /\ UNCHANGED <<live, versions, active, made, stored, page, visit, Screen!editor,
                       Screen!list, last, givenUp, savedDrafts, strays, uploads>>
        /\ screenFaults' \in 0 .. MaxFaults /\ savedDrafts \subseteq Screen!DraftIds
    BY Bounds DEF Screen!Fails, Screen!Fault, Screen!backend, Screen!history, ScreenInv, HistT
  <1>2. CallsT(calls') /\ \E e \in CallSet : /\ calls' = (calls \ {c}) \cup {e} /\ Same(e, c)
                                             /\ e.answer = "fail" /\ e.version = c.version
    BY AnswerIs DEF Screen!Fails
  <1>3. PICK e \in CallSet : /\ calls' = (calls \ {c}) \cup {e} /\ Same(e, c)
                             /\ e.answer = "fail" /\ e.version = c.version
    BY <1>2
  <1>4. /\ BackT(live, versions, active, made) /\ versions <= versions /\ e.version <= versions
        /\ e.answer # "gone" /\ e.answer # "ok"
    <2>1. c.version <= versions
      BY DEF ScreenInv, CallsOK, CallOK
    <2>2. BackT(live, versions, active, made) /\ versions \in Nat
      BY DEF ScreenInv, BackT, Screen!Versions
    <2>3. QED
      BY <1>3, <2>1, <2>2
  <1>5. QED
    BY <1>1, <1>2, <1>3, <1>4, AnsweredKeeps

\* The drafts expire and the versions grow behind the screen's back.
LEMMA OthersKeep ==
    ASSUME Screen!TemplatesScreenAssumption, ScreenInv,
           Screen!OtherSaves \/ \E d \in live : Screen!Expires(d)
    PROVE  ScreenInv'
  <1>1. /\ UNCHANGED <<stored, page, visit, Screen!editor, Screen!list, Screen!history, calls>>
        /\ screenFaults' \in 0 .. MaxFaults /\ live' \subseteq live
    BY Bounds DEF Screen!OtherSaves, Screen!Store, Screen!Expires, Screen!Fault, ScreenInv, HistT
  <1>2. /\ versions \in Nat /\ versions' \in Nat /\ versions <= versions'
        /\ BackT(live', versions', active', made')
    <2>1. BackT(live, versions, active, made) /\ MaxVersions \in Nat /\ Null \in MarkingT
      BY Bounds DEF ScreenInv, MarkingT
    <2>2. CASE Screen!OtherSaves
      BY <2>1, <2>2 DEF Screen!OtherSaves, Screen!Store, BackT, Screen!Versions
    <2>3. CASE \E d \in live : Screen!Expires(d)
      BY <2>1, <2>3 DEF Screen!Expires, BackT, Screen!Versions
    <2>4. QED
      BY <2>2, <2>3
  <1>3. CallsOK(calls, visit, page, shownDraft, uploads, versions')
    BY <1>2, OlderVersions
  <1>4. ListT(uploading, shown, listError, toActivate, activating, versions')
    <2>1. shown \in Nat \cup {Null} /\ toActivate \in Nat
      BY DEF ScreenInv, ListT, Screen!Versions
    <2>2. QED
      BY <1>2, <2>1 DEF ScreenInv, ListT
  <1>5. /\ AnswersOK(calls, live', givenUp \cup savedDrafts)
        /\ KeptOK(stored, last, live', givenUp \cup savedDrafts, strays)
    BY <1>1 DEF ScreenInv, AnswersOK, KeptOK
  <1>6. HistT(stored, visit, last, givenUp \cup savedDrafts, strays, uploads, screenFaults')
    BY <1>1 DEF ScreenInv, HistT
  <1>7. QED
    BY <1>1, <1>2, <1>3, <1>4, <1>5, <1>6
       DEF ScreenInv, Screen!editor, Screen!list, Screen!history

-----------------------------------------------------------------------------
(* The pages *)

LEMMA ScreenStarts ==
    ASSUME Screen!TemplatesScreenAssumption, Screen!Init
    PROVE  ScreenInv
  <1> DEFINE c == Screen!Call("history", Null, Blank)
  <1>1. /\ page = "list" /\ visit = 1 /\ calls = {c} /\ shownDraft = Null /\ stored = Null
        /\ last = Null /\ versions = 0 /\ uploads = 0
    BY DEF Screen!Init
  <1>2. /\ c \in CallSet /\ c.kind = "history" /\ c.visit = visit /\ c.draft = Null
        /\ c.answer = "wait" /\ c.version = 0
    <2>1. /\ "history" \in Screen!Kinds /\ Null \in Screen!DraftIds \cup {Null}
          /\ Blank \in Markings /\ visit \in 1 .. MaxVisits
      BY <1>1, Bounds DEF Screen!Kinds
    <2>2. QED
      BY <2>1, CallIs
  <1> HIDE DEF c
  <1>3. BackT(live, versions, active, made)
    BY Bounds DEF Screen!Init, BackT, MarkingT
  <1>4. EditorT(page, shownDraft, marking, step, content, known, replacing, saving,
                discardOpen, discarding, preview, previewKey)
    BY Bounds DEF Screen!Init, EditorT, Screen!NoPreview
  <1>5. ListT(uploading, shown, listError, toActivate, activating, versions)
    <2>1. /\ shown = Null /\ toActivate = 0 /\ versions = 0
          /\ uploading = FALSE /\ listError = FALSE /\ activating = FALSE
      BY DEF Screen!Init
    <2>2. 0 <= 0 /\ 0 \in Screen!Versions
      BY Bounds
    <2>3. QED
      BY <2>1, <2>2 DEF ListT
  <1>6. HistT(stored, visit, last, givenUp \cup savedDrafts, strays, uploads, screenFaults)
    BY Bounds DEF Screen!Init, HistT, MarkingT
  <1>7. CallsT(calls)
    <2>1. IsFiniteSet({c}) /\ Cardinality({c}) = 1
      BY FS_Singleton
    <2>2. 1 <= MaxCalls
      BY Bounds
    <2>3. QED
      BY <1>1, <1>2, <2>1, <2>2 DEF CallsT
  <1>8. CallsOK(calls, visit, page, shownDraft, uploads, versions)
    <2>1. "history" \notin {"content", "list", "preview"} /\ "history" # "upload"
      OBVIOUS
    <2>2. CallOK(c, visit, page, shownDraft, uploads, versions)
      BY <1>1, <1>2, <2>1 DEF CallOK
    <2>3. QED
      BY <1>1, <2>2 DEF CallsOK
  <1>9. UploadsOK(calls, shownDraft, stored, last) /\ AnswersOK(calls, live, givenUp \cup savedDrafts)
    BY <1>1, <1>2 DEF UploadsOK, AnswersOK
  <1>10. /\ DraftsOK(shownDraft, stored, last, uploads) /\ StraysOK(calls, stored, last)
         /\ LastOK(page, shownDraft, marking, last)
         /\ KeptOK(stored, last, live, givenUp \cup savedDrafts, strays)
    BY <1>1 DEF DraftsOK, StraysOK, LastOK, KeptOK
  <1>11. /\ MarkWaits(calls, visit, page, shownDraft, content, saving, discarding)
         /\ PreviewOK(calls, visit, page, marking, step, preview, previewKey)
    BY <1>1 DEF MarkWaits, PreviewOK
  <1>12. ListWaits(calls, visit, page, uploading, activating, shown, listError)
    BY <1>1, <1>2 DEF ListWaits, Going, Screen!Init
  <1>13. DialogsOK(page, discardOpen, toActivate)
    BY DEF Screen!Init, DialogsOK
  <1>14. QED
    BY <1>3, <1>4, <1>5, <1>6, <1>7, <1>8, <1>9, <1>10, <1>11, <1>12, <1>13 DEF ScreenInv

\* A marking that begins, or none.
LEMMA EditorIs ==
    ASSUME Screen!TemplatesScreenAssumption, NEW d \in Screen!DraftIds \cup {Null},
           NEW m \in Markings, Screen!ResetEditor(d, m),
           page' \in {"list", "marking", "away"}, page' = "marking" <=> d # Null
    PROVE  /\ EditorT(page', shownDraft', marking', step', content', known', replacing', saving',
                      discardOpen', discarding', preview', previewKey')
           /\ shownDraft' = d /\ marking' = m /\ step' = "mark" /\ ~saving' /\ ~discarding'
           /\ ~discardOpen' /\ preview'.status = "loading" /\ previewKey' = Null
  BY Bounds DEF Screen!ResetEditor, EditorT, Screen!NoPreview

LEMMA ListIs ==
    ASSUME Screen!TemplatesScreenAssumption, NEW ver \in Nat, Screen!ResetList
    PROVE  /\ ListT(uploading', shown', listError', toActivate', activating', ver)
           /\ ~uploading' /\ ~activating' /\ toActivate' = 0
  <1>1. /\ shown' = Null /\ toActivate' = 0
        /\ uploading' = FALSE /\ listError' = FALSE /\ activating' = FALSE
    BY DEF Screen!ResetList
  <1>2. 0 <= ver /\ 0 \in Screen!Versions
    BY Bounds
  <1>3. QED
    BY <1>1, <1>2 DEF ListT

LEMMA LeaveKeeps ==
    ASSUME Screen!TemplatesScreenAssumption, ScreenInv, Screen!Leave
    PROVE  ScreenInv'
  <1>1. /\ page' = "away" /\ Screen!ResetEditor(Null, Blank) /\ Screen!ResetList
        /\ calls' = Screen!Unheard(Screen!Heard)
        /\ UNCHANGED <<live, versions, active, made, stored, visit, last, givenUp, savedDrafts, strays, uploads,
                       screenFaults>>
    BY DEF Screen!Leave, Screen!backend, Screen!history
  <1>2. calls' \subseteq calls /\ \A x \in calls' : x.kind \notin Screen!Heard \/ x.visit # visit
    BY <1>1 DEF Screen!Unheard
  <1>3. /\ EditorT(page', shownDraft', marking', step', content', known', replacing', saving',
                   discardOpen', discarding', preview', previewKey')
        /\ shownDraft' = Null /\ ~discardOpen'
    BY <1>1, Bounds, EditorIs
  <1>4. /\ ListT(uploading', shown', listError', toActivate', activating', versions)
        /\ toActivate' = 0
    <2>1. versions \in Nat
      BY DEF ScreenInv, BackT, Screen!Versions
    <2>2. QED
      BY <1>1, <2>1, ListIs
  <1>5. CallsT(calls')
    BY <1>2, FewerCalls DEF ScreenInv
  <1>6. CallsOK(calls', visit, "away", Null, uploads, versions)
    BY <1>2 DEF ScreenInv, CallsOK, CallOK, Screen!Heard
  <1>7. UploadsOK(calls', Null, stored, last)
    BY <1>2 DEF ScreenInv, UploadsOK, CallsOK, CallOK
  <1>8. AnswersOK(calls', live, givenUp \cup savedDrafts) /\ StraysOK(calls', stored, last)
    BY <1>2, FewerKeep DEF ScreenInv
  <1>9. DraftsOK(Null, stored, last, uploads)
    BY DEF ScreenInv, DraftsOK
  <1>10. /\ LastOK("away", Null, marking', last)
         /\ MarkWaits(calls', visit, "away", Null, content', saving', discarding')
         /\ ListWaits(calls', visit, "away", uploading', activating', shown', listError')
         /\ PreviewOK(calls', visit, "away", marking', step', preview', previewKey')
         /\ DialogsOK("away", discardOpen', toActivate')
    BY <1>3, <1>4 DEF LastOK, MarkWaits, ListWaits, PreviewOK, DialogsOK
  <1>11. QED
    BY <1>1, <1>3, <1>4, <1>5, <1>6, <1>7, <1>8, <1>9, <1>10 DEF ScreenInv

\* A call that is like another but for its visit.
LEMMA VisitIs ==
    ASSUME NEW c \in CallSet, NEW v \in 1 .. MaxVisits
    PROVE  LET e == [c EXCEPT !.visit = v]
           IN  /\ e \in CallSet /\ e.visit = v
               /\ e.kind = c.kind /\ e.draft = c.draft /\ e.marking = c.marking
               /\ e.answer = c.answer /\ e.version = c.version
  BY DEF CallSet

LEMMA EnterKeeps ==
    ASSUME Screen!TemplatesScreenAssumption, ScreenInv, Screen!Enter
    PROVE  ScreenInv'
  <1> DEFINE d == IF stored = Null THEN Null ELSE stored.draft
             e(kind) == [Screen!Call(kind, d, Blank) EXCEPT !.visit = visit + 1]
  <1>1. /\ page = "away" /\ visit' = visit + 1 /\ visit \in 1 .. MaxVisits
        /\ visit + 1 \in 1 .. MaxVisits /\ Screen!ResetList
        /\ UNCHANGED <<live, versions, active, made, stored, givenUp, savedDrafts, strays,
                       uploads, screenFaults>>
    BY Bounds DEF Screen!Enter, Screen!backend, ScreenInv, HistT
  <1>2. /\ d \in Screen!DraftIds \cup {Null}
        /\ d # Null => d = stored.draft /\ d \in 1 .. uploads
        /\ stored = Null <=> d = Null
    BY Bounds DEF ScreenInv, HistT, MarkingT, DraftsOK
  <1>3. ASSUME NEW kind \in {"history", "content", "list"}
        PROVE  /\ e(kind) \in CallSet /\ e(kind).kind = kind /\ e(kind).visit = visit + 1
               /\ e(kind).draft = d /\ e(kind).answer = "wait" /\ e(kind).version = 0
    <2> HIDE DEF d
    <2> DEFINE c == Screen!Call(kind, d, Blank)
    <2>1. kind \in Screen!Kinds /\ Blank \in Markings
      BY Bounds DEF Screen!Kinds
    <2>2. c \in CallSet /\ c.kind = kind /\ c.draft = d /\ c.answer = "wait" /\ c.version = 0
      BY <1>1, <1>2, <2>1, CallIs
    <2> HIDE DEF c
    <2>3. LET f == [c EXCEPT !.visit = visit + 1]
          IN  /\ f \in CallSet /\ f.visit = visit + 1
              /\ f.kind = c.kind /\ f.draft = c.draft /\ f.marking = c.marking
              /\ f.answer = c.answer /\ f.version = c.version
      BY <1>1, <2>2, VisitIs
    <2>4. QED
      BY <2>2, <2>3 DEF c
  <1>4. /\ \A x \in calls : /\ x.kind \notin {"content", "list", "preview", "history", "activate"}
                            /\ x.version <= versions
                            /\ x.draft = Null \/ x.draft \in 1 .. uploads
                            /\ x.kind = "upload" => x.draft # Null
        /\ versions \in Nat
    BY <1>1 DEF ScreenInv, CallsOK, CallOK, BackT, Screen!Versions
  <1>5. /\ ListT(uploading', shown', listError', toActivate', activating', versions)
        /\ ~uploading' /\ ~activating' /\ toActivate' = 0
    BY <1>1, <1>4, ListIs
  <1>6. calls \in SUBSET CallSet /\ IsFiniteSet(calls)
    BY DEF ScreenInv, CallsT
  <1>7. CASE stored = Null
    <2>1. /\ page' = "list" /\ Screen!ResetEditor(Null, Blank) /\ last' = last
          /\ Screen!With(calls, e("history"))
      BY <1>7 DEF Screen!Enter, Screen!Send
    <2>2. /\ EditorT(page', shownDraft', marking', step', content', known', replacing', saving',
                     discardOpen', discarding', preview', previewKey')
          /\ shownDraft' = Null /\ ~discardOpen'
      BY <2>1, Bounds, EditorIs
    <2> DEFINE f == e("history")
    <2>3. f \in CallSet /\ f.kind = "history" /\ f.visit = visit + 1 /\ f.draft = Null
          /\ f.answer = "wait" /\ f.version = 0
      BY <1>3, <1>7
    <2>4. Screen!With(calls, f)
      BY <2>1
    <2> HIDE DEF f
    <2>5. /\ CallsT(calls')
          /\ \E one \in CallSet : /\ calls' = calls \cup {one} /\ Same(one, f)
                                  /\ one.answer = f.answer /\ one.version = f.version
      BY <1>6, <2>3, <2>4, WithIs
    <2>6. PICK one \in CallSet : /\ calls' = calls \cup {one} /\ Same(one, f)
                                 /\ one.answer = f.answer /\ one.version = f.version
      BY <2>5
    <2>7. /\ one.kind = "history" /\ one.visit = visit + 1 /\ one.draft = Null
          /\ one.answer = "wait" /\ one.version = 0
      BY <2>3, <2>6 DEF Same
    <2>8. CallsOK(calls', visit + 1, "list", Null, uploads, versions)
      BY <1>4, <2>6, <2>7 DEF CallsOK, CallOK
    <2>9. UploadsOK(calls', Null, stored, last)
      BY <1>4, <2>6, <2>7 DEF ScreenInv, UploadsOK
    <2>10. AnswersOK(calls', live, givenUp \cup savedDrafts)
      BY <2>6, <2>7 DEF ScreenInv, AnswersOK
    <2>11. /\ StraysOK(calls', stored, last) /\ LastOK("list", Null, marking', last)
           /\ DraftsOK(Null, stored, last, uploads)
      BY <1>7 DEF ScreenInv, StraysOK, LastOK, DraftsOK
    <2>12. HistT(stored, visit + 1, last, givenUp \cup savedDrafts, strays, uploads, screenFaults)
      BY <1>1 DEF ScreenInv, HistT
    <2>13. /\ MarkWaits(calls', visit + 1, "list", Null, content', saving', discarding')
           /\ ListWaits(calls', visit + 1, "list", uploading', activating', shown', listError')
           /\ PreviewOK(calls', visit + 1, "list", marking', step', preview', previewKey')
           /\ DialogsOK("list", discardOpen', toActivate')
      BY <1>5, <2>2, <2>6, <2>7 DEF MarkWaits, ListWaits, PreviewOK, DialogsOK, Going
    <2>14. QED
      BY <1>1, <1>5, <2>1, <2>2, <2>5, <2>8, <2>9, <2>10, <2>11, <2>12, <2>13 DEF ScreenInv
  <1>8. CASE stored # Null
    <2> DEFINE a == e("content")
               b == e("list")
    <2>1. /\ page' = "marking" /\ Screen!ResetEditor(d, stored.marking) /\ last' = stored
          /\ Screen!SendBoth(calls, {a, b})
      BY <1>8 DEF Screen!Enter
    <2>2. stored \in [draft : Screen!DraftIds, marking : Markings]
      BY <1>8 DEF ScreenInv, HistT, MarkingT
    <2>3. /\ EditorT(page', shownDraft', marking', step', content', known', replacing', saving',
                     discardOpen', discarding', preview', previewKey')
          /\ shownDraft' = d /\ marking' = stored.marking /\ step' = "mark" /\ ~saving' /\ ~discarding'
          /\ ~discardOpen' /\ preview'.status = "loading" /\ previewKey' = Null
      <3>1. stored.marking \in Markings
        BY <2>2
      <3>2. QED
        BY <1>2, <1>8, <2>1, <3>1, EditorIs
    <2>4. /\ a \in CallSet /\ a.kind = "content" /\ a.visit = visit + 1 /\ a.draft = d
          /\ a.answer = "wait" /\ a.version = 0
          /\ b \in CallSet /\ b.kind = "list" /\ b.visit = visit + 1 /\ b.draft = d
          /\ b.answer = "wait" /\ b.version = 0
      BY <1>3
    <2> HIDE DEF a, b
    <2>5. CallsT(calls') /\ calls' = calls \cup {a, b}
      BY <1>6, <2>1, <2>4, SendBothIs
    <2>6. d \in 1 .. uploads /\ d # Null /\ stored.draft = d
      BY <1>2, <1>8
    <2> HIDE DEF d
    <2>7. CallsOK(calls', visit + 1, "marking", d, uploads, versions)
      BY <1>4, <2>4, <2>5, <2>6 DEF CallsOK, CallOK
    <2>8. UploadsOK(calls', d, stored, stored)
      <3>1. ASSUME NEW u \in calls', u.kind = "upload"
            PROVE  /\ u.draft # d
                   /\ \A x \in calls' : x.draft = u.draft => x = u
        <4>1. u \in calls
          BY <2>4, <2>5, <3>1
        <4>2. u.draft # d /\ \A x \in calls : x.draft = u.draft => x = u
          BY <1>8, <2>6, <3>1, <4>1 DEF ScreenInv, UploadsOK
        <4>3. QED
          BY <2>4, <2>5, <4>2
      <3>2. QED
        BY <2>6, <3>1 DEF UploadsOK
    <2>9. AnswersOK(calls', live, givenUp \cup savedDrafts)
      BY <2>4, <2>5 DEF ScreenInv, AnswersOK
    <2>10. StraysOK(calls', stored, stored) /\ KeptOK(stored, stored, live, givenUp \cup savedDrafts, strays)
      BY DEF StraysOK, KeptOK
    <2>11. LastOK("marking", d, stored.marking, stored)
      BY <2>2, <2>6 DEF LastOK
    <2>12. DraftsOK(d, stored, stored, uploads)
      BY <2>6 DEF DraftsOK
    <2>13. HistT(stored, visit + 1, stored, givenUp \cup savedDrafts, strays, uploads, screenFaults)
      BY <1>1 DEF ScreenInv, HistT
    <2>14. /\ MarkWaits(calls', visit + 1, "marking", d, content', saving', discarding')
           /\ ListWaits(calls', visit + 1, "marking", uploading', activating', shown', listError')
           /\ DialogsOK("marking", discardOpen', toActivate')
      BY <2>3, <2>4, <2>5 DEF MarkWaits, ListWaits, DialogsOK, Going
    <2>15. PreviewOK(calls', visit + 1, "marking", stored.marking, "mark", preview', previewKey')
      BY <1>4, <2>3, <2>4, <2>5 DEF PreviewOK
    <2>16. QED
      BY <1>1, <1>5, <2>1, <2>3, <2>5, <2>7, <2>8, <2>9, <2>10, <2>11, <2>12, <2>13, <2>14, <2>15
         DEF ScreenInv
  <1>9. QED
    BY <1>7, <1>8


\* The answer that ends the marking of c: its draft is gone, saved or given up.
LEMMA ExitKeeps ==
    ASSUME Screen!TemplatesScreenAssumption, ScreenInv, NEW c \in calls, Screen!Exit(c),
           c.kind \in {"content", "preview", "save", "cancel"}, c.draft \notin live \ (givenUp \cup savedDrafts)
    PROVE  ScreenInv'
  <1> DEFINE s == Screen!Forgotten(c.draft)
  <1>1. /\ stored' = s
        /\ UNCHANGED <<live, versions, active, made, visit, last, givenUp, savedDrafts, strays,
                       uploads, screenFaults>>
    BY DEF Screen!Exit, Screen!backend, Screen!history
  <1>2. s = Null \/ (s = stored /\ s # Null /\ stored.draft # c.draft)
        \/ (s = stored /\ s = Null)
    BY DEF Screen!Forgotten
  <1>3. stored # Null /\ stored.draft # c.draft => s = stored
    BY DEF Screen!Forgotten
  <1> HIDE DEF s
  <1>4. HistT(s, visit, last, givenUp \cup savedDrafts, strays, uploads, screenFaults)
    BY <1>2 DEF ScreenInv, HistT, MarkingT
  <1>5. DraftsOK(Null, s, last, uploads) /\ DraftsOK(shownDraft, s, last, uploads)
    BY <1>2 DEF ScreenInv, DraftsOK
  <1>6. KeptOK(s, last, live, givenUp \cup savedDrafts, strays)
    <2>1. SUFFICES ASSUME last # Null, last.draft \in live \ (givenUp \cup savedDrafts)
                   PROVE  s = last \/ (s # Null /\ s.draft \in strays)
      BY DEF KeptOK
    <2>2. last.draft # c.draft
      BY <2>1
    <2>3. stored = last \/ (stored # Null /\ stored.draft \in strays)
      BY <2>1 DEF ScreenInv, KeptOK
    <2>4. stored # Null /\ stored.draft # c.draft
      <3>1. CASE stored = last
        BY <2>1, <2>2, <3>1
      <3>2. CASE stored # Null /\ last.draft = stored.draft
        BY <2>2, <3>2
      <3>3. CASE stored # Null /\ last.draft # stored.draft
        BY <3>3 DEF ScreenInv, StraysOK
      <3>4. QED
        BY <2>3, <3>1, <3>2, <3>3
    <2>5. QED
      BY <1>3, <2>3, <2>4
  <1>7. CASE c.visit = visit /\ page = "marking"
    <2> DEFINE K == Screen!Unheard(Screen!Heard) \ {c}
               e == Screen!Call("history", Null, Blank)
    <2>1. /\ page' = "list" /\ Screen!ResetEditor(Null, Blank) /\ Screen!ResetList
          /\ Screen!With(K, e)
      BY <1>7 DEF Screen!Exit
    <2>2. /\ K \in SUBSET calls
          /\ \A x \in K : x.kind \notin Screen!Heard \/ x.visit # visit
      BY DEF Screen!Unheard
    <2>3. /\ e \in CallSet /\ e.kind = "history" /\ e.visit = visit /\ e.draft = Null
          /\ e.answer = "wait" /\ e.version = 0
      <3>1. /\ "history" \in Screen!Kinds /\ Null \in Screen!DraftIds \cup {Null}
            /\ Blank \in Markings /\ visit \in 1 .. MaxVisits
        BY Bounds DEF Screen!Kinds, ScreenInv, HistT
      <3>2. QED
        BY <3>1, CallIs
    <2> HIDE DEF K, e
    <2>4. K \in SUBSET CallSet /\ IsFiniteSet(K)
      BY <2>2, FewerCalls DEF ScreenInv
    <2>5. /\ CallsT(calls')
          /\ \E one \in CallSet : /\ calls' = K \cup {one} /\ Same(one, e)
                                  /\ one.answer = e.answer /\ one.version = e.version
      BY <2>1, <2>3, <2>4, WithIs
    <2>6. PICK one \in CallSet : /\ calls' = K \cup {one} /\ Same(one, e)
                                 /\ one.answer = e.answer /\ one.version = e.version
      BY <2>5
    <2>7. /\ one.kind = "history" /\ one.visit = visit /\ one.draft = Null
          /\ one.answer = "wait" /\ one.version = 0
      BY <2>3, <2>6 DEF Same
    <2>8. versions \in Nat
      BY DEF ScreenInv, BackT, Screen!Versions
    <2>9. /\ EditorT(page', shownDraft', marking', step', content', known', replacing', saving',
                     discardOpen', discarding', preview', previewKey')
          /\ shownDraft' = Null /\ ~discardOpen'
      BY <2>1, Bounds, EditorIs
    <2>10. /\ ListT(uploading', shown', listError', toActivate', activating', versions)
           /\ ~uploading' /\ ~activating' /\ toActivate' = 0
      BY <2>1, <2>8, ListIs
    <2>11. CallsOK(calls', visit, "list", Null, uploads, versions)
      <3>1. CallOK(one, visit, "list", Null, uploads, versions)
        BY <2>7, <2>8 DEF CallOK
      <3>2. ASSUME NEW x \in K PROVE CallOK(x, visit, "list", Null, uploads, versions)
        <4>1. x.kind \notin {"content", "list", "preview", "history", "activate"}
          BY <2>2, <3>2 DEF ScreenInv, CallsOK, CallOK, Screen!Heard
        <4>2. QED
          BY <2>2, <4>1 DEF ScreenInv, CallsOK, CallOK
      <3>3. QED
        BY <2>6, <3>1, <3>2 DEF CallsOK
    <2>12. UploadsOK(calls', Null, s, last)
      <3>1. ASSUME NEW u \in calls', u.kind = "upload"
            PROVE  /\ u.draft # Null
                   /\ s # Null => s.draft # u.draft
                   /\ last # Null => last.draft # u.draft
                   /\ \A x \in calls' : x.draft = u.draft => x = u
        <4>1. u \in K
          BY <2>6, <2>7, <3>1
        <4>2. /\ u.draft # Null
              /\ stored # Null => stored.draft # u.draft
              /\ last # Null => last.draft # u.draft
              /\ \A x \in calls : x.draft = u.draft => x = u
          BY <2>2, <3>1, <4>1 DEF ScreenInv, UploadsOK, CallsOK, CallOK
        <4>3. QED
          BY <1>2, <2>2, <2>6, <2>7, <4>2
      <3>2. QED
        BY <3>1 DEF UploadsOK
    <2>13. AnswersOK(calls', live, givenUp \cup savedDrafts)
      BY <2>2, <2>6, <2>7 DEF ScreenInv, AnswersOK
    <2>14. StraysOK(calls', s, last)
      <3>1. stored # Null => stored.draft # Null
        BY Bounds DEF ScreenInv, HistT, MarkingT
      <3>2. QED
        BY <1>2, <2>2, <2>6, <2>7, <3>1 DEF ScreenInv, StraysOK
    <2>15. /\ MarkWaits(calls', visit, "list", Null, content', saving', discarding')
           /\ ListWaits(calls', visit, "list", uploading', activating', shown', listError')
           /\ PreviewOK(calls', visit, "list", marking', step', preview', previewKey')
           /\ DialogsOK("list", discardOpen', toActivate') /\ LastOK("list", Null, marking', last)
      BY <2>6, <2>7, <2>9, <2>10 DEF MarkWaits, ListWaits, PreviewOK, DialogsOK, Going, LastOK
    <2>16. QED
      BY <1>1, <1>4, <1>5, <1>6, <2>1, <2>5, <2>9, <2>10, <2>11, <2>12, <2>13, <2>14, <2>15
         DEF ScreenInv
  <1>8. CASE ~(c.visit = visit /\ page = "marking")
    <2>1. /\ calls' = calls \ {c}
          /\ UNCHANGED <<page, shownDraft, marking, step, content, known, replacing, saving,
                         discardOpen, discarding, preview, previewKey>>
          /\ UNCHANGED <<uploading, shown, listError, toActivate, activating>>
      BY <1>8 DEF Screen!Exit, Screen!Taken, Screen!editor, Screen!list
    <2> DEFINE D == calls \ {c}
    <2>2. D \in SUBSET calls
      OBVIOUS
    <2>3. CallsT(D)
      BY <2>2, FewerCalls DEF ScreenInv
    <2>4. CallsOK(D, visit, page, shownDraft, uploads, versions) /\ AnswersOK(D, live, givenUp \cup savedDrafts)
      BY <2>2, FewerKeep DEF ScreenInv
    <2>5. UploadsOK(D, shownDraft, s, last) /\ StraysOK(D, s, last)
      BY <1>2 DEF ScreenInv, UploadsOK, StraysOK
    <2>6. /\ MarkWaits(D, visit, page, shownDraft, content, saving, discarding)
          /\ PreviewOK(D, visit, page, marking, step, preview, previewKey)
      BY <1>8 DEF ScreenInv, MarkWaits, PreviewOK, Going
    <2>7. ListWaits(D, visit, page, uploading, activating, shown, listError)
      BY DEF ScreenInv, ListWaits, Going
    <2> HIDE DEF D
    <2>8. calls' = D
      BY <2>1 DEF D
    <2>9. QED
      BY <1>1, <1>4, <1>5, <1>6, <2>1, <2>3, <2>4, <2>5, <2>6, <2>7, <2>8 DEF ScreenInv
  <1>9. QED
    BY <1>7, <1>8


-----------------------------------------------------------------------------
(* The list *)

\* Some calls are over.
LEMMA TakenKeep ==
    ASSUME Screen!TemplatesScreenAssumption, ScreenInv, NEW D \in SUBSET calls
    PROVE  /\ CallsT(D) /\ CallsOK(D, visit, page, shownDraft, uploads, versions)
           /\ UploadsOK(D, shownDraft, stored, last) /\ AnswersOK(D, live, givenUp \cup savedDrafts)
           /\ StraysOK(D, stored, last)
  <1>1. CallsT(D)
    BY FewerCalls DEF ScreenInv
  <1>2. /\ CallsOK(D, visit, page, shownDraft, uploads, versions)
        /\ UploadsOK(D, shownDraft, stored, last) /\ AnswersOK(D, live, givenUp \cup savedDrafts)
        /\ StraysOK(D, stored, last)
    BY FewerKeep DEF ScreenInv
  <1>3. QED
    BY <1>1, <1>2

\* One is sent, and perhaps some others are over.
LEMMA SentKeep ==
    ASSUME Screen!TemplatesScreenAssumption, ScreenInv, NEW K \in SUBSET calls,
           NEW e \in CallSet, Screen!With(K, e),
           Speaks(e), CallOK(e, visit, page, shownDraft, uploads, versions),
           e.kind # "upload", e.answer = "wait",
           NEW given, givenUp \cup savedDrafts \subseteq given, e.kind = "cancel" => e.draft \in given
    PROVE  /\ CallsT(calls') /\ CallsOK(calls', visit, page, shownDraft, uploads, versions)
           /\ UploadsOK(calls', shownDraft, stored, last) /\ AnswersOK(calls', live, given)
           /\ StraysOK(calls', stored, last)
           /\ \E one \in CallSet : calls' = K \cup {one} /\ Same(one, e)
  <1>1. K \in SUBSET CallSet /\ IsFiniteSet(K)
    BY FewerCalls DEF ScreenInv
  <1>2. /\ CallsT(calls')
        /\ \E one \in CallSet : /\ calls' = K \cup {one} /\ Same(one, e)
                                /\ one.answer = e.answer /\ one.version = e.version
    BY <1>1, WithIs
  <1>3. PICK one \in CallSet : /\ calls' = K \cup {one} /\ Same(one, e)
                               /\ one.answer = e.answer /\ one.version = e.version
    BY <1>2
  <1>4. /\ Speaks(one) /\ CallOK(one, visit, page, shownDraft, uploads, versions)
        /\ one.kind # "upload" /\ one.answer = "wait" /\ (one.kind = "cancel" => one.draft \in given)
    BY <1>3 DEF Speaks, CallOK, Same
  <1> DEFINE D == K \cup {one}
  <1>5. D = K \cup {one}
    OBVIOUS
  <1> HIDE DEF D
  <1>6. /\ CallsOK(D, visit, page, shownDraft, uploads, versions)
        /\ UploadsOK(D, shownDraft, stored, last)
        /\ AnswersOK(D, live, given)
        /\ StraysOK(D, stored, last)
    BY <1>4, <1>5, MoreKeep
  <1>7. calls' = D
    BY <1>3, <1>5
  <1>8. QED
    BY <1>2, <1>3, <1>6, <1>7

\* What waits goes on waiting when one more is sent.
LEMMA MoreWait ==
    ASSUME ScreenInv, NEW one, NEW D, D = calls \cup {one}, one.kind # "preview"
    PROVE  /\ MarkWaits(D, visit, page, shownDraft, content, saving, discarding)
           /\ ListWaits(D, visit, page, uploading, activating, shown, listError)
           /\ PreviewOK(D, visit, page, marking, step, preview, previewKey)
  <1>1. MarkWaits(D, visit, page, shownDraft, content, saving, discarding)
    BY DEF ScreenInv, MarkWaits, Going
  <1>2. ListWaits(D, visit, page, uploading, activating, shown, listError)
    BY DEF ScreenInv, ListWaits, Going
  <1>3. PreviewOK(D, visit, page, marking, step, preview, previewKey)
    BY DEF ScreenInv, PreviewOK, Going
  <1>4. QED
    BY <1>1, <1>2, <1>3

LEMMA UploadKeeps ==
    ASSUME Screen!TemplatesScreenAssumption, ScreenInv, Screen!Upload
    PROVE  ScreenInv'
  <1> DEFINE e == Screen!Call("upload", uploads + 1, Blank)
  <1>1. /\ page = "list" /\ uploads < MaxDrafts /\ uploads' = uploads + 1 /\ uploading' = TRUE
        /\ Screen!With(calls, e)
        /\ UNCHANGED <<live, versions, active, made, stored, page, visit, shownDraft, marking, step,
                       content, known, replacing, saving, discardOpen, discarding, preview,
                       previewKey, shown, listError, toActivate, activating, last, givenUp, savedDrafts,
                       strays, screenFaults>>
    BY DEF Screen!Upload, Screen!Send, Screen!backend, Screen!editor
  <1>2. uploads \in Nat /\ uploads + 1 \in 1 .. MaxDrafts /\ versions \in Nat
        /\ uploads + 1 \in Screen!DraftIds /\ uploads + 1 # Null /\ uploads + 1 \notin 1 .. uploads
    BY <1>1, Bounds DEF ScreenInv, HistT, BackT, Screen!Versions
  <1>3. /\ e \in CallSet /\ e.kind = "upload" /\ e.visit = visit /\ e.draft = uploads + 1
        /\ e.answer = "wait" /\ e.version = 0
    <2>1. /\ "upload" \in Screen!Kinds /\ uploads + 1 \in Screen!DraftIds \cup {Null}
          /\ Blank \in Markings /\ visit \in 1 .. MaxVisits
      BY <1>2, Bounds DEF Screen!Kinds, ScreenInv, HistT
    <2>2. QED
      BY <2>1, CallIs
  <1> HIDE DEF e
  <1>4. calls \in SUBSET CallSet /\ IsFiniteSet(calls)
    BY DEF ScreenInv, CallsT
  <1>5. /\ CallsT(calls')
        /\ \E one \in CallSet : /\ calls' = calls \cup {one} /\ Same(one, e)
                                /\ one.answer = e.answer /\ one.version = e.version
    BY <1>1, <1>3, <1>4, WithIs
  <1>6. PICK one \in CallSet : /\ calls' = calls \cup {one} /\ Same(one, e)
                               /\ one.answer = e.answer /\ one.version = e.version
    BY <1>5
  <1>7. /\ one.kind = "upload" /\ one.visit = visit /\ one.draft = uploads + 1
        /\ one.answer = "wait" /\ one.version = 0
    BY <1>3, <1>6 DEF Same
  <1>8. \A x \in calls : x.draft # uploads + 1
    BY <1>2 DEF ScreenInv, CallsOK, CallOK
  <1>9. CallsOK(calls', visit, page, shownDraft, uploads + 1, versions)
    <2>1. CallOK(one, visit, page, shownDraft, uploads + 1, versions)
      BY <1>2, <1>7 DEF CallOK
    <2>2. ASSUME NEW x \in calls PROVE CallOK(x, visit, page, shownDraft, uploads + 1, versions)
      BY <1>2 DEF ScreenInv, CallsOK, CallOK
    <2>3. QED
      BY <1>6, <2>1, <2>2 DEF CallsOK
  <1>10. shownDraft # uploads + 1 /\ (stored # Null => stored.draft # uploads + 1)
         /\ (last # Null => last.draft # uploads + 1)
    BY <1>2 DEF ScreenInv, DraftsOK
  <1>11. UploadsOK(calls', shownDraft, stored, last)
    <2>1. UploadsOK(calls, shownDraft, stored, last)
      BY DEF ScreenInv
    <2>2. QED
      BY <1>6, <1>7, <1>8, <1>10, <2>1 DEF UploadsOK
  <1>12. DraftsOK(shownDraft, stored, last, uploads + 1)
    BY <1>2 DEF ScreenInv, DraftsOK
  <1>13. AnswersOK(calls', live, givenUp \cup savedDrafts) /\ StraysOK(calls', stored, last)
    BY <1>6, <1>7, <1>10 DEF ScreenInv, AnswersOK, StraysOK
  <1>14. /\ MarkWaits(calls', visit, page, shownDraft, content, saving, discarding)
         /\ ListWaits(calls', visit, page, uploading', activating, shown, listError)
         /\ PreviewOK(calls', visit, page, marking, step, preview, previewKey)
    <2>1. /\ MarkWaits(calls', visit, page, shownDraft, content, saving, discarding)
          /\ PreviewOK(calls', visit, page, marking, step, preview, previewKey)
      BY <1>6, <1>7, MoreWait
    <2>2. ListWaits(calls', visit, page, uploading', activating, shown, listError)
      BY <1>1, <1>6, <1>7 DEF ScreenInv, ListWaits, Going
    <2>3. QED
      BY <2>1, <2>2
  <1>15. ListT(uploading', shown, listError, toActivate, activating, versions)
    BY <1>1 DEF ScreenInv, ListT
  <1>16. HistT(stored, visit, last, givenUp \cup savedDrafts, strays, uploads + 1, screenFaults)
    BY <1>2 DEF ScreenInv, HistT
  <1>17. QED
    BY <1>1, <1>5, <1>9, <1>11, <1>12, <1>13, <1>14, <1>15, <1>16 DEF ScreenInv


LEMMA DeliverUploadKeeps ==
    ASSUME Screen!TemplatesScreenAssumption, ScreenInv, NEW c \in calls, Screen!DeliverUpload(c)
    PROVE  ScreenInv'
  <1> DEFINE K == calls \ {c}
             s == [draft |-> c.draft, marking |-> Blank]
  <1>1. /\ c.kind = "upload" /\ c.draft \in 1 .. uploads /\ c.draft \in Screen!DraftIds
        /\ c.draft # shownDraft /\ c.draft # Null
        /\ stored # Null => stored.draft # c.draft
        /\ last # Null => last.draft # c.draft
        /\ \A x \in calls : x.draft = c.draft => x = c
        /\ UNCHANGED <<live, versions, active, made, visit, givenUp, savedDrafts, uploads, screenFaults>>
    <2>1. /\ c.kind = "upload"
          /\ UNCHANGED <<live, versions, active, made, visit, givenUp, savedDrafts, uploads,
                         screenFaults>>
      BY DEF Screen!DeliverUpload, Screen!backend
    <2>2. /\ c.draft # shownDraft
          /\ stored # Null => stored.draft # c.draft
          /\ last # Null => last.draft # c.draft
          /\ \A x \in calls : x.draft = c.draft => x = c
      BY <2>1 DEF ScreenInv, UploadsOK
    <2>3. c.draft \in 1 .. uploads /\ c.draft # Null
      BY <2>1 DEF ScreenInv, CallsOK, CallOK
    <2>4. c.draft \in Screen!DraftIds
      BY <2>3 DEF ScreenInv, CallsT, CallSet
    <2>5. QED
      BY <2>1, <2>2, <2>3, <2>4
  <1>2. /\ K \in SUBSET calls
        /\ CallsT(K) /\ CallsOK(K, visit, page, shownDraft, uploads, versions)
        /\ UploadsOK(K, shownDraft, stored, last) /\ AnswersOK(K, live, givenUp \cup savedDrafts)
        /\ StraysOK(K, stored, last)
    BY TakenKeep
  <1>3. /\ s \in [draft : Screen!DraftIds, marking : Markings] /\ s # Null
        /\ s.draft = c.draft /\ s.marking = Blank
    BY <1>1, Bounds
  <1>4. versions \in Nat
    BY DEF ScreenInv, BackT, Screen!Versions
  <1> HIDE DEF s
  <1>5. CASE c.answer = "ok" /\ c.visit = visit /\ page = "list"
    <2> DEFINE a == Screen!Call("content", c.draft, Blank)
               b == Screen!Call("list", c.draft, Blank)
    <2>1. /\ stored' = s /\ page' = "marking" /\ Screen!ResetEditor(c.draft, Blank)
          /\ Screen!ResetList /\ Screen!SendBoth(K, {a, b}) /\ last' = s /\ strays' = strays
      BY <1>5 DEF Screen!DeliverUpload, Screen!MarkingOf, Screen!Opening, s
    <2>2. /\ a \in CallSet /\ a.kind = "content" /\ a.visit = visit /\ a.draft = c.draft
          /\ a.answer = "wait" /\ a.version = 0
          /\ b \in CallSet /\ b.kind = "list" /\ b.visit = visit /\ b.draft = c.draft
          /\ b.answer = "wait" /\ b.version = 0
      <3>1. /\ "content" \in Screen!Kinds /\ "list" \in Screen!Kinds
            /\ c.draft \in Screen!DraftIds \cup {Null} /\ Blank \in Markings
            /\ visit \in 1 .. MaxVisits
        BY <1>1, Bounds DEF Screen!Kinds, ScreenInv, HistT
      <3>2. /\ a \in CallSet /\ a.kind = "content" /\ a.visit = visit /\ a.draft = c.draft
            /\ a.answer = "wait" /\ a.version = 0
        BY <3>1, CallIs
      <3>3. /\ b \in CallSet /\ b.kind = "list" /\ b.visit = visit /\ b.draft = c.draft
            /\ b.answer = "wait" /\ b.version = 0
        BY <3>1, CallIs
      <3>4. QED
        BY <3>2, <3>3
    <2> HIDE DEF a, b
    <2>3. CallsT(calls') /\ calls' = K \cup {a, b}
      <3>1. K \in SUBSET CallSet /\ IsFiniteSet(K)
        BY <1>2 DEF CallsT
      <3>2. QED
        BY <2>1, <2>2, <3>1, SendBothIs
    <2>4. /\ EditorT(page', shownDraft', marking', step', content', known', replacing', saving',
                     discardOpen', discarding', preview', previewKey')
          /\ shownDraft' = c.draft /\ marking' = Blank /\ step' = "mark" /\ ~saving' /\ ~discarding'
          /\ ~discardOpen' /\ preview'.status = "loading" /\ previewKey' = Null
      BY <1>1, <2>1, Bounds, EditorIs
    <2>5. /\ ListT(uploading', shown', listError', toActivate', activating', versions)
          /\ ~uploading' /\ ~activating' /\ toActivate' = 0
      BY <1>4, <2>1, ListIs
    <2>6. CallsOK(calls', visit, "marking", c.draft, uploads, versions)
      <3>1. CallOK(a, visit, "marking", c.draft, uploads, versions)
        BY <1>1, <1>4, <2>2 DEF CallOK
      <3>2. CallOK(b, visit, "marking", c.draft, uploads, versions)
        BY <1>1, <1>4, <2>2 DEF CallOK
      <3>3. ASSUME NEW x \in K PROVE CallOK(x, visit, "marking", c.draft, uploads, versions)
        BY <1>5, <3>3 DEF ScreenInv, CallsOK, CallOK
      <3>4. QED
        BY <2>3, <3>1, <3>2, <3>3 DEF CallsOK
    <2>7. UploadsOK(calls', c.draft, s, s)
      <3>1. ASSUME NEW u \in calls', u.kind = "upload"
            PROVE  /\ u.draft # c.draft
                   /\ \A x \in calls' : x.draft = u.draft => x = u
        <4>1. u \in calls /\ u # c
          BY <2>2, <2>3, <3>1
        <4>2. u.draft # c.draft
          BY <1>1, <4>1
        <4>3. \A x \in calls : x.draft = u.draft => x = u
          BY <3>1, <4>1 DEF ScreenInv, UploadsOK
        <4>4. QED
          BY <2>2, <2>3, <4>2, <4>3
      <3>2. QED
        BY <1>3, <3>1 DEF UploadsOK
    <2>8. AnswersOK(calls', live, givenUp \cup savedDrafts)
      BY <1>2, <2>2, <2>3 DEF AnswersOK
    <2>9. StraysOK(calls', s, s) /\ KeptOK(s, s, live, givenUp \cup savedDrafts, strays)
      BY DEF StraysOK, KeptOK
    <2>10. LastOK("marking", c.draft, Blank, s) /\ DraftsOK(c.draft, s, s, uploads)
      BY <1>1, <1>3 DEF LastOK, DraftsOK, s
    <2>11. HistT(s, visit, s, givenUp \cup savedDrafts, strays, uploads, screenFaults)
      BY <1>3 DEF ScreenInv, HistT, MarkingT
    <2>12. /\ MarkWaits(calls', visit, "marking", c.draft, content', saving', discarding')
           /\ ListWaits(calls', visit, "marking", uploading', activating', shown', listError')
           /\ DialogsOK("marking", discardOpen', toActivate')
      BY <2>2, <2>3, <2>4 DEF MarkWaits, ListWaits, DialogsOK, Going
    <2>13. PreviewOK(calls', visit, "marking", Blank, "mark", preview', previewKey')
      <3>1. \A x \in calls' : x.kind # "preview"
        BY <1>5, <2>2, <2>3 DEF ScreenInv, CallsOK, CallOK
      <3>2. QED
        BY <2>4, <3>1 DEF PreviewOK
    <2>14. QED
      BY <1>1, <2>1, <2>3, <2>4, <2>5, <2>6, <2>7, <2>8, <2>9, <2>10, <2>11, <2>12, <2>13
         DEF ScreenInv
  <1>6. CASE c.answer = "ok" /\ ~(c.visit = visit /\ page = "list")
    <2>1. /\ stored' = s /\ calls' = K /\ strays' = strays \cup {c.draft} /\ last' = last
          /\ UNCHANGED <<page, shownDraft, marking, step, content, known, replacing, saving,
                         discardOpen, discarding, preview, previewKey>>
          /\ UNCHANGED <<uploading, shown, listError, toActivate, activating>>
      BY <1>6 DEF Screen!DeliverUpload, Screen!MarkingOf, Screen!Taken, Screen!editor, Screen!list, s
    <2>2. UploadsOK(K, shownDraft, s, last)
      BY <1>1, <1>2, <1>3 DEF UploadsOK
    <2>3. StraysOK(K, s, last)
      BY <1>1, <1>3 DEF StraysOK
    <2>4. KeptOK(s, last, live, givenUp \cup savedDrafts, strays \cup {c.draft})
      BY <1>3 DEF KeptOK
    <2>5. DraftsOK(shownDraft, s, last, uploads)
      BY <1>1, <1>3 DEF ScreenInv, DraftsOK
    <2>6. HistT(s, visit, last, givenUp \cup savedDrafts, strays \cup {c.draft}, uploads, screenFaults)
      BY <1>1, <1>3 DEF ScreenInv, HistT, MarkingT
    <2>7. /\ MarkWaits(K, visit, page, shownDraft, content, saving, discarding)
          /\ PreviewOK(K, visit, page, marking, step, preview, previewKey)
      BY <1>1 DEF ScreenInv, MarkWaits, PreviewOK, Going
    <2>8. ListWaits(K, visit, page, uploading, activating, shown, listError)
      BY <1>6 DEF ScreenInv, ListWaits, Going
    <2> HIDE DEF K
    <2>9. QED
      BY <1>1, <1>2, <2>1, <2>2, <2>3, <2>4, <2>5, <2>6, <2>7, <2>8 DEF ScreenInv
  <1>7. CASE c.answer = "fail"
    <2>1. /\ uploading' = (IF c.visit = visit /\ page = "list" THEN FALSE ELSE uploading)
          /\ calls' = K
          /\ UNCHANGED <<stored, page, shownDraft, marking, step, content, known, replacing, saving,
                         discardOpen, discarding, preview, previewKey, shown, listError, toActivate,
                         activating, last, strays>>
      BY <1>7 DEF Screen!DeliverUpload, Screen!Taken, Screen!editor
    <2>2. /\ MarkWaits(K, visit, page, shownDraft, content, saving, discarding)
          /\ PreviewOK(K, visit, page, marking, step, preview, previewKey)
      BY <1>1 DEF ScreenInv, MarkWaits, PreviewOK, Going
    <2>3. ListWaits(K, visit, page, uploading', activating, shown, listError)
      BY <1>1, <2>1 DEF ScreenInv, ListWaits, Going
    <2>4. ListT(uploading', shown, listError, toActivate, activating, versions)
      BY <2>1 DEF ScreenInv, ListT
    <2> HIDE DEF K
    <2>5. QED
      BY <1>1, <1>2, <2>1, <2>2, <2>3, <2>4 DEF ScreenInv
  <1>8. QED
    BY <1>5, <1>6, <1>7 DEF Screen!DeliverUpload

LEMMA DeliverHistoryKeeps ==
    ASSUME Screen!TemplatesScreenAssumption, ScreenInv, NEW c \in calls, Screen!DeliverHistory(c)
    PROVE  ScreenInv'
  <1> DEFINE K == calls \ {c}
  <1>1. /\ c.kind = "history" /\ calls' = K
        /\ IF c.answer = "ok" THEN shown' = c.version /\ listError' = FALSE
                              ELSE listError' = TRUE /\ shown' = shown
        /\ UNCHANGED <<live, versions, active, made, stored, page, visit, shownDraft, marking, step,
                       content, known, replacing, saving, discardOpen, discarding, preview,
                       previewKey, uploading, toActivate, activating, last, givenUp, savedDrafts, strays,
                       uploads, screenFaults>>
    BY DEF Screen!DeliverHistory, Screen!Taken, Screen!backend, Screen!editor, Screen!history
  <1>2. /\ K \in SUBSET calls
        /\ CallsT(K) /\ CallsOK(K, visit, page, shownDraft, uploads, versions)
        /\ UploadsOK(K, shownDraft, stored, last) /\ AnswersOK(K, live, givenUp \cup savedDrafts)
        /\ StraysOK(K, stored, last)
    BY TakenKeep
  <1>3. c.version \in Screen!Versions /\ c.version <= versions /\ c.version # Null
    <2>1. c.version \in Screen!Versions /\ c.version <= versions
      BY DEF ScreenInv, CallsT, CallSet, CallsOK, CallOK
    <2>2. QED
      BY <2>1, Bounds
  <1>4. ListT(uploading, shown', listError', toActivate, activating, versions)
    BY <1>1, <1>3 DEF ScreenInv, ListT
  <1>5. /\ MarkWaits(K, visit, page, shownDraft, content, saving, discarding)
        /\ PreviewOK(K, visit, page, marking, step, preview, previewKey)
    BY <1>1 DEF ScreenInv, MarkWaits, PreviewOK, Going
  <1>6. ListWaits(K, visit, page, uploading, activating, shown', listError')
    BY <1>1, <1>3 DEF ScreenInv, ListWaits, Going
  <1> HIDE DEF K
  <1>7. QED
    BY <1>1, <1>2, <1>4, <1>5, <1>6 DEF ScreenInv


\* The history is asked for again, after an answer or not.
LEMMA HistoryAsked ==
    ASSUME Screen!TemplatesScreenAssumption, ScreenInv, NEW K \in SUBSET calls, page # "away",
           Screen!With(K, Screen!Call("history", Null, Blank))
    PROVE  /\ CallsT(calls') /\ CallsOK(calls', visit, page, shownDraft, uploads, versions)
           /\ UploadsOK(calls', shownDraft, stored, last)
           /\ AnswersOK(calls', live, givenUp \cup savedDrafts)
           /\ StraysOK(calls', stored, last)
           /\ \E one \in CallSet : /\ calls' = K \cup {one}
                                   /\ one.kind = "history" /\ one.visit = visit
  <1> DEFINE e == Screen!Call("history", Null, Blank)
  <1>1. /\ e \in CallSet /\ e.kind = "history" /\ e.visit = visit /\ e.draft = Null
        /\ e.answer = "wait" /\ e.version = 0
    <2>1. /\ "history" \in Screen!Kinds /\ Null \in Screen!DraftIds \cup {Null}
          /\ Blank \in Markings /\ visit \in 1 .. MaxVisits
      BY Bounds DEF Screen!Kinds, ScreenInv, HistT
    <2>2. QED
      BY <2>1, CallIs
  <1>2. Screen!With(K, e)
    OBVIOUS
  <1> HIDE DEF e
  <1>3. versions \in Nat
    BY DEF ScreenInv, BackT, Screen!Versions
  <1>4. Speaks(e) /\ CallOK(e, visit, page, shownDraft, uploads, versions)
    BY <1>1, <1>3 DEF Speaks, CallOK
  <1>5. /\ CallsT(calls') /\ CallsOK(calls', visit, page, shownDraft, uploads, versions)
        /\ UploadsOK(calls', shownDraft, stored, last)
        /\ AnswersOK(calls', live, givenUp \cup savedDrafts)
        /\ StraysOK(calls', stored, last)
        /\ \E one \in CallSet : calls' = K \cup {one} /\ Same(one, e)
    BY <1>1, <1>2, <1>4, SentKeep
  <1>6. QED
    BY <1>1, <1>5 DEF Same

LEMMA ListKeeps ==
    ASSUME Screen!TemplatesScreenAssumption, ScreenInv,
           Screen!Reload \/ Screen!CloseActivate \/ \E v \in 1 .. MaxVersions : Screen!AskToActivate(v)
    PROVE  ScreenInv'
  <1>1. UNCHANGED <<live, versions, active, made, stored, page, visit, shownDraft, marking, step,
                    content, known, replacing, saving, discardOpen, discarding, preview,
                    previewKey, uploading, shown, listError, activating, last, givenUp, savedDrafts,
                    strays, uploads, screenFaults>>
    BY DEF Screen!Reload, Screen!CloseActivate, Screen!AskToActivate, Screen!backend,
           Screen!editor, Screen!list, Screen!history
  <1>2. CASE Screen!Reload
    <2>1. /\ page = "list" /\ toActivate' = toActivate
          /\ Screen!With(calls, Screen!Call("history", Null, Blank))
      BY <1>2 DEF Screen!Reload, Screen!Send, Screen!list
    <2>2. /\ CallsT(calls') /\ CallsOK(calls', visit, page, shownDraft, uploads, versions)
          /\ UploadsOK(calls', shownDraft, stored, last)
          /\ AnswersOK(calls', live, givenUp \cup savedDrafts)
          /\ StraysOK(calls', stored, last)
          /\ \E one \in CallSet : /\ calls' = calls \cup {one}
                                  /\ one.kind = "history" /\ one.visit = visit
      BY <2>1, HistoryAsked
    <2>3. /\ MarkWaits(calls', visit, page, shownDraft, content, saving, discarding)
          /\ ListWaits(calls', visit, page, uploading, activating, shown, listError)
          /\ PreviewOK(calls', visit, page, marking, step, preview, previewKey)
      <3>1. PICK one \in CallSet : /\ calls' = calls \cup {one}
                                   /\ one.kind = "history" /\ one.visit = visit
        BY <2>2
      <3>2. QED
        BY <3>1, MoreWait
    <2>4. QED
      BY <1>1, <2>1, <2>2, <2>3 DEF ScreenInv
  <1>3. CASE \/ Screen!CloseActivate
             \/ \E v \in 1 .. MaxVersions : Screen!AskToActivate(v)
    <2>1. /\ calls' = calls
          /\ \/ toActivate' = 0
             \/ page = "list" /\ shown # Null /\ toActivate' \in 1 .. shown
      BY <1>3 DEF Screen!CloseActivate, Screen!AskToActivate
    <2>2. /\ versions \in Nat /\ versions <= MaxVersions /\ MaxVersions \in Nat
          /\ shown # Null => shown \in Nat /\ shown <= versions
      BY Bounds DEF ScreenInv, BackT, ListT, Screen!Versions
    <2>3. toActivate' \in Screen!Versions /\ toActivate' <= versions
      BY <2>1, <2>2 DEF Screen!Versions
    <2>4. ListT(uploading, shown, listError, toActivate', activating, versions)
      BY <2>3 DEF ScreenInv, ListT
    <2>5. DialogsOK(page, discardOpen, toActivate')
      BY <2>1 DEF ScreenInv, DialogsOK
    <2>6. QED
      BY <1>1, <2>1, <2>4, <2>5 DEF ScreenInv
  <1>4. QED
    BY <1>2, <1>3

LEMMA ActivateKeeps ==
    ASSUME Screen!TemplatesScreenAssumption, ScreenInv, Screen!Activate
    PROVE  ScreenInv'
  <1> DEFINE e == [Screen!Call("activate", Null, Blank) EXCEPT !.version = toActivate]
  <1>1. /\ toActivate # 0 /\ activating' = TRUE /\ Screen!With(calls, e)
        /\ UNCHANGED <<live, versions, active, made, stored, page, visit, shownDraft, marking, step,
                       content, known, replacing, saving, discardOpen, discarding, preview,
                       previewKey, uploading, shown, listError, toActivate, last, givenUp, savedDrafts,
                       strays, uploads, screenFaults>>
    BY DEF Screen!Activate, Screen!Send, Screen!backend, Screen!editor, Screen!history
  <1>2. toActivate \in Screen!Versions /\ toActivate <= versions /\ page # "away"
    BY <1>1 DEF ScreenInv, ListT, DialogsOK
  <1>3. /\ e \in CallSet /\ e.kind = "activate" /\ e.visit = visit /\ e.draft = Null
        /\ e.answer = "wait" /\ e.version = toActivate
    <2> DEFINE f == Screen!Call("activate", Null, Blank)
    <2>1. /\ "activate" \in Screen!Kinds /\ Null \in Screen!DraftIds \cup {Null}
          /\ Blank \in Markings /\ visit \in 1 .. MaxVisits
      BY Bounds DEF Screen!Kinds, ScreenInv, HistT
    <2>2. /\ f \in CallSet /\ f.kind = "activate" /\ f.visit = visit /\ f.draft = Null
          /\ f.answer = "wait"
      BY <2>1, CallIs
    <2>3. e = [f EXCEPT !.version = toActivate]
      OBVIOUS
    <2> HIDE DEF f, e
    <2>4. QED
      BY <1>2, <2>2, <2>3 DEF CallSet
  <1> HIDE DEF e
  <1>4. Speaks(e) /\ CallOK(e, visit, page, shownDraft, uploads, versions)
    BY <1>2, <1>3 DEF Speaks, CallOK
  <1>5. /\ CallsT(calls') /\ CallsOK(calls', visit, page, shownDraft, uploads, versions)
        /\ UploadsOK(calls', shownDraft, stored, last)
        /\ AnswersOK(calls', live, givenUp \cup savedDrafts)
        /\ StraysOK(calls', stored, last)
        /\ \E one \in CallSet : calls' = calls \cup {one} /\ Same(one, e)
    BY <1>1, <1>3, <1>4, SentKeep
  <1>6. PICK one \in CallSet : /\ calls' = calls \cup {one}
                               /\ one.kind = "activate" /\ one.visit = visit
    BY <1>3, <1>5 DEF Same
  <1>7. /\ MarkWaits(calls', visit, page, shownDraft, content, saving, discarding)
        /\ PreviewOK(calls', visit, page, marking, step, preview, previewKey)
    BY <1>6, MoreWait
  <1>8. ListWaits(calls', visit, page, uploading, activating', shown, listError)
    BY <1>1, <1>6 DEF ScreenInv, ListWaits, Going
  <1>9. ListT(uploading, shown, listError, toActivate, activating', versions)
    BY <1>1 DEF ScreenInv, ListT
  <1>10. QED
    BY <1>1, <1>5, <1>7, <1>8, <1>9 DEF ScreenInv

LEMMA DeliverActivateKeeps ==
    ASSUME Screen!TemplatesScreenAssumption, ScreenInv, NEW c \in calls, Screen!DeliverActivate(c)
    PROVE  ScreenInv'
  <1> DEFINE K == calls \ {c}
  <1>1. /\ c.kind = "activate" /\ activating' = FALSE /\ page # "away"
        /\ UNCHANGED <<live, versions, active, made, stored, page, visit, shownDraft, marking, step,
                       content, known, replacing, saving, discardOpen, discarding, preview,
                       previewKey, uploading, shown, listError, last, givenUp, savedDrafts,
                       strays, uploads, screenFaults>>
    BY DEF Screen!DeliverActivate, Screen!backend, Screen!editor, Screen!history,
           ScreenInv, CallsOK, CallOK
  <1>2. /\ K \in SUBSET calls
        /\ CallsT(K) /\ CallsOK(K, visit, page, shownDraft, uploads, versions)
        /\ UploadsOK(K, shownDraft, stored, last) /\ AnswersOK(K, live, givenUp \cup savedDrafts)
        /\ StraysOK(K, stored, last)
    BY TakenKeep
  <1>3. /\ MarkWaits(K, visit, page, shownDraft, content, saving, discarding)
        /\ ListWaits(K, visit, page, uploading, activating', shown, listError)
        /\ PreviewOK(K, visit, page, marking, step, preview, previewKey)
    BY <1>1 DEF ScreenInv, MarkWaits, ListWaits, PreviewOK, Going
  <1>4. 0 \in Screen!Versions /\ 0 <= versions
    BY Bounds DEF ScreenInv, BackT, Screen!Versions
  <1>5. CASE c.answer = "ok"
    <2>1. toActivate' = 0 /\ Screen!With(K, Screen!Call("history", Null, Blank))
      BY <1>5 DEF Screen!DeliverActivate
    <2> HIDE DEF K
    <2>2. /\ CallsT(calls') /\ CallsOK(calls', visit, page, shownDraft, uploads, versions)
          /\ UploadsOK(calls', shownDraft, stored, last)
          /\ AnswersOK(calls', live, givenUp \cup savedDrafts)
          /\ StraysOK(calls', stored, last)
          /\ \E one \in CallSet : /\ calls' = K \cup {one}
                                  /\ one.kind = "history" /\ one.visit = visit
      BY <1>1, <1>2, <2>1, HistoryAsked
    <2>3. /\ MarkWaits(calls', visit, page, shownDraft, content, saving, discarding)
          /\ ListWaits(calls', visit, page, uploading, activating', shown, listError)
          /\ PreviewOK(calls', visit, page, marking, step, preview, previewKey)
      BY <1>3, <2>2 DEF MarkWaits, ListWaits, PreviewOK, Going
    <2>4. ListT(uploading, shown, listError, toActivate', activating', versions)
      BY <1>1, <1>4, <2>1 DEF ScreenInv, ListT
    <2>5. DialogsOK(page, discardOpen, toActivate')
      BY <2>1 DEF ScreenInv, DialogsOK
    <2>6. QED
      BY <1>1, <2>2, <2>3, <2>4, <2>5 DEF ScreenInv
  <1>6. CASE c.answer # "ok"
    <2>1. toActivate' = toActivate /\ calls' = K
      BY <1>6 DEF Screen!DeliverActivate, Screen!Taken
    <2>2. ListT(uploading, shown, listError, toActivate, activating', versions)
      BY <1>1 DEF ScreenInv, ListT
    <2> HIDE DEF K
    <2>3. QED
      BY <1>1, <1>2, <1>3, <2>1, <2>2 DEF ScreenInv
  <1>7. QED
    BY <1>5, <1>6


-----------------------------------------------------------------------------
(* The marking *)

\* The draft of an answer that says it is gone is.
LEMMA GoneIsGone ==
    ASSUME ScreenInv, NEW c \in calls,
           \/ c.answer = "gone"
           \/ c.kind = "save" /\ c.answer = "ok"
           \/ c.kind = "cancel"
    PROVE  c.draft \notin live \ (givenUp \cup savedDrafts)
  BY DEF ScreenInv, AnswersOK

LEMMA DeliverContentKeeps ==
    ASSUME Screen!TemplatesScreenAssumption, ScreenInv, NEW c \in calls, Screen!DeliverContent(c)
    PROVE  ScreenInv'
  <1> DEFINE K == calls \ {c}
  <1>1. CASE c.answer = "gone" /\ Screen!Exit(c)
    BY <1>1, GoneIsGone, ExitKeeps DEF Screen!DeliverContent
  <1>2. CASE c.answer \in {"ok", "fail"}
    <2>1. /\ c.kind = "content" /\ calls' = K /\ content' \in {"ready", "error"}
          /\ UNCHANGED <<live, versions, active, made, stored, page, visit, shownDraft, marking, step,
                         known, replacing, saving, discardOpen, discarding, preview,
                         previewKey, uploading, shown, listError, toActivate, activating,
                         last, givenUp, savedDrafts, strays, uploads, screenFaults>>
      BY <1>2 DEF Screen!DeliverContent, Screen!Taken, Screen!backend, Screen!list, Screen!history
    <2>2. /\ K \in SUBSET calls
          /\ CallsT(K) /\ CallsOK(K, visit, page, shownDraft, uploads, versions)
          /\ UploadsOK(K, shownDraft, stored, last) /\ AnswersOK(K, live, givenUp \cup savedDrafts)
          /\ StraysOK(K, stored, last)
      BY TakenKeep
    <2>3. /\ MarkWaits(K, visit, page, shownDraft, content', saving, discarding)
          /\ ListWaits(K, visit, page, uploading, activating, shown, listError)
          /\ PreviewOK(K, visit, page, marking, step, preview, previewKey)
      BY <2>1 DEF ScreenInv, MarkWaits, ListWaits, PreviewOK, Going
    <2>4. EditorT(page, shownDraft, marking, step, content', known, replacing, saving,
                  discardOpen, discarding, preview, previewKey)
      BY <2>1 DEF ScreenInv, EditorT
    <2> HIDE DEF K
    <2>5. QED
      BY <2>1, <2>2, <2>3, <2>4 DEF ScreenInv
  <1>3. QED
    BY <1>1, <1>2 DEF Screen!DeliverContent

LEMMA RetryKeeps ==
    ASSUME Screen!TemplatesScreenAssumption, ScreenInv, Screen!Retry
    PROVE  ScreenInv'
  <1> DEFINE K == Screen!Unheard({"content", "list"})
             a == Screen!Call("content", shownDraft, Blank)
             b == Screen!Call("list", shownDraft, Blank)
  <1>1. /\ page = "marking" /\ content' = "loading" /\ Screen!SendBoth(K, {a, b})
        /\ UNCHANGED <<live, versions, active, made, stored, page, visit, shownDraft, marking, step,
                       known, replacing, saving, discardOpen, discarding, preview,
                       previewKey, uploading, shown, listError, toActivate, activating,
                       last, givenUp, savedDrafts, strays, uploads, screenFaults>>
    BY DEF Screen!Retry, Screen!Opening, Screen!backend, Screen!list, Screen!history
  <1>2. /\ K \in SUBSET calls
        /\ \A x \in calls : x.kind \notin {"content", "list"} => x \in K
    BY DEF Screen!Unheard
  <1>3. /\ shownDraft \in Screen!DraftIds /\ shownDraft # Null /\ shownDraft \in 1 .. uploads
        /\ versions \in Nat
    BY <1>1 DEF ScreenInv, EditorT, DraftsOK, BackT, Screen!Versions
  <1>4. /\ a \in CallSet /\ a.kind = "content" /\ a.visit = visit /\ a.draft = shownDraft
        /\ a.answer = "wait" /\ a.version = 0
        /\ b \in CallSet /\ b.kind = "list" /\ b.visit = visit /\ b.draft = shownDraft
        /\ b.answer = "wait" /\ b.version = 0
    <2>1. /\ "content" \in Screen!Kinds /\ "list" \in Screen!Kinds
          /\ shownDraft \in Screen!DraftIds \cup {Null} /\ Blank \in Markings
          /\ visit \in 1 .. MaxVisits
      BY <1>3, Bounds DEF Screen!Kinds, ScreenInv, HistT
    <2>2. /\ a \in CallSet /\ a.kind = "content" /\ a.visit = visit /\ a.draft = shownDraft
          /\ a.answer = "wait" /\ a.version = 0
      BY <2>1, CallIs
    <2>3. /\ b \in CallSet /\ b.kind = "list" /\ b.visit = visit /\ b.draft = shownDraft
          /\ b.answer = "wait" /\ b.version = 0
      BY <2>1, CallIs
    <2>4. QED
      BY <2>2, <2>3
  <1> HIDE DEF K, a, b
  <1>5. CallsT(calls') /\ calls' = K \cup {a, b}
    <2>1. K \in SUBSET CallSet /\ IsFiniteSet(K)
      BY <1>2, FewerCalls DEF ScreenInv
    <2>2. QED
      BY <1>1, <1>4, <2>1, SendBothIs
  <1>6. /\ CallsOK(K, visit, page, shownDraft, uploads, versions)
        /\ UploadsOK(K, shownDraft, stored, last) /\ AnswersOK(K, live, givenUp \cup savedDrafts)
        /\ StraysOK(K, stored, last)
    BY <1>2, TakenKeep
  <1>7. CallsOK(calls', visit, page, shownDraft, uploads, versions)
    <2>1. CallOK(a, visit, page, shownDraft, uploads, versions)
      BY <1>1, <1>3, <1>4 DEF CallOK
    <2>2. CallOK(b, visit, page, shownDraft, uploads, versions)
      BY <1>1, <1>3, <1>4 DEF CallOK
    <2>3. QED
      BY <1>5, <1>6, <2>1, <2>2 DEF CallsOK
  <1>8. UploadsOK(calls', shownDraft, stored, last) /\ AnswersOK(calls', live, givenUp \cup savedDrafts)
    BY <1>4, <1>5, <1>6 DEF UploadsOK, AnswersOK
  <1>9. StraysOK(calls', stored, last)
    <2>1. last # Null /\ last.draft = shownDraft
      BY <1>1, LastIsOn
    <2>2. QED
      BY <1>4, <1>5, <1>6, <2>1 DEF StraysOK
  <1>10. /\ MarkWaits(calls', visit, page, shownDraft, content', saving, discarding)
         /\ ListWaits(calls', visit, page, uploading, activating, shown, listError)
    BY <1>1, <1>2, <1>4, <1>5 DEF ScreenInv, MarkWaits, ListWaits, Going
  <1>11. PreviewOK(calls', visit, page, marking, step, preview, previewKey)
    BY <1>1, <1>2, <1>4, <1>5 DEF ScreenInv, PreviewOK, Going
  <1>12. EditorT(page, shownDraft, marking, step, content', known, replacing, saving,
                 discardOpen, discarding, preview, previewKey)
    BY <1>1 DEF ScreenInv, EditorT
  <1>13. QED
    BY <1>1, <1>5, <1>7, <1>8, <1>9, <1>10, <1>11, <1>12 DEF ScreenInv

LEMMA DeliverListKeeps ==
    ASSUME Screen!TemplatesScreenAssumption, ScreenInv, NEW c \in calls, Screen!DeliverList(c)
    PROVE  ScreenInv'
  <1> DEFINE K == calls \ {c}
  <1>1. /\ c.kind = "list" /\ calls' = K /\ known' \in {c.version, known}
        /\ UNCHANGED <<live, versions, active, made, stored, page, visit, shownDraft, marking, step,
                       content, replacing, saving, discardOpen, discarding, preview,
                       previewKey, uploading, shown, listError, toActivate, activating,
                       last, givenUp, savedDrafts, strays, uploads, screenFaults>>
    BY DEF Screen!DeliverList, Screen!Taken, Screen!backend, Screen!list, Screen!history
  <1>2. /\ K \in SUBSET calls
        /\ CallsT(K) /\ CallsOK(K, visit, page, shownDraft, uploads, versions)
        /\ UploadsOK(K, shownDraft, stored, last) /\ AnswersOK(K, live, givenUp \cup savedDrafts)
        /\ StraysOK(K, stored, last)
    BY TakenKeep
  <1>3. /\ MarkWaits(K, visit, page, shownDraft, content, saving, discarding)
        /\ ListWaits(K, visit, page, uploading, activating, shown, listError)
        /\ PreviewOK(K, visit, page, marking, step, preview, previewKey)
    BY <1>1 DEF ScreenInv, MarkWaits, ListWaits, PreviewOK, Going
  <1>4. c.version \in Screen!Versions
    BY DEF ScreenInv, CallsT, CallSet
  <1>5. EditorT(page, shownDraft, marking, step, content, known', replacing, saving,
                discardOpen, discarding, preview, previewKey)
    BY <1>1, <1>4 DEF ScreenInv, EditorT
  <1> HIDE DEF K
  <1>6. QED
    BY <1>1, <1>2, <1>3, <1>5 DEF ScreenInv

LEMMA EditKeeps ==
    ASSUME Screen!TemplatesScreenAssumption, ScreenInv, NEW m \in Markings, Screen!Edit(m)
    PROVE  ScreenInv'
  <1> DEFINE s == [draft |-> shownDraft, marking |-> m]
  <1>1. /\ page = "marking" /\ step = "mark" /\ marking' = m /\ stored' = s /\ last' = s
        /\ UNCHANGED <<live, versions, active, made, page, visit, shownDraft, step, content,
                       known, replacing, saving, discardOpen, discarding, preview,
                       previewKey, uploading, shown, listError, toActivate, activating,
                       calls, givenUp, savedDrafts, strays, uploads, screenFaults>>
    BY DEF Screen!Edit, Screen!MarkingOf, Screen!backend, Screen!list
  <1>2. /\ shownDraft \in Screen!DraftIds /\ shownDraft # Null /\ shownDraft \in 1 .. uploads
    BY <1>1 DEF ScreenInv, EditorT, DraftsOK
  <1>3. s \in [draft : Screen!DraftIds, marking : Markings] /\ s.draft = shownDraft
    BY <1>2
  <1>4. LastOK(page, shownDraft, m, s)
    BY DEF LastOK
  <1> HIDE DEF s
  <1>5. HistT(s, visit, s, givenUp \cup savedDrafts, strays, uploads, screenFaults)
    BY <1>3 DEF ScreenInv, HistT, MarkingT
  <1>6. UploadsOK(calls, shownDraft, s, s) /\ DraftsOK(shownDraft, s, s, uploads)
    BY <1>2, <1>3 DEF ScreenInv, UploadsOK, DraftsOK
  <1>7. StraysOK(calls, s, s) /\ KeptOK(s, s, live, givenUp \cup savedDrafts, strays)
    BY DEF StraysOK, KeptOK
  <1>8. PreviewOK(calls, visit, page, m, step, preview, previewKey)
    BY <1>1 DEF ScreenInv, PreviewOK
  <1>9. EditorT(page, shownDraft, m, step, content, known, replacing, saving,
                discardOpen, discarding, preview, previewKey)
    BY DEF ScreenInv, EditorT
  <1>10. QED
    BY <1>1, <1>4, <1>5, <1>6, <1>7, <1>8, <1>9 DEF ScreenInv


\* A call about the marking that is on.
LEMMA AboutIt ==
    ASSUME Screen!TemplatesScreenAssumption, ScreenInv, NEW K \in SUBSET calls,
           NEW e \in CallSet, Screen!With(K, e),
           e.kind \in {"preview", "listToSave", "save", "cancel"},
           e.kind \in {"preview", "listToSave"} => page = "marking",
           e.visit = visit, e.draft = shownDraft, e.version = 0, e.answer = "wait",
           NEW given, givenUp \cup savedDrafts \subseteq given, e.kind = "cancel" => e.draft \in given
    PROVE  /\ CallsT(calls') /\ CallsOK(calls', visit, page, shownDraft, uploads, versions)
           /\ UploadsOK(calls', shownDraft, stored, last) /\ AnswersOK(calls', live, given)
           /\ StraysOK(calls', stored, last)
           /\ \E one \in CallSet : calls' = K \cup {one} /\ Same(one, e)
  <1>1. /\ shownDraft = Null \/ (page = "marking" /\ shownDraft \in 1 .. uploads)
        /\ 0 <= versions
    BY DEF ScreenInv, EditorT, DraftsOK, BackT, Screen!Versions
  <1>2. Speaks(e)
    BY <1>1 DEF Speaks
  <1>3. CallOK(e, visit, page, shownDraft, uploads, versions)
    BY <1>1 DEF CallOK
  <1>4. e.kind # "upload"
    OBVIOUS
  <1>5. QED
    BY <1>2, <1>3, <1>4, SentKeep

\* The preview is asked for, and no other is heard any more.
LEMMA AskPreviewKeeps ==
    ASSUME Screen!TemplatesScreenAssumption, ScreenInv, page = "marking", step' \in {"mark", "review"},
           preview' = Screen!NoPreview, previewKey' = marking,
           Screen!With(Screen!Unheard({"preview"}), Screen!Call("preview", shownDraft, marking)),
           UNCHANGED <<live, versions, active, made, stored, page, visit, shownDraft, marking, content,
                       known, replacing, saving, discardOpen, discarding, uploading, shown,
                       listError, toActivate, activating, last, givenUp, savedDrafts, strays, uploads,
                       screenFaults>>
    PROVE  ScreenInv'
  <1> DEFINE K == Screen!Unheard({"preview"})
             e == Screen!Call("preview", shownDraft, marking)
  <1>1. /\ K \in SUBSET calls /\ \A x \in K : x.kind # "preview" \/ x.visit # visit
        /\ \A x \in calls : x.kind # "preview" => x \in K
    BY DEF Screen!Unheard
  <1>2. \A x \in calls : x.kind = "preview" => x.visit = visit
    BY DEF ScreenInv, CallsOK, CallOK
  <1>3. \A x \in K : x.kind # "preview"
    BY <1>1, <1>2
  <1>4. /\ e \in CallSet /\ e.kind = "preview" /\ e.visit = visit /\ e.draft = shownDraft
        /\ e.marking = marking /\ e.answer = "wait" /\ e.version = 0
    <2>1. /\ "preview" \in Screen!Kinds /\ shownDraft \in Screen!DraftIds \cup {Null}
          /\ marking \in Markings /\ visit \in 1 .. MaxVisits
      BY DEF Screen!Kinds, ScreenInv, HistT, EditorT
    <2>2. QED
      BY <2>1, CallIs
  <1>5. Screen!With(K, e)
    OBVIOUS
  <1> HIDE DEF K, e
  <1>6. /\ CallsT(calls') /\ CallsOK(calls', visit, page, shownDraft, uploads, versions)
        /\ UploadsOK(calls', shownDraft, stored, last)
        /\ AnswersOK(calls', live, givenUp \cup savedDrafts)
        /\ StraysOK(calls', stored, last)
        /\ \E one \in CallSet : calls' = K \cup {one} /\ Same(one, e)
    BY <1>1, <1>4, <1>5, AboutIt
  <1>7. PICK one \in CallSet : /\ calls' = K \cup {one} /\ one.kind = "preview"
                               /\ one.visit = visit /\ one.marking = marking
    BY <1>4, <1>6 DEF Same
  <1>8. /\ MarkWaits(calls', visit, page, shownDraft, content, saving, discarding)
        /\ ListWaits(calls', visit, page, uploading, activating, shown, listError)
    BY <1>1, <1>7 DEF ScreenInv, MarkWaits, ListWaits, Going
  <1>9. preview'.status = "loading" /\ preview' \in [status : {"loading", "error", "ready"},
                                                    of : Markings \cup {Null}]
    BY DEF Screen!NoPreview
  <1>10. PreviewOK(calls', visit, page, marking, step', preview', previewKey')
    BY <1>3, <1>7, <1>9 DEF PreviewOK, Going
  <1>11. EditorT(page, shownDraft, marking, step', content, known, replacing, saving,
                 discardOpen, discarding, preview', previewKey')
    BY <1>9 DEF ScreenInv, EditorT
  <1>12. QED
    BY <1>6, <1>8, <1>10, <1>11 DEF ScreenInv

LEMMA ReviewKeeps ==
    ASSUME Screen!TemplatesScreenAssumption, ScreenInv,
           Screen!Review \/ Screen!PreviewAgain \/ Screen!BackToMark
    PROVE  ScreenInv'
  <1>1. /\ page = "marking" /\ step' \in {"mark", "review"}
        /\ UNCHANGED <<live, versions, active, made, stored, page, visit, shownDraft, marking, content,
                       known, replacing, saving, discardOpen, discarding, uploading, shown,
                       listError, toActivate, activating, last, givenUp, savedDrafts, strays, uploads,
                       screenFaults>>
    BY DEF Screen!Review, Screen!PreviewAgain, Screen!BackToMark, Screen!backend, Screen!list,
           Screen!history
  <1>2. CASE /\ preview' = Screen!NoPreview /\ previewKey' = marking
             /\ Screen!With(Screen!Unheard({"preview"}), Screen!Call("preview", shownDraft, marking))
    BY <1>1, <1>2, AskPreviewKeeps
  <1>3. CASE /\ UNCHANGED <<preview, previewKey, calls>>
             /\ step' = "review" => previewKey = marking
    <2>1. PreviewOK(calls, visit, page, marking, step', preview, previewKey)
      BY <1>1, <1>3 DEF ScreenInv, PreviewOK
    <2>2. EditorT(page, shownDraft, marking, step', content, known, replacing, saving,
                  discardOpen, discarding, preview, previewKey)
      BY <1>1 DEF ScreenInv, EditorT
    <2>3. QED
      BY <1>1, <1>3, <2>1, <2>2 DEF ScreenInv
  <1>4. CASE Screen!Review
    BY <1>2, <1>3, <1>4 DEF Screen!Review, Screen!SamePreview
  <1>5. CASE Screen!PreviewAgain
    BY <1>2, <1>5 DEF Screen!PreviewAgain
  <1>6. CASE Screen!BackToMark
    BY <1>3, <1>6 DEF Screen!BackToMark
  <1>7. QED
    BY <1>4, <1>5, <1>6

LEMMA DeliverPreviewKeeps ==
    ASSUME Screen!TemplatesScreenAssumption, ScreenInv, NEW c \in calls, Screen!DeliverPreview(c)
    PROVE  ScreenInv'
  <1> DEFINE K == calls \ {c}
  <1>1. CASE c.answer = "gone" /\ Screen!Exit(c)
    BY <1>1, GoneIsGone, ExitKeeps DEF Screen!DeliverPreview
  <1>2. CASE c.answer \in {"ok", "fail"}
    <2>1. /\ c.kind = "preview" /\ calls' = K
          /\ \/ preview' = [status |-> "ready", of |-> c.marking] /\ previewKey' = previewKey
             \/ preview' = [status |-> "error", of |-> Null] /\ previewKey' = Null
          /\ UNCHANGED <<live, versions, active, made, stored, page, visit, shownDraft, marking, step,
                         content, known, replacing, saving, discardOpen, discarding,
                         uploading, shown, listError, toActivate, activating,
                         last, givenUp, savedDrafts, strays, uploads, screenFaults>>
      BY <1>2 DEF Screen!DeliverPreview, Screen!Taken, Screen!backend, Screen!list, Screen!history
    <2>2. /\ K \in SUBSET calls
          /\ CallsT(K) /\ CallsOK(K, visit, page, shownDraft, uploads, versions)
          /\ UploadsOK(K, shownDraft, stored, last) /\ AnswersOK(K, live, givenUp \cup savedDrafts)
          /\ StraysOK(K, stored, last)
      BY TakenKeep
    <2>3. /\ MarkWaits(K, visit, page, shownDraft, content, saving, discarding)
          /\ ListWaits(K, visit, page, uploading, activating, shown, listError)
      BY <2>1 DEF ScreenInv, MarkWaits, ListWaits, Going
    <2>4. /\ page = "marking" /\ c.marking = previewKey /\ c.marking \in Markings
          /\ \A x \in K : x.kind # "preview"
          /\ step = "review" => previewKey = marking
      <3>1. page = "marking" /\ c.marking \in Markings
        BY <2>1 DEF ScreenInv, CallsOK, CallOK, CallsT, CallSet
      <3>2. /\ c.marking = previewKey /\ \A x \in K : x.kind # "preview"
            /\ preview.status = "error" => previewKey = Null
            /\ step = "review" => previewKey = marking \/ preview.status = "error"
        BY <2>1, <3>1 DEF ScreenInv, PreviewOK
      <3>3. QED
        BY <3>1, <3>2, Bounds
    <2>5. PreviewOK(K, visit, page, marking, step, preview', previewKey')
      BY <2>1, <2>4 DEF PreviewOK
    <2>6. EditorT(page, shownDraft, marking, step, content, known, replacing, saving,
                  discardOpen, discarding, preview', previewKey')
      BY <2>1, <2>4 DEF ScreenInv, EditorT
    <2> HIDE DEF K
    <2>7. QED
      BY <2>1, <2>2, <2>3, <2>5, <2>6 DEF ScreenInv
  <1>3. QED
    BY <1>1, <1>2 DEF Screen!DeliverPreview


\* The save is sent, and the screen waits for it.
LEMMA SaveAsked ==
    ASSUME Screen!TemplatesScreenAssumption, ScreenInv, NEW K \in SUBSET calls,
           \A x \in calls : x.kind # "listToSave" => x \in K,
           NEW m \in Markings, NEW sure \in BOOLEAN, Screen!With(K, Screen!Save(m, sure))
    PROVE  /\ CallsT(calls') /\ CallsOK(calls', visit, page, shownDraft, uploads, versions)
           /\ UploadsOK(calls', shownDraft, stored, last)
           /\ AnswersOK(calls', live, givenUp \cup savedDrafts)
           /\ StraysOK(calls', stored, last)
           /\ MarkWaits(calls', visit, page, shownDraft, content, TRUE, discarding)
           /\ ListWaits(calls', visit, page, uploading, activating, shown, listError)
           /\ PreviewOK(calls', visit, page, marking, step, preview, previewKey)
  <1> DEFINE e == [Screen!Call("save", shownDraft, m) EXCEPT !.sure = sure]
  <1>1. /\ e \in CallSet /\ e.kind = "save" /\ e.visit = visit /\ e.draft = shownDraft
        /\ e.answer = "wait" /\ e.version = 0
    <2> DEFINE f == Screen!Call("save", shownDraft, m)
    <2>1. /\ "save" \in Screen!Kinds /\ shownDraft \in Screen!DraftIds \cup {Null}
          /\ visit \in 1 .. MaxVisits
      BY DEF Screen!Kinds, ScreenInv, HistT, EditorT
    <2>2. /\ f \in CallSet /\ f.kind = "save" /\ f.visit = visit /\ f.draft = shownDraft
          /\ f.answer = "wait" /\ f.version = 0
      BY <2>1, CallIs
    <2>3. e = [f EXCEPT !.sure = sure]
      OBVIOUS
    <2> HIDE DEF f, e
    <2>4. QED
      BY <2>2, <2>3 DEF CallSet
  <1>2. Screen!With(K, e)
    BY DEF Screen!Save
  <1> HIDE DEF e
  <1>3. /\ CallsT(calls') /\ CallsOK(calls', visit, page, shownDraft, uploads, versions)
        /\ UploadsOK(calls', shownDraft, stored, last)
        /\ AnswersOK(calls', live, givenUp \cup savedDrafts)
        /\ StraysOK(calls', stored, last)
        /\ \E one \in CallSet : calls' = K \cup {one} /\ Same(one, e)
    BY <1>1, <1>2, AboutIt
  <1>4. PICK one \in CallSet : /\ calls' = K \cup {one} /\ one.kind = "save"
                               /\ one.visit = visit /\ one.draft = shownDraft
    BY <1>1, <1>3 DEF Same
  <1>5. MarkWaits(calls', visit, page, shownDraft, content, TRUE, discarding)
    BY <1>4 DEF ScreenInv, MarkWaits, Going
  <1>6. ListWaits(calls', visit, page, uploading, activating, shown, listError)
    BY <1>4 DEF ScreenInv, ListWaits, Going
  <1>7. PreviewOK(calls', visit, page, marking, step, preview, previewKey)
    BY <1>4 DEF ScreenInv, PreviewOK, Going
  <1>8. QED
    BY <1>3, <1>5, <1>6, <1>7

LEMMA RequestSaveKeeps ==
    ASSUME Screen!TemplatesScreenAssumption, ScreenInv, Screen!RequestSave
    PROVE  ScreenInv'
  <1>1. /\ page = "marking"
        /\ UNCHANGED <<live, versions, active, made, stored, page, visit, shownDraft, marking, step,
                       content, known, discardOpen, discarding, preview, previewKey,
                       uploading, shown, listError, toActivate, activating, last, givenUp, savedDrafts,
                       strays, uploads, screenFaults>>
    BY DEF Screen!RequestSave, Screen!backend, Screen!list, Screen!history
  <1>2. marking \in Markings
    BY DEF ScreenInv, EditorT
  <1>3. CASE /\ Screen!With(calls, Screen!Call("listToSave", shownDraft, marking))
             /\ UNCHANGED <<saving, replacing>>
    <2> DEFINE e == Screen!Call("listToSave", shownDraft, marking)
    <2>1. /\ e \in CallSet /\ e.kind = "listToSave" /\ e.visit = visit /\ e.draft = shownDraft
          /\ e.answer = "wait" /\ e.version = 0
      <3>1. /\ "listToSave" \in Screen!Kinds /\ shownDraft \in Screen!DraftIds \cup {Null}
            /\ visit \in 1 .. MaxVisits
        BY DEF Screen!Kinds, ScreenInv, HistT, EditorT
      <3>2. QED
        BY <1>2, <3>1, CallIs
    <2>2. Screen!With(calls, e)
      BY <1>3
    <2> HIDE DEF e
    <2>3. /\ CallsT(calls') /\ CallsOK(calls', visit, page, shownDraft, uploads, versions)
          /\ UploadsOK(calls', shownDraft, stored, last)
          /\ AnswersOK(calls', live, givenUp \cup savedDrafts)
          /\ StraysOK(calls', stored, last)
          /\ \E one \in CallSet : calls' = calls \cup {one} /\ Same(one, e)
      BY <1>1, <2>1, <2>2, AboutIt
    <2>4. PICK one \in CallSet : calls' = calls \cup {one} /\ one.kind # "preview"
      BY <2>1, <2>3 DEF Same
    <2>5. /\ MarkWaits(calls', visit, page, shownDraft, content, saving, discarding)
          /\ ListWaits(calls', visit, page, uploading, activating, shown, listError)
          /\ PreviewOK(calls', visit, page, marking, step, preview, previewKey)
      BY <2>4, MoreWait
    <2>6. QED
      BY <1>1, <1>3, <2>3, <2>5 DEF ScreenInv
  <1>4. CASE /\ saving' = TRUE /\ replacing' = replacing
             /\ Screen!With(calls, Screen!Save(marking, FALSE))
    <2>1. /\ CallsT(calls') /\ CallsOK(calls', visit, page, shownDraft, uploads, versions)
          /\ UploadsOK(calls', shownDraft, stored, last)
          /\ AnswersOK(calls', live, givenUp \cup savedDrafts)
          /\ StraysOK(calls', stored, last)
          /\ MarkWaits(calls', visit, page, shownDraft, content, TRUE, discarding)
          /\ ListWaits(calls', visit, page, uploading, activating, shown, listError)
          /\ PreviewOK(calls', visit, page, marking, step, preview, previewKey)
      BY <1>2, <1>4, SaveAsked
    <2>2. EditorT(page, shownDraft, marking, step, content, known, replacing, saving',
                  discardOpen, discarding, preview, previewKey)
      BY <1>4 DEF ScreenInv, EditorT
    <2>3. QED
      BY <1>1, <1>4, <2>1, <2>2 DEF ScreenInv
  <1>5. CASE /\ known # Null /\ replacing' = known /\ UNCHANGED <<saving, calls>>
    <2>1. EditorT(page, shownDraft, marking, step, content, known, replacing', saving,
                  discardOpen, discarding, preview, previewKey)
      BY <1>5 DEF ScreenInv, EditorT
    <2>2. QED
      BY <1>1, <1>5, <2>1 DEF ScreenInv
  <1>6. QED
    BY <1>3, <1>4, <1>5 DEF Screen!RequestSave, Screen!Send

\* The save of an earlier click is sent, the screen there or not.
LEMMA SaveGoesOn ==
    ASSUME Screen!TemplatesScreenAssumption, ScreenInv, NEW c \in calls, c.kind = "listToSave",
           NEW K, K = calls \ {c},
           Screen!With(K, [Screen!Call("save", c.draft, c.marking) EXCEPT !.visit = c.visit])
    PROVE  /\ CallsT(calls') /\ CallsOK(calls', visit, page, shownDraft, uploads, versions)
           /\ UploadsOK(calls', shownDraft, stored, last)
           /\ AnswersOK(calls', live, givenUp \cup savedDrafts)
           /\ StraysOK(calls', stored, last)
           /\ \E one : /\ calls' = K \cup {one} /\ one.kind = "save"
                       /\ one.visit = c.visit /\ one.draft = c.draft
  <1> DEFINE f == Screen!Call("save", c.draft, c.marking)
             e == [f EXCEPT !.visit = c.visit]
             over == givenUp \cup savedDrafts
  <1>1. /\ c \in CallSet /\ c.draft \in Screen!DraftIds \cup {Null} /\ c.marking \in Markings
        /\ c.visit \in 1 .. MaxVisits
    BY DEF ScreenInv, CallsT, CallSet
  <1>2. "save" \in Screen!Kinds /\ visit \in 1 .. MaxVisits
    BY DEF Screen!Kinds, ScreenInv, HistT
  <1>3. /\ f \in CallSet /\ f.kind = "save" /\ f.draft = c.draft
        /\ f.answer = "wait" /\ f.version = 0
    BY <1>1, <1>2, CallIs
  <1> HIDE DEF f
  <1>4. /\ e \in CallSet /\ e.visit = c.visit /\ e.kind = "save" /\ e.draft = c.draft
        /\ e.answer = "wait" /\ e.version = 0
    BY <1>1, <1>3, VisitIs
  <1>5. Screen!With(K, e)
    BY DEF f
  <1> HIDE DEF e
  <1>6. Speaks(e)
    BY <1>4 DEF Speaks
  <1>7. CallOK(e, visit, page, shownDraft, uploads, versions)
    <2>1. CallOK(c, visit, page, shownDraft, uploads, versions) /\ 0 <= versions
      BY DEF ScreenInv, CallsOK, BackT, Screen!Versions
    <2>2. QED
      BY <1>4, <2>1 DEF CallOK
  <1>8. givenUp \cup savedDrafts \subseteq over
    OBVIOUS
  <1> HIDE DEF over
  <1>9. /\ CallsT(calls') /\ CallsOK(calls', visit, page, shownDraft, uploads, versions)
        /\ UploadsOK(calls', shownDraft, stored, last) /\ AnswersOK(calls', live, over)
        /\ StraysOK(calls', stored, last)
        /\ \E one \in CallSet : calls' = K \cup {one} /\ Same(one, e)
    BY <1>4, <1>5, <1>6, <1>7, <1>8, SentKeep
  <1>10. QED
    BY <1>4, <1>9 DEF Same, over

LEMMA DeliverListToSaveKeeps ==
    ASSUME Screen!TemplatesScreenAssumption, ScreenInv, NEW c \in calls, Screen!DeliverListToSave(c)
    PROVE  ScreenInv'
  <1> DEFINE K == calls \ {c}
  <1>1. /\ c.kind = "listToSave"
        /\ UNCHANGED <<live, versions, active, made, stored, page, visit, shownDraft, marking, step,
                       content, discardOpen, discarding, preview, previewKey,
                       uploading, shown, listError, toActivate, activating, last, givenUp,
                       savedDrafts, strays, uploads, screenFaults>>
    BY DEF Screen!DeliverListToSave, Screen!backend, Screen!list, Screen!history
  <1>2. /\ K \in SUBSET calls
        /\ CallsT(K) /\ CallsOK(K, visit, page, shownDraft, uploads, versions)
        /\ UploadsOK(K, shownDraft, stored, last) /\ AnswersOK(K, live, givenUp \cup savedDrafts)
        /\ StraysOK(K, stored, last)
    BY TakenKeep
  <1>3. c.version \in Screen!Versions
    BY DEF ScreenInv, CallsT, CallSet
  <1>4. /\ known' \in {known, c.version} /\ replacing' \in {replacing, c.version}
        /\ saving' \in {saving, TRUE}
    BY DEF Screen!DeliverListToSave
  <1>5. EditorT(page, shownDraft, marking, step, content, known', replacing', saving',
                discardOpen, discarding, preview, previewKey)
    BY <1>3, <1>4 DEF ScreenInv, EditorT
  <1>6. /\ MarkWaits(K, visit, page, shownDraft, content, saving, discarding)
        /\ ListWaits(K, visit, page, uploading, activating, shown, listError)
        /\ PreviewOK(K, visit, page, marking, step, preview, previewKey)
    BY <1>1 DEF ScreenInv, MarkWaits, ListWaits, PreviewOK, Going
  <1>7. CASE calls' = K /\ saving' = saving
    <2> HIDE DEF K
    <2>1. QED
      BY <1>1, <1>2, <1>5, <1>6, <1>7 DEF ScreenInv
  <1>8. CASE /\ Screen!With(K, [Screen!Call("save", c.draft, c.marking) EXCEPT !.visit = c.visit])
             /\ saving' = saving \/ (c.visit = visit /\ c.draft = shownDraft)
    <2>1. K = calls \ {c}
      OBVIOUS
    <2> HIDE DEF K
    <2>2. /\ CallsT(calls') /\ CallsOK(calls', visit, page, shownDraft, uploads, versions)
          /\ UploadsOK(calls', shownDraft, stored, last)
          /\ AnswersOK(calls', live, givenUp \cup savedDrafts)
          /\ StraysOK(calls', stored, last)
          /\ \E one : /\ calls' = K \cup {one} /\ one.kind = "save"
                      /\ one.visit = c.visit /\ one.draft = c.draft
      BY <1>1, <1>8, <2>1, SaveGoesOn
    <2>3. PICK one : /\ calls' = K \cup {one} /\ one.kind = "save"
                     /\ one.visit = c.visit /\ one.draft = c.draft
      BY <2>2
    <2>4. MarkWaits(calls', visit, page, shownDraft, content, saving', discarding)
      BY <1>6, <1>8, <2>3 DEF MarkWaits, Going
    <2>5. ListWaits(calls', visit, page, uploading, activating, shown, listError)
      BY <1>6, <2>3 DEF ListWaits, Going
    <2>6. PreviewOK(calls', visit, page, marking, step, preview, previewKey)
      BY <1>6, <2>3 DEF PreviewOK, Going
    <2>7. QED
      BY <1>1, <1>5, <2>2, <2>4, <2>5, <2>6 DEF ScreenInv
  <1>9. QED
    BY <1>7, <1>8 DEF Screen!DeliverListToSave, Screen!Taken, Screen!Hears

LEMMA ReplaceKeeps ==
    ASSUME Screen!TemplatesScreenAssumption, ScreenInv, Screen!Confirm \/ Screen!CloseReplace
    PROVE  ScreenInv'
  <1>1. UNCHANGED <<live, versions, active, made, stored, page, visit, shownDraft, marking, step,
                    content, known, discardOpen, discarding, preview, previewKey,
                    uploading, shown, listError, toActivate, activating, last, givenUp, savedDrafts,
                    strays, uploads, screenFaults>>
    BY DEF Screen!Confirm, Screen!CloseReplace, Screen!backend, Screen!list, Screen!history
  <1>2. CASE Screen!Confirm
    <2>1. saving' = TRUE /\ replacing' = replacing /\ Screen!With(calls, Screen!Save(marking, TRUE))
      BY <1>2 DEF Screen!Confirm, Screen!Send
    <2>2. marking \in Markings /\ TRUE \in BOOLEAN
      BY DEF ScreenInv, EditorT
    <2>3. /\ CallsT(calls') /\ CallsOK(calls', visit, page, shownDraft, uploads, versions)
          /\ UploadsOK(calls', shownDraft, stored, last)
          /\ AnswersOK(calls', live, givenUp \cup savedDrafts)
          /\ StraysOK(calls', stored, last)
          /\ MarkWaits(calls', visit, page, shownDraft, content, TRUE, discarding)
          /\ ListWaits(calls', visit, page, uploading, activating, shown, listError)
          /\ PreviewOK(calls', visit, page, marking, step, preview, previewKey)
      BY <2>1, <2>2, SaveAsked
    <2>4. EditorT(page, shownDraft, marking, step, content, known, replacing, saving',
                  discardOpen, discarding, preview, previewKey)
      BY <2>1 DEF ScreenInv, EditorT
    <2>5. QED
      BY <1>1, <2>1, <2>3, <2>4 DEF ScreenInv
  <1>3. CASE Screen!CloseReplace
    <2>1. replacing' = 0 /\ saving' = saving /\ calls' = calls
      BY <1>3 DEF Screen!CloseReplace
    <2>2. EditorT(page, shownDraft, marking, step, content, known, replacing', saving,
                  discardOpen, discarding, preview, previewKey)
      BY <2>1, Bounds DEF ScreenInv, EditorT
    <2>3. QED
      BY <1>1, <2>1, <2>2 DEF ScreenInv
  <1>4. QED
    BY <1>2, <1>3


\* What waits for the save does so for the marking that is on.
LEMMA SavedWaits ==
    ASSUME ScreenInv, NEW c \in calls, c.kind \in {"save", "listAgain"},
           NEW D, D = calls \ {c}
    PROVE  /\ MarkWaits(D, visit, page, shownDraft, content, Screen!SavingAfter(c), discarding)
           /\ ListWaits(D, visit, page, uploading, activating, shown, listError)
           /\ PreviewOK(D, visit, page, marking, step, preview, previewKey)
  <1>1. MarkWaits(D, visit, page, shownDraft, content, Screen!SavingAfter(c), discarding)
    BY DEF ScreenInv, MarkWaits, Going, Screen!SavingAfter, Screen!Hears
  <1>2. ListWaits(D, visit, page, uploading, activating, shown, listError)
    BY DEF ScreenInv, ListWaits, Going
  <1>3. PreviewOK(D, visit, page, marking, step, preview, previewKey)
    BY DEF ScreenInv, PreviewOK, Going
  <1>4. QED
    BY <1>1, <1>2, <1>3

LEMMA DeliverSaveKeeps ==
    ASSUME Screen!TemplatesScreenAssumption, ScreenInv, NEW c \in calls, Screen!DeliverSave(c)
    PROVE  ScreenInv'
  <1> DEFINE K == calls \ {c}
  <1>1. c.kind = "save" /\ c \in CallSet
    BY DEF Screen!DeliverSave, ScreenInv, CallsT
  <1>2. /\ K \in SUBSET calls
        /\ CallsT(K) /\ CallsOK(K, visit, page, shownDraft, uploads, versions)
        /\ UploadsOK(K, shownDraft, stored, last) /\ AnswersOK(K, live, givenUp \cup savedDrafts)
        /\ StraysOK(K, stored, last)
    BY TakenKeep
  <1>3. CASE c.answer \in {"ok", "gone"} /\ Screen!Exit(c)
    BY <1>1, <1>3, GoneIsGone, ExitKeeps
  <1>4. CASE c.answer = "refused"
    <2> DEFINE e == [Screen!Call("listAgain", c.draft, c.marking) EXCEPT !.visit = c.visit]
    <2>1. /\ Screen!With(K, e)
          /\ UNCHANGED <<live, versions, active, made, stored, page, visit, shownDraft, marking, step,
                         content, known, replacing, saving, discardOpen, discarding, preview,
                         previewKey>>
          /\ UNCHANGED <<uploading, shown, listError, toActivate, activating, last, givenUp, savedDrafts,
                         strays, uploads, screenFaults>>
      BY <1>4 DEF Screen!DeliverSave, Screen!backend, Screen!editor, Screen!list, Screen!history
    <2>2. /\ e \in CallSet /\ e.kind = "listAgain" /\ e.visit = c.visit /\ e.draft = c.draft
          /\ e.answer = "wait" /\ e.version = 0
      <3> DEFINE f == Screen!Call("listAgain", c.draft, c.marking)
      <3>1. /\ "listAgain" \in Screen!Kinds /\ c.draft \in Screen!DraftIds \cup {Null}
            /\ c.marking \in Markings /\ c.visit \in 1 .. MaxVisits /\ visit \in 1 .. MaxVisits
        BY <1>1 DEF Screen!Kinds, CallSet, ScreenInv, HistT
      <3>2. /\ f \in CallSet /\ f.kind = "listAgain" /\ f.draft = c.draft
            /\ f.answer = "wait" /\ f.version = 0
        BY <3>1, CallIs
      <3>3. e = [f EXCEPT !.visit = c.visit]
        OBVIOUS
      <3> HIDE DEF f, e
      <3>4. QED
        BY <3>1, <3>2, <3>3 DEF CallSet
    <2> HIDE DEF e
    <2>3. versions \in Nat
      BY DEF ScreenInv, BackT, Screen!Versions
    <2>4. Speaks(e)
      BY <1>1, <2>2 DEF Speaks
    <2>5. CallOK(e, visit, page, shownDraft, uploads, versions)
      BY <2>2, <2>3 DEF ScreenInv, CallsOK, CallOK
    <2> HIDE DEF K
    <2>6. /\ CallsT(calls') /\ CallsOK(calls', visit, page, shownDraft, uploads, versions)
          /\ UploadsOK(calls', shownDraft, stored, last)
          /\ AnswersOK(calls', live, givenUp \cup savedDrafts)
          /\ StraysOK(calls', stored, last)
          /\ \E one \in CallSet : calls' = K \cup {one} /\ Same(one, e)
      <3>1. e.kind # "upload" /\ e.kind # "cancel"
        BY <2>2
      <3>2. QED
        BY <1>2, <2>1, <2>2, <2>4, <2>5, <3>1, SentKeep
    <2>7. PICK one \in CallSet : /\ calls' = K \cup {one} /\ one.kind = "listAgain"
                                 /\ one.visit = c.visit /\ one.draft = c.draft
      BY <2>2, <2>6 DEF Same
    <2>8. \A x \in calls : x \in K \/ x = c
      BY DEF K
    <2>9. MarkWaits(calls', visit, page, shownDraft, content, saving, discarding)
      BY <1>1, <2>7, <2>8 DEF ScreenInv, MarkWaits, Going
    <2>10. ListWaits(calls', visit, page, uploading, activating, shown, listError)
      BY <1>1, <2>7, <2>8 DEF ScreenInv, ListWaits, Going
    <2>11. PreviewOK(calls', visit, page, marking, step, preview, previewKey)
      BY <1>1, <1>2, <2>7, <2>8 DEF ScreenInv, PreviewOK, Going
    <2>12. QED
      BY <2>1, <2>6, <2>9, <2>10, <2>11 DEF ScreenInv
  <1>5. CASE c.answer = "fail"
    <2>1. /\ calls' = K /\ saving' = Screen!SavingAfter(c)
          /\ UNCHANGED <<live, versions, active, made, stored, page, visit, shownDraft, marking, step,
                         content, known, replacing, discardOpen, discarding, preview,
                         previewKey, uploading, shown, listError, toActivate, activating, last,
                         givenUp, savedDrafts, strays, uploads, screenFaults>>
      BY <1>5 DEF Screen!DeliverSave, Screen!Taken, Screen!backend, Screen!list, Screen!history
    <2>2. /\ MarkWaits(K, visit, page, shownDraft, content, saving', discarding)
          /\ ListWaits(K, visit, page, uploading, activating, shown, listError)
          /\ PreviewOK(K, visit, page, marking, step, preview, previewKey)
      BY <1>1, <2>1, SavedWaits
    <2>3. EditorT(page, shownDraft, marking, step, content, known, replacing, saving',
                  discardOpen, discarding, preview, previewKey)
      BY <2>1 DEF ScreenInv, EditorT, Screen!SavingAfter
    <2> HIDE DEF K
    <2>4. QED
      BY <1>2, <2>1, <2>2, <2>3 DEF ScreenInv
  <1>6. QED
    BY <1>3, <1>4, <1>5 DEF Screen!DeliverSave

LEMMA DeliverListAgainKeeps ==
    ASSUME Screen!TemplatesScreenAssumption, ScreenInv, NEW c \in calls, Screen!DeliverListAgain(c)
    PROVE  ScreenInv'
  <1> DEFINE K == calls \ {c}
  <1>1. /\ c.kind = "listAgain" /\ calls' = K /\ saving' = Screen!SavingAfter(c)
        /\ known' \in {known, c.version} /\ replacing' \in {replacing, c.version}
        /\ UNCHANGED <<live, versions, active, made, stored, page, visit, shownDraft, marking, step,
                       content, discardOpen, discarding, preview, previewKey,
                       uploading, shown, listError, toActivate, activating, last, givenUp, savedDrafts,
                       strays, uploads, screenFaults>>
    BY DEF Screen!DeliverListAgain, Screen!Taken, Screen!backend, Screen!list, Screen!history
  <1>2. /\ K \in SUBSET calls
        /\ CallsT(K) /\ CallsOK(K, visit, page, shownDraft, uploads, versions)
        /\ UploadsOK(K, shownDraft, stored, last) /\ AnswersOK(K, live, givenUp \cup savedDrafts)
        /\ StraysOK(K, stored, last)
    BY TakenKeep
  <1>3. /\ MarkWaits(K, visit, page, shownDraft, content, saving', discarding)
        /\ ListWaits(K, visit, page, uploading, activating, shown, listError)
        /\ PreviewOK(K, visit, page, marking, step, preview, previewKey)
    BY <1>1, SavedWaits
  <1>4. c.version \in Screen!Versions
    BY DEF ScreenInv, CallsT, CallSet
  <1>5. EditorT(page, shownDraft, marking, step, content, known', replacing', saving',
                discardOpen, discarding, preview, previewKey)
    BY <1>1, <1>4 DEF ScreenInv, EditorT, Screen!SavingAfter
  <1> HIDE DEF K
  <1>6. QED
    BY <1>1, <1>2, <1>3, <1>5 DEF ScreenInv

LEMMA DiscardKeeps ==
    ASSUME Screen!TemplatesScreenAssumption, ScreenInv,
           Screen!RequestCancel \/ \E sure \in BOOLEAN : Screen!AnswerDiscard(sure)
    PROVE  ScreenInv'
  <1>1. /\ page = "marking"
        /\ UNCHANGED <<live, versions, active, made, stored, page, visit, shownDraft, marking, step,
                       content, known, replacing, saving, preview, previewKey,
                       uploading, shown, listError, toActivate, activating, last,
                       savedDrafts, strays, uploads, screenFaults>>
    BY DEF Screen!RequestCancel, Screen!AnswerDiscard, Screen!backend, Screen!list,
           ScreenInv, DialogsOK
  <1>2. CASE Screen!Discard /\ discardOpen' = discardOpen
    <2> DEFINE e == Screen!Call("cancel", shownDraft, marking)
               given == (givenUp \cup {shownDraft}) \cup savedDrafts
    <2>1. /\ discarding' = TRUE /\ Screen!With(calls, e)
          /\ givenUp' \cup savedDrafts' = given
      BY <1>1, <1>2 DEF Screen!Discard, Screen!Send
    <2>2. shownDraft \in Screen!DraftIds /\ marking \in Markings
      BY <1>1 DEF ScreenInv, EditorT
    <2>3. /\ e \in CallSet /\ e.kind = "cancel" /\ e.visit = visit /\ e.draft = shownDraft
          /\ e.answer = "wait" /\ e.version = 0
      <3>1. "cancel" \in Screen!Kinds /\ visit \in 1 .. MaxVisits
        BY DEF Screen!Kinds, ScreenInv, HistT
      <3>2. QED
        BY <2>2, <3>1, CallIs
    <2>4. givenUp \cup savedDrafts \subseteq given /\ e.draft \in given
      BY <2>3
    <2>5. /\ KeptOK(stored, last, live, given, strays)
          /\ HistT(stored, visit, last, given, strays, uploads, screenFaults)
      BY <2>2 DEF ScreenInv, KeptOK, HistT
    <2> HIDE DEF e, given
    <2>6. /\ CallsT(calls') /\ CallsOK(calls', visit, page, shownDraft, uploads, versions)
          /\ UploadsOK(calls', shownDraft, stored, last) /\ AnswersOK(calls', live, given)
          /\ StraysOK(calls', stored, last)
          /\ \E one \in CallSet : calls' = calls \cup {one} /\ Same(one, e)
      BY <1>1, <2>1, <2>3, <2>4, AboutIt
    <2>7. PICK one \in CallSet : /\ calls' = calls \cup {one} /\ one.kind = "cancel"
                                 /\ one.visit = visit
      BY <2>3, <2>6 DEF Same
    <2>8. /\ ListWaits(calls', visit, page, uploading, activating, shown, listError)
          /\ PreviewOK(calls', visit, page, marking, step, preview, previewKey)
      BY <2>7, MoreWait
    <2>9. MarkWaits(calls', visit, page, shownDraft, content, saving, discarding')
      BY <2>7 DEF ScreenInv, MarkWaits, Going
    <2>10. EditorT(page, shownDraft, marking, step, content, known, replacing, saving,
                   discardOpen, discarding', preview, previewKey)
      BY <2>1 DEF ScreenInv, EditorT
    <2>11. QED
      BY <1>1, <1>2, <2>1, <2>5, <2>6, <2>8, <2>9, <2>10 DEF ScreenInv
  <1>3. CASE discardOpen' \in BOOLEAN /\ UNCHANGED <<discarding, givenUp, calls>>
    <2>1. EditorT(page, shownDraft, marking, step, content, known, replacing, saving,
                  discardOpen', discarding, preview, previewKey)
      BY <1>3 DEF ScreenInv, EditorT
    <2>2. DialogsOK(page, discardOpen', toActivate)
      BY <1>1 DEF ScreenInv, DialogsOK
    <2>3. QED
      BY <1>1, <1>3, <2>1, <2>2 DEF ScreenInv
  <1>4. QED
    BY <1>2, <1>3 DEF Screen!RequestCancel, Screen!AnswerDiscard

LEMMA DeliverCancelKeeps ==
    ASSUME Screen!TemplatesScreenAssumption, ScreenInv, NEW c \in calls, Screen!DeliverCancel(c)
    PROVE  ScreenInv'
  BY GoneIsGone, ExitKeeps DEF Screen!DeliverCancel

-----------------------------------------------------------------------------

LEMMA ScreenSteps ==
    ASSUME Screen!TemplatesScreenAssumption, ScreenInv, [Screen!Next]_(Screen!vars)
    PROVE  ScreenInv'
  <1>1. CASE \E c \in calls : Screen!Serve(c) \/ Screen!Fails(c)
    BY <1>1, ServeKeeps, FailsKeeps
  <1>2. CASE \E c \in calls : Screen!Deliver(c)
    <2>1. PICK c \in calls : Screen!Deliver(c)
      BY <1>2
    <2>2. QED
      BY <2>1, DeliverUploadKeeps, DeliverHistoryKeeps, DeliverActivateKeeps, DeliverContentKeeps,
         DeliverListKeeps, DeliverPreviewKeeps, DeliverListToSaveKeeps, DeliverSaveKeeps,
         DeliverListAgainKeeps, DeliverCancelKeeps
         DEF Screen!Deliver
  <1>3. CASE Screen!OtherSaves \/ \E d \in live : Screen!Expires(d)
    BY <1>3, OthersKeep
  <1>4. CASE Screen!Upload \/ Screen!Leave \/ Screen!Enter
    BY <1>4, UploadKeeps, LeaveKeeps, EnterKeeps
  <1>5. CASE \/ Screen!Reload \/ Screen!CloseActivate \/ Screen!Activate
             \/ \E v \in 1 .. MaxVersions : Screen!AskToActivate(v)
    BY <1>5, ListKeeps, ActivateKeeps
  <1>6. CASE \E m \in Markings : Screen!Edit(m)
    BY <1>6, EditKeeps
  <1>7. CASE Screen!Retry \/ Screen!Review \/ Screen!PreviewAgain \/ Screen!BackToMark
    BY <1>7, RetryKeeps, ReviewKeeps
  <1>8. CASE Screen!RequestSave \/ Screen!Confirm \/ Screen!CloseReplace
    BY <1>8, RequestSaveKeeps, ReplaceKeeps
  <1>9. CASE Screen!RequestCancel \/ \E sure \in BOOLEAN : Screen!AnswerDiscard(sure)
    BY <1>9, DiscardKeeps
  <1>10. CASE UNCHANGED Screen!vars
    BY <1>10 DEF ScreenInv, Screen!vars, Screen!backend, Screen!editor, Screen!list, Screen!history
  <1>11. QED
    BY <1>1, <1>2, <1>3, <1>4, <1>5, <1>6, <1>7, <1>8, <1>9, <1>10 DEF Screen!Next

\* The screen of the templates (TemplatesPage, DocumentTemplates, GuidedMarking):
\* every variable has its type; the preview of "Revisar y guardar" is of the
\* marking that would be saved; and nothing it disables or shows as loading stays
\* so without a call on its way, whatever was answered, refused, failed or
\* aborted and in whatever order.
THEOREM TemplatesScreenIsTrue ==
    ASSUME Screen!TemplatesScreenAssumption
    PROVE  Screen!Spec => [](Screen!TypeOK /\ Screen!PreviewIsCurrent /\ Screen!WaitingHasACall)
  <1>1. Screen!Init => ScreenInv
    BY ScreenStarts
  <1>2. ScreenInv /\ [Screen!Next]_(Screen!vars) => ScreenInv'
    BY ScreenSteps
  <1>3. ScreenInv => Screen!TypeOK
    <2>1. SUFFICES ASSUME ScreenInv PROVE Screen!TypeOK
      OBVIOUS
    <2>2. Screen!Cardinality(calls) <= MaxCalls
      BY <2>1, SameCardinality DEF ScreenInv, CallsT
    <2>3. calls \subseteq CallSet
      BY <2>1 DEF ScreenInv, CallsT
    <2>4. QED
      BY <2>1, <2>2, <2>3
         DEF ScreenInv, Screen!TypeOK, BackT, EditorT, ListT, HistT, MarkingT, CallSet
  <1>4. ScreenInv => Screen!PreviewIsCurrent
    <2>1. SUFFICES ASSUME ScreenInv, page = "marking", step = "review", preview.status = "ready"
                   PROVE  preview.of = marking
      BY DEF Screen!PreviewIsCurrent
    <2>2. QED
      BY <2>1 DEF ScreenInv, PreviewOK
  <1>5. ScreenInv => Screen!WaitingHasACall
    <2>1. SUFFICES ASSUME ScreenInv PROVE Screen!WaitingHasACall
      OBVIOUS
    <2>2. ASSUME page = "marking"
          PROVE  /\ content = "loading" => Screen!Waiting("content") # {}
                 /\ saving => Screen!Waiting("save") \cup Screen!Waiting("listAgain") # {}
                 /\ discarding => Screen!Waiting("cancel") # {}
                 /\ step = "review" /\ preview.status = "loading" => Screen!Waiting("preview") # {}
      <3>1. content = "loading" => Screen!Waiting("content") # {}
        BY <2>1, <2>2 DEF ScreenInv, MarkWaits, Going, Screen!Waiting
      <3>2. saving => Screen!Waiting("save") \cup Screen!Waiting("listAgain") # {}
        BY <2>1, <2>2 DEF ScreenInv, MarkWaits, Going, Screen!Waiting
      <3>3. discarding => Screen!Waiting("cancel") # {}
        BY <2>1, <2>2 DEF ScreenInv, MarkWaits, Going, Screen!Waiting
      <3>4. step = "review" /\ preview.status = "loading" => Screen!Waiting("preview") # {}
        <4>1. marking # Null
          BY <2>1, Bounds DEF ScreenInv, EditorT
        <4>2. QED
          BY <2>1, <2>2, <4>1 DEF ScreenInv, PreviewOK, Going, Screen!Waiting
      <3>5. QED
        BY <3>1, <3>2, <3>3, <3>4
    <2>3. ASSUME page = "list"
          PROVE  /\ uploading => Screen!Waiting("upload") # {}
                 /\ activating => Screen!Waiting("activate") # {}
                 /\ shown = Null /\ ~listError => Screen!Waiting("history") # {}
      BY <2>1, <2>3 DEF ScreenInv, ListWaits, Going, Screen!Waiting
    <2>4. QED
      BY <2>2, <2>3 DEF Screen!WaitingHasACall
  <1>6. QED
    BY <1>1, <1>2, <1>3, <1>4, <1>5, PTL DEF Screen!Spec

\* The browser brings a marking back while its draft lives, no save of it was
\* answered and it was not discarded, whatever closed it: no late answer of
\* another visit forgets it, and only that of an upload whose screen was left
\* takes its place (templateDraftStorage, forgetStoredDraft).  A draft may live on
\* after its save (templates.service.ts:601), and a save goes on after its screen
\* was left (GuidedMarking.tsx:563).
THEOREM MarkingIsKept ==
    ASSUME Screen!TemplatesScreenAssumption
    PROVE  Screen!Spec => []Screen!MarkingKept
  <1>1. Screen!Init => ScreenInv
    BY ScreenStarts
  <1>2. ScreenInv /\ [Screen!Next]_(Screen!vars) => ScreenInv'
    BY ScreenSteps
  <1>3. ScreenInv => Screen!MarkingKept
    BY DEF ScreenInv, KeptOK, Screen!MarkingKept
  <1>4. QED
    BY <1>1, <1>2, <1>3, PTL DEF Screen!Spec
=============================================================================
