----------------------------- MODULE JobScreen ------------------------------
(***************************************************************************)
(* A screen of the panel that offers the ZIP of one document type: the     *)
(* hook usePdfJob with the panel of the start button, against the jobs of  *)
(* the municipality, which runs one at a time, of either type.  The screen *)
(* may be left and entered again; what it remembers in the browser is the  *)
(* id of the last job of its type it followed.                             *)
(*                                                                         *)
(* A request is two steps, the backend's and the delivery of its answer;   *)
(* in between the job, the screen and the Administrator go on.  What a     *)
(* timer or a button asks is read in the step that asks it, which may come *)
(* at any time.  The requests the screen aborts when it is left are        *)
(* dropped; those it does not abort are delivered to the handlers of the   *)
(* visit that made them.                                                   *)
(***************************************************************************)
EXTENDS Naturals

CONSTANTS
    OwnJobs,    \* jobs of the screen's document type
    OtherJobs,  \* jobs of the other document type
    MaxVisits,  \* bound: how often the screen is entered
    MaxFaults,  \* bound: requests that fail
    Null

\* What a request is answered with, but the id of a job; "wait" is no answer yet.
Words == {"wait", "none", "busy", "refused", "fail", "ok", "gone",
          "active", "done", "expired", "failed"}

\* An id is none of these.
JobScreenAssumption ==
    /\ OwnJobs \cap OtherJobs = {}
    /\ Null \notin OwnJobs \cup OtherJobs
    /\ (OwnJobs \cup OtherJobs \cup {Null}) \cap Words = {}
    /\ MaxVisits \in Nat /\ MaxFaults \in Nat

Jobs == OwnJobs \cup OtherJobs

Calls == {"active", "last", "poll", "watch", "adopt", "start", "download"}

VARIABLES
    jobs,        \* jobs[j]: the job in the backend
    page,        \* the screen is shown
    job,         \* the job it shows: [id, status] as last read, or Null
    other,       \* the job of the other type that holds the municipality
    expiredId,   \* the job whose ZIP it saw expire
    auto,        \* autoDownloadRef: the job that downloads itself when ready
    remembered,  \* lastPdfJob in the browser's storage
    net,         \* net[c]: the request of that name in flight, or Null
    visits, faults

shown  == <<job, other, expiredId, auto>>
bounds == <<visits, faults>>
vars   == <<jobs, page, shown, remembered, net, bounds>>

Active(status) == status = "active"

TypeOK ==
    /\ jobs \in [Jobs -> {"unborn", "active", "done", "expired", "failed"}]
    /\ page \in BOOLEAN
    /\ job \in [id : OwnJobs, status : {"active", "done", "expired", "failed"}]
               \cup {Null}
    /\ other \in OtherJobs \cup {Null}
    /\ expiredId \in OwnJobs \cup {Null}
    /\ auto \in OwnJobs \cup {Null}
    /\ remembered \in OwnJobs \cup {Null}
    /\ net \in [Calls ->
          [id : Jobs \cup {Null}, here : BOOLEAN,
           answer : Jobs \cup Words]
          \cup {Null}]
    /\ visits \in 0 .. MaxVisits /\ faults \in 0 .. MaxFaults

Init ==
    /\ jobs = [j \in Jobs |-> "unborn"]
    /\ page = FALSE
    /\ job = Null /\ other = Null /\ expiredId = Null /\ auto = Null
    /\ remembered = Null
    /\ net = [c \in Calls |-> Null]
    /\ visits = 0 /\ faults = 0

-----------------------------------------------------------------------------
(* The backend *)

Running == {j \in Jobs : jobs[j] = "active"}

\* What a read of the job may say: the backend refuses the ZIP as soon as it
\* expires, and marks the job EXPIRED in a later sweep.
Statuses(j) == IF jobs[j] = "expired" THEN {"done", "expired"} ELSE {jobs[j]}

\* Another tab, or another Administrator.
StartElsewhere(j) ==
    /\ jobs[j] = "unborn" /\ Running = {}
    /\ jobs' = [jobs EXCEPT ![j] = "active"]
    /\ UNCHANGED <<page, shown, remembered, net, bounds>>

Becomes(j, from, to) ==
    /\ jobs[j] = from
    /\ jobs' = [jobs EXCEPT ![j] = to]
    /\ UNCHANGED <<page, shown, remembered, net, bounds>>

Ends(j)    == Becomes(j, "active", "done") \/ Becomes(j, "active", "failed")
Expires(j) == Becomes(j, "done", "expired")

InFlight(c) == net[c] # Null

Waits(c) == InFlight(c) /\ net[c].answer = "wait"

Call(id) == [id |-> id, here |-> TRUE, answer |-> "wait"]

Asked(id) == {[Call(id) EXCEPT !.answer = s] : s \in Statuses(id)}

Fetch(id) == [Call(id) EXCEPT !.answer = IF jobs[id] = "done" THEN "ok"
                                                              ELSE "gone"]

\* GET /pdf-jobs/active.
Serve(c) ==
    /\ c \in {"active", "adopt"} /\ Waits(c)
    /\ net' = [net EXCEPT ![c].answer =
                  IF Running = {} THEN "none" ELSE CHOOSE j \in Running : TRUE]
    /\ UNCHANGED <<jobs, page, shown, remembered, bounds>>

\* POST /pdf-jobs: refused when there is nothing to generate or the data of
\* a document is incomplete.
ServeStart ==
    /\ Waits("start")
    /\ \/ /\ net' = [net EXCEPT !["start"].answer =
                                IF Running # {} THEN "busy" ELSE "refused"]
          /\ UNCHANGED jobs
       \/ /\ Running = {}
          /\ \E j \in OwnJobs :
                /\ jobs[j] = "unborn"
                /\ jobs' = [jobs EXCEPT ![j] = "active"]
                /\ net' = [net EXCEPT !["start"].answer = j]
    /\ UNCHANGED <<page, shown, remembered, bounds>>

\* The request fails, or its answer is lost: what it did stays done.
Fails(c) ==
    /\ InFlight(c) /\ net[c].answer # "fail"
    /\ faults < MaxFaults
    /\ faults' = faults + 1
    /\ net' = [net EXCEPT ![c].answer = "fail"]
    /\ UNCHANGED <<jobs, page, shown, remembered, visits>>

-----------------------------------------------------------------------------
(* The screen *)

\* The requests with a controller that the screen aborts when it is left.
Aborted == {"active", "last", "poll", "watch"}

Arrive ==
    /\ ~page
    /\ visits < MaxVisits
    /\ page' = TRUE
    /\ job' = Null /\ other' = Null /\ expiredId' = Null /\ auto' = Null
    /\ net' = [net EXCEPT !["active"] = Call(Null)]
    /\ visits' = visits + 1
    /\ UNCHANGED <<jobs, remembered, faults>>

Leave ==
    /\ page
    /\ page' = FALSE
    /\ net' = [c \in Calls |->
                 IF c \in Aborted \/ ~InFlight(c) THEN Null
                 ELSE [net[c] EXCEPT !.here = FALSE]]
    /\ UNCHANGED <<jobs, shown, remembered, bounds>>

Over(j, expired) ==
    \/ j.status \in {"failed", "expired"}
    \/ j.status = "done" /\ j.id = expired

\* A mutant: what is remembered may be another job by now.
ForgetsAny(j, expired, kept) == Over(j, expired)

\* forgetPdfJob: "Another tab may already be following a newer job."
Forgets(j, expired, kept) == Over(j, expired) /\ kept = j.id

\* Showing job j (setJob): a poll of another job, or of one no longer active,
\* is aborted; a job that is shown to have failed or expired is forgotten by
\* the browser.
Show(j, expired, kept, calls) ==
    /\ job' = j
    /\ expiredId' = expired
    /\ net' = IF /\ calls["poll"] # Null
                 /\ j = Null \/ calls["poll"].id # j.id \/ ~Active(j.status)
              THEN [calls EXCEPT !["poll"] = Null]
              ELSE calls
    /\ remembered' = IF /\ j # Null
                        /\ j # job \/ expired # expiredId
                        /\ Forgets(j, expired, kept)
                     THEN Null ELSE kept

Read(j, status) == [id |-> j, status |-> status]

Done(c) == [net EXCEPT ![c] = Null]

Delivered(c) == InFlight(c) /\ ~Waits(c)

\* restore, its second read: the last job this browser followed.
ThenLast(calls) ==
    IF remembered = Null THEN {calls}
    ELSE {[calls EXCEPT !["last"] = c] : c \in Asked(remembered)}

\* restore, its first read.
DeliverActive ==
    /\ Delivered("active")
    /\ LET answer == net["active"].answer
       IN \/ /\ answer \in OwnJobs
             /\ Show(IF job = Null THEN Read(answer, "active") ELSE job,
                     expiredId, answer, Done("active"))
             /\ UNCHANGED other
          \/ /\ answer \in OtherJobs \cup {"none"}
             /\ other' = IF answer = "none" THEN other ELSE answer
             /\ net' \in ThenLast(Done("active"))
             /\ UNCHANGED <<job, expiredId, remembered>>
          \/ /\ answer = "fail"
             /\ net' = Done("active")
             /\ UNCHANGED <<job, expiredId, remembered, other>>
    /\ UNCHANGED <<jobs, page, auto, bounds>>

DeliverLast ==
    /\ Delivered("last")
    /\ IF net["last"].answer = "fail"
       THEN net' = Done("last") /\ UNCHANGED <<job, expiredId, remembered>>
       ELSE Show(IF job = Null THEN Read(net["last"].id, net["last"].answer)
                               ELSE job,
                 expiredId, remembered, Done("last"))
    /\ UNCHANGED <<jobs, page, other, auto, bounds>>

\* The loop of the effect on pollingId: a failed read is tried again.
Poll ==
    /\ page /\ job # Null
    /\ Active(job.status)
    /\ ~InFlight("poll")
    /\ \E c \in Asked(job.id) : net' = [net EXCEPT !["poll"] = c]
    /\ UNCHANGED <<jobs, page, shown, remembered, bounds>>

\* A mutant: a job that fails keeps the button off.
EndedDone == {"done", "expired"}

Ended == {"done", "failed", "expired"}

DeliverPoll ==
    /\ Delivered("poll")
    /\ LET id == net["poll"].id
           answer == net["poll"].answer
           \* handleSettled: the job this visit started downloads itself.
           itself == answer \in Ended /\ auto = id
           calls == IF itself /\ answer = "done"
                    THEN [Done("poll") EXCEPT !["download"] = Fetch(id)]
                    ELSE Done("poll")
       IN IF answer = "fail"
          THEN net' = Done("poll")
               /\ UNCHANGED <<job, expiredId, remembered, auto>>
          ELSE /\ Show(Read(id, answer), expiredId, remembered, calls)
               /\ auto' = IF itself THEN Null ELSE auto
    /\ UNCHANGED <<jobs, page, other, bounds>>

\* The job of the other type is read every 5 seconds until it ends.
Watch ==
    /\ page /\ other # Null
    /\ ~InFlight("watch")
    /\ \E c \in Asked(other) : net' = [net EXCEPT !["watch"] = c]
    /\ UNCHANGED <<jobs, page, shown, remembered, bounds>>

DeliverWatch ==
    /\ Delivered("watch")
    /\ other' = IF net["watch"].answer \in Ended THEN Null ELSE other
    /\ net' = Done("watch")
    /\ UNCHANGED <<jobs, page, job, expiredId, auto, remembered, bounds>>

Expired == job # Null /\ (job.status = "expired" \/ job.id = expiredId)
Ready   == job # Null /\ job.status = "done" /\ ~Expired

\* ZipJobPanel: the button of every row waits.
Busy ==
    \/ job # Null /\ Active(job.status)
    \/ other # Null
    \/ InFlight("download") /\ net["download"].here
    \/ InFlight("start") /\ net["start"].here

\* handleGenerate: discardFinished, and the request.  Bound: the answer to a
\* start of an earlier visit has come.
Generate ==
    /\ page /\ ~Busy
    /\ ~InFlight("start")
    /\ job' = IF job # Null /\ (job.status = "failed" \/ Expired) THEN Null
                                                                 ELSE job
    /\ net' = [net EXCEPT !["start"] = Call(Null)]
    /\ UNCHANGED <<jobs, page, other, expiredId, auto, remembered, bounds>>

\* follow, or adoptRunning when a job runs already.  Of a visit that is over
\* only the browser's storage is left to write.
DeliverStart ==
    /\ Delivered("start")
    /\ LET answer == net["start"].answer
           here == net["start"].here
       IN \/ /\ answer \in OwnJobs /\ here
             /\ Show(Read(answer, "active"), expiredId, answer, Done("start"))
             /\ auto' = answer
             /\ other' = Null
          \/ /\ answer \in OwnJobs /\ ~here
             /\ remembered' = answer
             /\ net' = Done("start")
             /\ UNCHANGED shown
          \/ /\ answer = "busy"
             /\ net' = [Done("start") EXCEPT
                          !["adopt"] = [Call(Null) EXCEPT !.here = here]]
             /\ UNCHANGED <<shown, remembered>>
          \/ /\ answer \in {"refused", "fail"}
             /\ net' = Done("start")
             /\ UNCHANGED <<shown, remembered>>
    /\ UNCHANGED <<jobs, page, bounds>>

DeliverAdopt ==
    /\ Delivered("adopt")
    /\ LET answer == net["adopt"].answer
           here == net["adopt"].here
       IN \/ /\ answer \in OwnJobs /\ here
             /\ Show(Read(answer, "active"), expiredId, answer, Done("adopt"))
             /\ UNCHANGED other
          \/ /\ answer \in OwnJobs /\ ~here
             /\ remembered' = answer
             /\ net' = Done("adopt")
             /\ UNCHANGED <<job, other, expiredId>>
          \/ /\ answer \in OtherJobs
             /\ other' = IF here THEN answer ELSE other
             /\ net' = Done("adopt")
             /\ UNCHANGED <<job, expiredId, remembered>>
          \/ /\ answer \in {"none", "fail"}
             /\ net' = Done("adopt")
             /\ UNCHANGED <<job, other, expiredId, remembered>>
    /\ UNCHANGED <<jobs, page, auto, bounds>>

\* The button of the ready ZIP.
Download ==
    /\ page /\ Ready
    /\ ~InFlight("download")
    /\ net' = [net EXCEPT !["download"] = Fetch(job.id)]
    /\ UNCHANGED <<jobs, page, shown, remembered, bounds>>

\* BULK_JOB_EXPIRED hides the ZIP; any other failure leaves the button.
DeliverDownload ==
    /\ Delivered("download")
    /\ LET id == net["download"].id
       IN IF net["download"].answer = "gone" /\ net["download"].here
          THEN Show(job, id, remembered, Done("download"))
          ELSE net' = Done("download")
               /\ UNCHANGED <<job, expiredId, remembered>>
    /\ UNCHANGED <<jobs, page, other, auto, bounds>>

\* The timer of expiresAt.
TimerEnds ==
    /\ page /\ Ready
    /\ jobs[job.id] = "expired"
    /\ Show(job, job.id, remembered, net)
    /\ UNCHANGED <<jobs, page, other, auto, bounds>>

-----------------------------------------------------------------------------

Backend ==
    \/ \E j \in Jobs : StartElsewhere(j) \/ Ends(j) \/ Expires(j)
    \/ \E c \in Calls : Serve(c) \/ Fails(c)
    \/ ServeStart

Deliver ==
    \/ DeliverActive \/ DeliverLast \/ DeliverPoll \/ DeliverWatch
    \/ DeliverStart \/ DeliverAdopt \/ DeliverDownload

Next ==
    \/ Backend
    \/ Deliver
    \/ Arrive \/ Leave \/ Poll \/ Watch
    \/ Generate \/ Download \/ TimerEnds

Spec == Init /\ [][Next]_vars

\* Timers fire, requests end one way or the other, and a job ends (the
\* property JobsEnd of BulkJob).  The Administrator owes nothing.
Fairness ==
    /\ WF_vars(Poll) /\ WF_vars(Watch) /\ WF_vars(TimerEnds)
    /\ WF_vars(ServeStart)
    /\ \A c \in Calls : WF_vars(Serve(c))
    /\ WF_vars(DeliverActive) /\ WF_vars(DeliverLast) /\ WF_vars(DeliverPoll)
    /\ WF_vars(DeliverWatch) /\ WF_vars(DeliverStart) /\ WF_vars(DeliverAdopt)
    /\ WF_vars(DeliverDownload)
    /\ \A j \in Jobs : WF_vars(Ends(j))

FairSpec == Spec /\ Fairness

-----------------------------------------------------------------------------
(* Properties *)

\* The browser forgets a job only once there is nothing left to bring back of
\* it, though answers about older jobs, of this visit or an earlier one, arrive
\* after it is remembered.
RememberedUntilOver ==
    [][remembered # Null /\ remembered' = Null =>
          jobs[remembered] \in {"failed", "expired"}]_vars

\* The start button is never disabled for good: a job that ends, of either
\* type, frees it, though reads fail, answers cross and the job that is shown
\* is another one than the one that runs.
NeverStuck == page /\ Busy ~> ~page \/ ~Busy
=============================================================================
