---------------------------- MODULE ScreensProofs ---------------------------
(***************************************************************************)
(* Proofs about the screens of the panel, for every set of jobs, files,    *)
(* periods and properties, and any number of visits, requests and faults.  *)
(***************************************************************************)
EXTENDS JobScreen, Sequences, WellFoundedInduction, TLAPS

CONSTANTS Files, Properties, Lists, BadFiles, MaxReviews, Periods, Covers, NameOf,
          MaxImports,
          \* PublicConsultation
          Settlement, PropertyOf, PeriodOf, RiskYear, Towns, Slugs, TownOf, Facts, Forms,
          Limit, MaxCalls, MaxOthers

VARIABLES
    \* TaxRollScreen
    current, imports, jobRuns, roll, spent, result, leaving, dialog, call, sent,
    rollFaults,
    \* PaymentOrdersScreen
    eligible, ordered, handedBack, orderJob, file, step, preview, issued, toGenerate,
    reviewing, reviews, list, issue, reads, orderFaults,
    \* PublicConsultation
    stored, era, hits, slug, route, info, values, search, submitted, pdfState,
    consulting, requests, delivered, moves, asked, publicFaults

Roll == INSTANCE TaxRollScreen WITH job <- jobRuns, file <- roll, faults <- rollFaults

Orders == INSTANCE PaymentOrdersScreen WITH job <- orderJob, faults <- orderFaults

Public == INSTANCE PublicConsultation WITH
              calls <- requests, visits <- moves, sent <- asked, faults <- publicFaults

-----------------------------------------------------------------------------
(* JobScreen: what the screen and the browser know of the jobs *)

AllJobs == [Jobs -> {"unborn", "active", "done", "expired", "failed"}]

Born(js, j) == js[j] # "unborn"

\* A job was read with this status, or its ZIP was refused: later reads may say more.
Agrees(js, j, said) ==
    /\ said \in {"active", "done", "expired", "failed"} => Born(js, j)
    /\ said = "done" => js[j] \in {"done", "expired"}
    /\ said = "failed" => js[j] = "failed"
    /\ said \in {"expired", "gone"} => js[j] = "expired"

Request == [id : Jobs \cup {Null}, here : BOOLEAN, answer : Jobs \cup Words]

\* What each request may be about and be answered; an answer on its way was true
\* of its job, and still is.
RequestOK(js, c, r) ==
    /\ r \in Request
    /\ c \in {"active", "adopt", "start"} => r.id = Null
    /\ c = "watch" => r.id \in OtherJobs
    /\ c \in {"last", "poll", "download"} => r.id \in OwnJobs
    /\ c \in {"active", "adopt"} => r.answer \in Jobs \cup {"wait", "none", "fail"}
    /\ c = "start" => r.answer \in OwnJobs \cup {"wait", "busy", "refused", "fail"}
    /\ c \in {"last", "poll", "watch"} =>
          r.answer \in {"active", "done", "expired", "failed", "fail"}
    /\ c = "download" => r.answer \in {"ok", "gone", "fail"}
    /\ r.answer \in Jobs => Born(js, r.answer)
    /\ r.id # Null => Agrees(js, r.id, r.answer)

RequestsOK(js, n) ==
    /\ n \in [Calls -> Request \cup {Null}]
    /\ \A c \in Calls : n[c] # Null => RequestOK(js, c, n[c])

\* A job the screen shows is as it was read.
IsShown(js, j) ==
    /\ j \in [id : OwnJobs, status : {"active", "done", "expired", "failed"}]
    /\ Agrees(js, j.id, j.status)

\* The inductive invariant: whatever crosses, what the screen shows, remembers or
\* waits for is of a job that exists, and what it takes for over is over.
JobInv ==
    /\ TypeOK
    /\ RequestsOK(jobs, net)
    /\ job # Null => IsShown(jobs, job)
    /\ expiredId # Null => jobs[expiredId] = "expired"
    /\ remembered # Null => Born(jobs, remembered)
    /\ other # Null => Born(jobs, other)

\* A job that ended stays as it ended, but for a ZIP that expires.
JobsGoOn(was, now) ==
    \A j \in Jobs :
        /\ Born(was, j) => Born(now, j)
        /\ was[j] = "done" => now[j] \in {"done", "expired"}
        /\ was[j] \in {"expired", "failed"} => now[j] = was[j]

LEMMA StillAgrees ==
    ASSUME NEW was, NEW now, JobsGoOn(was, now), NEW j \in Jobs, NEW said, Agrees(was, j, said)
    PROVE  Agrees(now, j, said)
  BY DEF JobsGoOn, Agrees, Born

LEMMA StillOK ==
    ASSUME NEW was, NEW now, JobsGoOn(was, now), NEW n, RequestsOK(was, n)
    PROVE  RequestsOK(now, n)
  <1>1. ASSUME NEW c \in Calls, n[c] # Null
        PROVE  RequestOK(now, c, n[c])
    <2> DEFINE r == n[c]
    <2>1. RequestOK(was, c, r)
      BY <1>1 DEF RequestsOK
    <2>2. r.id # Null => Agrees(now, r.id, r.answer)
      BY <2>1, StillAgrees DEF RequestOK, Request
    <2>3. r.answer \in Jobs => Born(now, r.answer)
      BY <2>1 DEF RequestOK, JobsGoOn
    <2>4. QED
      BY <2>1, <2>2, <2>3 DEF RequestOK
  <1>2. QED
    BY <1>1 DEF RequestsOK

\* One request is asked, answered or over.
LEMMA OneRequest ==
    ASSUME NEW js, NEW n, RequestsOK(js, n), NEW c \in Calls, NEW r,
           r = Null \/ RequestOK(js, c, r)
    PROVE  RequestsOK(js, [n EXCEPT ![c] = r])
  BY DEF RequestsOK, RequestOK

\* A read of a job that exists.
LEMMA AskedIs ==
    ASSUME JobScreenAssumption, TypeOK, NEW j \in Jobs, Born(jobs, j), NEW r \in Asked(j)
    PROVE  /\ r \in Request /\ r.id = j /\ r.here
           /\ r.answer \in {"active", "done", "expired", "failed"}
           /\ Agrees(jobs, j, r.answer)
  <1>1. PICK said \in Statuses(j) : r = [Call(j) EXCEPT !.answer = said]
    BY DEF Asked
  <1>2. said \in {"active", "done", "expired", "failed"} /\ Agrees(jobs, j, said)
    BY <1>1 DEF Statuses, TypeOK, Born, Agrees
  <1>3. QED
    BY <1>1, <1>2 DEF Call, Request, Words

\* A request for a job, about which its answer says the truth.
LEMMA AskedOK ==
    ASSUME JobScreenAssumption, TypeOK, NEW j \in Jobs, Born(jobs, j), NEW r \in Asked(j),
           NEW c \in {"last", "poll", "watch"},
           j \in IF c = "watch" THEN OtherJobs ELSE OwnJobs
    PROVE  RequestOK(jobs, c, r)
  <1>1. /\ r \in Request /\ r.id = j
        /\ r.answer \in {"active", "done", "expired", "failed"}
        /\ Agrees(jobs, j, r.answer)
    BY AskedIs
  <1>2. r.answer \notin Jobs
    BY <1>1 DEF JobScreenAssumption, Words, Jobs
  <1>3. QED
    BY <1>1, <1>2 DEF RequestOK

\* The ZIP of a job that was ready.
LEMMA FetchIs ==
    ASSUME JobScreenAssumption, NEW j \in OwnJobs, jobs[j] \in {"done", "expired"}
    PROVE  RequestOK(jobs, "download", Fetch(j))
  BY DEF JobScreenAssumption, Fetch, Call, RequestOK, Request, Words, Jobs, Agrees, Born

\* A request of which nothing is asked but to be served.
LEMMA CallIs ==
    ASSUME JobScreenAssumption, NEW c \in {"active", "adopt", "start"},
           NEW here \in BOOLEAN
    PROVE  RequestOK(jobs, c, [Call(Null) EXCEPT !.here = here])
  BY DEF JobScreenAssumption, Call, RequestOK, Request, Words, Jobs

LEMMA InFlightIs ==
    ASSUME JobInv, NEW c \in Calls, InFlight(c)
    PROVE  RequestOK(jobs, c, net[c])
  BY DEF JobInv, RequestsOK, InFlight

\* A request that was answered is over.
LEMMA DoneOK ==
    ASSUME JobInv, NEW c \in Calls
    PROVE  RequestsOK(jobs, Done(c))
  BY OneRequest DEF JobInv, Done

\* Showing a job: the browser forgets what it remembered only of a job that is over.
LEMMA ShowIs ==
    ASSUME JobScreenAssumption, JobInv,
           NEW j, j = Null \/ IsShown(jobs, j),
           NEW expired \in OwnJobs \cup {Null}, expired # Null => jobs[expired] = "expired",
           NEW kept \in OwnJobs \cup {Null}, kept # Null => Born(jobs, kept),
           NEW n, RequestsOK(jobs, n),
           Show(j, expired, kept, n)
    PROVE  /\ RequestsOK(jobs, net')
           /\ job' = j /\ expiredId' = expired
           /\ \/ remembered' = kept
              \/ /\ remembered' = Null /\ jobs[kept] \in {"expired", "failed"}
                 /\ j # job \/ expired # expiredId
                 /\ j # Null /\ j.status # "active"
  <1>1. net' = n \/ net' = [n EXCEPT !["poll"] = Null]
    BY DEF Show
  <1>2. RequestsOK(jobs, net')
    BY <1>1, OneRequest DEF Calls
  <1>3. ASSUME remembered' # kept
        PROVE  /\ remembered' = Null /\ jobs[kept] \in {"expired", "failed"}
               /\ j # job \/ expired # expiredId
               /\ j # Null /\ j.status # "active"
    <2>1. /\ remembered' = Null /\ j # Null /\ Over(j, expired) /\ kept = j.id
          /\ j # job \/ expired # expiredId
      BY <1>3 DEF Show, Forgets
    <2>2. IsShown(jobs, j) /\ j.id \in OwnJobs
      BY <2>1 DEF IsShown
    <2>3. QED
      BY <2>1, <2>2 DEF Over, IsShown, Agrees, JobScreenAssumption
  <1>4. QED
    BY <1>2, <1>3 DEF Show

\* What is forgotten is over.
ForgetsWell ==
    remembered # Null /\ remembered' = Null => jobs[remembered] \in {"failed", "expired"}

\* A step that leaves the screen as it is.
LEMMA QuietScreen ==
    ASSUME JobScreenAssumption, JobInv, JobsGoOn(jobs, jobs'),
           page' = page, job' = job, other' = other, expiredId' = expiredId, auto' = auto,
           remembered' = remembered,
           jobs' \in AllJobs, visits' \in 0 .. MaxVisits, faults' \in 0 .. MaxFaults,
           RequestsOK(jobs', net')
    PROVE  JobInv' /\ ForgetsWell
  <1>1. TypeOK'
    BY DEF JobInv, TypeOK, RequestsOK, Request, AllJobs
  <1>2. ForgetsWell
    BY DEF ForgetsWell
  <1>3. job # Null => IsShown(jobs', job)
    BY StillAgrees DEF JobInv, IsShown, Jobs
  <1>4. /\ remembered # Null => remembered \in Jobs
        /\ other # Null => other \in Jobs
        /\ expiredId # Null => expiredId \in Jobs
    BY DEF JobInv, TypeOK, Jobs
  <1>5. /\ remembered # Null => Born(jobs', remembered)
        /\ other # Null => Born(jobs', other)
        /\ expiredId # Null => jobs'[expiredId] = "expired"
    BY <1>4 DEF JobInv, JobsGoOn
  <1>6. QED
    BY <1>1, <1>2, <1>3, <1>5 DEF JobInv

\* A step of the screen with the jobs as they are.
LEMMA ScreenStep ==
    ASSUME JobScreenAssumption, JobInv, jobs' = jobs,
           page' \in BOOLEAN, visits' \in 0 .. MaxVisits, faults' \in 0 .. MaxFaults,
           RequestsOK(jobs, net'),
           job' = Null \/ IsShown(jobs, job'),
           other' \in OtherJobs \cup {Null}, other' # Null => Born(jobs, other'),
           expiredId' \in OwnJobs \cup {Null}, expiredId' # Null => jobs[expiredId'] = "expired",
           auto' \in OwnJobs \cup {Null},
           remembered' \in OwnJobs \cup {Null}, remembered' # Null => Born(jobs, remembered')
    PROVE  JobInv'
  <1>1. TypeOK'
    BY DEF JobInv, TypeOK, RequestsOK, Request, IsShown
  <1>2. QED
    BY <1>1 DEF JobInv

-----------------------------------------------------------------------------
(* JobScreen: the steps of the backend *)

LEMMA StartElsewhereKeeps ==
    ASSUME JobScreenAssumption, JobInv, NEW j \in Jobs, StartElsewhere(j)
    PROVE  JobInv' /\ ForgetsWell
  <1>1. JobsGoOn(jobs, jobs') /\ jobs' \in AllJobs
    BY DEF StartElsewhere, JobsGoOn, Born, JobInv, TypeOK, AllJobs
  <1>2. RequestsOK(jobs', net) /\ net' = net
    BY <1>1, StillOK DEF JobInv, StartElsewhere
  <1>3. QED
    BY <1>1, <1>2, QuietScreen DEF StartElsewhere, bounds, shown, JobInv, TypeOK

LEMMA BecomesKeeps ==
    ASSUME JobScreenAssumption, JobInv, NEW j \in Jobs, Ends(j) \/ Expires(j)
    PROVE  JobInv' /\ ForgetsWell
  <1>1. PICK from, to : Becomes(j, from, to) /\ <<from, to>> \in
            {<<"active", "done">>, <<"active", "failed">>, <<"done", "expired">>}
    BY DEF Ends, Expires
  <1>2. JobsGoOn(jobs, jobs') /\ jobs' \in AllJobs
    BY <1>1 DEF Becomes, JobsGoOn, Born, JobInv, TypeOK, AllJobs
  <1>3. RequestsOK(jobs', net) /\ net' = net
    BY <1>1, <1>2, StillOK DEF JobInv, Becomes
  <1>4. QED
    BY <1>1, <1>2, <1>3, QuietScreen DEF Becomes, bounds, shown, JobInv, TypeOK

LEMMA ServeKeeps ==
    ASSUME JobScreenAssumption, JobInv, NEW c \in Calls, Serve(c)
    PROVE  JobInv' /\ ForgetsWell
  <1> DEFINE said == IF Running = {} THEN "none" ELSE CHOOSE j \in Running : TRUE
             r == [net[c] EXCEPT !.answer = said]
  <1>1. RequestOK(jobs, c, net[c]) /\ c \in {"active", "adopt"}
    BY InFlightIs DEF Serve, Waits
  <1>2. said = "none" \/ (said \in Jobs /\ Born(jobs, said))
    BY DEF Running, Born
  <1>3. RequestOK(jobs, c, r)
    BY <1>1, <1>2 DEF RequestOK, Request, Words, JobScreenAssumption, Jobs
  <1>4. net' = [net EXCEPT ![c] = r]
    BY DEF Serve, JobInv, RequestsOK
  <1>5. RequestsOK(jobs, net')
    BY <1>3, <1>4, OneRequest DEF JobInv
  <1>6. jobs' = jobs /\ JobsGoOn(jobs, jobs')
    BY DEF Serve, JobsGoOn
  <1>7. QED
    BY <1>5, <1>6, QuietScreen DEF Serve, bounds, shown, JobInv, TypeOK, AllJobs

LEMMA ServeStartKeeps ==
    ASSUME JobScreenAssumption, JobInv, ServeStart
    PROVE  JobInv' /\ ForgetsWell
  <1>1. RequestOK(jobs, "start", net["start"])
    BY InFlightIs DEF ServeStart, Waits, Calls
  <1>2. PICK said : /\ net' = [net EXCEPT !["start"] = [net["start"] EXCEPT !.answer = said]]
                    /\ said \in OwnJobs \/ said \in {"busy", "refused"}
                    /\ said \in OwnJobs => jobs' = [jobs EXCEPT ![said] = "active"]
                                           /\ jobs[said] = "unborn"
                    /\ said \notin OwnJobs => jobs' = jobs
    <2>1. CASE /\ net' = [net EXCEPT !["start"].answer =
                                IF Running # {} THEN "busy" ELSE "refused"]
               /\ UNCHANGED jobs
      BY <2>1 DEF JobInv, RequestsOK, JobScreenAssumption, Words
    <2>2. CASE \E j \in OwnJobs :
                /\ jobs[j] = "unborn"
                /\ jobs' = [jobs EXCEPT ![j] = "active"]
                /\ net' = [net EXCEPT !["start"].answer = j]
      BY <2>2 DEF JobInv, RequestsOK
    <2>3. QED
      BY <2>1, <2>2 DEF ServeStart
  <1> DEFINE r == [net["start"] EXCEPT !.answer = said]
  <1>3. JobsGoOn(jobs, jobs') /\ jobs' \in AllJobs
    BY <1>2 DEF JobsGoOn, Born, JobInv, TypeOK, Jobs, AllJobs
  <1>4. said \in OwnJobs => Born(jobs', said)
    BY <1>2 DEF Born, JobInv, TypeOK, Jobs
  <1>5. RequestOK(jobs', "start", r)
    BY <1>1, <1>2, <1>4 DEF RequestOK, Request, Words, Jobs, JobScreenAssumption
  <1>6. RequestsOK(jobs', net)
    BY <1>3, StillOK DEF JobInv
  <1>7. RequestsOK(jobs', net')
    BY <1>2, <1>5, <1>6, OneRequest DEF Calls
  <1>8. QED
    BY <1>3, <1>7, QuietScreen DEF ServeStart, bounds, shown, JobInv, TypeOK

LEMMA FailsKeeps ==
    ASSUME JobScreenAssumption, JobInv, NEW c \in Calls, Fails(c)
    PROVE  JobInv' /\ ForgetsWell
  <1> DEFINE r == [net[c] EXCEPT !.answer = "fail"]
  <1>1. RequestOK(jobs, c, net[c])
    BY InFlightIs DEF Fails
  <1>2. RequestOK(jobs, c, r)
    BY <1>1 DEF RequestOK, Request, Words, JobScreenAssumption, Jobs, Agrees, Calls
  <1>3. net' = [net EXCEPT ![c] = r] /\ jobs' = jobs /\ JobsGoOn(jobs, jobs')
    BY DEF Fails, JobInv, RequestsOK, JobsGoOn
  <1>4. RequestsOK(jobs', net')
    BY <1>2, <1>3, OneRequest DEF JobInv
  <1>5. faults' \in 0 .. MaxFaults
    BY DEF Fails, JobInv, TypeOK, JobScreenAssumption
  <1>6. QED
    BY <1>3, <1>4, <1>5, QuietScreen DEF Fails, shown, JobInv, TypeOK, AllJobs
-----------------------------------------------------------------------------
(* JobScreen: the steps of the screen *)

LEMMA ArriveKeeps ==
    ASSUME JobScreenAssumption, JobInv, Arrive
    PROVE  JobInv' /\ ForgetsWell
  <1>1. RequestOK(jobs, "active", Call(Null))
    BY DEF JobScreenAssumption, Call, RequestOK, Request, Words, Jobs
  <1>2. RequestsOK(jobs, net')
    BY <1>1, OneRequest DEF Arrive, JobInv, Calls
  <1>3. /\ jobs' = jobs /\ page' \in BOOLEAN /\ job' = Null /\ other' = Null
        /\ expiredId' = Null /\ auto' = Null /\ remembered' = remembered
        /\ visits' \in 0 .. MaxVisits /\ faults' \in 0 .. MaxFaults
    BY DEF Arrive, JobInv, TypeOK, JobScreenAssumption
  <1>4. remembered \in OwnJobs \cup {Null} /\ (remembered # Null => Born(jobs, remembered))
    BY DEF JobInv, TypeOK
  <1>5. JobInv'
    BY <1>2, <1>3, <1>4, ScreenStep
  <1>6. QED
    BY <1>3, <1>5 DEF ForgetsWell

LEMMA LeaveKeeps ==
    ASSUME JobScreenAssumption, JobInv, Leave
    PROVE  JobInv' /\ ForgetsWell
  <1>1. ASSUME NEW c \in Calls, net'[c] # Null
        PROVE  RequestOK(jobs, c, net'[c])
    <2>1. InFlight(c) /\ net'[c] = [net[c] EXCEPT !.here = FALSE]
      BY <1>1 DEF Leave
    <2>2. RequestOK(jobs, c, net[c])
      BY <2>1, InFlightIs
    <2>3. QED
      BY <2>1, <2>2 DEF RequestOK, Request
  <1>2. \A c \in Calls : net'[c] # Null => net'[c] \in Request
    BY <1>1 DEF RequestOK
  <1>3. RequestsOK(jobs, net')
    BY <1>1, <1>2 DEF RequestsOK, Leave
  <1>4. /\ page' \in BOOLEAN /\ UNCHANGED <<jobs, shown, remembered, bounds>>
    BY DEF Leave
  <1>5. JobInv'
    BY <1>3, <1>4, ScreenStep DEF JobInv, TypeOK, shown, bounds
  <1>6. QED
    BY <1>4, <1>5 DEF ForgetsWell

LEMMA PollKeeps ==
    ASSUME JobScreenAssumption, JobInv, Poll
    PROVE  JobInv' /\ ForgetsWell
  <1>1. job.id \in OwnJobs /\ Born(jobs, job.id)
    BY DEF Poll, JobInv, IsShown, Agrees
  <1>2. PICK r \in Asked(job.id) : net' = [net EXCEPT !["poll"] = r]
    BY DEF Poll
  <1>3. RequestOK(jobs, "poll", r)
    BY <1>1, <1>2, AskedOK DEF Jobs, JobInv
  <1>4. RequestsOK(jobs, net')
    BY <1>2, <1>3, OneRequest DEF JobInv, Calls
  <1>5. jobs' = jobs /\ JobsGoOn(jobs, jobs')
    BY DEF Poll, JobsGoOn
  <1>6. QED
    BY <1>4, <1>5, QuietScreen DEF Poll, bounds, shown, JobInv, TypeOK, AllJobs

LEMMA WatchKeeps ==
    ASSUME JobScreenAssumption, JobInv, Watch
    PROVE  JobInv' /\ ForgetsWell
  <1>1. other \in OtherJobs /\ Born(jobs, other)
    BY DEF Watch, JobInv, TypeOK
  <1>2. PICK r \in Asked(other) : net' = [net EXCEPT !["watch"] = r]
    BY DEF Watch
  <1>3. RequestOK(jobs, "watch", r)
    BY <1>1, <1>2, AskedOK DEF Jobs, JobInv
  <1>4. RequestsOK(jobs, net')
    BY <1>2, <1>3, OneRequest DEF JobInv, Calls
  <1>5. jobs' = jobs /\ JobsGoOn(jobs, jobs')
    BY DEF Watch, JobsGoOn
  <1>6. QED
    BY <1>4, <1>5, QuietScreen DEF Watch, bounds, shown, JobInv, TypeOK, AllJobs

LEMMA GenerateKeeps ==
    ASSUME JobScreenAssumption, JobInv, Generate
    PROVE  JobInv' /\ ForgetsWell
  <1>1. RequestOK(jobs, "start", Call(Null))
    BY DEF JobScreenAssumption, Call, RequestOK, Request, Words, Jobs
  <1>2. RequestsOK(jobs, net')
    BY <1>1, OneRequest DEF Generate, JobInv, Calls
  <1>3. /\ UNCHANGED <<jobs, page, other, expiredId, auto, remembered, bounds>>
        /\ job' = Null \/ job' = job
    BY DEF Generate
  <1>4. job' = Null \/ IsShown(jobs, job')
    BY <1>3 DEF JobInv
  <1>5. JobInv'
    BY <1>2, <1>3, <1>4, ScreenStep DEF JobInv, TypeOK, bounds
  <1>6. QED
    BY <1>3, <1>5 DEF ForgetsWell

LEMMA DownloadKeeps ==
    ASSUME JobScreenAssumption, JobInv, Download
    PROVE  JobInv' /\ ForgetsWell
  <1>1. job.id \in OwnJobs /\ jobs[job.id] \in {"done", "expired"}
    BY DEF Download, Ready, JobInv, IsShown, Agrees
  <1>2. RequestOK(jobs, "download", Fetch(job.id))
    BY <1>1, FetchIs
  <1>3. RequestsOK(jobs, net')
    BY <1>2, OneRequest DEF Download, JobInv, Calls
  <1>4. jobs' = jobs /\ JobsGoOn(jobs, jobs')
    BY DEF Download, JobsGoOn
  <1>5. QED
    BY <1>3, <1>4, QuietScreen DEF Download, bounds, shown, JobInv, TypeOK, AllJobs

LEMMA TimerEndsKeeps ==
    ASSUME JobScreenAssumption, JobInv, TimerEnds
    PROVE  JobInv' /\ ForgetsWell
  <1>1. IsShown(jobs, job) /\ job.id \in OwnJobs /\ jobs[job.id] = "expired"
    BY DEF TimerEnds, Ready, JobInv, IsShown
  <1>2. /\ remembered \in OwnJobs \cup {Null} /\ (remembered # Null => Born(jobs, remembered))
        /\ RequestsOK(jobs, net)
    BY DEF JobInv, TypeOK
  <1>3. Show(job, job.id, remembered, net)
    BY DEF TimerEnds
  <1>4. /\ RequestsOK(jobs, net')
        /\ job' = job /\ expiredId' = job.id
        /\ \/ remembered' = remembered
           \/ remembered' = Null /\ jobs[remembered] \in {"expired", "failed"}
    BY <1>1, <1>2, <1>3, ShowIs
  <1>5. UNCHANGED <<jobs, page, other, auto, bounds>>
    BY DEF TimerEnds
  <1>6. JobInv'
    BY <1>1, <1>2, <1>4, <1>5, ScreenStep DEF JobInv, TypeOK, bounds
  <1>7. QED
    BY <1>4, <1>6 DEF ForgetsWell
-----------------------------------------------------------------------------
(* JobScreen: the answers *)

LEMMA ShowThen ==
    ASSUME JobScreenAssumption, JobInv,
           NEW j, j = Null \/ IsShown(jobs, j),
           NEW expired \in OwnJobs \cup {Null}, expired # Null => jobs[expired] = "expired",
           NEW kept \in OwnJobs \cup {Null}, kept # Null => Born(jobs, kept),
           NEW n, RequestsOK(jobs, n),
           Show(j, expired, kept, n),
           UNCHANGED <<jobs, page, bounds>>,
           other' \in OtherJobs \cup {Null}, other' # Null => Born(jobs, other'),
           auto' \in OwnJobs \cup {Null},
           \/ kept = remembered
           \/ /\ kept # Null
              /\ \/ j = job /\ expired = expiredId
                 \/ j.status = "active"
    PROVE  JobInv' /\ ForgetsWell
  <1>1. /\ RequestsOK(jobs, net')
        /\ job' = j /\ expiredId' = expired
        /\ \/ remembered' = kept
           \/ /\ remembered' = Null /\ jobs[kept] \in {"expired", "failed"}
              /\ j # job \/ expired # expiredId
              /\ j # Null /\ j.status # "active"
    BY ShowIs
  <1>2. JobInv'
    BY <1>1, ScreenStep DEF JobInv, TypeOK, bounds
  <1>3. ForgetsWell
    BY <1>1 DEF ForgetsWell
  <1>4. QED
    BY <1>2, <1>3

\* The parts of the invariant a step leaves as they are.
LEMMA Parts ==
    ASSUME JobInv
    PROVE  /\ RequestsOK(jobs, net)
           /\ job = Null \/ IsShown(jobs, job)
           /\ other \in OtherJobs \cup {Null} /\ (other # Null => Born(jobs, other))
           /\ expiredId \in OwnJobs \cup {Null}
           /\ expiredId # Null => jobs[expiredId] = "expired"
           /\ auto \in OwnJobs \cup {Null}
           /\ remembered \in OwnJobs \cup {Null}
           /\ remembered # Null => Born(jobs, remembered)
           /\ page \in BOOLEAN /\ visits \in 0 .. MaxVisits /\ faults \in 0 .. MaxFaults
           /\ jobs \in AllJobs
  BY DEF JobInv, TypeOK, AllJobs

LEMMA DeliverActiveKeeps ==
    ASSUME JobScreenAssumption, JobInv, DeliverActive
    PROVE  JobInv' /\ ForgetsWell
  <1> DEFINE answer == net["active"].answer
  <1>1. RequestOK(jobs, "active", net["active"]) /\ RequestsOK(jobs, Done("active"))
    BY InFlightIs, DoneOK DEF DeliverActive, Delivered, Calls
  <1>2. UNCHANGED <<jobs, page, auto, bounds>>
    BY DEF DeliverActive
  <1>3. CASE /\ answer \in OwnJobs
             /\ Show(IF job = Null THEN Read(answer, "active") ELSE job,
                     expiredId, answer, Done("active"))
             /\ UNCHANGED other
    <2> DEFINE j == IF job = Null THEN Read(answer, "active") ELSE job
    <2>1. Born(jobs, answer) /\ answer # Null /\ answer \in OwnJobs
      BY <1>1, <1>3 DEF RequestOK, Jobs, JobScreenAssumption
    <2>2. IsShown(jobs, j)
      BY <2>1, Parts DEF Read, IsShown, Agrees
    <2>3. j = job \/ j.status = "active"
      BY DEF Read
    <2>4. Show(j, expiredId, answer, Done("active"))
      BY <1>3
    <2> HIDE DEF j
    <2>5. QED
      BY <1>1, <1>2, <1>3, <2>1, <2>2, <2>3, <2>4, ShowThen, Parts
  <1>4. CASE /\ answer \in OtherJobs \cup {"none"}
             /\ other' = IF answer = "none" THEN other ELSE answer
             /\ net' \in ThenLast(Done("active"))
             /\ UNCHANGED <<job, expiredId, remembered>>
    <2>1. RequestsOK(jobs, net')
      <3>1. CASE remembered = Null
        BY <1>1, <1>4, <3>1 DEF ThenLast
      <3>2. CASE remembered # Null
        <4>1. PICK r \in Asked(remembered) : net' = [Done("active") EXCEPT !["last"] = r]
          BY <1>4, <3>2 DEF ThenLast
        <4>2. RequestOK(jobs, "last", r)
          BY <3>2, <4>1, AskedOK, Parts DEF Jobs, JobInv
        <4>3. QED
          BY <1>1, <4>1, <4>2, OneRequest DEF Calls
      <3>3. QED
        BY <3>1, <3>2
    <2>2. other' \in OtherJobs \cup {Null} /\ (other' # Null => Born(jobs, other'))
      BY <1>1, <1>4, Parts DEF RequestOK, Jobs
    <2>3. JobInv'
      BY <1>2, <1>4, <2>1, <2>2, ScreenStep, Parts DEF bounds
    <2>4. QED
      BY <1>4, <2>3 DEF ForgetsWell
  <1>5. CASE /\ answer = "fail"
             /\ net' = Done("active")
             /\ UNCHANGED <<job, expiredId, remembered, other>>
    BY <1>1, <1>2, <1>5, ScreenStep, Parts DEF bounds, ForgetsWell
  <1>6. QED
    BY <1>3, <1>4, <1>5 DEF DeliverActive

LEMMA DeliverLastKeeps ==
    ASSUME JobScreenAssumption, JobInv, DeliverLast
    PROVE  JobInv' /\ ForgetsWell
  <1> DEFINE r == net["last"]
             j == IF job = Null THEN Read(r.id, r.answer) ELSE job
  <1>1. RequestOK(jobs, "last", r) /\ RequestsOK(jobs, Done("last"))
    BY InFlightIs, DoneOK DEF DeliverLast, Delivered, Calls
  <1>2. UNCHANGED <<jobs, page, other, auto, bounds>>
    BY DEF DeliverLast
  <1>3. CASE r.answer = "fail"
    <2>1. net' = Done("last") /\ UNCHANGED <<job, expiredId, remembered>>
      BY <1>3 DEF DeliverLast
    <2>2. QED
      BY <1>1, <1>2, <2>1, ScreenStep, Parts DEF bounds, ForgetsWell
  <1>4. CASE r.answer # "fail"
    <2>1. Show(j, expiredId, remembered, Done("last"))
      BY <1>4 DEF DeliverLast
    <2>2. r.id \in OwnJobs /\ r.id # Null /\ Agrees(jobs, r.id, r.answer)
          /\ r.answer \in {"active", "done", "expired", "failed"}
      BY <1>1, <1>4 DEF RequestOK, JobScreenAssumption
    <2>3. IsShown(jobs, j)
      BY <2>2, Parts DEF Read, IsShown
    <2> HIDE DEF j
    <2>4. QED
      BY <1>1, <1>2, <2>1, <2>3, ShowThen, Parts
  <1>5. QED
    BY <1>3, <1>4

LEMMA DeliverPollKeeps ==
    ASSUME JobScreenAssumption, JobInv, DeliverPoll
    PROVE  JobInv' /\ ForgetsWell
  <1> DEFINE r == net["poll"]
             itself == r.answer \in Ended /\ auto = r.id
             calls == IF itself /\ r.answer = "done"
                      THEN [Done("poll") EXCEPT !["download"] = Fetch(r.id)]
                      ELSE Done("poll")
             j == Read(r.id, r.answer)
  <1>1. RequestOK(jobs, "poll", r) /\ RequestsOK(jobs, Done("poll"))
    BY InFlightIs, DoneOK DEF DeliverPoll, Delivered, Calls
  <1>2. UNCHANGED <<jobs, page, other, bounds>>
    BY DEF DeliverPoll
  <1>3. CASE r.answer = "fail"
    <2>1. net' = Done("poll") /\ UNCHANGED <<job, expiredId, remembered, auto>>
      BY <1>3 DEF DeliverPoll
    <2>2. QED
      BY <1>1, <1>2, <2>1, ScreenStep, Parts DEF bounds, ForgetsWell
  <1>4. CASE r.answer # "fail"
    <2>1. Show(j, expiredId, remembered, calls) /\ auto' = IF itself THEN Null ELSE auto
      BY <1>4 DEF DeliverPoll
    <2>2. r.id \in OwnJobs /\ r.id # Null /\ Agrees(jobs, r.id, r.answer)
          /\ r.answer \in {"active", "done", "expired", "failed"}
      BY <1>1, <1>4 DEF RequestOK, JobScreenAssumption
    <2>3. IsShown(jobs, j)
      BY <2>2 DEF Read, IsShown
    <2>4. r.answer = "done" => RequestOK(jobs, "download", Fetch(r.id))
      BY <2>2, FetchIs DEF Agrees
    <2>5. RequestsOK(jobs, calls)
      BY <1>1, <2>4, OneRequest DEF Calls
    <2>6. auto' \in OwnJobs \cup {Null}
      BY <2>1, Parts
    <2> HIDE DEF j, calls, itself
    <2>7. QED
      BY <1>2, <2>1, <2>3, <2>5, <2>6, ShowThen, Parts
  <1>5. QED
    BY <1>3, <1>4

LEMMA DeliverWatchKeeps ==
    ASSUME JobScreenAssumption, JobInv, DeliverWatch
    PROVE  JobInv' /\ ForgetsWell
  <1>1. RequestsOK(jobs, Done("watch"))
    BY DoneOK DEF Calls
  <1>2. /\ net' = Done("watch") /\ other' \in {Null, other}
        /\ UNCHANGED <<jobs, page, job, expiredId, auto, remembered, bounds>>
    BY DEF DeliverWatch
  <1>3. JobInv'
    BY <1>1, <1>2, ScreenStep, Parts DEF bounds
  <1>4. QED
    BY <1>2, <1>3 DEF ForgetsWell
LEMMA DeliverStartKeeps ==
    ASSUME JobScreenAssumption, JobInv, DeliverStart
    PROVE  JobInv' /\ ForgetsWell
  <1> DEFINE answer == net["start"].answer
             here == net["start"].here
  <1>1. RequestOK(jobs, "start", net["start"]) /\ RequestsOK(jobs, Done("start"))
    BY InFlightIs, DoneOK DEF DeliverStart, Delivered, Calls
  <1>2. UNCHANGED <<jobs, page, bounds>>
    BY DEF DeliverStart
  <1>3. answer \in OwnJobs => answer # Null /\ Born(jobs, answer)
    BY <1>1 DEF RequestOK, Jobs, JobScreenAssumption
  <1>4. CASE /\ answer \in OwnJobs /\ here
             /\ Show(Read(answer, "active"), expiredId, answer, Done("start"))
             /\ auto' = answer
             /\ other' = Null
    <2> DEFINE j == Read(answer, "active")
    <2>1. IsShown(jobs, j)
      BY <1>3, <1>4 DEF Read, IsShown, Agrees
    <2>2. j.status = "active"
      BY DEF Read
    <2>3. Show(j, expiredId, answer, Done("start"))
      BY <1>4
    <2> HIDE DEF j
    <2>4. QED
      BY <1>1, <1>2, <1>3, <1>4, <2>1, <2>2, <2>3, ShowThen, Parts
  <1>5. CASE /\ answer \in OwnJobs /\ ~here
             /\ remembered' = answer
             /\ net' = Done("start")
             /\ UNCHANGED shown
    <2>1. JobInv'
      BY <1>1, <1>2, <1>3, <1>5, ScreenStep, Parts DEF bounds, shown
    <2>2. QED
      BY <1>3, <1>5, <2>1 DEF ForgetsWell
  <1>6. CASE /\ answer = "busy"
             /\ net' = [Done("start") EXCEPT
                          !["adopt"] = [Call(Null) EXCEPT !.here = here]]
             /\ UNCHANGED <<shown, remembered>>
    <2>1. RequestOK(jobs, "adopt", [Call(Null) EXCEPT !.here = here])
      BY <1>1, CallIs DEF RequestOK, Request
    <2>2. RequestsOK(jobs, net')
      BY <1>1, <1>6, <2>1, OneRequest DEF Calls
    <2>3. JobInv'
      BY <1>2, <1>6, <2>2, ScreenStep, Parts DEF bounds, shown
    <2>4. QED
      BY <1>6, <2>3 DEF ForgetsWell
  <1>7. CASE /\ answer \in {"refused", "fail"}
             /\ net' = Done("start")
             /\ UNCHANGED <<shown, remembered>>
    <2>1. JobInv'
      BY <1>1, <1>2, <1>7, ScreenStep, Parts DEF bounds, shown
    <2>2. QED
      BY <1>7, <2>1 DEF ForgetsWell
  <1>8. QED
    BY <1>4, <1>5, <1>6, <1>7 DEF DeliverStart

LEMMA DeliverAdoptKeeps ==
    ASSUME JobScreenAssumption, JobInv, DeliverAdopt
    PROVE  JobInv' /\ ForgetsWell
  <1> DEFINE answer == net["adopt"].answer
             here == net["adopt"].here
  <1>1. RequestOK(jobs, "adopt", net["adopt"]) /\ RequestsOK(jobs, Done("adopt"))
    BY InFlightIs, DoneOK DEF DeliverAdopt, Delivered, Calls
  <1>2. UNCHANGED <<jobs, page, auto, bounds>>
    BY DEF DeliverAdopt
  <1>3. answer \in OwnJobs \cup OtherJobs => answer # Null /\ Born(jobs, answer)
    BY <1>1 DEF RequestOK, Jobs, JobScreenAssumption
  <1>4. CASE /\ answer \in OwnJobs /\ here
             /\ Show(Read(answer, "active"), expiredId, answer, Done("adopt"))
             /\ UNCHANGED other
    <2> DEFINE j == Read(answer, "active")
    <2>1. IsShown(jobs, j)
      BY <1>3, <1>4 DEF Read, IsShown, Agrees
    <2>2. j.status = "active"
      BY DEF Read
    <2>3. Show(j, expiredId, answer, Done("adopt"))
      BY <1>4
    <2> HIDE DEF j
    <2>4. QED
      BY <1>1, <1>2, <1>3, <1>4, <2>1, <2>2, <2>3, ShowThen, Parts
  <1>5. CASE /\ answer \in OwnJobs /\ ~here
             /\ remembered' = answer
             /\ net' = Done("adopt")
             /\ UNCHANGED <<job, other, expiredId>>
    <2>1. JobInv'
      BY <1>1, <1>2, <1>3, <1>5, ScreenStep, Parts DEF bounds
    <2>2. QED
      BY <1>3, <1>5, <2>1 DEF ForgetsWell
  <1>6. CASE /\ answer \in OtherJobs
             /\ other' = IF here THEN answer ELSE other
             /\ net' = Done("adopt")
             /\ UNCHANGED <<job, expiredId, remembered>>
    <2>1. other' \in OtherJobs \cup {Null} /\ (other' # Null => Born(jobs, other'))
      BY <1>3, <1>6, Parts
    <2>2. JobInv'
      BY <1>1, <1>2, <1>6, <2>1, ScreenStep, Parts DEF bounds
    <2>3. QED
      BY <1>6, <2>2 DEF ForgetsWell
  <1>7. CASE /\ answer \in {"none", "fail"}
             /\ net' = Done("adopt")
             /\ UNCHANGED <<job, other, expiredId, remembered>>
    <2>1. JobInv'
      BY <1>1, <1>2, <1>7, ScreenStep, Parts DEF bounds
    <2>2. QED
      BY <1>7, <2>1 DEF ForgetsWell
  <1>8. QED
    BY <1>4, <1>5, <1>6, <1>7 DEF DeliverAdopt

LEMMA DeliverDownloadKeeps ==
    ASSUME JobScreenAssumption, JobInv, DeliverDownload
    PROVE  JobInv' /\ ForgetsWell
  <1> DEFINE r == net["download"]
  <1>1. RequestOK(jobs, "download", r) /\ RequestsOK(jobs, Done("download"))
    BY InFlightIs, DoneOK DEF DeliverDownload, Delivered, Calls
  <1>2. UNCHANGED <<jobs, page, other, auto, bounds>>
    BY DEF DeliverDownload
  <1>3. CASE r.answer = "gone" /\ r.here
    <2>1. Show(job, r.id, remembered, Done("download"))
      BY <1>3 DEF DeliverDownload
    <2>2. r.id \in OwnJobs /\ jobs[r.id] = "expired"
      BY <1>1, <1>3 DEF RequestOK, Agrees, JobScreenAssumption
    <2>3. QED
      BY <1>1, <1>2, <2>1, <2>2, ShowThen, Parts
  <1>4. CASE ~(r.answer = "gone" /\ r.here)
    <2>1. net' = Done("download") /\ UNCHANGED <<job, expiredId, remembered>>
      BY <1>4 DEF DeliverDownload
    <2>2. JobInv'
      BY <1>1, <1>2, <2>1, ScreenStep, Parts DEF bounds
    <2>3. QED
      BY <2>1, <2>2 DEF ForgetsWell
  <1>5. QED
    BY <1>3, <1>4

-----------------------------------------------------------------------------
(* JobScreen: the theorems *)

LEMMA JobInitHolds ==
    ASSUME JobScreenAssumption, Init
    PROVE  JobInv
  <1>1. TypeOK
    <2>1. jobs \in [Jobs -> {"unborn", "active", "done", "expired", "failed"}]
      BY DEF Init
    <2>2. visits \in 0 .. MaxVisits /\ faults \in 0 .. MaxFaults
      BY DEF Init, JobScreenAssumption
    <2>3. net \in [Calls -> [id : Jobs \cup {Null}, here : BOOLEAN, answer : Jobs \cup Words]
                           \cup {Null}]
      BY DEF Init
    <2>4. QED
      BY <2>1, <2>2, <2>3 DEF Init, TypeOK
  <1>2. RequestsOK(jobs, net)
    BY DEF Init, RequestsOK
  <1>3. QED
    BY <1>1, <1>2 DEF Init, JobInv

LEMMA JobStep ==
    ASSUME JobScreenAssumption, JobInv, [Next]_vars
    PROVE  JobInv' /\ ForgetsWell
  <1>1. CASE Backend
    <2>1. CASE \E j \in Jobs : StartElsewhere(j) \/ Ends(j) \/ Expires(j)
      BY <2>1, StartElsewhereKeeps, BecomesKeeps
    <2>2. CASE \E c \in Calls : Serve(c) \/ Fails(c)
      BY <2>2, ServeKeeps, FailsKeeps
    <2>3. CASE ServeStart
      BY <2>3, ServeStartKeeps
    <2>4. QED
      BY <1>1, <2>1, <2>2, <2>3 DEF Backend
  <1>2. CASE Deliver
    BY <1>2, DeliverActiveKeeps, DeliverLastKeeps, DeliverPollKeeps, DeliverWatchKeeps,
       DeliverStartKeeps, DeliverAdoptKeeps, DeliverDownloadKeeps DEF Deliver
  <1>3. CASE Arrive \/ Leave \/ Poll \/ Watch \/ Generate \/ Download \/ TimerEnds
    BY <1>3, ArriveKeeps, LeaveKeeps, PollKeeps, WatchKeeps, GenerateKeeps,
       DownloadKeeps, TimerEndsKeeps
  <1>4. CASE UNCHANGED vars
    <2>1. JobsGoOn(jobs, jobs')
      BY <1>4 DEF vars, JobsGoOn
    <2>2. RequestsOK(jobs', net')
      BY <1>4, Parts DEF vars
    <2>3. QED
      BY <1>4, <2>1, <2>2, QuietScreen, Parts DEF vars, shown, bounds
  <1>5. QED
    BY <1>1, <1>2, <1>3, <1>4 DEF Next

\* The screen of a ZIP job keeps its types and what it knows of the jobs, whatever
\* requests cross, fail, or are answered after the screen was left.
THEOREM JobScreenTyped ==
    ASSUME JobScreenAssumption
    PROVE  Spec => [](TypeOK /\ JobInv)
  <1>1. Init => JobInv
    BY JobInitHolds
  <1>2. JobInv /\ [Next]_vars => JobInv'
    BY JobStep
  <1>3. JobInv => TypeOK
    BY DEF JobInv
  <1>4. QED
    BY <1>1, <1>2, <1>3, PTL DEF Spec

\* The browser forgets the last job it followed (lastPdfJob, forgetPdfJob) only once
\* that job failed or its ZIP expired.
THEOREM JobsAreRemembered ==
    ASSUME JobScreenAssumption
    PROVE  Spec => RememberedUntilOver
  <1>1. Spec => []JobInv
    BY JobScreenTyped, PTL
  <1>2. JobInv /\ [Next]_vars =>
            [remembered # Null /\ remembered' = Null =>
                jobs[remembered] \in {"failed", "expired"}]_vars
    BY JobStep DEF ForgetsWell
  <1>3. QED
    BY <1>1, <1>2, PTL DEF Spec, RememberedUntilOver
-----------------------------------------------------------------------------
(* PaymentOrdersScreen *)

WithOrders == ordered \cup handedBack

\* What is marked as issued, what an answer on its way says is, and what a list on
\* its way found, has or had an order.
OrdersInv ==
    /\ Orders!TypeOK
    /\ Orders!IssuedHasOrder
    /\ Orders!WaitingHasARead
    /\ issue # Null /\ issue.answer = "ok" => issue.of \in WithOrders
    /\ list # Null => list.found \subseteq WithOrders

LEMMA OrdersInitHolds ==
    ASSUME Orders!PaymentOrdersScreenAssumption, Orders!Init
    PROVE  OrdersInv
  <1>1. reviews \in [Orders!Askers -> Orders!Reads \cup {Null}]
    BY DEF Orders!Init
  <1>2. issued \in [Properties -> Files \cup {Null}]
    BY DEF Orders!Init
  <1>3. reads \in 0 .. MaxReviews /\ orderFaults \in 0 .. MaxFaults
    BY DEF Orders!Init, Orders!PaymentOrdersScreenAssumption
  <1>4. Orders!TypeOK
    BY <1>1, <1>2, <1>3 DEF Orders!Init, Orders!TypeOK
  <1>5. QED
    BY <1>4 DEF Orders!Init, OrdersInv, Orders!IssuedHasOrder, Orders!WaitingHasARead

\* A read is asked for, and the screen waits for it.
LEMMA ReviewIs ==
    ASSUME Orders!PaymentOrdersScreenAssumption, Orders!TypeOK, NEW w \in Orders!Askers,
           Orders!Review(w), file # Null
    PROVE  /\ reviews' \in [Orders!Askers -> Orders!Reads \cup {Null}]
           /\ reviews'[w] # Null
           /\ reviewing' = TRUE
           /\ reads' \in 0 .. MaxReviews
  <1>1. [file |-> file, offers |-> {}, answer |-> "wait"] \in Orders!Reads
    BY DEF Orders!TypeOK, Orders!Reads
  <1>2. /\ reviews' = [reviews EXCEPT ![w] = [file |-> file, offers |-> {}, answer |-> "wait"]]
        /\ reviewing' = TRUE /\ reads' = reads + 1 /\ reads < MaxReviews
    BY DEF Orders!Review
  <1>3. reads' \in 0 .. MaxReviews
    BY <1>2 DEF Orders!TypeOK, Orders!PaymentOrdersScreenAssumption
  <1>4. reviews \in [Orders!Askers -> Orders!Reads \cup {Null}] /\ Null \notin Orders!Reads
    BY DEF Orders!TypeOK, Orders!PaymentOrdersScreenAssumption
  <1>5. QED
    BY <1>1, <1>2, <1>3, <1>4

LEMMA WithdrawKeeps ==
    ASSUME Orders!PaymentOrdersScreenAssumption, OrdersInv, NEW p \in Properties, Orders!Withdraw(p)
    PROVE  OrdersInv'
  BY DEF OrdersInv, WithOrders, Orders!TypeOK, Orders!IssuedHasOrder, Orders!WaitingHasARead,
         Orders!Withdraw, Orders!Issuable, Orders!backend, Orders!screen, Orders!calls, Orders!bounds

LEMMA OpenDialogKeeps ==
    ASSUME Orders!PaymentOrdersScreenAssumption, OrdersInv, NEW p \in Properties, Orders!OpenDialog(p)
    PROVE  OrdersInv'
  BY DEF OrdersInv, WithOrders, Orders!TypeOK, Orders!IssuedHasOrder, Orders!WaitingHasARead,
         Orders!OpenDialog, Orders!backend, Orders!screen, Orders!calls, Orders!bounds

LEMMA CloseDialogKeeps ==
    ASSUME Orders!PaymentOrdersScreenAssumption, OrdersInv, Orders!CloseDialog
    PROVE  OrdersInv'
  BY DEF OrdersInv, WithOrders, Orders!TypeOK, Orders!IssuedHasOrder, Orders!WaitingHasARead,
         Orders!CloseDialog, Orders!backend, Orders!screen, Orders!calls, Orders!bounds

LEMMA TurnKeeps ==
    ASSUME Orders!PaymentOrdersScreenAssumption, OrdersInv, Orders!Turn
    PROVE  OrdersInv'
  BY DEF OrdersInv, WithOrders, Orders!TypeOK, Orders!IssuedHasOrder, Orders!WaitingHasARead,
         Orders!Turn, Orders!backend, Orders!screen, Orders!calls, Orders!bounds

LEMMA StartOverKeeps ==
    ASSUME Orders!PaymentOrdersScreenAssumption, OrdersInv, NEW f \in Files \cup {Null}, Orders!StartOver(f)
    PROVE  OrdersInv'
  BY DEF OrdersInv, WithOrders, Orders!TypeOK, Orders!IssuedHasOrder, Orders!WaitingHasARead,
         Orders!StartOver, Orders!backend, Orders!screen, Orders!calls, Orders!bounds

LEMMA GenerateOrderKeeps ==
    ASSUME Orders!PaymentOrdersScreenAssumption, OrdersInv, Orders!Generate
    PROVE  OrdersInv'
  BY DEF OrdersInv, WithOrders, Orders!TypeOK, Orders!IssuedHasOrder, Orders!WaitingHasARead,
         Orders!Generate, Orders!backend, Orders!screen, Orders!calls, Orders!bounds

LEMMA ServeListKeeps ==
    ASSUME Orders!PaymentOrdersScreenAssumption, OrdersInv, Orders!ServeList
    PROVE  OrdersInv'
  BY DEF OrdersInv, WithOrders, Orders!TypeOK, Orders!IssuedHasOrder, Orders!WaitingHasARead,
         Orders!ServeList, Orders!backend, Orders!screen, Orders!calls, Orders!bounds

LEMMA ServeIssueKeeps ==
    ASSUME Orders!PaymentOrdersScreenAssumption, OrdersInv, Orders!ServeIssue
    PROVE  OrdersInv'
  BY DEF OrdersInv, WithOrders, Orders!TypeOK, Orders!IssuedHasOrder, Orders!WaitingHasARead,
         Orders!ServeIssue, Orders!Issuable, Orders!backend, Orders!screen, Orders!calls, Orders!bounds

LEMMA DeliverListKeeps ==
    ASSUME Orders!PaymentOrdersScreenAssumption, OrdersInv, Orders!DeliverList
    PROVE  OrdersInv'
  BY DEF OrdersInv, WithOrders, Orders!TypeOK, Orders!IssuedHasOrder, Orders!WaitingHasARead,
         Orders!DeliverList, Orders!WithOrder, Orders!backend, Orders!screen, Orders!calls, Orders!bounds

LEMMA FailsOrdersKeeps ==
    ASSUME Orders!PaymentOrdersScreenAssumption, OrdersInv, Orders!Fails
    PROVE  OrdersInv'
  BY DEF OrdersInv, WithOrders, Orders!TypeOK, Orders!IssuedHasOrder, Orders!WaitingHasARead,
         Orders!Fails, Orders!Reads, Orders!PaymentOrdersScreenAssumption, Orders!backend, Orders!screen, Orders!calls, Orders!bounds

LEMMA JobFailsKeeps ==
    ASSUME Orders!PaymentOrdersScreenAssumption, OrdersInv, Orders!JobFails
    PROVE  OrdersInv'
  <1>1. WithOrders' = WithOrders \cup orderJob /\ orderJob \subseteq Properties
    BY DEF WithOrders, Orders!JobFails, OrdersInv, Orders!TypeOK
  <1>2. Orders!TypeOK'
    BY DEF OrdersInv, Orders!TypeOK, Orders!JobFails, Orders!screen, Orders!calls, Orders!bounds
  <1>3. QED
    BY <1>1, <1>2 DEF OrdersInv, WithOrders, Orders!IssuedHasOrder, Orders!WaitingHasARead,
       Orders!JobFails, Orders!screen, Orders!calls, Orders!bounds

LEMMA ServeReviewKeeps ==
    ASSUME Orders!PaymentOrdersScreenAssumption, OrdersInv, NEW w \in Orders!Askers,
           Orders!ServeReview(w)
    PROVE  OrdersInv'
  <1> DEFINE r == [reviews[w] EXCEPT !.answer = "ok",
                                     !.offers = Lists[reviews[w].file] \cap Orders!Issuable]
  <1>1. /\ reviews \in [Orders!Askers -> Orders!Reads \cup {Null}] /\ Null \notin Orders!Reads
        /\ reviews[w] \in Orders!Reads
    BY DEF OrdersInv, Orders!TypeOK, Orders!PaymentOrdersScreenAssumption, Orders!ServeReview
  <1>2. reviews' = [reviews EXCEPT ![w] = r]
    BY <1>1 DEF Orders!ServeReview
  <1>3. Lists[reviews[w].file] \cap Orders!Issuable \subseteq Properties
    BY <1>1 DEF Orders!Reads, Orders!PaymentOrdersScreenAssumption
  <1>4. r \in Orders!Reads
    BY <1>1, <1>3 DEF Orders!Reads
  <1> HIDE DEF r
  <1>5. /\ reviews' \in [Orders!Askers -> Orders!Reads \cup {Null}]
        /\ \A v \in Orders!Askers : reviews[v] # Null => reviews'[v] # Null
    BY <1>1, <1>2, <1>4
  <1>6. UNCHANGED <<orderJob, eligible, ordered, handedBack, file, step, preview, issued,
                    toGenerate, reviewing, list, issue, reads, orderFaults>>
    BY DEF Orders!ServeReview, Orders!backend, Orders!screen, Orders!bounds
  <1>7. QED
    BY <1>5, <1>6 DEF OrdersInv, WithOrders, Orders!TypeOK, Orders!IssuedHasOrder,
       Orders!WaitingHasARead

LEMMA DeliverReviewKeeps ==
    ASSUME Orders!PaymentOrdersScreenAssumption, OrdersInv, NEW w \in Orders!Askers,
           Orders!DeliverReview(w)
    PROVE  OrdersInv'
  <1>1. /\ reviews \in [Orders!Askers -> Orders!Reads \cup {Null}]
        /\ reviews[w] \in Orders!Reads
    BY DEF OrdersInv, Orders!TypeOK, Orders!DeliverReview
  <1>2. reviews' = [reviews EXCEPT ![w] = Null] /\ reviewing' = FALSE
    BY DEF Orders!DeliverReview, Orders!StillReviewing
  <1>3. preview' \in Orders!Previews \cup {Null}
    BY <1>1 DEF Orders!DeliverReview, Orders!Previews, Orders!Reads
  <1>4. step' \in {"upload", "review", "generate"}
    <2>1. step \in {"upload", "review", "generate"}
      BY DEF OrdersInv, Orders!TypeOK
    <2>2. step' = Orders!StepAfter(w, reviews[w].answer = "ok")
      BY DEF Orders!DeliverReview
    <2>3. w = "button" \/ w = "refusal" \/ w = "job"
      BY DEF Orders!Askers
    <2>4. QED
      BY <2>1, <2>2, <2>3 DEF Orders!StepAfter
  <1>5. UNCHANGED <<orderJob, eligible, ordered, handedBack, file, issued, toGenerate, list,
                    issue, reads, orderFaults>>
    BY DEF Orders!DeliverReview, Orders!backend, Orders!bounds
  <1>6. Orders!TypeOK'
    BY <1>1, <1>2, <1>3, <1>4, <1>5 DEF OrdersInv, Orders!TypeOK
  <1>7. QED
    BY <1>2, <1>5, <1>6 DEF OrdersInv, WithOrders, Orders!IssuedHasOrder,
       Orders!WaitingHasARead

LEMMA HandleReviewKeeps ==
    ASSUME Orders!PaymentOrdersScreenAssumption, OrdersInv, Orders!HandleReview
    PROVE  OrdersInv'
  <1>1. "button" \in Orders!Askers /\ Orders!TypeOK
    BY DEF Orders!Askers, OrdersInv
  <1>2. /\ reviews' \in [Orders!Askers -> Orders!Reads \cup {Null}]
        /\ reviews'["button"] # Null
        /\ reviewing' = TRUE
        /\ reads' \in 0 .. MaxReviews
    BY <1>1, ReviewIs DEF Orders!HandleReview
  <1>3. UNCHANGED <<orderJob, eligible, ordered, handedBack, file, step, preview, issued,
                    toGenerate, list, issue, orderFaults>>
    BY DEF Orders!HandleReview, Orders!backend
  <1>4. QED
    BY <1>1, <1>2, <1>3 DEF OrdersInv, WithOrders, Orders!TypeOK, Orders!IssuedHasOrder,
       Orders!WaitingHasARead

\* A refusal reads the Excel again, if there is one.
LEMMA RefusedIs ==
    ASSUME Orders!PaymentOrdersScreenAssumption, OrdersInv, Orders!Refused
    PROVE  /\ reviews' \in [Orders!Askers -> Orders!Reads \cup {Null}]
           /\ reviewing' \in BOOLEAN
           /\ reads' \in 0 .. MaxReviews
           /\ Orders!WaitingHasARead'
  <1>1. "refusal" \in Orders!Askers /\ Orders!TypeOK
    BY DEF Orders!Askers, OrdersInv
  <1>2. CASE file = Null
    BY <1>1, <1>2 DEF Orders!Refused, OrdersInv, Orders!TypeOK, Orders!WaitingHasARead
  <1>3. CASE file # Null
    BY <1>1, <1>3, ReviewIs DEF Orders!Refused, Orders!WaitingHasARead
  <1>4. QED
    BY <1>2, <1>3

LEMMA DeliverIssueKeeps ==
    ASSUME Orders!PaymentOrdersScreenAssumption, OrdersInv, Orders!DeliverIssue
    PROVE  OrdersInv'
  <1>1. /\ issue' = Null
        /\ UNCHANGED <<eligible, ordered, handedBack, orderJob, file, step, preview, list,
                       orderFaults>>
    BY DEF Orders!DeliverIssue, Orders!backend
  <1>2. CASE /\ issue.answer = "ok"
             /\ issued' = [issued EXCEPT ![issue.of] =
                              IF preview = Null THEN file ELSE preview.file]
             /\ toGenerate' = Null
             /\ UNCHANGED <<reviews, reviewing, reads>>
    <2>1. issue.of \in Properties /\ issue.of \in WithOrders
      BY <1>2 DEF OrdersInv, Orders!TypeOK, Orders!DeliverIssue
    <2>2. (IF preview = Null THEN file ELSE preview.file) \in Files \cup {Null}
      BY DEF OrdersInv, Orders!TypeOK, Orders!Previews
    <2>3. issued' \in [Properties -> Files \cup {Null}] /\ Orders!IssuedHasOrder'
      BY <1>1, <1>2, <2>1, <2>2 DEF OrdersInv, WithOrders, Orders!TypeOK, Orders!IssuedHasOrder
    <2>4. QED
      BY <1>1, <1>2, <2>3 DEF OrdersInv, WithOrders, Orders!TypeOK, Orders!WaitingHasARead
  <1>3. CASE /\ issue.answer = "refused"
             /\ Orders!Refused
             /\ toGenerate' = Null
             /\ UNCHANGED issued
    BY <1>1, <1>3, RefusedIs DEF OrdersInv, WithOrders, Orders!TypeOK, Orders!IssuedHasOrder
  <1>4. CASE /\ issue.answer = "fail"
             /\ UNCHANGED <<issued, toGenerate, reviews, reviewing, reads>>
    BY <1>1, <1>4 DEF OrdersInv, WithOrders, Orders!TypeOK, Orders!IssuedHasOrder,
       Orders!WaitingHasARead
  <1>5. QED
    BY <1>2, <1>3, <1>4 DEF Orders!DeliverIssue

LEMMA StartJobKeeps ==
    ASSUME Orders!PaymentOrdersScreenAssumption, OrdersInv, Orders!StartJob
    PROVE  OrdersInv'
  <1>1. UNCHANGED <<eligible, handedBack, file, step, preview, issued, toGenerate, list, issue,
                    orderFaults>>
    BY DEF Orders!StartJob
  <1>2. CASE Orders!Pending \subseteq Orders!Issuable
    <2>1. Orders!Pending \subseteq Properties
      BY <1>2 DEF OrdersInv, Orders!TypeOK, Orders!Issuable
    <2>2. /\ orderJob' = Orders!Pending /\ ordered' = ordered \cup Orders!Pending
          /\ UNCHANGED <<reviews, reviewing, reads>>
      BY <1>2 DEF Orders!StartJob
    <2>3. QED
      BY <1>1, <2>1, <2>2 DEF OrdersInv, WithOrders, Orders!TypeOK, Orders!IssuedHasOrder,
         Orders!WaitingHasARead
  <1>3. CASE ~(Orders!Pending \subseteq Orders!Issuable)
    <2>1. Orders!Refused /\ UNCHANGED <<orderJob, ordered>>
      BY <1>3 DEF Orders!StartJob
    <2>2. QED
      BY <1>1, <2>1, RefusedIs DEF OrdersInv, WithOrders, Orders!TypeOK,
         Orders!IssuedHasOrder
  <1>4. QED
    BY <1>2, <1>3

LEMMA JobEndsKeeps ==
    ASSUME Orders!PaymentOrdersScreenAssumption, OrdersInv, Orders!JobEnds
    PROVE  OrdersInv'
  <1>1. /\ orderJob' = Null
        /\ UNCHANGED <<eligible, ordered, handedBack, file, step, preview, issued, toGenerate,
                       issue, orderFaults>>
    BY DEF Orders!JobEnds, Orders!backend
  <1>2. /\ list' \in [of : SUBSET Properties, file : Files \cup {Null},
                      found : SUBSET Properties, answer : {"wait", "ok", "fail"}]
        /\ list'.found = {}
    BY DEF Orders!JobEnds, Orders!Pending, Orders!Candidates, OrdersInv, Orders!TypeOK,
       Orders!Previews
  <1>3. /\ reviews' \in [Orders!Askers -> Orders!Reads \cup {Null}]
        /\ reviewing' \in BOOLEAN /\ reads' \in 0 .. MaxReviews /\ Orders!WaitingHasARead'
    <2>1. "job" \in Orders!Askers /\ Orders!TypeOK
      BY DEF Orders!Askers, OrdersInv
    <2>2. CASE file = Null
      BY <2>1, <2>2 DEF Orders!JobEnds, OrdersInv, Orders!TypeOK, Orders!WaitingHasARead
    <2>3. CASE file # Null
      BY <2>1, <2>3, ReviewIs DEF Orders!JobEnds, Orders!WaitingHasARead
    <2>4. QED
      BY <2>2, <2>3
  <1>4. QED
    BY <1>1, <1>2, <1>3 DEF OrdersInv, WithOrders, Orders!TypeOK, Orders!IssuedHasOrder

LEMMA OrdersStep ==
    ASSUME Orders!PaymentOrdersScreenAssumption, OrdersInv, [Orders!Next]_(Orders!vars)
    PROVE  OrdersInv'
  <1>1. CASE UNCHANGED Orders!vars
    BY <1>1 DEF Orders!vars, Orders!backend, Orders!screen, Orders!calls, Orders!bounds,
       OrdersInv, WithOrders, Orders!TypeOK, Orders!IssuedHasOrder, Orders!WaitingHasARead
  <1>2. CASE Orders!Next
    BY <1>2, WithdrawKeeps, OpenDialogKeeps, CloseDialogKeeps, TurnKeeps, StartOverKeeps,
       GenerateOrderKeeps, ServeListKeeps, ServeIssueKeeps, JobFailsKeeps, DeliverListKeeps,
       ServeReviewKeeps, DeliverReviewKeeps, FailsOrdersKeeps, HandleReviewKeeps,
       DeliverIssueKeeps, StartJobKeeps, JobEndsKeeps DEF Orders!Next
  <1>3. QED
    BY <1>1, <1>2

\* The payment orders screen: what it marks as generated has its order (or the job
\* that made it failed), and it waits for a review only while one is on its way,
\* however the reads of the Excel, the list and the orders cross and fail.
THEOREM OrdersScreenIsTrue ==
    ASSUME Orders!PaymentOrdersScreenAssumption
    PROVE  Orders!Spec =>
               [](Orders!TypeOK /\ Orders!IssuedHasOrder /\ Orders!WaitingHasARead)
  <1>1. Orders!Init => OrdersInv
    BY OrdersInitHolds
  <1>2. OrdersInv /\ [Orders!Next]_(Orders!vars) => OrdersInv'
    BY OrdersStep
  <1>3. OrdersInv => Orders!TypeOK /\ Orders!IssuedHasOrder /\ Orders!WaitingHasARead
    BY DEF OrdersInv
  <1>4. QED
    BY <1>1, <1>2, <1>3, PTL DEF Orders!Spec
-----------------------------------------------------------------------------
(* TaxRollScreen *)

\* The inductive invariant: one request is in flight, a plain import only while no
\* outcome is shown, and every entry a request or an outcome is about is there.
RollInv ==
    /\ Roll!TypeOK
    /\ Roll!ConfirmingIsModal
    /\ Roll!Processing => result = Null /\ ~dialog
    /\ Len(imports) <= sent
    /\ call # Null =>
          /\ call.answer = "wait" => Len(imports) < sent
          /\ call.previous # Null => call.previous <= Len(imports)
          /\ call.result # Null => call.result.id <= Len(imports)
    /\ result # Null => result.id <= Len(imports)

LEMMA RollInitHolds ==
    ASSUME Roll!TaxRollScreenAssumption, Roll!Init
    PROVE  RollInv
  <1>1. current \in [Periods -> Files \cup {Null}]
    BY DEF Roll!Init
  <1>2. imports \in Seq(Files) /\ Len(imports) = 0
    BY DEF Roll!Init
  <1>3. /\ MaxImports \in Nat /\ MaxFaults \in Nat
        /\ sent \in 0 .. MaxImports /\ rollFaults \in 0 .. MaxFaults
        /\ Len(imports) <= MaxImports
    BY <1>2 DEF Roll!Init, Roll!TaxRollScreenAssumption
  <1>4. Roll!TypeOK
    BY <1>1, <1>2, <1>3 DEF Roll!Init, Roll!TypeOK
  <1>5. QED
    BY <1>2, <1>3, <1>4 DEF Roll!Init, RollInv, Roll!ConfirmingIsModal, Roll!Confirming,
       Roll!Processing

\* A step that leaves the imports and the requests as they are.
LEMMA RollQuiet ==
    ASSUME RollInv, UNCHANGED <<current, imports, call, sent, rollFaults>>,
           jobRuns' \in BOOLEAN, roll' = roll, spent' = spent,
           result' \in {result, Null},
           leaving' \in BOOLEAN, dialog' \in BOOLEAN,
           Roll!Confirming => dialog', Roll!Processing => dialog' = dialog
    PROVE  RollInv'
  BY DEF RollInv, Roll!TypeOK, Roll!ConfirmingIsModal, Roll!Confirming, Roll!Processing

LEMMA RollQuietSteps ==
    ASSUME RollInv,
           \/ Roll!JobStartsOrEnds \/ Roll!Reopen \/ Roll!CloseCard \/ Roll!CardGone
           \/ Roll!Cancel
    PROVE  RollInv'
  <1>1. /\ UNCHANGED <<current, imports, call, sent, rollFaults, roll, spent>>
        /\ jobRuns' \in BOOLEAN /\ leaving' \in BOOLEAN /\ dialog' \in BOOLEAN
        /\ result' \in {result, Null}
    BY DEF RollInv, Roll!TypeOK, Roll!JobStartsOrEnds, Roll!Reopen, Roll!CloseCard,
       Roll!CardGone, Roll!Cancel, Roll!NoOutcome, Roll!backend, Roll!screen, Roll!bounds
  <1>2. (Roll!Confirming => dialog') /\ (Roll!Processing => dialog' = dialog)
    BY DEF RollInv, Roll!ConfirmingIsModal, Roll!JobStartsOrEnds, Roll!Reopen, Roll!CloseCard,
       Roll!CardGone, Roll!Cancel, Roll!MayClose, Roll!backend, Roll!screen
  <1>3. QED
    BY <1>1, <1>2, RollQuiet

LEMMA ImportKeeps ==
    ASSUME Roll!TaxRollScreenAssumption, RollInv, Roll!Import
    PROVE  RollInv'
  <1>1. /\ call \in Roll!Requests /\ call.answer = "wait" /\ Len(imports) < sent
        /\ imports \in Seq(Files) /\ sent \in 0 .. MaxImports
        /\ UNCHANGED <<jobRuns, roll, spent, result, leaving, dialog, sent, rollFaults>>
    BY DEF Roll!Import, RollInv, Roll!TypeOK, Roll!screen, Roll!bounds
  <1>2. CASE /\ call.file \in BadFiles \/ jobRuns
             /\ Roll!Answered("refused", Null)
             /\ UNCHANGED <<current, imports>>
    <2>1. /\ call' \in Roll!Requests
          /\ call'.answer = "refused" /\ call'.result = Null
          /\ call'.previous = call.previous /\ call'.replace = call.replace
      BY <1>1, <1>2 DEF Roll!Answered, Roll!Requests
    <2>2. QED
      BY <1>1, <1>2, <2>1 DEF RollInv, Roll!TypeOK, Roll!ConfirmingIsModal, Roll!Confirming,
         Roll!Processing, Roll!TaxRollScreenAssumption
  <1>3. CASE /\ call.file \notin BadFiles /\ ~jobRuns
             /\ LET conflicts == Roll!Conflicts(call)
                    id == Roll!Entry(call)
                IN /\ current' = [p \in Periods |->
                          IF conflicts = {} /\ p \in Covers[call.file]
                          THEN call.file ELSE current[p]]
                   /\ imports' = [i \in 1 .. (IF id > Len(imports) THEN id
                                              ELSE Len(imports)) |->
                                    IF i = id THEN call.file ELSE imports[i]]
                   /\ Roll!Answered("ok", [id |-> id, file |-> call.file,
                                      conflicts |-> conflicts])
    <2> DEFINE conflicts == Roll!Conflicts(call)
               id == Roll!Entry(call)
               n == IF id > Len(imports) THEN id ELSE Len(imports)
               outcome == [id |-> id, file |-> call.file, conflicts |-> conflicts]
    <2>1. call.file \in Files /\ Len(imports) \in Nat /\ MaxImports \in Nat
      BY <1>1 DEF Roll!Requests, Roll!TaxRollScreenAssumption
    <2>2. id \in 1 .. Len(imports) + 1 /\ id \in 1 .. MaxImports
      <3>1. call # Null /\ (call.previous # Null => call.previous <= Len(imports))
        BY <1>1 DEF RollInv, Roll!TaxRollScreenAssumption
      <3>2. call.previous # Null => call.previous \in 1 .. MaxImports
        BY <1>1 DEF Roll!Requests
      <3>3. id = Len(imports) + 1 \/ (call.previous # Null /\ id = call.previous)
        BY DEF Roll!Entry
      <3> HIDE DEF id
      <3>4. QED
        BY <1>1, <2>1, <3>1, <3>2, <3>3
    <2>3. conflicts \subseteq Periods
      BY <1>1, <2>1 DEF Roll!Conflicts, Roll!TaxRollScreenAssumption
    <2>4. current' \in [Periods -> Files \cup {Null}]
      BY <1>3, <2>1 DEF RollInv, Roll!TypeOK
    <2>5. outcome \in Roll!Results /\ outcome.id = id
      BY <2>1, <2>2, <2>3 DEF Roll!Results
    <2>6. call' = [call EXCEPT !.answer = "ok", !.result = outcome]
      BY <1>3 DEF Roll!Answered
    <2>7. imports' = [i \in 1 .. n |-> IF i = id THEN call.file ELSE imports[i]]
      BY <1>3
    <2> HIDE DEF outcome, conflicts, id
    <2>8. /\ call' \in Roll!Requests
          /\ call'.answer = "ok" /\ call'.result.id = id
          /\ call'.previous = call.previous /\ call'.replace = call.replace
      BY <1>1, <2>5, <2>6 DEF Roll!Requests
    <2>9. /\ n \in Nat /\ n <= sent /\ n >= Len(imports) /\ n >= id
          /\ \A i \in 1 .. n : i # id => i \in 1 .. Len(imports)
      BY <1>1, <2>1, <2>2
    <2>10. imports' \in Seq(Files) /\ Len(imports') = n
      <3>1. \A i \in 1 .. n : (IF i = id THEN call.file ELSE imports[i]) \in Files
        BY <1>1, <2>1, <2>9
      <3> HIDE DEF n
      <3>2. QED
        BY <2>7, <2>9, <3>1
    <2> HIDE DEF n
    <2>11. Roll!TypeOK'
      BY <1>1, <2>1, <2>4, <2>8, <2>9, <2>10 DEF RollInv, Roll!TypeOK
    <2>12. QED
      BY <1>1, <2>1, <2>8, <2>9, <2>10, <2>11 DEF RollInv, Roll!TypeOK, Roll!Results,
         Roll!ConfirmingIsModal, Roll!Confirming, Roll!Processing,
         Roll!TaxRollScreenAssumption, Roll!Requests
  <1>4. QED
    BY <1>2, <1>3 DEF Roll!Import

LEMMA RollFails ==
    ASSUME Roll!TaxRollScreenAssumption, RollInv, Roll!Fails
    PROVE  RollInv'
  <1>1. call \in Roll!Requests
    BY DEF Roll!Fails, RollInv, Roll!TypeOK
  <1>2. /\ call' \in Roll!Requests
        /\ call'.answer = "fail" /\ call'.result = Null
        /\ call'.previous = call.previous /\ call'.replace = call.replace
    BY <1>1 DEF Roll!Fails, Roll!Answered, Roll!Requests
  <1>3. QED
    BY <1>1, <1>2 DEF Roll!Fails, RollInv, Roll!TypeOK, Roll!ConfirmingIsModal,
       Roll!Confirming, Roll!Processing, Roll!TaxRollScreenAssumption, Roll!backend,
       Roll!screen

LEMMA ChooseKeeps ==
    ASSUME Roll!TaxRollScreenAssumption, RollInv, NEW f \in Files \cup {Null}, Roll!Choose(f)
    PROVE  RollInv'
  <1>1. call # Null =>
           /\ call' \in Roll!Requests
           /\ call'.answer = call.answer /\ call'.result = call.result
           /\ call'.previous = call.previous /\ call'.replace = call.replace
    BY DEF Roll!Choose, RollInv, Roll!TypeOK, Roll!Requests
  <1>2. call = Null => call' = Null
    BY DEF Roll!Choose
  <1>3. QED
    BY <1>1, <1>2 DEF Roll!Choose, RollInv, Roll!TypeOK, Roll!ConfirmingIsModal,
       Roll!Confirming, Roll!Processing, Roll!TaxRollScreenAssumption, Roll!backend,
       Roll!NoOutcome, Roll!bounds

\* A request is sent only while none is in flight.
LEMMA SendKeeps ==
    ASSUME Roll!TaxRollScreenAssumption, RollInv, Roll!Process \/ Roll!Confirm
    PROVE  RollInv'
  <1>1. call = Null
    BY DEF Roll!Process, Roll!Confirm, RollInv, Roll!ConfirmingIsModal, Roll!Confirming,
       Roll!Processing, Roll!TypeOK, Roll!Requests
  <1>2. PICK replace \in BOOLEAN, previous \in 1 .. MaxImports \cup {Null} :
           /\ Roll!Request(replace, previous)
           /\ previous # Null => previous <= Len(imports)
           /\ replace => dialog /\ result' = result /\ leaving' = leaving
           /\ ~replace => ~dialog /\ result' = Null /\ leaving' = FALSE
    <2>1. CASE Roll!Process
      BY <2>1 DEF Roll!Process, Roll!NoOutcome
    <2>2. CASE Roll!Confirm
      BY <2>2 DEF Roll!Confirm, RollInv, Roll!TypeOK, Roll!Results, Roll!screen
    <2>3. QED
      BY <2>1, <2>2
  <1>3. /\ UNCHANGED <<current, imports, jobRuns, roll, spent, dialog, rollFaults>>
        /\ roll \in Files
    BY DEF Roll!Process, Roll!Confirm, Roll!backend, Roll!screen, RollInv, Roll!TypeOK
  <1>4. /\ call' \in Roll!Requests
        /\ call'.replace = replace /\ call'.previous = previous
        /\ call'.answer = "wait" /\ call'.result = Null
        /\ sent < MaxImports /\ sent' = sent + 1
    BY <1>2, <1>3 DEF Roll!Request, Roll!Requests
  <1>5. Roll!TypeOK'
    <2>1. leaving' \in BOOLEAN /\ result' \in Roll!Results \cup {Null}
      BY <1>2 DEF RollInv, Roll!TypeOK
    <2>2. sent' \in 0 .. MaxImports
      BY <1>4 DEF RollInv, Roll!TypeOK, Roll!TaxRollScreenAssumption
    <2>3. QED
      BY <1>3, <1>4, <2>1, <2>2 DEF RollInv, Roll!TypeOK
  <1>6. QED
    BY <1>1, <1>2, <1>3, <1>4, <1>5 DEF RollInv, Roll!TypeOK, Roll!ConfirmingIsModal,
       Roll!Confirming, Roll!Processing, Roll!TaxRollScreenAssumption

LEMMA DeliverAnswerKeeps ==
    ASSUME Roll!TaxRollScreenAssumption, RollInv, Roll!DeliverAnswer
    PROVE  RollInv'
  <1>1. call \in Roll!Requests /\ call' = Null
    BY DEF Roll!DeliverAnswer, RollInv, Roll!TypeOK
  <1>2. /\ UNCHANGED <<current, imports, jobRuns, roll, leaving, sent, rollFaults>>
        /\ result' \in {result, call.result}
    BY DEF Roll!DeliverAnswer, Roll!backend, Roll!bounds
  <1>3. spent' \in BOOLEAN /\ (spent' => roll # Null) /\ dialog' \in BOOLEAN
    <2>1. spent \in BOOLEAN /\ (spent => roll # Null)
      BY DEF RollInv, Roll!TypeOK
    <2>2. spent' = spent \/ Roll!Spend(call)
      BY DEF Roll!DeliverAnswer
    <2>3. spent' \in BOOLEAN /\ (spent' => roll # Null)
      <3>1. CASE spent' = spent
        BY <2>1, <3>1
      <3>2. CASE spent' = (call.kept /\ roll # Null)
        BY <3>2, Zenon
      <3>3. QED
        BY <2>2, <3>1, <3>2 DEF Roll!Spend
    <2>4. dialog' \in BOOLEAN
      BY DEF Roll!DeliverAnswer
    <2>5. QED
      BY <2>3, <2>4
  <1>4. result' \in Roll!Results \cup {Null} /\ (result' # Null => result'.id <= Len(imports))
    BY <1>1, <1>2 DEF RollInv, Roll!TypeOK, Roll!Requests, Roll!DeliverAnswer
  <1>5. QED
    BY <1>1, <1>2, <1>3, <1>4 DEF RollInv, Roll!TypeOK, Roll!ConfirmingIsModal,
       Roll!Confirming, Roll!Processing

\* The tax roll screen: while a replacement is on its way its dialog is open, so
\* nothing else is sent; the screen and the list of imports keep their types.
THEOREM RollScreenIsTrue ==
    ASSUME Roll!TaxRollScreenAssumption
    PROVE  Roll!Spec => [](Roll!TypeOK /\ Roll!ConfirmingIsModal)
  <1>1. Roll!Init => RollInv
    BY RollInitHolds
  <1>2. RollInv /\ [Roll!Next]_(Roll!vars) => RollInv'
    <2>1. ASSUME RollInv, UNCHANGED Roll!vars
          PROVE  RollInv'
      BY <2>1 DEF Roll!vars, Roll!backend, Roll!screen, Roll!bounds, RollInv, Roll!TypeOK,
         Roll!ConfirmingIsModal, Roll!Confirming, Roll!Processing
    <2>2. ASSUME RollInv, Roll!Next
          PROVE  RollInv'
      BY <2>2, RollQuietSteps, ImportKeeps, RollFails, ChooseKeeps, SendKeeps,
         DeliverAnswerKeeps DEF Roll!Next
    <2>3. QED
      BY <2>1, <2>2
  <1>3. RollInv => Roll!TypeOK /\ Roll!ConfirmingIsModal
    BY DEF RollInv
  <1>4. QED
    BY <1>1, <1>2, <1>3, PTL DEF Roll!Spec
-----------------------------------------------------------------------------
(* PublicConsultation: what the visitor's page lists, asks for and waits for *)

Rows == (SUBSET Settlement) \ {{}}

PublicCall ==
    [id : Nat, kind : Public!Routes, slug : Slugs, criteria : Forms,
     of : Settlement \cup {Null}, visit : Nat, era : Nat,
     state : {"sent", "checked", "done", "refused", "failed"}, said : SUBSET Rows]

PublicSearch ==
    [kind : {"idle", "loading", "not-found", "error", "found"}, found : SUBSET Rows,
     asked : Forms, era : Nat]

\* What a request knows of a table S that changed e times: a consultation answered
\* since the last change found what it would find now, and so did the list that a
\* PDF was asked from, which is not refused then.
CallOK(S, e, n, c) ==
    /\ c \in PublicCall /\ c.id \in 1 .. n /\ c.era <= e
    /\ c.kind = "query" /\ c.state = "done" /\ c.era = e =>
          c.said = Public!QueryBySlug(S, c.slug, c.criteria)
    /\ c.kind = "pdf" => c.of \in Settlement
    /\ c.kind = "pdf" /\ c.era = e =>
          /\ c.state # "refused"
          /\ \E m \in Public!QueryBySlug(S, c.slug, c.criteria) : Public!Trigger(m) = c.of

CallsOK(S, e, n, all) ==
    /\ \A c \in all : CallOK(S, e, n, c)
    /\ \A c, d \in all : c.id = d.id => c = d

\* The only question about the municipality is the one not aborted, of the address.
InfoOK(all, s, r, i) ==
    /\ r.kind \in {"loading", "ready", "failed"} => s \in Slugs
    /\ \A c \in all : /\ c.kind = "info" <=> c.id = i
                      /\ c.kind = "info" => c.slug = s /\ r.kind = "loading"
    /\ r.kind = "loading" => \E c \in all : c.id = i

\* And the only consultation, which the list waits for.
QueriesOK(all, s, v, r, w, i) ==
    /\ \A c \in all :
          /\ c.kind = "query" <=> c.id = i
          /\ c.kind = "query" =>
                c.slug = s /\ c.visit = v /\ r.kind = "ready" /\ w.kind = "loading"
    /\ w.kind = "loading" => \E c \in all : c.id = i

\* A list that no change followed is what its consultation would find now.
FoundOK(S, e, s, w, criteria) ==
    /\ w \in PublicSearch /\ w.era <= e
    /\ w.kind = "found" =>
          /\ criteria \in Forms
          /\ w.era = e => w.found = Public!QueryBySlug(S, s, criteria)

\* A row waits for a PDF of this visit.
RowsWait(all, v, p) ==
    \A s \in DOMAIN p :
        p[s] = "loading" => \E c \in all : c.kind = "pdf" /\ c.of = s /\ c.visit = v

\* The PDFs of this visit are asked from the page.
VisitsOK(all, v, r) ==
    \A c \in all : c.visit <= v /\ (c.kind = "pdf" /\ c.visit = v => r.kind = "ready")

Untouched(r, w, p) == r.kind # "ready" => w.kind = "idle" /\ p = <<>>

\* The inductive invariant of the consultation.
PublicInv ==
    /\ Public!TypeOK
    /\ moves \in Nat /\ asked \in Nat
    /\ CallsOK(stored, era, asked, requests)
    /\ InfoOK(requests, slug, route, info)
    /\ QueriesOK(requests, slug, moves, route, search, consulting)
    /\ FoundOK(stored, era, slug, search, submitted)
    /\ RowsWait(requests, moves, pdfState)
    /\ VisitsOK(requests, moves, route)
    /\ Untouched(route, search, pdfState)
    /\ route.slug = slug
    /\ Public!DeliveredIsIssued

\* The trigger of some rows is one of them.
LEMMA TriggerIs ==
    ASSUME Public!PublicConsultationAssumption, NEW m \in Rows
    PROVE  Public!Trigger(m) \in m
  <1> DEFINE periods == {PeriodOf[s] : s \in m}
  <1>1. periods \subseteq Nat /\ periods # {}
    <2>1. \A s \in m : PeriodOf[s] \in Nat
      BY DEF Rows, Public!PublicConsultationAssumption
    <2>2. PICK s \in m : TRUE
      BY DEF Rows
    <2>3. PeriodOf[s] \in periods
      BY <2>2
    <2>4. QED
      BY <2>1, <2>3
  <1>2. PICK n \in periods : \A k \in periods : ~(<<k, n>> \in OpToRel(<, Nat))
    BY <1>1, NatLessThanWellFounded, WFMin
  <1>3. \A k \in periods : n <= k
    <2>1. \A k \in periods : ~(k < n)
      BY <1>1, <1>2 DEF OpToRel
    <2>2. QED
      BY <1>1, <2>1
  <1>4. \E s \in m : \A t \in m : PeriodOf[s] <= PeriodOf[t]
    BY <1>3
  <1>5. QED
    BY <1>4 DEF Public!Trigger

\* What a consultation finds: rows of current settlements, with their resolution.
LEMMA QueryIs ==
    ASSUME Public!PublicConsultationAssumption, NEW S, NEW s, NEW criteria
    PROVE  LET found == Public!QueryBySlug(S, s, criteria)
           IN  /\ found \in SUBSET Rows
               /\ \A m \in found :
                     LET of == Public!Trigger(m)
                     IN  of \in Settlement /\ S[of].current /\ S[of].res # Null
  <1> DEFINE listed == {t \in Settlement :
                          /\ S[t].current
                          /\ TownOf[PropertyOf[t]] = s
                          /\ Public!Matches(PropertyOf[t], criteria)}
  <1>1. Public!QueryBySlug(S, s, criteria) \subseteq
            {m \in Public!Buckets(S, listed) : S[Public!Trigger(m)].res # Null}
    BY DEF Public!QueryBySlug, Public!Query
  <1>2. \A m \in Public!Buckets(S, listed) : m \in SUBSET listed /\ m # {}
    BY DEF Public!Buckets
  <1>3. \A t \in listed : t \in Settlement /\ S[t].current
    OBVIOUS
  <1> HIDE DEF listed
  <1>4. \A m \in Public!Buckets(S, listed) : m \in Rows /\ Public!Trigger(m) \in m
    <2>1. ASSUME NEW m \in Public!Buckets(S, listed)
          PROVE  m \in Rows
      <3>1. m \in SUBSET listed /\ m # {}
        BY <1>2
      <3>2. m \subseteq Settlement
        BY <3>1, <1>3
      <3>3. QED
        BY <3>1, <3>2 DEF Rows
    <2>2. QED
      BY <2>1, TriggerIs
  <1>5. QED
    BY <1>1, <1>2, <1>3, <1>4

LEMMA PublicInitHolds ==
    ASSUME Public!PublicConsultationAssumption, Public!Init
    PROVE  PublicInv
  <1>1. Public!TypeOK
    BY DEF Public!Init, Public!TypeOK, Public!Idle, Public!PublicConsultationAssumption
  <1>2. CallsOK(stored, era, asked, requests) /\ InfoOK(requests, slug, route, info)
    BY DEF Public!Init, CallsOK, InfoOK
  <1>3. QueriesOK(requests, slug, moves, route, search, consulting)
    BY DEF Public!Init, QueriesOK, Public!Idle
  <1>4. FoundOK(stored, era, slug, search, submitted)
    BY DEF Public!Init, FoundOK, Public!Idle, PublicSearch, Public!PublicConsultationAssumption
  <1>5. /\ RowsWait(requests, moves, pdfState) /\ Untouched(route, search, pdfState)
        /\ VisitsOK(requests, moves, route)
    BY DEF Public!Init, RowsWait, Untouched, VisitsOK, Public!Idle
  <1>6. QED
    BY <1>1, <1>2, <1>3, <1>4, <1>5 DEF Public!Init, PublicInv, Public!DeliveredIsIssued

LEMMA PublicQuiet ==
    ASSUME PublicInv, UNCHANGED Public!vars
    PROVE  PublicInv'
  BY DEF Public!vars, Public!table, Public!place, Public!page, PublicInv, Public!TypeOK,
     Public!DeliveredIsIssued

-----------------------------------------------------------------------------
(* The backend *)

\* A request is answered, or fails, and nothing else of the page changes.
LEMMA RequestAnswered ==
    ASSUME PublicInv, NEW c \in requests, NEW d,
           /\ d.id = c.id /\ d.kind = c.kind /\ d.slug = c.slug
           /\ d.of = c.of /\ d.visit = c.visit,
           CallOK(stored, era, asked, d),
           requests' = (requests \ {c}) \cup {d},
           UNCHANGED <<Public!table, Public!place, Public!page, moves, asked>>,
           hits' \in [Slugs \X Public!Routes -> Nat], Public!DeliveredIsIssued'
    PROVE  PublicInv'
  <1>1. CallsOK(stored, era, asked, requests')
    BY DEF PublicInv, CallsOK
  <1>2. InfoOK(requests', slug, route, info)
    BY DEF PublicInv, InfoOK
  <1>3. QueriesOK(requests', slug, moves, route, search, consulting)
    BY DEF PublicInv, QueriesOK
  <1>4. RowsWait(requests', moves, pdfState)
    <2>1. ASSUME NEW s \in DOMAIN pdfState, pdfState[s] = "loading"
          PROVE  \E e \in requests' : e.kind = "pdf" /\ e.of = s /\ e.visit = moves
      <3>1. PICK e \in requests : e.kind = "pdf" /\ e.of = s /\ e.visit = moves
        BY <2>1 DEF PublicInv, RowsWait
      <3>2. QED
        BY <3>1
    <2>2. QED
      BY <2>1 DEF RowsWait
  <1>5. VisitsOK(requests', moves, route)
    BY DEF PublicInv, VisitsOK
  <1>6. Public!TypeOK'
    <2>1. \A e \in requests' : /\ e.id \in 1 .. asked /\ e.kind \in Public!Routes
                               /\ e.state \in {"sent", "checked", "done", "refused", "failed"}
      BY <1>1 DEF CallsOK, CallOK, PublicCall
    <2>2. QED
      BY <2>1 DEF PublicInv, Public!TypeOK, Public!table, Public!place, Public!page, Public!Filled
  <1>7. QED
    BY <1>1, <1>2, <1>3, <1>4, <1>5, <1>6
       DEF PublicInv, Public!table, Public!place, Public!page

LEMMA CountIs ==
    ASSUME PublicInv, NEW c \in requests, Public!Count(c)
    PROVE  hits' \in [Slugs \X Public!Routes -> Nat]
  BY DEF PublicInv, Public!TypeOK, Public!Count, CallsOK, CallOK, PublicCall

LEMMA IssuedStays ==
    ASSUME PublicInv, UNCHANGED delivered
    PROVE  Public!DeliveredIsIssued'
  BY DEF PublicInv, Public!DeliveredIsIssued

LEMMA ThrottleKeeps ==
    ASSUME PublicInv, NEW c \in requests, Public!Throttle(c)
    PROVE  PublicInv'
  <1> DEFINE d == [c EXCEPT !.state = "failed", !.said = {}]
  <1>1. CallOK(stored, era, asked, c)
    BY DEF PublicInv, CallsOK
  <1>2. CallOK(stored, era, asked, d)
    BY <1>1 DEF CallOK, PublicCall
  <1>3. /\ d.id = c.id /\ d.kind = c.kind /\ d.slug = c.slug
        /\ d.of = c.of /\ d.visit = c.visit
    BY <1>1 DEF CallOK, PublicCall
  <1>4. /\ requests' = (requests \ {c}) \cup {d} /\ Public!DeliveredIsIssued'
        /\ hits' \in [Slugs \X Public!Routes -> Nat]
    BY IssuedStays DEF Public!Throttle, Public!Answer, PublicInv, Public!TypeOK
  <1> HIDE DEF d
  <1>5. QED
    BY <1>2, <1>3, <1>4, RequestAnswered DEF Public!Throttle

LEMMA FailKeeps ==
    ASSUME PublicInv, NEW c \in requests, Public!Fail(c)
    PROVE  PublicInv'
  <1> DEFINE d == [c EXCEPT !.state = "failed", !.said = {}]
  <1>1. CallOK(stored, era, asked, c)
    BY DEF PublicInv, CallsOK
  <1>2. CallOK(stored, era, asked, d)
    BY <1>1 DEF CallOK, PublicCall
  <1>3. /\ d.id = c.id /\ d.kind = c.kind /\ d.slug = c.slug
        /\ d.of = c.of /\ d.visit = c.visit
    BY <1>1 DEF CallOK, PublicCall
  <1>4. /\ requests' = (requests \ {c}) \cup {d} /\ Public!DeliveredIsIssued'
        /\ hits' \in [Slugs \X Public!Routes -> Nat]
    BY IssuedStays DEF Public!Fail, Public!Answer, PublicInv, Public!TypeOK
  <1> HIDE DEF d
  <1>5. QED
    BY <1>2, <1>3, <1>4, RequestAnswered DEF Public!Fail

LEMMA HandleInfoKeeps ==
    ASSUME PublicInv, NEW c \in requests, Public!HandleInfo(c)
    PROVE  PublicInv'
  <1> DEFINE d == [c EXCEPT !.state = IF c.slug \in Towns THEN "done" ELSE "refused",
                            !.said = {}]
  <1>1. CallOK(stored, era, asked, c) /\ c.kind = "info"
    BY DEF PublicInv, CallsOK, Public!HandleInfo
  <1>2. CallOK(stored, era, asked, d)
    BY <1>1 DEF CallOK, PublicCall
  <1>3. /\ d.id = c.id /\ d.kind = c.kind /\ d.slug = c.slug
        /\ d.of = c.of /\ d.visit = c.visit
    BY <1>1 DEF CallOK, PublicCall
  <1>4. /\ requests' = (requests \ {c}) \cup {d} /\ Public!DeliveredIsIssued'
        /\ hits' \in [Slugs \X Public!Routes -> Nat]
    BY IssuedStays, CountIs DEF Public!HandleInfo, Public!Answer
  <1> HIDE DEF d
  <1>5. QED
    BY <1>2, <1>3, <1>4, RequestAnswered DEF Public!HandleInfo

\* A consultation is answered with what it finds now.
LEMMA HandleQueryKeeps ==
    ASSUME Public!PublicConsultationAssumption, PublicInv, NEW c \in requests,
           Public!HandleQuery(c)
    PROVE  PublicInv'
  <1> DEFINE now == Public!QueryBySlug(stored, c.slug, c.criteria)
             d == [c EXCEPT !.state = "done", !.era = era, !.said = now]
  <1>1. CallOK(stored, era, asked, c) /\ c.kind = "query"
    BY DEF PublicInv, CallsOK, Public!HandleQuery
  <1>2. now \in SUBSET Rows /\ era \in Nat
    BY QueryIs DEF PublicInv, Public!TypeOK, Public!PublicConsultationAssumption
  <1>3. requests' = (requests \ {c}) \cup {d}
    BY DEF Public!HandleQuery
  <1>4. CallOK(stored, era, asked, d)
    <2> HIDE DEF now
    <2>1. /\ d \in PublicCall /\ d.id = c.id /\ d.era = era /\ d.kind = "query"
          /\ d.slug = c.slug /\ d.criteria = c.criteria /\ d.said = now
      BY <1>1, <1>2 DEF CallOK, PublicCall
    <2>2. QED
      BY <1>1, <1>2, <2>1 DEF CallOK, now
  <1>5. /\ d.id = c.id /\ d.kind = c.kind /\ d.slug = c.slug
        /\ d.of = c.of /\ d.visit = c.visit
    <2> HIDE DEF now
    <2>1. QED
      BY <1>1 DEF CallOK, PublicCall
  <1>6. Public!DeliveredIsIssued' /\ hits' \in [Slugs \X Public!Routes -> Nat]
    BY IssuedStays, CountIs DEF Public!HandleQuery
  <1> HIDE DEF d, now
  <1>7. QED
    BY <1>3, <1>4, <1>5, <1>6, RequestAnswered DEF Public!HandleQuery

\* The check of a PDF lists its settlement unless one changed since the list was read.
LEMMA CheckPdfKeeps ==
    ASSUME PublicInv, NEW c \in requests, Public!CheckPdf(c)
    PROVE  PublicInv'
  <1> DEFINE there == \E m \in Public!QueryBySlug(stored, c.slug, c.criteria) :
                         Public!Trigger(m) = c.of
             d == [c EXCEPT !.state = IF there THEN "checked" ELSE "refused", !.said = {}]
  <1>1. CallOK(stored, era, asked, c) /\ c.kind = "pdf"
    BY DEF PublicInv, CallsOK, Public!CheckPdf
  <1>2. c.era = era => there
    BY <1>1 DEF CallOK
  <1>3. requests' = (requests \ {c}) \cup {d}
    BY DEF Public!CheckPdf, Public!Answer
  <1>4. /\ d \in PublicCall /\ d.id = c.id /\ d.era = c.era /\ d.kind = "pdf"
        /\ d.slug = c.slug /\ d.criteria = c.criteria /\ d.of = c.of
        /\ d.visit = c.visit /\ (there => d.state = "checked")
    <2> HIDE DEF there
    <2>1. QED
      BY <1>1 DEF CallOK, PublicCall
  <1>5. Public!DeliveredIsIssued' /\ hits' \in [Slugs \X Public!Routes -> Nat]
    BY IssuedStays, CountIs DEF Public!CheckPdf
  <1>6. CallOK(stored, era, asked, d)
    <2> HIDE DEF d
    <2>1. QED
      BY <1>1, <1>2, <1>4 DEF CallOK
  <1> HIDE DEF d, there
  <1>7. QED
    BY <1>1, <1>3, <1>4, <1>5, <1>6, RequestAnswered DEF Public!CheckPdf

\* And so is its resolution still there.
LEMMA GenerateIssuedKeeps ==
    ASSUME Public!PublicConsultationAssumption, PublicInv, NEW c \in requests,
           Public!GenerateIssued(c)
    PROVE  PublicInv'
  <1> DEFINE state == IF Public!NotIssued(c.of) THEN "refused" ELSE "done"
             d == [c EXCEPT !.state = state, !.said = {}]
  <1>1. CallOK(stored, era, asked, c) /\ c.kind = "pdf"
    BY DEF PublicInv, CallsOK, Public!GenerateIssued
  <1>2. c.era = era => ~Public!NotIssued(c.of)
    BY <1>1, QueryIs DEF CallOK, Public!NotIssued
  <1>3. requests' = (requests \ {c}) \cup {d}
    BY DEF Public!GenerateIssued, Public!Answer
  <1>4. /\ d \in PublicCall /\ d.id = c.id /\ d.era = c.era /\ d.kind = "pdf"
        /\ d.slug = c.slug /\ d.criteria = c.criteria /\ d.of = c.of
        /\ d.visit = c.visit /\ d.state = state
    BY <1>1 DEF CallOK, PublicCall
  <1>5. Public!DeliveredIsIssued'
    BY DEF Public!GenerateIssued, Public!NotIssued, PublicInv, Public!DeliveredIsIssued
  <1>6. CallOK(stored, era, asked, d)
    <2> HIDE DEF d
    <2>1. QED
      BY <1>1, <1>2, <1>4 DEF CallOK
  <1>7. hits' \in [Slugs \X Public!Routes -> Nat]
    BY DEF Public!GenerateIssued, PublicInv, Public!TypeOK
  <1> HIDE DEF d
  <1>8. QED
    BY <1>1, <1>3, <1>4, <1>5, <1>6, <1>7, RequestAnswered DEF Public!GenerateIssued

-----------------------------------------------------------------------------
(* The others *)

\* Once a settlement changes, all that was read is of before.
LEMMA ChangedKeeps ==
    ASSUME Public!PublicConsultationAssumption, PublicInv, Public!Change,
           stored' \in [Settlement -> [current : BOOLEAN, res : Nat \cup {Null}]]
    PROVE  PublicInv'
  <1>1. era' = era + 1 /\ era' \in 0 .. MaxOthers /\ era \in Int
    BY DEF Public!Change, PublicInv, Public!TypeOK, Public!PublicConsultationAssumption
  <1>2. /\ UNCHANGED <<hits, slug, route, info, values, search, submitted, pdfState,
                       consulting, requests, delivered, moves, asked>>
    BY DEF Public!Change, Public!place, Public!page
  <1>3. CallsOK(stored', era', asked, requests)
    <2>1. ASSUME NEW c \in requests
          PROVE  CallOK(stored', era', asked, c)
      <3>1. CallOK(stored, era, asked, c)
        BY DEF PublicInv, CallsOK
      <3>2. c.era \in Int /\ c.era <= era
        BY <3>1 DEF CallOK, PublicCall
      <3>3. QED
        BY <1>1, <3>1, <3>2 DEF CallOK
    <2>2. QED
      BY <2>1 DEF PublicInv, CallsOK
  <1>4. FoundOK(stored', era', slug, search, submitted)
    <2>1. search.era \in Int /\ search.era <= era
      BY DEF PublicInv, FoundOK, PublicSearch
    <2>2. QED
      BY <1>1, <2>1 DEF PublicInv, FoundOK
  <1>5. QED
    BY <1>1, <1>2, <1>3, <1>4 DEF PublicInv, Public!TypeOK, Public!DeliveredIsIssued

LEMMA OthersKeep ==
    ASSUME Public!PublicConsultationAssumption, PublicInv, NEW s \in Settlement,
           \/ Public!Issue(s) \/ Public!Replace(s)
           \/ \E n \in 1 .. era : Public!TakeBack(n)
    PROVE  PublicInv'
  <1> DEFINE T == [current : BOOLEAN, res : Nat \cup {Null}]
  <1>1. stored \in [Settlement -> T] /\ era + 1 \in Nat
    BY DEF PublicInv, Public!TypeOK
  <1>2. CASE Public!Issue(s)
    <2>1. stored' \in [Settlement -> T]
      <3>1. \A t \in Settlement : [stored[t] EXCEPT !.res = era + 1] \in T
        BY <1>1
      <3>2. QED
        BY <1>1, <1>2, <3>1 DEF Public!Issue
    <2>2. QED
      BY <1>2, <2>1, ChangedKeeps DEF Public!Issue
  <1>3. CASE Public!Replace(s)
    <2>1. stored' \in [Settlement -> T]
      BY <1>1, <1>3 DEF Public!Replace
    <2>2. QED
      BY <1>3, <2>1, ChangedKeeps DEF Public!Replace
  <1>4. CASE \E n \in 1 .. era : Public!TakeBack(n)
    <2>1. PICK n \in 1 .. era : Public!TakeBack(n)
      BY <1>4
    <2>2. stored' \in [Settlement -> T]
      <3>1. \A t \in Settlement : [stored[t] EXCEPT !.res = Null] \in T
        BY <1>1
      <3>2. QED
        BY <1>1, <2>1, <3>1 DEF Public!TakeBack
    <2>3. QED
      BY <2>1, <2>2, ChangedKeeps DEF Public!TakeBack
  <1>5. QED
    BY <1>2, <1>3, <1>4

LEMMA WindowEndsKeeps ==
    ASSUME PublicInv, NEW s \in Slugs, NEW r \in Public!Routes, Public!WindowEnds(s, r)
    PROVE  PublicInv'
  BY DEF Public!WindowEnds, Public!table, Public!place, Public!page, PublicInv,
     Public!TypeOK, Public!DeliveredIsIssued

-----------------------------------------------------------------------------
(* The route *)

\* A request just sent is of no id there was.
LEMMA SentOK ==
    ASSUME PublicInv, NEW all, NEW c,
           all \subseteq requests, CallOK(stored, era, asked + 1, c), c.id = asked + 1
    PROVE  /\ CallsOK(stored, era, asked + 1, all \cup {c})
           /\ \A d \in all : d.id # asked + 1
           /\ info # asked + 1 /\ consulting # asked + 1
           /\ info \in 0 .. (asked + 1) /\ consulting \in 0 .. (asked + 1)
  <1>1. asked \in Nat /\ info \in 0 .. asked /\ consulting \in 0 .. asked
    BY DEF PublicInv, Public!TypeOK
  <1>2. ASSUME NEW d \in all
        PROVE  CallOK(stored, era, asked + 1, d) /\ d.id # asked + 1
    <2>1. CallOK(stored, era, asked, d)
      BY DEF PublicInv, CallsOK
    <2>2. d.id \in 1 .. asked
      BY <2>1 DEF CallOK
    <2>3. QED
      BY <1>1, <2>1, <2>2 DEF CallOK
  <1>3. QED
    BY <1>1, <1>2 DEF PublicInv, CallsOK

LEMMA CallsTyped ==
    ASSUME NEW S, NEW e, NEW n, NEW all, CallsOK(S, e, n, all)
    PROVE  \A c \in all : /\ c.id \in 1 .. n /\ c.kind \in Public!Routes
                          /\ c.state \in {"sent", "checked", "done", "refused", "failed"}
  BY DEF CallsOK, CallOK, PublicCall

LEMMA InfoRequestIs ==
    ASSUME NEW s, NEW c, c = [Public!Request("info", <<>>, Null) EXCEPT !.slug = s]
    PROVE  c = [id |-> asked + 1, kind |-> "info", slug |-> s, criteria |-> <<>>, of |-> Null,
                visit |-> moves, era |-> search.era, state |-> "sent", said |-> {}]
  BY DEF Public!Request

\* A question about the municipality of the address, and none before it is left.
LEMMA InfoAsked ==
    ASSUME Public!PublicConsultationAssumption, PublicInv, NEW s \in Slugs, NEW c,
           c = [id |-> asked + 1, kind |-> "info", slug |-> s, criteria |-> <<>>, of |-> Null,
                visit |-> moves, era |-> search.era, state |-> "sent", said |-> {}]
    PROVE  /\ CallOK(stored, era, asked + 1, c)
           /\ c.id = asked + 1 /\ c.kind = "info" /\ c.slug = s
  <1>1. /\ search.era \in Nat /\ search.era <= era /\ asked + 1 \in 1 .. (asked + 1)
        /\ moves \in Nat /\ asked + 1 \in Nat
    BY DEF PublicInv, FoundOK, PublicSearch
  <1>2. c \in PublicCall
    BY <1>1 DEF PublicCall, Public!Routes, Public!PublicConsultationAssumption
  <1>3. QED
    BY <1>1, <1>2 DEF CallOK

LEMMA AbortedIs ==
    ASSUME PublicInv
    PROVE  /\ Public!NotAborted \subseteq requests
           /\ \A c \in Public!NotAborted : c.kind = "pdf"
  <1>1. \A c \in requests : c.kind \in Public!Routes
    BY CallsTyped DEF PublicInv
  <1>2. \A c \in Public!NotAborted :
           c \in requests /\ c.id # info /\ c.id # consulting
    BY DEF Public!NotAborted
  <1>3. QED
    BY <1>1, <1>2 DEF PublicInv, InfoOK, QueriesOK, Public!Routes

LEMMA FreshIs ==
    ASSUME Public!PublicConsultationAssumption, PublicInv, Public!FreshPage
    PROVE  /\ values' \in Forms /\ submitted' \in Forms \cup {Null}
           /\ search'.kind = "idle" /\ pdfState' = <<>> /\ consulting' = 0
           /\ search'.found = {} /\ DOMAIN pdfState' = {}
           /\ FoundOK(stored, era, slug', search', submitted')
           /\ \A all, v : RowsWait(all, v, pdfState')
           /\ \A r : Untouched(r, search', pdfState')
  <1>1. values' = <<>> /\ search' = Public!Idle /\ submitted' = Null /\ pdfState' = <<>>
    BY DEF Public!FreshPage
  <1>2. Public!Idle \in PublicSearch /\ Public!Idle.kind = "idle" /\ Public!Idle.era = 0
        /\ Public!Idle.found = {}
    BY DEF Public!Idle, PublicSearch, Public!PublicConsultationAssumption
  <1>3. era \in Nat
    BY DEF PublicInv, Public!TypeOK, Public!PublicConsultationAssumption
  <1>4. QED
    BY <1>1, <1>2, <1>3 DEF Public!FreshPage, Public!PublicConsultationAssumption, FoundOK,
       RowsWait, Untouched

LEMMA ChangeHashKeeps ==
    ASSUME Public!PublicConsultationAssumption, PublicInv, NEW s \in Slugs \cup {Null},
           Public!ChangeHash(s)
    PROVE  PublicInv'
  <1>1. UNCHANGED <<stored, era, hits, delivered>> /\ Public!FreshPage
    BY DEF Public!ChangeHash, Public!table
  <1>2. /\ slug' = s /\ moves' = moves + 1
        /\ route' = [slug |-> s, kind |-> IF s = Null THEN "unavailable" ELSE "loading"]
    BY DEF Public!ChangeHash
  <1>3. /\ CallsOK(stored, era, asked', requests') /\ asked' \in Nat
        /\ InfoOK(requests', s, route', info') /\ info' \in 0 .. asked'
        /\ \A c \in requests' : c.kind # "query" /\ c.id # 0
    <2>1. CASE s = Null
      <3>1. info' = 0 /\ requests' = Public!NotAborted /\ asked' = asked
        BY <2>1 DEF Public!ChangeHash
      <3>2. CallsOK(stored, era, asked, requests')
        BY <3>1, AbortedIs DEF PublicInv, CallsOK
      <3>3. \A c \in requests' : c.id # 0 /\ c.kind = "pdf"
        BY <3>1, <3>2, CallsTyped, AbortedIs
      <3>4. InfoOK(requests', s, route', info')
        BY <1>2, <2>1, <3>1, <3>3 DEF InfoOK
      <3>5. QED
        BY <3>1, <3>2, <3>3, <3>4 DEF PublicInv
    <2>2. CASE s # Null
      <3> DEFINE c == [Public!Request("info", <<>>, Null) EXCEPT !.slug = s]
      <3>1. /\ info' = asked + 1 /\ requests' = Public!NotAborted \cup {c}
            /\ asked' = asked + 1
        BY <2>2 DEF Public!ChangeHash
      <3>2. c = [id |-> asked + 1, kind |-> "info", slug |-> s, criteria |-> <<>>,
                 of |-> Null, visit |-> moves, era |-> search.era, state |-> "sent",
                 said |-> {}]
        BY InfoRequestIs
      <3> HIDE DEF c
      <3>3. /\ CallOK(stored, era, asked + 1, c)
            /\ c.id = asked + 1 /\ c.kind = "info" /\ c.slug = s
        BY <2>2, <3>2, InfoAsked
      <3>4. /\ CallsOK(stored, era, asked + 1, requests')
            /\ \A d \in Public!NotAborted : d.id # asked + 1 /\ d.kind = "pdf"
        BY <3>1, <3>3, AbortedIs, SentOK
      <3>5. InfoOK(requests', s, route', info')
        BY <1>2, <2>2, <3>1, <3>3, <3>4 DEF InfoOK
      <3>6. asked + 1 \in Nat /\ asked + 1 \in 0 .. (asked + 1)
        BY DEF PublicInv
      <3>7. \A d \in requests' : d.kind # "query" /\ d.id # 0
        BY <3>1, <3>3, <3>4, CallsTyped
      <3>8. QED
        BY <3>1, <3>4, <3>5, <3>6, <3>7
    <2>3. QED
      BY <2>1, <2>2
  <1>4. QueriesOK(requests', s, moves', route', search', consulting')
    BY <1>1, <1>3, FreshIs DEF QueriesOK
  <1>5. Public!TypeOK'
    <2>1. route' \in [slug : Slugs \cup {Null},
                      kind : {"loading", "ready", "unavailable", "failed"}]
      BY <1>2
    <2>2. \A d \in requests' : /\ d.id \in 1 .. asked' /\ d.kind \in Public!Routes
                               /\ d.state \in {"sent", "checked", "done", "refused", "failed"}
      BY <1>3, CallsTyped
    <2>3. consulting' \in 0 .. asked'
      BY <1>1, <1>3, FreshIs
    <2>4. search'.kind = "idle" /\ search'.found = {} /\ DOMAIN pdfState' = {}
      BY <1>1, FreshIs
    <2>5. QED
      BY <1>1, <1>2, <1>3, <2>1, <2>2, <2>3, <2>4, FreshIs DEF PublicInv, Public!TypeOK
  <1>6. moves' \in Nat /\ route'.slug = slug'
    BY <1>2 DEF PublicInv
  <1>7. Public!DeliveredIsIssued'
    BY <1>1, IssuedStays
  <1>8. /\ FoundOK(stored, era, slug', search', submitted')
        /\ RowsWait(requests', moves', pdfState')
        /\ Untouched(route', search', pdfState')
    BY <1>1, FreshIs
  <1>9. VisitsOK(requests', moves', route')
    <2>1. \A c \in requests : c.visit \in Nat /\ c.visit <= moves
      BY DEF PublicInv, VisitsOK, CallsOK, CallOK, PublicCall
    <2>2. ASSUME NEW d \in requests'
          PROVE  d \in requests \/ (d.kind = "info" /\ d.visit = moves)
      BY AbortedIs DEF Public!ChangeHash, Public!Request
    <2>3. QED
      BY <1>2, <2>1, <2>2 DEF VisitsOK, PublicInv
  <1>10. QED
    BY <1>1, <1>2, <1>3, <1>4, <1>5, <1>6, <1>7, <1>8, <1>9 DEF PublicInv

LEMMA RetryInfoKeeps ==
    ASSUME Public!PublicConsultationAssumption, PublicInv, Public!RetryInfo
    PROVE  PublicInv'
  <1> DEFINE c == Public!Request("info", <<>>, Null)
  <1>1. /\ UNCHANGED <<stored, era, hits, slug, values, search, submitted, pdfState,
                       consulting, delivered, moves>>
        /\ asked' = asked + 1 /\ info' = asked + 1
        /\ requests' = Public!NotAborted \cup {c}
        /\ route.kind = "failed" /\ route' = [route EXCEPT !.kind = "loading"]
    BY DEF Public!RetryInfo, Public!table, Public!page
  <1>2. slug \in Slugs /\ search.kind = "idle" /\ pdfState = <<>>
    BY <1>1 DEF PublicInv, InfoOK, Untouched
  <1>3. c = [id |-> asked + 1, kind |-> "info", slug |-> slug, criteria |-> <<>>,
             of |-> Null, visit |-> moves, era |-> search.era, state |-> "sent", said |-> {}]
    BY DEF Public!Request
  <1> HIDE DEF c
  <1>4. /\ CallOK(stored, era, asked + 1, c) /\ c.visit = moves
        /\ c.id = asked + 1 /\ c.kind = "info" /\ c.slug = slug
    BY <1>2, <1>3, InfoAsked
  <1>5. /\ CallsOK(stored, era, asked + 1, requests')
        /\ \A d \in Public!NotAborted : d.id # asked + 1 /\ d.kind = "pdf"
        /\ consulting # asked + 1 /\ consulting \in 0 .. (asked + 1)
    BY <1>1, <1>4, AbortedIs, SentOK
  <1>6. route' \in [slug : Slugs \cup {Null},
                    kind : {"loading", "ready", "unavailable", "failed"}]
        /\ route'.kind = "loading" /\ route'.slug = slug
    BY <1>1 DEF PublicInv, Public!TypeOK
  <1>7. InfoOK(requests', slug, route', asked + 1)
    BY <1>1, <1>2, <1>4, <1>5, <1>6 DEF InfoOK
  <1>8. QueriesOK(requests', slug, moves, route', search, consulting)
    <2>1. \A d \in Public!NotAborted : d.id # consulting
      BY DEF Public!NotAborted
    <2>2. QED
      BY <1>1, <1>2, <1>4, <1>5, <2>1 DEF QueriesOK
  <1>9. RowsWait(requests', moves, pdfState) /\ Untouched(route', search, pdfState)
    BY <1>2 DEF RowsWait, Untouched
  <1>10. \A d \in requests' : /\ d.id \in 1 .. (asked + 1) /\ d.kind \in Public!Routes
                              /\ d.state \in {"sent", "checked", "done", "refused", "failed"}
    BY <1>5, CallsTyped
  <1>11. asked + 1 \in Nat /\ asked + 1 \in 0 .. (asked + 1)
    BY DEF PublicInv
  <1>12. Public!TypeOK'
    BY <1>1, <1>2, <1>5, <1>6, <1>10, <1>11 DEF PublicInv, Public!TypeOK
  <1>13. VisitsOK(requests', moves, route')
    BY <1>1, <1>4, AbortedIs DEF PublicInv, VisitsOK
  <1>14. QED
    BY <1>1, <1>5, <1>6, <1>7, <1>8, <1>9, <1>11, <1>12, <1>13
       DEF PublicInv, Public!DeliveredIsIssued

\* The answer about the municipality is of the address, and nothing else waits for it.
LEMMA LandInfoKeeps ==
    ASSUME PublicInv, NEW c \in requests, Public!LandInfo(c)
    PROVE  PublicInv'
  <1>1. /\ UNCHANGED <<stored, era, hits, slug, values, search, submitted, pdfState,
                       consulting, delivered, moves, asked>>
        /\ info' = 0 /\ requests' = requests \ {c} /\ c.kind = "info"
        /\ c.state \in {"done", "refused", "failed"}
    BY DEF Public!LandInfo, Public!table, Public!page
  <1>2. c.id = info /\ c.slug = slug /\ route.kind = "loading" /\ slug \in Slugs
    BY <1>1 DEF PublicInv, InfoOK
  <1>3. search.kind = "idle" /\ pdfState = <<>>
    BY <1>2 DEF PublicInv, Untouched
  <1>4. /\ route' \in [slug : Slugs \cup {Null}, kind : {"ready", "unavailable", "failed"}]
        /\ route'.slug = slug /\ route'.kind # "loading"
    <2>1. CASE c.state = "done"
      BY <1>2, <2>1 DEF Public!LandInfo
    <2>2. CASE c.state = "refused"
      BY <1>2, <2>2 DEF Public!LandInfo
    <2>3. CASE c.state = "failed"
      BY <1>2, <2>3 DEF Public!LandInfo
    <2>4. QED
      BY <1>1, <2>1, <2>2, <2>3
  <1>5. CallsOK(stored, era, asked, requests')
    BY <1>1 DEF PublicInv, CallsOK
  <1>6. \A d \in requests' : d.id # 0 /\ d.kind # "info" /\ d.kind \in Public!Routes
    <2>1. \A d \in requests' : d \in requests /\ d.id # info
      BY <1>1, <1>2 DEF PublicInv, CallsOK
    <2>2. QED
      BY <1>5, <2>1, CallsTyped DEF PublicInv, InfoOK
  <1>7. InfoOK(requests', slug, route', 0)
    BY <1>2, <1>4, <1>6 DEF InfoOK
  <1>8. QueriesOK(requests', slug, moves, route', search, consulting)
    <2>1. \A d \in requests : d.kind # "query"
      BY <1>3 DEF PublicInv, QueriesOK
    <2>2. QED
      BY <1>1, <1>3, <2>1 DEF PublicInv, QueriesOK
  <1>9. RowsWait(requests', moves, pdfState) /\ Untouched(route', search, pdfState)
    BY <1>3 DEF RowsWait, Untouched
  <1>10. Public!TypeOK'
    BY <1>1, <1>4 DEF PublicInv, Public!TypeOK
  <1>11. VisitsOK(requests', moves, route')
    BY <1>1, <1>2 DEF PublicInv, VisitsOK
  <1>12. QED
    BY <1>1, <1>4, <1>5, <1>7, <1>8, <1>9, <1>10, <1>11 DEF PublicInv, Public!DeliveredIsIssued

-----------------------------------------------------------------------------
(* The page *)

LEMMA OnPageIs ==
    ASSUME Public!OnPage
    PROVE  UNCHANGED <<stored, era, hits, slug, route, info, delivered, moves>>
  BY DEF Public!OnPage, Public!table, Public!place

LEMMA WriteKeeps ==
    ASSUME PublicInv, NEW form \in Forms, Public!Write(form)
    PROVE  PublicInv'
  BY OnPageIs DEF Public!Write, PublicInv, Public!TypeOK, Public!DeliveredIsIssued

LEMMA ClearKeeps ==
    ASSUME Public!PublicConsultationAssumption, PublicInv, Public!Clear
    PROVE  PublicInv'
  <1>1. /\ UNCHANGED <<stored, era, hits, slug, route, info, consulting, requests,
                       delivered, moves, asked>>
        /\ search.kind # "loading"
        /\ values' = <<>> /\ submitted' = Null /\ pdfState' = <<>> /\ search' = Public!Idle
    BY OnPageIs DEF Public!Clear
  <1>2. Public!Idle \in PublicSearch /\ Public!Idle.kind = "idle" /\ Public!Idle.era = 0
        /\ Public!Idle.found = {}
    BY DEF Public!Idle, PublicSearch, Public!PublicConsultationAssumption
  <1>3. QueriesOK(requests, slug, moves, route, search', consulting)
    BY <1>1, <1>2 DEF PublicInv, QueriesOK
  <1>4. FoundOK(stored, era, slug, search', submitted')
    BY <1>1, <1>2 DEF PublicInv, Public!TypeOK, FoundOK, Public!PublicConsultationAssumption
  <1>5. RowsWait(requests, moves, pdfState') /\ Untouched(route, search', pdfState')
    BY <1>1, <1>2 DEF RowsWait, Untouched
  <1>6. Public!TypeOK'
    BY <1>1, <1>2 DEF PublicInv, Public!TypeOK, Public!PublicConsultationAssumption
  <1>7. QED
    BY <1>1, <1>3, <1>4, <1>5, <1>6 DEF PublicInv, Public!DeliveredIsIssued

\* A consultation replaces the one before, and the PDFs stay asked for.
LEMMA ConsultKeeps ==
    ASSUME Public!PublicConsultationAssumption, PublicInv, NEW criteria \in Forms,
           Public!OnPage, Public!Consult(criteria), search.kind # "loading",
           UNCHANGED <<values, submitted, pdfState>>
    PROVE  PublicInv'
  <1> DEFINE c == Public!Request("query", criteria, Null)
             kept == {d \in requests : d.id # consulting}
  <1>1. /\ UNCHANGED <<stored, era, hits, slug, route, info, delivered, moves>>
        /\ route.kind = "ready" /\ asked' = asked + 1 /\ consulting' = asked + 1
        /\ search' = [Public!Idle EXCEPT !.kind = "loading"]
        /\ requests' = kept \cup {c}
    BY OnPageIs DEF Public!Consult, Public!OnPage
  <1>2. slug \in Slugs
    BY <1>1 DEF PublicInv, InfoOK
  <1>3. /\ search.era \in Nat /\ search.era <= era /\ asked + 1 \in 1 .. (asked + 1)
        /\ moves \in Nat /\ asked + 1 \in Nat /\ asked + 1 \in 0 .. (asked + 1)
    BY DEF PublicInv, FoundOK, PublicSearch
  <1>4. c = [id |-> asked + 1, kind |-> "query", slug |-> slug, criteria |-> criteria,
             of |-> Null, visit |-> moves, era |-> search.era, state |-> "sent", said |-> {}]
    BY DEF Public!Request
  <1>5. CallOK(stored, era, asked + 1, c)
    <2>1. c \in PublicCall
      BY <1>2, <1>3, <1>4 DEF PublicCall, Public!Routes
    <2>2. QED
      BY <1>3, <1>4, <2>1 DEF CallOK
  <1>6. c.id = asked + 1 /\ c.kind = "query" /\ c.slug = slug /\ c.visit = moves
    BY <1>4
  <1> HIDE DEF c
  <1>7. /\ CallsOK(stored, era, asked + 1, requests')
        /\ \A d \in kept : d.id # asked + 1
        /\ info # asked + 1 /\ info \in 0 .. (asked + 1)
    BY <1>1, <1>5, <1>6, SentOK
  <1>8. InfoOK(requests', slug, route, info)
    BY <1>1, <1>6, <1>7 DEF PublicInv, InfoOK
  <1>9. search' \in PublicSearch /\ search'.kind = "loading" /\ search'.era = 0
        /\ search'.found = {}
    BY <1>1 DEF Public!Idle, PublicSearch, Public!PublicConsultationAssumption
  <1>10. QueriesOK(requests', slug, moves, route, search', asked + 1)
    <2>1. \A d \in kept : d.kind # "query"
      BY DEF PublicInv, QueriesOK
    <2>2. QED
      BY <1>1, <1>6, <1>7, <1>9, <2>1 DEF QueriesOK
  <1>11. FoundOK(stored, era, slug, search', submitted)
    BY <1>9 DEF PublicInv, FoundOK, Public!TypeOK, Public!PublicConsultationAssumption
  <1>12. RowsWait(requests', moves, pdfState)
    <2>1. \A d \in requests : d.kind = "pdf" => d \in requests'
      BY <1>1 DEF PublicInv, QueriesOK
    <2>2. QED
      BY <2>1 DEF PublicInv, RowsWait
  <1>13. Untouched(route, search', pdfState)
    BY <1>1 DEF Untouched
  <1>14. \A d \in requests' : /\ d.id \in 1 .. (asked + 1) /\ d.kind \in Public!Routes
                              /\ d.state \in {"sent", "checked", "done", "refused", "failed"}
    BY <1>7, CallsTyped
  <1>15. Public!TypeOK'
    BY <1>1, <1>3, <1>7, <1>9, <1>14 DEF PublicInv, Public!TypeOK
  <1>16. VisitsOK(requests', moves, route)
    BY <1>1, <1>3, <1>6 DEF PublicInv, VisitsOK
  <1>17. QED
    BY <1>1, <1>3, <1>7, <1>8, <1>10, <1>11, <1>12, <1>13, <1>15, <1>16
       DEF PublicInv, Public!DeliveredIsIssued

LEMMA ConsultsKeep ==
    ASSUME Public!PublicConsultationAssumption, PublicInv,
           Public!Submit \/ Public!RetryQuery
    PROVE  PublicInv'
  <1>1. values \in Forms /\ search.asked \in Forms
    BY DEF PublicInv, Public!TypeOK, FoundOK, PublicSearch
  <1>2. CASE Public!Submit
    BY <1>1, <1>2, ConsultKeeps DEF Public!Submit
  <1>3. CASE Public!RetryQuery
    BY <1>1, <1>3, ConsultKeeps DEF Public!RetryQuery
  <1>4. QED
    BY <1>2, <1>3

\* The list is what the consultation of the address found.
LEMMA LandQueryKeeps ==
    ASSUME Public!PublicConsultationAssumption, PublicInv, NEW c \in requests,
           Public!LandQuery(c)
    PROVE  PublicInv'
  <1>1. /\ UNCHANGED <<stored, era, hits, slug, route, info, values, delivered, moves, asked>>
        /\ requests' = requests \ {c} /\ consulting' = 0 /\ c.kind = "query"
        /\ c.state \in {"done", "failed"}
    BY DEF Public!LandQuery, Public!table, Public!place
  <1>2. /\ CallOK(stored, era, asked, c) /\ c.id = consulting /\ c.slug = slug
        /\ route.kind = "ready"
    BY <1>1 DEF PublicInv, CallsOK, QueriesOK
  <1>3. CallsOK(stored, era, asked, requests')
    BY <1>1 DEF PublicInv, CallsOK
  <1>4. InfoOK(requests', slug, route, info)
    BY <1>1, <1>2 DEF PublicInv, InfoOK
  <1>5. /\ FoundOK(stored, era, slug, search', submitted')
        /\ search'.kind \in {"not-found", "error", "found"} /\ search' \in PublicSearch
        /\ submitted' \in Forms \cup {Null} /\ pdfState' \in {<<>>, pdfState}
    <2>1. c.said \in SUBSET Rows /\ c.era \in Nat /\ c.era <= era /\ c.criteria \in Forms
      BY <1>2 DEF CallOK, PublicCall
    <2>2. CASE c.state = "done"
      <3>1. /\ search' = [kind |-> IF c.said = {} THEN "not-found" ELSE "found",
                          found |-> c.said, asked |-> <<>>, era |-> c.era]
            /\ submitted' = c.criteria /\ pdfState' = <<>>
        BY <2>2 DEF Public!LandQuery
      <3>2. search' \in PublicSearch
        BY <2>1, <3>1 DEF PublicSearch, Public!PublicConsultationAssumption
      <3>3. c.era = era => c.said = Public!QueryBySlug(stored, slug, c.criteria)
        BY <1>1, <1>2, <2>2 DEF CallOK
      <3>4. QED
        BY <2>1, <3>1, <3>2, <3>3 DEF FoundOK
    <2>3. CASE c.state = "failed"
      <3>1. /\ search' = [Public!Idle EXCEPT !.kind = "error", !.asked = c.criteria]
            /\ UNCHANGED <<submitted, pdfState>>
        BY <2>3 DEF Public!LandQuery
      <3>2. search' \in PublicSearch /\ search'.kind = "error" /\ search'.era = 0
        BY <2>1, <3>1 DEF PublicSearch, Public!Idle, Public!PublicConsultationAssumption
      <3>3. QED
        BY <2>1, <3>1, <3>2 DEF FoundOK, PublicInv, Public!TypeOK
    <2>4. QED
      BY <1>1, <2>2, <2>3
  <1>6. QueriesOK(requests', slug, moves, route, search', 0)
    <2>1. \A d \in requests' : d.id # 0
      BY <1>3, CallsTyped
    <2>2. \A d \in requests' : d \in requests /\ d.id # consulting
      BY <1>1, <1>2 DEF PublicInv, CallsOK
    <2>3. QED
      BY <1>5, <2>1, <2>2 DEF PublicInv, QueriesOK
  <1>7. RowsWait(requests', moves, pdfState')
    <2>1. \A d \in requests : d.kind = "pdf" => d \in requests'
      BY <1>1
    <2>2. RowsWait(requests', moves, pdfState)
      BY <2>1 DEF PublicInv, RowsWait
    <2>3. RowsWait(requests', moves, <<>>)
      BY DEF RowsWait
    <2>4. QED
      BY <1>5, <2>2, <2>3
  <1>8. Untouched(route, search', pdfState')
    BY <1>2 DEF Untouched
  <1>9. Public!TypeOK'
    <2>1. search'.found \subseteq SUBSET Settlement
      BY <1>5 DEF PublicSearch, Rows
    <2>2. \A t \in DOMAIN pdfState' :
             t \in Settlement /\ pdfState'[t] \in {"loading", "error", "done"}
      BY <1>5 DEF PublicInv, Public!TypeOK
    <2>3. 0 \in 0 .. asked
      BY DEF PublicInv
    <2>4. QED
      BY <1>1, <1>5, <2>1, <2>2, <2>3 DEF PublicInv, Public!TypeOK
  <1>10. VisitsOK(requests', moves, route)
    BY <1>1 DEF PublicInv, VisitsOK
  <1>11. QED
    BY <1>1, <1>3, <1>4, <1>5, <1>6, <1>7, <1>8, <1>9, <1>10 DEF PublicInv, Public!DeliveredIsIssued

\* A PDF is asked with what its list was found with.
LEMMA DownloadPdfKeeps ==
    ASSUME Public!PublicConsultationAssumption, PublicInv, NEW m \in search.found,
           Public!Download(m)
    PROVE  PublicInv'
  <1> DEFINE of == Public!Trigger(m)
             c == Public!Request("pdf", submitted, of)
  <1>1. /\ UNCHANGED <<stored, era, hits, slug, route, info, values, search, submitted,
                       consulting, delivered, moves>>
        /\ route.kind = "ready" /\ search.kind = "found" /\ asked' = asked + 1
        /\ pdfState' = Public!Marked(of, "loading")
        /\ requests' = requests \cup {c}
    BY OnPageIs DEF Public!Download, Public!OnPage, Public!AskedWith
  <1>2. slug \in Slugs /\ m \in Rows /\ of \in Settlement
    <2>1. slug \in Slugs
      BY <1>1 DEF PublicInv, InfoOK
    <2>2. m \in Rows
      BY DEF PublicInv, FoundOK, PublicSearch
    <2>3. QED
      BY <2>1, <2>2, TriggerIs DEF Rows
  <1>3. /\ search.era \in Nat /\ search.era <= era /\ asked + 1 \in 1 .. (asked + 1)
        /\ moves \in Nat /\ asked + 1 \in Nat /\ submitted \in Forms
        /\ search.era = era => m \in Public!QueryBySlug(stored, slug, submitted)
    BY <1>1 DEF PublicInv, FoundOK, PublicSearch
  <1>4. c = [id |-> asked + 1, kind |-> "pdf", slug |-> slug, criteria |-> submitted,
             of |-> of, visit |-> moves, era |-> search.era, state |-> "sent", said |-> {}]
    BY DEF Public!Request
  <1> HIDE DEF of
  <1>5. CallOK(stored, era, asked + 1, c)
    <2>1. c \in PublicCall
      BY <1>2, <1>3, <1>4 DEF PublicCall, Public!Routes
    <2>2. search.era = era =>
              \E k \in Public!QueryBySlug(stored, slug, submitted) : Public!Trigger(k) = of
      BY <1>3 DEF of
    <2>3. /\ c.id = asked + 1 /\ c.kind = "pdf" /\ c.slug = slug /\ c.of = of
          /\ c.criteria = submitted /\ c.era = search.era /\ c.state = "sent"
      BY <1>4
    <2> HIDE DEF c
    <2>4. QED
      BY <1>2, <1>3, <2>1, <2>2, <2>3 DEF CallOK
  <1>6. c.id = asked + 1 /\ c.kind = "pdf" /\ c.of = of /\ c.visit = moves
    BY <1>4
  <1> HIDE DEF c
  <1>7. /\ CallsOK(stored, era, asked + 1, requests')
        /\ info # asked + 1 /\ info \in 0 .. (asked + 1)
        /\ consulting # asked + 1 /\ consulting \in 0 .. (asked + 1)
    BY <1>1, <1>5, <1>6, SentOK
  <1>8. InfoOK(requests', slug, route, info)
    BY <1>1, <1>6, <1>7 DEF PublicInv, InfoOK
  <1>9. QueriesOK(requests', slug, moves, route, search, consulting)
    BY <1>1, <1>6, <1>7 DEF PublicInv, QueriesOK
  <1>10. RowsWait(requests', moves, pdfState')
    <2>1. ASSUME NEW s \in DOMAIN pdfState', pdfState'[s] = "loading"
          PROVE  \E d \in requests' : d.kind = "pdf" /\ d.of = s /\ d.visit = moves
      <3>1. CASE s = of
        BY <1>1, <1>6, <3>1
      <3>2. CASE s # of
        <4>1. s \in DOMAIN pdfState /\ pdfState[s] = "loading"
          BY <1>1, <2>1, <3>2 DEF Public!Marked
        <4>2. QED
          BY <1>1, <4>1 DEF PublicInv, RowsWait
      <3>3. QED
        BY <3>1, <3>2
    <2>2. QED
      BY <2>1 DEF RowsWait
  <1>11. Untouched(route, search, pdfState')
    BY <1>1 DEF Untouched
  <1>12. \A d \in requests' : /\ d.id \in 1 .. (asked + 1) /\ d.kind \in Public!Routes
                              /\ d.state \in {"sent", "checked", "done", "refused", "failed"}
    BY <1>7, CallsTyped
  <1>13. \A t \in DOMAIN pdfState' :
            t \in Settlement /\ pdfState'[t] \in {"loading", "error", "done"}
    BY <1>1, <1>2 DEF PublicInv, Public!TypeOK, Public!Marked
  <1>14. Public!TypeOK'
    BY <1>1, <1>7, <1>12, <1>13 DEF PublicInv, Public!TypeOK
  <1>15. VisitsOK(requests', moves, route)
    BY <1>1, <1>3, <1>6 DEF PublicInv, VisitsOK
  <1>16. QED
    BY <1>1, <1>3, <1>7, <1>8, <1>9, <1>10, <1>11, <1>14, <1>15 DEF PublicInv, Public!DeliveredIsIssued

LEMMA LandPdfKeeps ==
    ASSUME PublicInv, NEW c \in requests, Public!LandPdf(c)
    PROVE  PublicInv'
  <1> DEFINE state == IF c.state = "done" THEN "done" ELSE "error"
  <1>1. /\ UNCHANGED <<stored, era, hits, slug, route, info, values, search, submitted,
                       consulting, delivered, moves, asked>>
        /\ requests' = requests \ {c} /\ c.kind = "pdf"
        /\ pdfState' = IF c.visit # moves THEN pdfState ELSE Public!Marked(c.of, state)
    BY DEF Public!LandPdf, Public!table, Public!place
  <1>2. CallsOK(stored, era, asked, requests')
    BY <1>1 DEF PublicInv, CallsOK
  <1>3. InfoOK(requests', slug, route, info)
    BY <1>1 DEF PublicInv, InfoOK
  <1>4. QueriesOK(requests', slug, moves, route, search, consulting)
    BY <1>1 DEF PublicInv, QueriesOK
  <1>5. RowsWait(requests', moves, pdfState')
    <2>1. ASSUME NEW s \in DOMAIN pdfState', pdfState'[s] = "loading"
          PROVE  \E d \in requests' : d.kind = "pdf" /\ d.of = s /\ d.visit = moves
      <3>1. s \in DOMAIN pdfState /\ pdfState[s] = "loading" /\ (s # c.of \/ c.visit # moves)
        BY <1>1, <2>1 DEF Public!Marked
      <3>2. PICK d \in requests : d.kind = "pdf" /\ d.of = s /\ d.visit = moves
        BY <3>1 DEF PublicInv, RowsWait
      <3>3. QED
        BY <1>1, <3>1, <3>2
    <2>2. QED
      BY <2>1 DEF RowsWait
  <1>6. Untouched(route, search, pdfState')
    <2>1. c.visit = moves => route.kind = "ready"
      BY <1>1 DEF PublicInv, VisitsOK
    <2>2. QED
      BY <1>1, <2>1 DEF PublicInv, Untouched
  <1>7. VisitsOK(requests', moves, route)
    BY <1>1 DEF PublicInv, VisitsOK
  <1>8. \A t \in DOMAIN pdfState' :
           t \in Settlement /\ pdfState'[t] \in {"loading", "error", "done"}
    <2>1. c.of \in Settlement
      BY <1>1 DEF PublicInv, CallsOK, CallOK
    <2>2. QED
      BY <1>1, <2>1 DEF PublicInv, Public!TypeOK, Public!Marked
  <1>9. Public!TypeOK'
    BY <1>1, <1>8 DEF PublicInv, Public!TypeOK
  <1>10. QED
    BY <1>1, <1>2, <1>3, <1>4, <1>5, <1>6, <1>7, <1>9 DEF PublicInv, Public!DeliveredIsIssued

-----------------------------------------------------------------------------

LEMMA PublicStep ==
    ASSUME Public!PublicConsultationAssumption, PublicInv, [Public!Next]_(Public!vars)
    PROVE  PublicInv'
  <1>1. CASE UNCHANGED Public!vars
    BY <1>1, PublicQuiet
  <1>2. ASSUME NEW c \in requests,
               \/ Public!Throttle(c) \/ Public!HandleInfo(c) \/ Public!HandleQuery(c)
               \/ Public!CheckPdf(c) \/ Public!GenerateIssued(c) \/ Public!Fail(c)
               \/ Public!LandInfo(c) \/ Public!LandQuery(c) \/ Public!LandPdf(c)
        PROVE  PublicInv'
    BY <1>2, ThrottleKeeps, HandleInfoKeeps, HandleQueryKeeps, CheckPdfKeeps,
       GenerateIssuedKeeps, FailKeeps, LandInfoKeeps, LandQueryKeeps, LandPdfKeeps
  <1>3. ASSUME NEW n \in 1 .. era, Public!TakeBack(n)
        PROVE  PublicInv'
    <2>1. PICK s \in Settlement : stored[s].res = n
      BY <1>3 DEF Public!TakeBack
    <2>2. QED
      BY <1>3, OthersKeep
  <1>4. ASSUME NEW s \in Settlement, Public!Issue(s) \/ Public!Replace(s)
        PROVE  PublicInv'
    BY <1>4, OthersKeep
  <1>5. ASSUME Public!RetryInfo \/ Public!Submit \/ Public!RetryQuery \/ Public!Clear
        PROVE  PublicInv'
    BY <1>5, RetryInfoKeeps, ConsultsKeep, ClearKeeps
  <1>6. QED
    BY <1>1, <1>2, <1>3, <1>4, <1>5, WindowEndsKeeps, ChangeHashKeeps, WriteKeeps,
       DownloadPdfKeeps DEF Public!Next

\* The public consultation: what the page lists is what its consultation would find
\* now unless a settlement changed since, a PDF of the list is refused only then,
\* no number is delivered that was not issued, and what waits has its request.
THEOREM ConsultationIsTrue ==
    ASSUME Public!PublicConsultationAssumption
    PROVE  Public!Spec => [](Public!TypeOK /\ Public!ConsultationIsTrue)
  <1>1. Public!Init => PublicInv
    BY PublicInitHolds
  <1>2. PublicInv /\ [Public!Next]_(Public!vars) => PublicInv'
    BY PublicStep
  <1>3. PublicInv => Public!TypeOK /\ Public!ConsultationIsTrue
    <2>1. ASSUME PublicInv
          PROVE  Public!ListIsTheirs
      BY <2>1 DEF PublicInv, FoundOK, Public!ListIsTheirs, Public!PublicConsultationAssumption
    <2>2. ASSUME PublicInv
          PROVE  Public!RefusedMeansChanged
      <3>1. \A c \in requests : CallOK(stored, era, asked, c)
        BY <2>2 DEF PublicInv, CallsOK
      <3>2. era \in Int
        BY <2>2 DEF PublicInv, Public!TypeOK, Public!PublicConsultationAssumption
      <3>3. QED
        BY <3>1, <3>2 DEF CallOK, PublicCall, Public!RefusedMeansChanged
    <2>3. ASSUME PublicInv
          PROVE  Public!NothingHangs
      <3>1. route.slug = slug
        BY <2>3 DEF PublicInv
      <3>2. route.kind = "loading" => \E c \in requests : c.kind = "info" /\ c.slug = slug
        BY <2>3 DEF PublicInv, InfoOK
      <3>3. search.kind = "loading" => \E c \in requests : c.kind = "query" /\ c.visit = moves
        BY <2>3 DEF PublicInv, QueriesOK
      <3>4. QED
        BY <2>3, <3>1, <3>2, <3>3 DEF PublicInv, RowsWait, Public!NothingHangs
    <2>4. QED
      BY <2>1, <2>2, <2>3 DEF PublicInv, Public!ConsultationIsTrue
  <1>4. QED
    BY <1>1, <1>2, <1>3, PTL DEF Public!Spec
=============================================================================
