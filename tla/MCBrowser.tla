------------------------------ MODULE MCBrowser ------------------------------
(***************************************************************************)
(* What a browser keeps (the session of its tabs, the job it followed, the *)
(* municipality it works in) and what the backend keeps of its logins and  *)
(* of the municipalities, for TLC.  They share nothing here, so their      *)
(* state graphs are put side by side, not multiplied: the initial state    *)
(* says which part runs, and the variables of the others stay as they are. *)
(* Their symmetric sets are of the same two or four model values.  The     *)
(* panel is there twice: with reads of the list that cross, one of which   *)
(* fails, and with more changes of the address.                            *)
(***************************************************************************)
EXTENDS PanelSession, Sequences, TLC

CONSTANTS a1, a2, t1, t2, addr, s1, s2, ill, d1, d2, c1

VARIABLES
    part,
    \* LoginAttempts
    clock, record, attempt, wrong, lastLock,
    \* JobScreen
    jobs, page, job, other, expiredId, auto, remembered, calls, visits, jobFaults,
    \* Municipalities
    town, loaded, owner, writer, had, crossing, edits, call,
    \* AdminPanel
    registered, lastSlug, address, shownAt, mounted, list, reads, checked, redirected,
    dialog, creating, rows, asks, moves, listFaults, undone

loginVars == <<clock, record, attempt, wrong, lastLock>>
jobVars == <<jobs, page, job, other, expiredId, auto, remembered, calls, visits,
             jobFaults>>
townVars == <<town, loaded, owner, writer, had, crossing, edits, call>>
adminVars == <<registered, lastSlug, address, shownAt, mounted, list, reads, checked,
               redirected, dialog, creating, rows, asks, moves, listFaults, undone>>
mcVars == <<part, allVars, loginVars, jobVars, townVars, adminVars>>

Pair == {a1, a2}

\* The backend serves the requests of two tabs.
MCRequests == Pair \X {"renew", "leave", "signIn"}

\* Two wrong passwords in two ticks lock a key, for one tick and then longer.
Logins == INSTANCE LoginAttempts WITH
              Emails <- {t1, t2}, Addresses <- {addr}, Attempts <- Pair,
              MaxFailed <- 2, Window <- 2, BaseLockout <- 1, MaxLockout <- 3,
              MaxTracked <- 2, Horizon <- 4, now <- clock

\* Two jobs of the screen's type, which is left and entered again.
Job == INSTANCE JobScreen WITH
           OwnJobs <- Pair, OtherJobs <- {}, MaxVisits <- 2, MaxFaults <- 0,
           net <- calls, faults <- jobFaults

\* Two municipalities and two DANE codes: enough for a code to pass from one
\* to the other while its loads are on their way.
Towns == INSTANCE Municipalities WITH
             Towns <- Pair, Slugs <- {s1, s2, ill}, Danes <- {d1, d2},
             WellFormed <- {s1, s2, d1, d2}, Codes <- {c1}, Prefix <- [c \in {c1} |-> d1],
             Clients <- {t1, t2}, MaxEdits <- 2

\* The form may be given a slug that is also a view, or the reserved one; the
\* saved addresses are one of before the slugs, an old one of a view, and the
\* public consultation.
Position == ("a" :> 1) @@ ("cargas" :> 2) @@ ("consulta" :> 3)

Reading == INSTANCE AdminPanel WITH
               Slugs <- DOMAIN Position, Order <- Position, Submitted <- {"cargas"},
               Elsewhere <- {"a"}, Visited <- {<<>>}, Sections <- {},
               MaxReads <- 2, MaxMoves <- 1, MaxFaults <- 1,
               remembered <- lastSlug, faults <- listFaults

Moving == INSTANCE AdminPanel WITH
              Slugs <- DOMAIN Position, Order <- Position,
              Submitted <- {"cargas", "consulta"}, Elsewhere <- {"a"},
              Visited <- {<<>>, <<"a", "plantillas">>, <<"consulta", "a">>},
              Sections <- {<<"mandamientos">>}, MaxReads <- 1, MaxMoves <- 2, MaxFaults <- 0,
              remembered <- lastSlug, faults <- listFaults

\* The bounds are those the modules ask for.
ASSUME Bounds ==
    /\ PanelAssumption
    /\ Logins!LoginAttemptsAssumption /\ Job!JobScreenAssumption
    /\ Towns!MunicipalitiesAssumption
    /\ Reading!AdminPanelAssumption /\ Moving!AdminPanelAssumption

\* The panel starts in several states only when it is the part that runs: while
\* somebody else creates the first municipality, or with what the browser
\* remembers of it.
MCInit ==
    /\ part \in {"panel", "logins", "job", "municipalities", "reading", "moving"}
    /\ PanelInit /\ Logins!Init /\ Job!Init /\ Towns!Init
    /\ IF part = "moving" THEN Moving!Init ELSE Reading!Init
    /\ part # "reading" => registered = {"a"}
    /\ part # "moving" => lastSlug = Null

MCNext ==
    \/ /\ part = "panel" /\ PanelNext
       /\ UNCHANGED <<part, loginVars, jobVars, townVars, adminVars>>
    \/ /\ part = "logins" /\ Logins!Next
       /\ UNCHANGED <<part, allVars, jobVars, townVars, adminVars>>
    \/ /\ part = "job" /\ Job!Next
       /\ UNCHANGED <<part, allVars, loginVars, townVars, adminVars>>
    \/ /\ part = "municipalities" /\ Towns!Next
       /\ UNCHANGED <<part, allVars, loginVars, jobVars, adminVars>>
    \/ /\ part = "reading" /\ Reading!Next
       /\ UNCHANGED <<part, allVars, loginVars, jobVars, townVars>>
    \/ /\ part = "moving" /\ Moving!Next
       /\ UNCHANGED <<part, allVars, loginVars, jobVars, townVars>>

MCSpec == MCInit /\ [][MCNext]_mcVars

Symmetry == Permutations(Pair) \cup Permutations({t1, t2})

-----------------------------------------------------------------------------

\* LoginAttempts: as many wrong passwords as lock a key, within its window, have
\* locked it.  AdminPanel and Municipalities: the panel works in the municipality
\* of its address: its rows are of it, every link opens what it says, and a panel
\* with nothing on it, or a form that waits, has something on its way.  No two
\* municipalities share a slug or a code, a load writes its own properties, and
\* so does the rest of the invariant that MunicipalitiesProofs proves.
BrowserIsTrue ==
    CASE part = "logins" -> Logins!TypeOK /\ Logins!WindowHolds
      [] part = "municipalities" -> Towns!IInv
      [] part = "reading" ->
             /\ Reading!TypeOK /\ Reading!BlankIsOnItsWay /\ Reading!SavingIsOnItsWay
             /\ Reading!RowsOfTheirTown
      [] part = "moving" ->
             /\ Moving!TypeOK /\ Moving!BlankIsOnItsWay /\ Moving!SavingIsOnItsWay
             /\ Moving!RowsOfTheirTown /\ Moving!LinksOpen
      [] OTHER -> TRUE

\* LoginAttempts: the lockouts of a key never get shorter while it is tracked.
\* Municipalities: what the addresses of a municipality and its codes rest on
\* does not change once there is data, but by an edit that crossed the first load.
\* JobScreen: the browser forgets the job it followed only when it is over.
StepsAreTrue ==
    Logins!LocksGrow /\ Towns!FrozenButCrossings /\ Job!RememberedUntilOver
=============================================================================
