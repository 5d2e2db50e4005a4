---------------------------- MODULE PanelSession ----------------------------
(***************************************************************************)
(* The panel's side of a session: the tabs of one browser, the refresh     *)
(* cookie and the activity mark they share, and the requests that renew,   *)
(* close and open sessions of Sessions.                                    *)
(*                                                                         *)
(* A cookie is attached when a request is sent and changes when its answer *)
(* arrives.  Tabs take turns to renew (navigator.locks), because the       *)
(* backend takes a token sent twice for a stolen one; sign-ins and         *)
(* sign-outs take no turn.  The clock stands still here: when tokens and   *)
(* sessions expire is in Sessions.                                         *)
(***************************************************************************)
EXTENDS Sessions

CONSTANTS
    Tabs,
    HasLocks,   \* the browser has navigator.locks
    MaxFaults   \* bound: backend errors, lost answers and pages closed or reloaded

\* What the proofs rest on: the requests of the tabs are requests of Sessions,
\* and tabs take turns.
PanelAssumption ==
    /\ Tabs \X {"renew", "leave", "signIn"} \subseteq Requests
    /\ HasLocks = TRUE
    /\ MaxFaults \in Nat
    /\ Null \notin Tabs
    /\ {"none", "refused", "done", "error"} \cap Tokens = {}

VARIABLES
    cookie,   \* the refresh cookie, or Null
    hint,     \* slomp.lastActivity is set: there may be a session to restore
    turn,     \* the tab holding the lock "slomp.session-refresh", or Null
    tab,      \* what each tab knows
    net,      \* the requests of each tab between it and the backend
    lost,     \* whether the answer of a renewal never arrived: its page was
              \* gone, or the network failed
    faults

panelVars == <<cookie, hint, turn, tab, net, lost, faults>>
allVars == <<vars, panelVars>>

\* The requests of a tab; each is a request of Sessions while it runs there.
Renew(i)  == <<i, "renew">>
Leave(i)  == <<i, "leave">>
SignIn(i) == <<i, "signIn">>
PanelRequests == Tabs \X {"renew", "leave", "signIn"}

\* Whoever waits for the one renewal a tab has in flight (refreshInFlight).
Waiters == {"restore", "retry", "keepAlive"}

Tab == [status : {"closed", "restoring", "authenticated", "anonymous"},
        session : Families \cup {Null}, waits : SUBSET Waiters]

\* dropped: the page that sent the request is gone, and its answer with it.
Exchange == [at : {"none", "sent", "working", "answered"}, dropped : BOOLEAN,
             cookie : Tokens \cup {Null},
             answer : Tokens \cup {"none", "refused", "done", "error"},
             session : Families \cup {Null}]

NoExchange == [at |-> "none", dropped |-> FALSE, cookie |-> Null, answer |-> "none",
               session |-> Null]

PanelTypeOK ==
    /\ TypeOK
    /\ cookie \in Tokens \cup {Null}
    /\ hint \in BOOLEAN
    /\ turn \in Tabs \cup {Null}
    /\ tab \in [Tabs -> Tab]
    /\ net \in [PanelRequests -> Exchange]
    /\ lost \in BOOLEAN
    /\ faults \in 0..MaxFaults

-----------------------------------------------------------------------------
(* Helpers *)

Send(r) == net' = [net EXCEPT ![r] = [NoExchange EXCEPT !.at = "sent", !.cookie = cookie]]

\* The cookie of a request matters until the backend reads it.
Working(r) == net' = [net EXCEPT ![r].at = "working", ![r].cookie = Null]

\* The answer of a request whose page is gone reaches nobody.
Arrive(r, e) == net' = [net EXCEPT ![r] = IF @.dropped THEN NoExchange ELSE e]

Answer(r, a) == Arrive(r, [NoExchange EXCEPT !.at = "answered", !.answer = a])

\* The answer of a login or a renewal: the next token, and the session its
\* access token names (sid).
AnswerToken(r, t, f) ==
    Arrive(r, [NoExchange EXCEPT !.at = "answered", !.answer = t, !.session = f])

\* The token a request brought is unknown or expired.
Useless(t) ==
    t \in Stored => ~row[t].revoked /\ row[t].expires <= now

\* Mutant of FreeTurn: tabs renew without waiting for each other.
FreeTurnAlways == TRUE

FreeTurn == turn = Null \/ ~HasLocks

\* endSession: the screen changes at once, the logout is not awaited.
EndSession(i) ==
    /\ net[Leave(i)].at = "none"
    /\ Send(Leave(i))
    /\ tab' = [tab EXCEPT ![i].status = "anonymous", ![i].session = Null]
    /\ hint' = FALSE

-----------------------------------------------------------------------------
(* Pages *)

\* A page loads: with an activity mark it asks the cookie for a session
\* before it decides which screen to show.
OpenPage(i) ==
    /\ tab[i].status = "closed"
    /\ tab' = [tab EXCEPT ![i] =
                  IF hint THEN [status |-> "restoring", session |-> Null, waits |-> {"restore"}]
                  ELSE [status |-> "anonymous", session |-> Null, waits |-> {}]]
    /\ UNCHANGED <<vars, cookie, hint, turn, net, lost, faults>>

\* A page is closed or reloaded: its memory and its turn are gone, and the
\* answers of its requests reach nobody.
ClosePage(i) ==
    /\ tab[i].status # "closed"
    /\ faults < MaxFaults
    /\ faults' = faults + 1
    /\ tab' = [tab EXCEPT ![i] = [status |-> "closed", session |-> Null, waits |-> {}]]
    /\ turn' = IF turn = i THEN Null ELSE turn
    /\ net' = [r \in PanelRequests |->
                  IF r[1] # i THEN net[r]
                  ELSE IF net[r].at \in {"none", "answered"} THEN NoExchange
                  ELSE [net[r] EXCEPT !.dropped = TRUE]]
    /\ lost' = (lost \/ net[Renew(i)].at # "none")
    /\ UNCHANGED <<vars, cookie, hint>>

\* sendWithSession: a call came back with 401, because the access token
\* expired or its session is over.
CallRefused(i) ==
    /\ tab[i].status = "authenticated"
    /\ "retry" \notin tab[i].waits
    /\ tab' = [tab EXCEPT ![i].waits = @ \cup {"retry"}]
    /\ UNCHANGED <<vars, cookie, hint, turn, net, lost, faults>>

\* useSessionKeepAlive: the access token is about to expire, the panel was idle
\* too long or reached the end of its session, or somebody uses it.
KeepAlive(i) ==
    /\ tab[i].status = "authenticated"
    /\ \/ /\ tab' = [tab EXCEPT ![i].waits = @ \cup {"keepAlive"}]
          /\ UNCHANGED <<hint, net>>
       \/ EndSession(i)
       \/ hint' = TRUE /\ UNCHANGED <<tab, net>>
    /\ UNCHANGED <<vars, cookie, turn, lost, faults>>

\* The user signs out.
SignOut(i) ==
    /\ tab[i].status = "authenticated"
    /\ EndSession(i)
    /\ UNCHANGED <<vars, cookie, turn, lost, faults>>

-----------------------------------------------------------------------------
(* Renewal *)

\* refreshSession: one request for all who wait in this tab, in its turn.
StartRenewal(i) ==
    /\ tab[i].waits # {}
    /\ net[Renew(i)].at = "none"
    /\ FreeTurn
    /\ Send(Renew(i))
    /\ turn' = i
    /\ UNCHANGED <<vars, cookie, hint, tab, lost, faults>>

\* Who waited for the renewal of tab i finds out: a session (f), no session
\* (Null), or an error.  A restoring page idle for too long ends its session.
Resume(i, f, failed) ==
    LET w    == tab[i].waits
        over == ~failed /\ f = Null
        told == /\ "retry" \in w
                /\ ~failed
                /\ f = Null \/ ~Active(f)
        s    == IF told \/ failed \/ over THEN tab[i].session ELSE f
    IN  \/ /\ tab' = [tab EXCEPT ![i] =
                         [status |-> IF "restore" \in w
                                     THEN IF failed \/ over THEN "anonymous" ELSE "authenticated"
                                     ELSE IF told THEN "anonymous" ELSE tab[i].status,
                          session |-> IF told THEN Null ELSE s,
                          waits |-> {}]]
           /\ hint' = IF told \/ ("restore" \in w /\ over) THEN FALSE ELSE hint
           /\ net' = [net EXCEPT ![Renew(i)] = NoExchange]
        \/ /\ "restore" \in w
           /\ ~failed
           /\ ~over
           /\ net[Leave(i)].at = "none"
           /\ tab' = [tab EXCEPT ![i] = [status |-> "anonymous", session |-> Null, waits |-> {}]]
           /\ hint' = FALSE
           /\ net' = [net EXCEPT ![Renew(i)] = NoExchange,
                                 ![Leave(i)] = [NoExchange EXCEPT !.at = "sent", !.cookie = cookie']]

\* The request reaches the backend: a token that is not usable is refused at
\* once, another one is read.
RenewalArrives(i) ==
    LET r == Renew(i)
        t == net[r].cookie
    IN  /\ net[r].at = "sent"
        /\ \/ /\ Useless(t)
              /\ Answer(r, "refused")
              /\ UNCHANGED vars
           \/ /\ RotateRead(r, t)
              /\ Working(r)
        /\ UNCHANGED <<cookie, hint, turn, tab, lost, faults>>

\* rotate goes on, to a new token or to the end of the family.
RenewalRuns(i) ==
    LET r == Renew(i)
    IN  /\ net[r].at = "working"
        /\ \/ (RotateClaim(r) \/ CloseStart(r)) /\ UNCHANGED net
           \/ \E t \in Tokens : RotateCommit(r, t) /\ AnswerToken(r, t, req[r].family)
           \/ CloseEnd(r) /\ Answer(r, "refused")
        /\ UNCHANGED <<cookie, hint, turn, tab, lost, faults>>

\* The backend fails (a statement, the database): rollback and an error.
RenewalFails(i) ==
    /\ net[Renew(i)].at = "working"
    /\ faults < MaxFaults
    /\ Abort(Renew(i))
    /\ Answer(Renew(i), "error")
    /\ faults' = faults + 1
    /\ UNCHANGED <<cookie, hint, turn, tab, lost>>

\* Mutant of CookieAfter: the answer brings no Set-Cookie.
CookieLeft(answer) == IF answer \in Tokens THEN cookie ELSE Null

\* The cookie is the new token, or is cleared after whatever error.
CookieAfter(answer) == IF answer \in Tokens THEN answer ELSE Null

\* The answer arrives, and those who waited go on.
RenewalAnswered(i) ==
    LET e == net[Renew(i)]
    IN  /\ e.at = "answered"
        /\ cookie' = CookieAfter(e.answer)
        /\ Resume(i, e.session, e.answer = "error")
        /\ turn' = IF turn = i THEN Null ELSE turn
        /\ UNCHANGED <<vars, lost, faults>>

\* The answer is lost on its way: a network error for those who waited.
AnswerLost(i) ==
    LET e == net[Renew(i)]
    IN  /\ e.at = "answered"
        /\ faults < MaxFaults
        /\ faults' = faults + 1
        /\ lost' = (lost \/ e.answer \in Tokens)
        /\ Resume(i, Null, TRUE)
        /\ turn' = IF turn = i THEN Null ELSE turn
        /\ UNCHANGED <<vars, cookie>>

-----------------------------------------------------------------------------
(* Sign-out and sign-in *)

\* POST /auth/logout: the family of the cookie, if it names one.
LeaveRuns(i) ==
    LET r == Leave(i)
        t == net[r].cookie
    IN  /\ \/ /\ net[r].at = "sent"
              /\ \/ (t = Null \/ t \notin Stored) /\ Answer(r, "done") /\ UNCHANGED vars
                 \/ LogoutRead(r, t) /\ Working(r)
           \/ /\ net[r].at = "working"
              /\ \/ CloseStart(r) /\ UNCHANGED net
                 \/ CloseEnd(r) /\ Answer(r, "done")
        /\ UNCHANGED <<cookie, hint, turn, tab, lost, faults>>

\* Its answer clears the cookie, whichever token that is by now.
LeaveAnswered(i) ==
    LET e == net[Leave(i)]
    IN  /\ e.at = "answered"
        /\ cookie' = Null
        /\ net' = [net EXCEPT ![Leave(i)] = NoExchange]
        /\ UNCHANGED <<vars, hint, turn, tab, lost, faults>>

\* POST /login with the right password.
SignInRuns(i) ==
    LET r == SignIn(i)
    IN  /\ \/ /\ net[r].at = "none"
              /\ tab[i].status = "anonymous"
              /\ LoginVerify(r)
              /\ Send(r)
           \/ /\ net[r].at = "sent"
              /\ \E f \in Families, t \in Tokens : LoginOpen(r, f, t) /\ AnswerToken(r, t, f)
        /\ UNCHANGED <<cookie, hint, turn, tab, lost, faults>>

\* signIn: the panel opens.
SignInAnswered(i) ==
    LET e == net[SignIn(i)]
    IN  /\ e.at = "answered"
        /\ net' = [net EXCEPT ![SignIn(i)] = NoExchange]
        /\ cookie' = e.answer
        /\ hint' = TRUE
        /\ tab' = [tab EXCEPT ![i].status = "authenticated", ![i].session = e.session]
        /\ UNCHANGED <<vars, turn, lost, faults>>

-----------------------------------------------------------------------------
PanelInit ==
    /\ Init
    /\ cookie = Null
    /\ hint = FALSE
    /\ turn = Null
    /\ tab = [i \in Tabs |-> [status |-> "closed", session |-> Null, waits |-> {}]]
    /\ net = [r \in PanelRequests |-> NoExchange]
    /\ lost = FALSE
    /\ faults = 0

PanelNext ==
    \E i \in Tabs :
        \/ OpenPage(i) \/ ClosePage(i) \/ CallRefused(i) \/ KeepAlive(i) \/ SignOut(i)
        \/ StartRenewal(i) \/ RenewalArrives(i) \/ RenewalRuns(i) \/ RenewalFails(i)
        \/ RenewalAnswered(i) \/ AnswerLost(i)
        \/ LeaveRuns(i) \/ LeaveAnswered(i) \/ SignInRuns(i) \/ SignInAnswered(i)

PanelSpec == PanelInit /\ [][PanelNext]_allVars

-----------------------------------------------------------------------------
(* Properties *)

\* The backend never takes one tab's renewal for a reuse of a live session's
\* token, unless the answer of an earlier renewal was lost: tabs of one
\* browser do not close each other's session (httpClient.ts:98).
NoFalseReuse ==
    \A i \in Tabs :
        req[Renew(i)].at \in {"close", "closing"} => lost \/ Of(req[Renew(i)].family) = {}

-----------------------------------------------------------------------------
(* The invariant behind it *)

\* The renewal in flight has the turn, and its page is there.
InTurn ==
    \A i \in Tabs : net[Renew(i)].at # "none" => turn = i /\ ~net[Renew(i)].dropped

\* A token that was exchanged is the last one only of a session that is over.
Spent(t) == t \in Stored /\ row[t].revoked => Of(row[t].family) = {}

\* The token that the renewal of a tab brings, works with or was given.
TokenOf(i) ==
    LET e == net[Renew(i)]
        q == req[Renew(i)]
    IN  IF e.at = "sent" THEN e.cookie
        ELSE IF e.at = "answered" THEN e.answer
        ELSE IF e.at = "working" /\ q.at \in {"read", "claimed"} THEN q.token
        ELSE Null

\* A renewal brings, and is given, a token that nobody exchanged, and works
\* with one that is still live unless its session is over meanwhile.  It closes
\* a session that is already over.
RenewalIsClean(i) ==
    LET e == net[Renew(i)]
        q == req[Renew(i)]
    IN  /\ e.at = "sent" => e.cookie \in issued \cup {Null} /\ Spent(e.cookie)
        /\ e.at = "answered" /\ e.answer \in Tokens => e.answer \in issued /\ Spent(e.answer)
        /\ e.at = "working" /\ q.at \in {"read", "claimed"} =>
              q.token \in Unrevoked \/ Of(q.family) = {}
        /\ q.at \in {"close", "closing"} => Of(q.family) = {}

\* The cookie is a token that nobody exchanged, until its successor arrives.
CookieIsClean ==
    /\ cookie \in issued \cup {Null}
    /\ \/ Spent(cookie)
       \/ \E i \in Tabs : net[Renew(i)].at = "answered" /\ net[Renew(i)].answer \in Tokens

\* A login is answered with the first token of its session,
SignInsAnswered ==
    \A i \in Tabs : net[SignIn(i)].at = "answered" =>
        net[SignIn(i)].answer \in Tokens /\ net[SignIn(i)].session \in Families

\* which nobody else has before the answer arrives.
SignInIsNew(i) ==
    net[SignIn(i)].at = "answered" =>
        LET t == net[SignIn(i)].answer
        IN  /\ t \in issued /\ Spent(t) /\ t # cookie
            /\ \A j \in Tabs :
                  /\ TokenOf(j) # t
                  /\ net[SignIn(j)].at = "answered" /\ net[SignIn(j)].answer = t => j = i

Clean ==
    /\ InTurn
    /\ \A i \in Tabs : RenewalIsClean(i)
    /\ CookieIsClean
    /\ \A i \in Tabs : SignInIsNew(i)

\* All of it holds as long as no answer of a renewal is lost.
PanelInv ==
    /\ PanelTypeOK
    /\ SignInsAnswered
    /\ lost \/ Clean
=============================================================================
