------------------------------ MODULE Sessions ------------------------------
(***************************************************************************)
(* The sessions of one administrator.  A session is a family of refresh    *)
(* tokens: the login issues the first one, a renewal exchanges it for the  *)
(* next (rotation), and an access token is good while its family has a     *)
(* live refresh token.  A token presented again after its rotation closes  *)
(* the family.                                                             *)
(*                                                                         *)
(* Postgres runs at READ COMMITTED: an UPDATE chooses its rows from what   *)
(* is committed when it starts, waits for those another transaction has    *)
(* locked, and then looks at each of them again; a row inserted meanwhile  *)
(* is not among them.  So an UPDATE that may have to wait is two steps.    *)
(***************************************************************************)
EXTENDS Naturals, FiniteSets

CONSTANTS
    Families,     \* session ids (randomUUID), each used once
    Tokens,       \* refresh tokens (256 random bits), each issued once
    Requests,     \* requests that may be in flight at the same time
    IdleTimeout,  \* SessionPolicy.idleTimeoutMs, in ticks
    MaxSession,   \* SessionPolicy.maxSessionMs, in ticks
    Horizon,      \* bound: the last tick
    MaxChanges,   \* bound: how often the password is changed
    Null

ASSUME SessionsAssumption ==
    /\ IdleTimeout \in Nat \ {0}
    /\ MaxSession \in Nat \ {0}
    /\ Horizon \in Nat
    /\ MaxChanges \in Nat
    /\ Null \notin Families
    /\ Null \notin Tokens

VARIABLES
    now,       \* the clock of the backend
    row,       \* row[t]: the committed refresh_tokens row of token t, or Null
    issued,    \* tokens ever handed out, those of deleted rows included
    parent,    \* parent[t]: the token t was exchanged for; Null after a login
    openedAt,  \* openedAt[f]: when the login opened the session, or Null
    password,  \* which password the account has: 0, 1, ...
    req        \* what each request is doing

vars == <<now, row, issued, parent, openedAt, password, req>>

-----------------------------------------------------------------------------
(* Types *)

\* ends is sessionExpiresAt, the absolute end of the session.
Row == [family : Families, revoked : BOOLEAN, expires : Nat, ends : Nat]

Request ==
    [at : {"idle", "verified", "read", "claimed", "close", "closing",
           "change", "changing"},
     token : Tokens \cup {Null}, family : Families \cup {Null},
     started : Nat, seen : SUBSET Tokens]

TypeOK ==
    /\ now \in Nat
    /\ row \in [Tokens -> Row \cup {Null}]
    /\ issued \in SUBSET Tokens
    /\ parent \in [Tokens -> Tokens \cup {Null}]
    /\ openedAt \in [Families -> Nat \cup {Null}]
    /\ password \in Nat
    /\ req \in [Requests -> Request]

\* A missing row or time is none of the values it stands beside.
ASSUME NullAssumption == Null \notin Nat /\ Null \notin Row

-----------------------------------------------------------------------------
(* Helpers *)

Idle == [at |-> "idle", token |-> Null, family |-> Null, started |-> 0, seen |-> {}]

Stored == {t \in Tokens : row[t] # Null}

\* revokedAt is null: what the UPDATEs ask for, whatever the expiry.
Unrevoked == {t \in Stored : ~row[t].revoked}

Of(f) == {t \in Unrevoked : row[t].family = f}

\* findActiveOwner: the access tokens of this session are accepted.
Active(f) == \E t \in Of(f) : row[t].expires > now

\* The row locks of the renewals that claimed a token and did not commit yet.
Locked == {req[q].token : q \in {p \in Requests : req[p].at = "claimed"}}

\* The administrator's row, locked by a password change until it commits.
AccountFree == \A q \in Requests : req[q].at # "changing"

Earlier(a, b) == IF a <= b THEN a ELSE b

\* Mutant of RefreshExpiry: a renewal past the end of its session.
RefreshExpiryUncapped(at, ends) == at + IdleTimeout

\* refreshTokenExpiry: no token outlives the session it belongs to.
RefreshExpiry(at, ends) == Earlier(at + IdleTimeout, ends)

\* issue: the row of a new token.
NewRow(f, at, ends) ==
    [family |-> f, revoked |-> FALSE,
     expires |-> RefreshExpiry(at, ends), ends |-> ends]

Revoke(S) ==
    row' = [t \in Tokens |->
               IF t \in S /\ row[t] # Null THEN [row[t] EXCEPT !.revoked = TRUE] ELSE row[t]]

Step(r, q) == req' = [req EXCEPT ![r] = q]

-----------------------------------------------------------------------------
(* Login *)

\* login: the account is read and the password compared with its hash; a
\* wrong one changes nothing here.
LoginVerify(r) ==
    /\ req[r].at = "idle"
    /\ Step(r, [Idle EXCEPT !.at = "verified"])
    /\ UNCHANGED <<now, row, issued, parent, openedAt, password>>

\* start: rows past their expiry are deleted, and a new family gets its
\* first token.  The password is not looked at again.
LoginOpen(r, f, t) ==
    LET expired == {e \in Stored : row[e].expires < now}
    IN  /\ req[r].at = "verified"
        /\ openedAt[f] = Null
        /\ t \notin issued
        /\ expired \cap Locked = {}
        /\ row' = [u \in Tokens |->
                      IF u = t THEN NewRow(f, now, now + MaxSession)
                      ELSE IF u \in expired THEN Null ELSE row[u]]
        /\ issued' = issued \cup {t}
        /\ openedAt' = [openedAt EXCEPT ![f] = now]
        /\ Step(r, Idle)
        /\ UNCHANGED <<now, parent, password>>

-----------------------------------------------------------------------------
(* Renewal: rotate, one transaction *)

\* The token is looked up.  A revoked one closes its family; an unknown or
\* expired one is refused, which changes nothing.
RotateRead(r, t) ==
    /\ req[r].at = "idle"
    /\ t \in Stored
    /\ \/ /\ row[t].revoked
          /\ Step(r, [Idle EXCEPT !.at = "close", !.family = row[t].family])
       \/ /\ ~row[t].revoked
          /\ row[t].expires > now
          /\ Step(r, [Idle EXCEPT !.at = "read", !.token = t,
                                  !.family = row[t].family, !.started = now])
    /\ UNCHANGED <<now, row, issued, parent, openedAt, password>>

\* Mutant of RotateClaim: the UPDATE without its condition on revokedAt.
RotateClaimUnconditional(r) ==
    /\ req[r].at = "read"
    /\ req[r].token \notin Locked
    /\ row[req[r].token] # Null
    /\ Step(r, [req[r] EXCEPT !.at = "claimed"])
    /\ UNCHANGED <<now, row, issued, parent, openedAt, password>>

\* The conditional UPDATE: it waits for the row, and then either revokes the
\* token, unseen by others until the commit, or finds that somebody else did
\* and closes the family.
RotateClaim(r) ==
    LET t == req[r].token
    IN  /\ req[r].at = "read"
        /\ t \notin Locked
        /\ \/ /\ t \in Unrevoked
              /\ Step(r, [req[r] EXCEPT !.at = "claimed"])
           \/ /\ t \notin Unrevoked
              /\ Step(r, [Idle EXCEPT !.at = "close", !.family = req[r].family])
        /\ UNCHANGED <<now, row, issued, parent, openedAt, password>>

\* issue inside the transaction, and the commit: the old token is revoked
\* and the new one exists.
RotateCommit(r, t) ==
    LET old == req[r].token
    IN  /\ req[r].at = "claimed"
        /\ t \notin issued
        /\ row' = [row EXCEPT ![old].revoked = TRUE,
                      ![t] = NewRow(req[r].family, req[r].started, row[old].ends)]
        /\ issued' = issued \cup {t}
        /\ parent' = [parent EXCEPT ![t] = old]
        /\ Step(r, Idle)
        /\ UNCHANGED <<now, openedAt, password>>

-----------------------------------------------------------------------------
(* Closing a family: logout, and a token presented again *)

\* revoke: the family of the token, in a query of its own.
LogoutRead(r, t) ==
    /\ req[r].at = "idle"
    /\ t \in Stored
    /\ Step(r, [Idle EXCEPT !.at = "close", !.family = row[t].family])
    /\ UNCHANGED <<now, row, issued, parent, openedAt, password>>

\* revokeFamily, the start of the UPDATE: the live rows of the family.
CloseStart(r) ==
    /\ req[r].at = "close"
    /\ Step(r, [req[r] EXCEPT !.at = "closing", !.seen = Of(req[r].family)])
    /\ UNCHANGED <<now, row, issued, parent, openedAt, password>>

\* Mutant of CloseEnd: only the token of the request is revoked.
CloseEndNothing(r) ==
    /\ req[r].at = "closing"
    /\ req[r].seen \cap Locked = {}
    /\ Step(r, Idle)
    /\ UNCHANGED <<now, row, issued, parent, openedAt, password>>

\* revokeFamily, its end: the rows it saw are free and are revoked.
CloseEnd(r) ==
    /\ req[r].at = "closing"
    /\ req[r].seen \cap Locked = {}
    /\ Revoke(req[r].seen)
    /\ Step(r, Idle)
    /\ UNCHANGED <<now, issued, parent, openedAt, password>>

-----------------------------------------------------------------------------
(* Password change *)

\* changePassword, up to the hash of the new password: the session of the
\* request is accepted and the current password is right.
ChangeVerify(r) ==
    /\ req[r].at = "idle"
    /\ password < MaxChanges
    /\ \E f \in Families :
          /\ Active(f)
          /\ Step(r, [Idle EXCEPT !.at = "change", !.family = f])
    /\ UNCHANGED <<now, row, issued, parent, openedAt, password>>

\* Its transaction: the account row is updated, so a second change waits, and
\* the UPDATE of the other sessions' tokens starts.
ChangeStart(r) ==
    /\ req[r].at = "change"
    /\ AccountFree
    /\ Step(r, [req[r] EXCEPT !.at = "changing", !.seen = Unrevoked \ Of(req[r].family)])
    /\ UNCHANGED <<now, row, issued, parent, openedAt, password>>

\* The end of that UPDATE and the commit.
ChangeCommit(r) ==
    /\ req[r].at = "changing"
    /\ req[r].seen \cap Locked = {}
    /\ Revoke(req[r].seen)
    /\ password' = password + 1
    /\ Step(r, Idle)
    /\ UNCHANGED <<now, issued, parent, openedAt>>

-----------------------------------------------------------------------------
(* Failures and the clock *)

\* A statement fails, the connection drops or the backend stops: rollback.
Abort(r) ==
    /\ req[r].at # "idle"
    /\ Step(r, Idle)
    /\ UNCHANGED <<now, row, issued, parent, openedAt, password>>

Tick ==
    /\ now < Horizon
    /\ now' = now + 1
    /\ UNCHANGED <<row, issued, parent, openedAt, password, req>>

-----------------------------------------------------------------------------
Init ==
    /\ now = 0
    /\ row = [t \in Tokens |-> Null]
    /\ issued = {}
    /\ parent = [t \in Tokens |-> Null]
    /\ openedAt = [f \in Families |-> Null]
    /\ password = 0
    /\ req = [r \in Requests |-> Idle]

Next ==
    \/ \E r \in Requests :
          \/ LoginVerify(r)
          \/ \E f \in Families, t \in Tokens : LoginOpen(r, f, t)
          \/ \E t \in Tokens : RotateRead(r, t)
          \/ RotateClaim(r)
          \/ \E t \in Tokens : RotateCommit(r, t)
          \/ \E t \in Tokens : LogoutRead(r, t)
          \/ CloseStart(r) \/ CloseEnd(r)
          \/ ChangeVerify(r) \/ ChangeStart(r) \/ ChangeCommit(r)
          \/ Abort(r)
    \/ Tick

Spec == Init /\ [][Next]_vars

-----------------------------------------------------------------------------
(* Properties *)

\* A session never has two live refresh tokens, however many renewals,
\* logouts and password changes run at once: of the requests that present
\* one token, at most one is given the next (session.service.ts:91).
OneLiveToken ==
    \A f \in Families : \A t, u \in Of(f) : t = u

\* A token is exchanged at most once, even after its successor was itself
\* exchanged or revoked.
OneSuccessor ==
    \A t, u \in issued : parent[t] = parent[u] /\ parent[t] # Null => t = u

\* However often it is renewed, a session is over maxSession after its
\* login: every token carries the end set then and none outlives it
\* (session-policy.ts:43).
EndsOnTime ==
    \A f \in Families : Active(f) => now < openedAt[f] + MaxSession

\* The types, and what every token of a session is bound by.
Inv == TypeOK /\ OneSuccessor /\ EndsOnTime

\* A logout, or a token presented again, leaves its session open only when a
\* renewal of the token it was about to revoke committed before it could.
CloseMissesOnlyRenewals ==
    [][\A r \in Requests, f \in Families :
          CloseEnd(r) /\ req[r].family = f /\ Of(f)' # {}
          => \E t \in issued : parent[t] \in req[r].seen]_vars

\* A password change leaves its own session as it is, and another one open
\* only when a renewal or a login crossed it (auth.service.ts:106).
ChangeMissesOnlyCrossings ==
    [][\A r \in Requests, f \in Families :
          ChangeCommit(r) =>
             IF f = req[r].family THEN Of(f)' = Of(f)
             ELSE Of(f)' # {} =>
                     \/ \E t \in issued : parent[t] \in req[r].seen
                     \/ \A t \in req[r].seen \cap Stored : row[t].family # f]_vars

\* What a closing and a password change miss is what crossed them: both of the
\* above.
MissOnlyCrossings == CloseMissesOnlyRenewals /\ ChangeMissesOnlyCrossings

\* The implementation of SessionBook: a session is open while it has a token
\* that is not revoked.
Book == INSTANCE SessionBook WITH
    open   <- {f \in Families : Of(f) # {}},
    closed <- {f \in Families : openedAt[f] # Null /\ Of(f) = {}}

\* A session that was closed is never open again, whichever renewals and
\* closings overlap, and only a login opens one.
ImplementsSessionBook == Book!Spec
=============================================================================
