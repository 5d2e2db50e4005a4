------------------------- MODULE PanelSessionProofs -------------------------
(***************************************************************************)
(* Proofs about Sessions, for every set of sessions, tokens and requests,  *)
(* whatever the two timeouts of the policy are; and, from them, about      *)
(* PanelSession: in a browser with navigator.locks, any number of tabs,    *)
(* whatever they send and whatever fails.  At the end, about the lockout of*)
(* logins (LoginAttempts, instance Logins).                                *)
(***************************************************************************)
EXTENDS PanelSession, Sequences, FiniteSetTheorems, TLAPS

-----------------------------------------------------------------------------
(* The inductive invariant *)

\* A token that has a row was handed out.
StoredIsIssued == \A t \in Stored : t \in issued

\* The end of a session is set by its login and travels from token to token.
EndsFixed ==
    \A t \in Stored :
        /\ openedAt[row[t].family] \in Nat
        /\ row[t].ends = openedAt[row[t].family] + MaxSession
        /\ row[t].expires <= row[t].ends

\* A token that was exchanged is not live.
ParentSpent ==
    \A t \in Tokens : parent[t] # Null =>
        /\ t \in issued
        /\ parent[t] \in issued
        /\ parent[t] \notin Unrevoked

\* Two renewals never hold the same token.
OneClaim ==
    \A q, r \in Requests :
        req[q].at = "claimed" /\ req[r].at = "claimed" /\ req[q].token = req[r].token => q = r

\* A renewal was given a successor of one of these tokens.
Crossed(S) == \E t \in issued : parent[t] \in S

\* The request works for a session that was opened.
Opened(r) == req[r].family \in Families /\ openedAt[req[r].family] \in Nat

\* A renewal holds a token of the session it read; once claimed the token stays
\* live until the renewal ends.
RenewalOK(r) ==
    req[r].at \in {"read", "claimed"} =>
        /\ Opened(r)
        /\ req[r].token \in issued
        /\ row[req[r].token] # Null => row[req[r].token].family = req[r].family
        /\ req[r].at = "claimed" => req[r].token \in Unrevoked

\* The rows a closing waits for are all the live ones of its session, unless a
\* renewal crossed it.
ClosingOK(r) ==
    /\ req[r].at \in {"close", "closing"} => Opened(r)
    /\ req[r].at = "closing" => Of(req[r].family) \subseteq req[r].seen \/ Crossed(req[r].seen)

\* The rows a password change waits for are all the live ones of the other
\* sessions, unless a renewal or a login crossed it, and none of its own.
ChangingOK(r) ==
    /\ req[r].at \in {"change", "changing"} => req[r].family \in Families
    /\ req[r].at = "changing" =>
          /\ \A t \in req[r].seen \cap Stored : row[t].family # req[r].family
          /\ \A f \in Families \ {req[r].family} :
                \/ Of(f) \subseteq req[r].seen
                \/ Crossed(req[r].seen)
                \/ \A t \in req[r].seen \cap Stored : row[t].family # f

RequestOK(r) ==
    /\ req[r].seen \subseteq issued
    /\ RenewalOK(r)
    /\ ClosingOK(r)
    /\ ChangingOK(r)

IInv ==
    /\ TypeOK
    /\ StoredIsIssued
    /\ EndsFixed
    /\ ParentSpent
    /\ OneSuccessor
    /\ OneLiveToken
    /\ OneClaim
    /\ \A r \in Requests : RequestOK(r)

-----------------------------------------------------------------------------
(* What the writes do *)

\* A request that moves on changes nothing of the others.
LEMMA StepIs ==
    ASSUME TypeOK, NEW r \in Requests, NEW q \in Request, Step(r, q)
    PROVE  /\ req' \in [Requests -> Request]
           /\ req'[r] = q
           /\ \A p \in Requests : p # r => req'[p] = req[p]
  BY DEF TypeOK, Step

\* A request that ends leaves nothing behind.
LEMMA IdleIs ==
    /\ Idle \in Request
    /\ Idle.at = "idle" /\ Idle.seen = {} /\ Idle.token = Null /\ Idle.family = Null
  BY DEF Idle, Request

\* A token that is handed out is live and does not outlive its session.
LEMMA NewRowIs ==
    ASSUME NEW f \in Families, NEW at \in Nat, NEW ends \in Nat
    PROVE  /\ NewRow(f, at, ends) \in Row
           /\ NewRow(f, at, ends) # Null
           /\ NewRow(f, at, ends).family = f
           /\ ~NewRow(f, at, ends).revoked
           /\ NewRow(f, at, ends).ends = ends
           /\ NewRow(f, at, ends).expires <= ends
  <1>1. RefreshExpiry(at, ends) \in Nat /\ RefreshExpiry(at, ends) <= ends
    BY SessionsAssumption DEF RefreshExpiry, Earlier
  <1>2. /\ NewRow(f, at, ends) \in Row
        /\ NewRow(f, at, ends).family = f /\ NewRow(f, at, ends).ends = ends
        /\ NewRow(f, at, ends).revoked = FALSE
        /\ NewRow(f, at, ends).expires = RefreshExpiry(at, ends)
    BY <1>1 DEF NewRow, Row
  <1>3. QED
    BY <1>1, <1>2, NullAssumption

\* Revoking rows leaves everything else of them as it was.
LEMMA RevokeIs ==
    ASSUME TypeOK, NEW S \in SUBSET Tokens, Revoke(S)
    PROVE  /\ row' \in [Tokens -> Row \cup {Null}]
           /\ Stored' = Stored
           /\ \A t \in Stored : /\ row'[t].family = row[t].family
                                /\ row'[t].expires = row[t].expires
                                /\ row'[t].ends = row[t].ends
           /\ Unrevoked' = Unrevoked \ S
           /\ \A f \in Families : Of(f)' = Of(f) \ S
  <1> DEFINE Gone(t) == [row[t] EXCEPT !.revoked = TRUE]
  <1>1. ASSUME NEW t \in Stored
        PROVE  /\ row[t] \in Row
               /\ Gone(t) \in Row
               /\ Gone(t) # Null
               /\ Gone(t).family = row[t].family
               /\ Gone(t).expires = row[t].expires
               /\ Gone(t).ends = row[t].ends
               /\ Gone(t).revoked
    <2>1. row[t] \in Row
      BY DEF TypeOK, Stored
    <2>2. Gone(t) \in Row /\ Gone(t).family = row[t].family /\ Gone(t).expires = row[t].expires
          /\ Gone(t).ends = row[t].ends /\ Gone(t).revoked
      BY <2>1 DEF Row
    <2>3. QED
      BY <2>1, <2>2, NullAssumption
  <1>2. \A t \in Tokens : row'[t] = IF t \in S /\ row[t] # Null THEN Gone(t) ELSE row[t]
    BY DEF Revoke
  <1> HIDE DEF Gone
  <1>3. row' \in [Tokens -> Row \cup {Null}]
    <2>1. \A t \in Tokens : row'[t] \in Row \cup {Null}
      BY <1>1, <1>2 DEF TypeOK, Stored
    <2>2. row' = [t \in Tokens |-> row'[t]]
      BY DEF Revoke
    <2>3. QED
      BY <2>1, <2>2
  <1>4. Stored' = Stored
    BY <1>1, <1>2 DEF Stored
  <1>5. \A t \in Stored : /\ row'[t].family = row[t].family
                          /\ row'[t].expires = row[t].expires
                          /\ row'[t].ends = row[t].ends
                          /\ row'[t].revoked <=> row[t].revoked \/ t \in S
    BY <1>1, <1>2 DEF Stored
  <1>6. Unrevoked' = Unrevoked \ S
    BY <1>4, <1>5 DEF Unrevoked
  <1>7. \A f \in Families : Of(f)' = Of(f) \ S
    BY <1>5, <1>6 DEF Of, Unrevoked
  <1>8. QED
    BY <1>3, <1>4, <1>5, <1>6, <1>7

\* A login adds one live token, deletes expired rows that nobody holds, and
\* changes no other row.
LEMMA LoginIs ==
    ASSUME TypeOK, StoredIsIssued, NEW r \in Requests, NEW f \in Families, NEW t \in Tokens,
           LoginOpen(r, f, t)
    PROVE  /\ row' \in [Tokens -> Row \cup {Null}]
           /\ t \notin Stored
           /\ row'[t] = NewRow(f, now, now + MaxSession)
           /\ t \in Unrevoked'
           /\ \A u \in Tokens : u # t =>
                 /\ row'[u] = row[u] \/ row'[u] = Null
                 /\ u \in Locked => row'[u] = row[u]
           /\ \A u \in Unrevoked' : u = t \/ (u \in Unrevoked /\ row'[u] = row[u])
  <1> DEFINE expired == {e \in Stored : row[e].expires < now}
  <1>1. /\ row' = [u \in Tokens |-> IF u = t THEN NewRow(f, now, now + MaxSession)
                                    ELSE IF u \in expired THEN Null ELSE row[u]]
        /\ expired \cap Locked = {}
        /\ t \notin issued
    BY DEF LoginOpen
  <1> HIDE DEF expired
  <1>2. /\ NewRow(f, now, now + MaxSession) \in Row
        /\ NewRow(f, now, now + MaxSession) # Null
        /\ ~NewRow(f, now, now + MaxSession).revoked
    BY NewRowIs, SessionsAssumption DEF TypeOK
  <1>3. row' \in [Tokens -> Row \cup {Null}]
    BY <1>1, <1>2 DEF TypeOK
  <1>4. t \in Unrevoked'
    BY <1>1, <1>2 DEF Unrevoked, Stored
  <1>5. \A u \in Tokens : u # t => /\ row'[u] = row[u] \/ row'[u] = Null
                                   /\ u \in Locked => row'[u] = row[u]
    BY <1>1
  <1>6. \A u \in Unrevoked' : u = t \/ (u \in Unrevoked /\ row'[u] = row[u])
    BY <1>5 DEF Unrevoked, Stored
  <1>7. QED
    BY <1>1, <1>3, <1>4, <1>5, <1>6 DEF StoredIsIssued

\* A renewal that commits makes its token history and its new token the live
\* one of the same session, with the same end, and changes no other row.
LEMMA RotateIs ==
    ASSUME TypeOK, StoredIsIssued, NEW r \in Requests, RenewalOK(r), NEW t \in Tokens,
           NEW old, old = req[r].token, NEW f, f = req[r].family,
           RotateCommit(r, t)
    PROVE  /\ row' \in [Tokens -> Row \cup {Null}]
           /\ f \in Families /\ old \in Of(f) /\ t # old /\ t \notin Stored
           /\ row'[t] = NewRow(f, req[r].started, row[old].ends)
           /\ row[old].ends \in Nat /\ req[r].started \in Nat
           /\ t \in Unrevoked' /\ row'[t].family = f
           /\ old \in Stored' /\ old \notin Unrevoked'
           /\ row'[old].family = f /\ row'[old].expires = row[old].expires
           /\ row'[old].ends = row[old].ends
           /\ \A u \in Tokens \ {old, t} : row'[u] = row[u]
           /\ Unrevoked' = (Unrevoked \ {old}) \cup {t}
           /\ Of(f)' = (Of(f) \ {old}) \cup {t}
           /\ \A g \in Families : g # f => Of(g)' = Of(g)
  <1> DEFINE new == NewRow(f, req[r].started, row[old].ends)
             gone == [row[old] EXCEPT !.revoked = TRUE]
  <1>1. /\ f \in Families /\ old \in Unrevoked /\ row[old].family = f
        /\ t \notin issued /\ old \in issued /\ old \in Tokens
        /\ req[r].started \in Nat
    <2>1. req[r].at = "claimed" /\ t \notin issued
      BY DEF RotateCommit
    <2>2. old \in Tokens /\ row[old] # Null /\ old \in Unrevoked
      BY <2>1 DEF RenewalOK, Unrevoked, Stored
    <2>3. QED
      BY <2>1, <2>2 DEF RenewalOK, Opened, TypeOK, Request
  <1>2. row[old] \in Row /\ row[old] # Null
    BY <1>1 DEF TypeOK, Unrevoked, Stored
  <1>3. /\ gone \in Row /\ gone # Null /\ gone.revoked /\ gone.family = f
        /\ gone.expires = row[old].expires /\ gone.ends = row[old].ends
    BY <1>1, <1>2, NullAssumption DEF Row
  <1>4. row[old].ends \in Nat
    BY <1>2 DEF Row
  <1>5. new \in Row /\ new # Null /\ ~new.revoked /\ new.family = f
    BY <1>1, <1>4, NewRowIs
  <1>6. t # old
    BY <1>1
  <1>7. row' = [row EXCEPT ![old] = gone, ![t] = new]
    BY DEF RotateCommit
  <1> HIDE DEF gone, new
  <1>8. /\ row' \in [Tokens -> Row \cup {Null}]
        /\ row'[old] = gone /\ row'[t] = new
        /\ \A u \in Tokens \ {old, t} : row'[u] = row[u]
    BY <1>1, <1>3, <1>5, <1>6, <1>7 DEF TypeOK
  <1>9. t \notin Stored
    BY <1>1 DEF StoredIsIssued
  <1>10. Unrevoked' = (Unrevoked \ {old}) \cup {t} /\ old \in Stored'
    BY <1>1, <1>3, <1>5, <1>6, <1>8, <1>9 DEF Unrevoked, Stored
  <1>11. old \in Of(f)
    BY <1>1 DEF Of
  <1>12. \A g \in Families : Of(g)' = IF g = f THEN (Of(g) \ {old}) \cup {t} ELSE Of(g)
    <2> TAKE g \in Families
    <2>1. \A u \in Unrevoked \ {old} : u # t /\ row'[u].family = row[u].family
      BY <1>8, <1>9 DEF Unrevoked, Stored
    <2>2. row'[t].family = f /\ t \notin Unrevoked
      BY <1>5, <1>8, <1>9 DEF Unrevoked
    <2>3. Of(g)' = {u \in Unrevoked' : row'[u].family = g}
      BY DEF Of
    <2>4. QED
      BY <1>1, <1>6, <1>10, <1>11, <2>1, <2>2, <2>3 DEF Of
  <1>13. Of(f)' = (Of(f) \ {old}) \cup {t} /\ \A g \in Families : g # f => Of(g)' = Of(g)
    BY <1>1, <1>12
  <1>14. /\ row'[t] = NewRow(f, req[r].started, row[old].ends)
         /\ row'[t].family = f
    BY <1>5, <1>8 DEF new
  <1>15. /\ row'[old].family = f /\ row'[old].expires = row[old].expires
         /\ row'[old].ends = row[old].ends
         /\ t \in Unrevoked' /\ old \notin Unrevoked'
    BY <1>3, <1>6, <1>8, <1>10
  <1>16. QED
    BY <1>1, <1>4, <1>6, <1>8, <1>9, <1>10, <1>11, <1>13, <1>14, <1>15

-----------------------------------------------------------------------------
(* The inductive invariant is inductive *)

LEMMA InitIInv == Init => IInv
  <1> SUFFICES ASSUME Init PROVE IInv
    OBVIOUS
  <1>1. Stored = {} /\ Unrevoked = {}
    BY DEF Init, Stored, Unrevoked
  <1>2. TypeOK
    BY IdleIs DEF Init, TypeOK
  <1>3. \A r \in Requests : req[r] = Idle
    BY DEF Init
  <1>4. \A r \in Requests : RequestOK(r)
    BY <1>3, IdleIs DEF RequestOK, RenewalOK, ClosingOK, ChangingOK
  <1>5. OneSuccessor /\ OneLiveToken /\ ParentSpent
    BY <1>1 DEF Init, OneSuccessor, OneLiveToken, Of, ParentSpent
  <1>6. StoredIsIssued /\ EndsFixed /\ OneClaim
    BY <1>1, <1>3, IdleIs DEF StoredIsIssued, EndsFixed, OneClaim
  <1>7. QED
    BY <1>2, <1>4, <1>5, <1>6 DEF IInv

\* A request that ended asks for nothing.
LEMMA EndedIsOK ==
    ASSUME NEW r \in Requests, req'[r] = Idle
    PROVE  RequestOK(r)'
  BY IdleIs DEF RequestOK, RenewalOK, ClosingOK, ChangingOK

\* No two renewals come to hold one token when one of the requests ends.
LEMMA EndedKeepsOneClaim ==
    ASSUME OneClaim, NEW r \in Requests, req'[r] = Idle,
           \A p \in Requests : p # r => req'[p] = req[p]
    PROVE  OneClaim'
  BY IdleIs DEF OneClaim

\* A step that only moves a request on keeps the invariant if the request
\* arrives in order and takes no token that another one holds.
LEMMA QuietKeeps ==
    ASSUME IInv, NEW r \in Requests, NEW q \in Request, Step(r, q),
           UNCHANGED <<now, row, issued, parent, openedAt, password>>,
           RequestOK(r)',
           q.at = "claimed" => q.token \notin Locked
    PROVE  IInv'
  <1> USE DEF IInv
  <1>1. req' \in [Requests -> Request] /\ req'[r] = q
        /\ \A p \in Requests : p # r => req'[p] = req[p]
    BY StepIs
  <1>2. TypeOK'
    BY <1>1 DEF TypeOK
  <1>3. Stored' = Stored /\ Unrevoked' = Unrevoked /\ \A f \in Families : Of(f)' = Of(f)
    BY DEF Stored, Unrevoked, Of
  <1>4. StoredIsIssued' /\ EndsFixed' /\ ParentSpent' /\ OneSuccessor' /\ OneLiveToken'
    BY <1>3 DEF StoredIsIssued, EndsFixed, ParentSpent, OneSuccessor, OneLiveToken
  <1>5. OneClaim'
    BY <1>1 DEF OneClaim, Locked
  <1>6. ASSUME NEW p \in Requests PROVE RequestOK(p)'
    <2>1. CASE p = r
      BY <2>1
    <2>2. CASE p # r
      <3>1. req'[p] = req[p] /\ RequestOK(p)
        BY <1>1, <2>2
      <3>2. RenewalOK(p)'
        BY <1>3, <3>1 DEF RequestOK, RenewalOK, Opened
      <3>3. ClosingOK(p)'
        BY <1>3, <3>1 DEF RequestOK, ClosingOK, Opened, Crossed
      <3>4. ChangingOK(p)'
        BY <1>3, <3>1 DEF RequestOK, ChangingOK, Crossed
      <3>5. QED
        BY <3>1, <3>2, <3>3, <3>4 DEF RequestOK
    <2>3. QED
      BY <2>1, <2>2
  <1>7. QED
    BY <1>2, <1>4, <1>5, <1>6

\* What a live or a stored token says of its session.
LEMMA StoredIs ==
    ASSUME TypeOK, StoredIsIssued, EndsFixed, NEW t \in Stored
    PROVE  /\ t \in Tokens /\ t \in issued /\ row[t] \in Row
           /\ row[t].family \in Families /\ row[t].revoked \in BOOLEAN
           /\ row[t].expires \in Nat /\ row[t].ends \in Nat
           /\ openedAt[row[t].family] \in Nat
  BY DEF TypeOK, StoredIsIssued, EndsFixed, Stored, Row

\* The steps that look something up and remember it.
LEMMA QuietStepIInv ==
    ASSUME IInv, NEW r \in Requests,
           \/ LoginVerify(r)
           \/ \E t \in Tokens : RotateRead(r, t)
           \/ RotateClaim(r)
           \/ \E t \in Tokens : LogoutRead(r, t)
           \/ CloseStart(r)
           \/ ChangeVerify(r)
           \/ ChangeStart(r)
           \/ Abort(r)
    PROVE  IInv'
  <1> USE DEF IInv
  <1>1. CASE LoginVerify(r)
    <2> DEFINE q == [Idle EXCEPT !.at = "verified"]
    <2>1. q \in Request /\ q.at = "verified" /\ q.seen = {}
      BY DEF Idle, Request
    <2> HIDE DEF q
    <2>2. Step(r, q) /\ UNCHANGED <<now, row, issued, parent, openedAt, password>>
      BY <1>1 DEF LoginVerify, q
    <2>3. req'[r] = q
      BY <2>1, <2>2, StepIs
    <2>4. RequestOK(r)'
      BY <2>1, <2>3 DEF RequestOK, RenewalOK, ClosingOK, ChangingOK
    <2>5. QED
      BY <2>1, <2>2, <2>4, QuietKeeps
  <1>2. ASSUME NEW t \in Stored, NEW q \in Request,
               q.at = "close", q.family = row[t].family, q.seen = {},
               Step(r, q), UNCHANGED <<now, row, issued, parent, openedAt, password>>
        PROVE  IInv'
    <2>1. req'[r] = q
      BY <1>2, StepIs
    <2>2. row[t].family \in Families /\ openedAt[row[t].family] \in Nat
      BY StoredIs
    <2>3. RequestOK(r)'
      BY <1>2, <2>1, <2>2 DEF RequestOK, RenewalOK, ClosingOK, ChangingOK, Opened
    <2>4. QED
      BY <1>2, <2>3, QuietKeeps
  <1>3. ASSUME NEW t \in Tokens, RotateRead(r, t) PROVE IInv'
    <2>1. t \in Stored /\ UNCHANGED <<now, row, issued, parent, openedAt, password>>
      BY <1>3 DEF RotateRead
    <2>2. t \in issued /\ row[t].family \in Families /\ openedAt[row[t].family] \in Nat
      BY <2>1, StoredIs
    <2>3. CASE Step(r, [Idle EXCEPT !.at = "close", !.family = row[t].family])
      <3> DEFINE q == [Idle EXCEPT !.at = "close", !.family = row[t].family]
      <3>1. q \in Request /\ q.at = "close" /\ q.family = row[t].family /\ q.seen = {}
        BY <2>2 DEF Idle, Request
      <3> HIDE DEF q
      <3>2. Step(r, q)
        BY <2>3 DEF q
      <3>3. QED
        BY <1>2, <2>1, <3>1, <3>2
    <2>4. CASE Step(r, [Idle EXCEPT !.at = "read", !.token = t,
                                    !.family = row[t].family, !.started = now])
      <3> DEFINE q == [Idle EXCEPT !.at = "read", !.token = t,
                                   !.family = row[t].family, !.started = now]
      <3>1. q \in Request /\ q.at = "read" /\ q.token = t /\ q.family = row[t].family
            /\ q.seen = {}
        BY <2>2 DEF Idle, Request, TypeOK
      <3> HIDE DEF q
      <3>2. Step(r, q)
        BY <2>4 DEF q
      <3>3. req'[r] = q
        BY <3>1, <3>2, StepIs
      <3>4. RequestOK(r)'
        BY <2>1, <2>2, <3>1, <3>3 DEF RequestOK, RenewalOK, ClosingOK, ChangingOK, Opened
      <3>5. QED
        BY <2>1, <3>1, <3>2, <3>4, QuietKeeps
    <2>5. QED
      BY <1>3, <2>3, <2>4 DEF RotateRead
  <1>4. CASE RotateClaim(r)
    <2> DEFINE t == req[r].token
    <2>1. /\ req[r].at = "read" /\ t \notin Locked /\ req[r] \in Request
          /\ UNCHANGED <<now, row, issued, parent, openedAt, password>>
      BY <1>4 DEF RotateClaim, TypeOK
    <2>2. RenewalOK(r) /\ req[r].seen \subseteq issued /\ RequestOK(r)
      BY DEF RequestOK
    <2>3. CASE t \in Unrevoked /\ Step(r, [req[r] EXCEPT !.at = "claimed"])
      <3> DEFINE q == [req[r] EXCEPT !.at = "claimed"]
      <3>1. /\ q \in Request /\ q.at = "claimed" /\ q.token = t
            /\ q.family = req[r].family /\ q.seen = req[r].seen
        BY <2>1 DEF Request
      <3> HIDE DEF q
      <3>2. Step(r, q)
        BY <2>3 DEF q
      <3>3. req'[r] = q
        BY <3>1, <3>2, StepIs
      <3>4. RenewalOK(r)'
        BY <2>1, <2>2, <2>3, <3>1, <3>3 DEF RenewalOK, Opened, Unrevoked, Stored
      <3>5. RequestOK(r)'
        BY <2>1, <2>2, <3>1, <3>3, <3>4 DEF RequestOK, ClosingOK, ChangingOK
      <3>6. QED
        BY <2>1, <3>1, <3>2, <3>5, QuietKeeps
    <2>4. CASE Step(r, [Idle EXCEPT !.at = "close", !.family = req[r].family])
      <3> DEFINE q == [Idle EXCEPT !.at = "close", !.family = req[r].family]
      <3>1. q \in Request /\ q.at = "close" /\ q.family = req[r].family /\ q.seen = {}
        BY <2>1 DEF Idle, Request
      <3> HIDE DEF q
      <3>2. Step(r, q)
        BY <2>4 DEF q
      <3>3. req'[r] = q
        BY <3>1, <3>2, StepIs
      <3>4. RequestOK(r)'
        BY <2>1, <2>2, <3>1, <3>3 DEF RequestOK, RenewalOK, ClosingOK, ChangingOK, Opened
      <3>5. QED
        BY <2>1, <3>1, <3>2, <3>4, QuietKeeps
    <2>5. QED
      BY <1>4, <2>3, <2>4 DEF RotateClaim
  <1>5. ASSUME NEW t \in Tokens, LogoutRead(r, t) PROVE IInv'
    <2>1. t \in Stored /\ UNCHANGED <<now, row, issued, parent, openedAt, password>>
      BY <1>5 DEF LogoutRead
    <2>2. row[t].family \in Families
      BY <2>1, StoredIs
    <2> DEFINE q == [Idle EXCEPT !.at = "close", !.family = row[t].family]
    <2>3. q \in Request /\ q.at = "close" /\ q.family = row[t].family /\ q.seen = {}
      BY <2>2 DEF Idle, Request
    <2> HIDE DEF q
    <2>4. Step(r, q)
      BY <1>5 DEF LogoutRead, q
    <2>5. QED
      BY <1>2, <2>1, <2>3, <2>4
  <1>6. CASE CloseStart(r)
    <2>1. /\ req[r].at = "close" /\ req[r] \in Request
          /\ UNCHANGED <<now, row, issued, parent, openedAt, password>>
      BY <1>6 DEF CloseStart, TypeOK
    <2>2. ClosingOK(r)
      BY DEF RequestOK
    <2> DEFINE live == Of(req[r].family)
               q == [req[r] EXCEPT !.at = "closing", !.seen = live]
    <2>3. live \in SUBSET Tokens /\ live \subseteq issued
      BY DEF Of, Unrevoked, Stored, StoredIsIssued
    <2>4. q \in Request /\ q.at = "closing" /\ q.family = req[r].family /\ q.seen = live
      BY <2>1, <2>3 DEF Request
    <2>5. Step(r, q)
      BY <1>6 DEF CloseStart
    <2> HIDE DEF q
    <2>6. req'[r] = q
      BY <2>4, <2>5, StepIs
    <2>7. Of(req[r].family) \subseteq q.seen /\ Unrevoked' = Unrevoked
      BY <2>1, <2>4 DEF Unrevoked, Stored
    <2>8. Of(req[r].family)' \subseteq q.seen
      BY <2>1, <2>4, <2>6, <2>7 DEF Of
    <2>9. RequestOK(r)'
      BY <2>1, <2>2, <2>3, <2>4, <2>6, <2>8
      DEF RequestOK, RenewalOK, ClosingOK, ChangingOK, Opened
    <2>10. QED
      BY <2>1, <2>4, <2>5, <2>9, QuietKeeps
  <1>7. CASE ChangeVerify(r)
    <2>1. UNCHANGED <<now, row, issued, parent, openedAt, password>>
      BY <1>7 DEF ChangeVerify
    <2>2. PICK f \in Families : Step(r, [Idle EXCEPT !.at = "change", !.family = f])
      BY <1>7 DEF ChangeVerify
    <2> DEFINE q == [Idle EXCEPT !.at = "change", !.family = f]
    <2>3. q \in Request /\ q.at = "change" /\ q.family = f /\ q.seen = {}
      BY DEF Idle, Request
    <2> HIDE DEF q
    <2>4. Step(r, q)
      BY <2>2 DEF q
    <2>5. req'[r] = q
      BY <2>3, <2>4, StepIs
    <2>6. RequestOK(r)'
      BY <2>3, <2>5 DEF RequestOK, RenewalOK, ClosingOK, ChangingOK
    <2>7. QED
      BY <2>1, <2>3, <2>4, <2>6, QuietKeeps
  <1>8. CASE ChangeStart(r)
    <2>1. /\ req[r].at = "change" /\ req[r] \in Request
          /\ UNCHANGED <<now, row, issued, parent, openedAt, password>>
      BY <1>8 DEF ChangeStart, TypeOK
    <2>2. req[r].family \in Families
      BY <2>1 DEF RequestOK, ChangingOK
    <2> DEFINE others == Unrevoked \ Of(req[r].family)
               q == [req[r] EXCEPT !.at = "changing", !.seen = others]
    <2>3. others \in SUBSET Tokens /\ others \subseteq issued
      BY DEF Unrevoked, Stored, StoredIsIssued
    <2>4. q \in Request /\ q.at = "changing" /\ q.family = req[r].family /\ q.seen = others
      BY <2>1, <2>3 DEF Request
    <2>5. Step(r, q)
      BY <1>8 DEF ChangeStart
    <2> HIDE DEF q
    <2>6. req'[r] = q
      BY <2>4, <2>5, StepIs
    <2>7. /\ \A t \in others : row[t].family # req[r].family
          /\ \A f \in Families \ {req[r].family} : Of(f) \subseteq others
      BY <2>2 DEF Of
    <2>8. \A f \in Families : Of(f)' = Of(f)
      BY <2>1 DEF Of, Unrevoked, Stored
    <2>9. ChangingOK(r)'
      BY <2>1, <2>2, <2>4, <2>6, <2>7, <2>8 DEF ChangingOK
    <2>10. RequestOK(r)'
      BY <2>1, <2>3, <2>4, <2>6, <2>9 DEF RequestOK, RenewalOK, ClosingOK
    <2>11. QED
      BY <2>1, <2>4, <2>5, <2>10, QuietKeeps
  <1>9. CASE Abort(r)
    <2>1. Step(r, Idle) /\ UNCHANGED <<now, row, issued, parent, openedAt, password>>
      BY <1>9 DEF Abort
    <2>2. RequestOK(r)'
      BY <2>1, IdleIs, StepIs, EndedIsOK
    <2>3. QED
      BY <2>1, <2>2, IdleIs, QuietKeeps
  <1>10. QED
    BY <1>1, <1>3, <1>4, <1>5, <1>6, <1>7, <1>8, <1>9

\* A step that revokes rows nobody holds and ends its request.
LEMMA RevokeKeeps ==
    ASSUME IInv, NEW r \in Requests, NEW S \in SUBSET Tokens, S \cap Locked = {},
           Revoke(S), Step(r, Idle), password' \in Nat, UNCHANGED <<now, issued, parent, openedAt>>
    PROVE  IInv'
  <1> USE DEF IInv
  <1>1. /\ req' \in [Requests -> Request] /\ req'[r] = Idle
        /\ \A p \in Requests : p # r => req'[p] = req[p]
    BY StepIs, IdleIs
  <1>2. /\ row' \in [Tokens -> Row \cup {Null}]
        /\ Stored' = Stored
        /\ \A t \in Stored : /\ row'[t].family = row[t].family
                             /\ row'[t].expires = row[t].expires
                             /\ row'[t].ends = row[t].ends
        /\ Unrevoked' = Unrevoked \ S
        /\ \A f \in Families : Of(f)' = Of(f) \ S
    BY RevokeIs
  <1>3. TypeOK'
    BY <1>1, <1>2 DEF TypeOK
  <1>4. StoredIsIssued' /\ EndsFixed'
    BY <1>2 DEF StoredIsIssued, EndsFixed
  <1>5. ParentSpent' /\ OneSuccessor' /\ OneLiveToken'
    BY <1>2 DEF ParentSpent, OneSuccessor, OneLiveToken
  <1>6. OneClaim'
    BY <1>1, EndedKeepsOneClaim
  <1>7. ASSUME NEW p \in Requests PROVE RequestOK(p)'
    <2>1. CASE p = r
      BY <1>1, <2>1, EndedIsOK
    <2>2. CASE p # r
      <3>1. req'[p] = req[p] /\ RequestOK(p)
        BY <1>1, <2>2
      <3>2. RenewalOK(p)'
        <4>1. req[p].at = "claimed" => req[p].token \notin S
          BY DEF Locked
        <4>2. req[p].token \in Tokens \cup {Null}
          BY DEF TypeOK, Request
        <4>3. req[p].at \in {"read", "claimed"} => req[p].token \in issued /\ issued \subseteq Tokens
          BY <3>1 DEF RequestOK, RenewalOK, TypeOK
        <4>4. \A t \in Tokens : row'[t] # Null => row[t] # Null /\ row'[t].family = row[t].family
          BY <1>2 DEF Stored
        <4>5. QED
          BY <1>2, <3>1, <4>1, <4>3, <4>4 DEF RequestOK, RenewalOK, Opened
      <3>3. ClosingOK(p)'
        BY <1>2, <3>1 DEF RequestOK, ClosingOK, Opened, Crossed
      <3>4. ChangingOK(p)'
        BY <1>2, <3>1 DEF RequestOK, ChangingOK, Crossed
      <3>5. QED
        BY <3>1, <3>2, <3>3, <3>4 DEF RequestOK
    <2>3. QED
      BY <2>1, <2>2
  <1>8. QED
    BY <1>3, <1>4, <1>5, <1>6, <1>7

LEMMA RevokeStepIInv ==
    ASSUME IInv, NEW r \in Requests, CloseEnd(r) \/ ChangeCommit(r)
    PROVE  IInv'
  <1>1. req[r].seen \in SUBSET Tokens /\ password \in Nat
    BY DEF IInv, TypeOK, Request
  <1>2. /\ req[r].seen \cap Locked = {} /\ Revoke(req[r].seen) /\ Step(r, Idle)
        /\ password' \in Nat
        /\ UNCHANGED <<now, issued, parent, openedAt>>
    BY <1>1 DEF CloseEnd, ChangeCommit
  <1>3. QED
    BY <1>1, <1>2, RevokeKeeps

LEMMA LoginOpenIInv ==
    ASSUME IInv, NEW r \in Requests, NEW f \in Families, NEW t \in Tokens, LoginOpen(r, f, t)
    PROVE  IInv'
  <1> USE DEF IInv
  <1>1. /\ req' \in [Requests -> Request] /\ req'[r] = Idle
        /\ \A p \in Requests : p # r => req'[p] = req[p]
    BY StepIs, IdleIs DEF LoginOpen
  <1>2. /\ openedAt[f] = Null /\ t \notin issued
        /\ issued' = issued \cup {t} /\ openedAt' = [openedAt EXCEPT ![f] = now]
        /\ UNCHANGED <<now, parent, password>>
    BY DEF LoginOpen
  <1>3. /\ row' \in [Tokens -> Row \cup {Null}]
        /\ t \notin Stored
        /\ row'[t] = NewRow(f, now, now + MaxSession)
        /\ t \in Unrevoked'
        /\ \A u \in Tokens : u # t => /\ row'[u] = row[u] \/ row'[u] = Null
                                      /\ u \in Locked => row'[u] = row[u]
        /\ \A u \in Unrevoked' : u = t \/ (u \in Unrevoked /\ row'[u] = row[u])
    BY LoginIs
  <1>4. now \in Nat /\ now + MaxSession \in Nat
    BY SessionsAssumption DEF TypeOK
  <1>5. /\ row'[t].family = f /\ row'[t].ends = now + MaxSession
        /\ row'[t].expires <= now + MaxSession
    BY <1>3, <1>4, NewRowIs
  <1>6. /\ openedAt'[f] = now
        /\ \A g \in Families : g # f => openedAt'[g] = openedAt[g]
        /\ \A g \in Families : openedAt[g] \in Nat => g # f /\ openedAt'[g] = openedAt[g]
    BY <1>2, NullAssumption DEF TypeOK
  <1>7. \A u \in Stored' : u = t \/ (u \in Stored /\ row'[u] = row[u] /\ row[u].family # f)
    <2> TAKE u \in Stored'
    <2>1. u # t => row'[u] = row[u] /\ u \in Stored
      BY <1>3 DEF Stored
    <2>2. u \in Stored => openedAt[row[u].family] \in Nat
      BY StoredIs
    <2>3. QED
      BY <1>2, <2>1, <2>2, NullAssumption
  <1>8. \A g \in Families : g # f => Of(g)' \subseteq Of(g)
    BY <1>3, <1>5 DEF Of
  <1>9. TypeOK'
    BY <1>1, <1>2, <1>3, <1>4 DEF TypeOK
  <1>10. StoredIsIssued'
    BY <1>2, <1>7 DEF StoredIsIssued
  <1>11. EndsFixed'
    <2> SUFFICES ASSUME NEW u \in Stored'
                 PROVE  /\ openedAt'[row'[u].family] \in Nat
                        /\ row'[u].ends = openedAt'[row'[u].family] + MaxSession
                        /\ row'[u].expires <= row'[u].ends
      BY DEF EndsFixed
    <2>1. CASE u = t
      BY <1>4, <1>5, <1>6, <2>1
    <2>2. CASE u # t
      BY <1>6, <1>7, <2>2, StoredIs DEF EndsFixed
    <2>3. QED
      BY <2>1, <2>2
  <1>12. ParentSpent'
    BY <1>2, <1>3 DEF ParentSpent
  <1>13. OneSuccessor'
    BY <1>2 DEF OneSuccessor, ParentSpent, TypeOK
  <1>14. OneLiveToken'
    <2> SUFFICES ASSUME NEW g \in Families, NEW u \in Of(g)', NEW v \in Of(g)' PROVE u = v
      BY DEF OneLiveToken
    <2>1. CASE g = f
      BY <1>7, <2>1 DEF Of, Unrevoked
    <2>2. CASE g # f
      BY <1>8, <2>2 DEF OneLiveToken
    <2>3. QED
      BY <2>1, <2>2
  <1>15. OneClaim'
    BY <1>1, EndedKeepsOneClaim
  <1>16. ASSUME NEW p \in Requests PROVE RequestOK(p)'
    <2>1. CASE p = r
      BY <1>1, <2>1, EndedIsOK
    <2>2. CASE p # r
      <3>1. req'[p] = req[p] /\ RequestOK(p) /\ req[p].seen \subseteq issued
        BY <1>1, <2>2 DEF RequestOK
      <3>2. t \notin req[p].seen /\ (req[p].at \in {"read", "claimed"} => req[p].token # t)
        BY <1>2, <3>1 DEF RequestOK, RenewalOK
      <3>3. Opened(p) => Opened(p)' /\ req[p].family # f
        BY <1>2, <1>6, <3>1, NullAssumption DEF Opened
      <3>4. RenewalOK(p)'
        <4>1. SUFFICES ASSUME req[p].at \in {"read", "claimed"} PROVE RenewalOK(p)'
          BY <3>1 DEF RenewalOK
        <4>2. /\ req[p].token \in issued /\ req[p].token \in Tokens /\ req[p].token # t
              /\ Opened(p)
          BY <3>1, <3>2, <4>1 DEF RequestOK, RenewalOK, TypeOK
        <4>3. row'[req[p].token] # Null => row'[req[p].token] = row[req[p].token]
          BY <1>3, <4>2
        <4>4. req[p].at = "claimed" => /\ req[p].token \in Unrevoked
                                       /\ row'[req[p].token] = row[req[p].token]
          BY <1>3, <3>1, <4>1, <4>2 DEF RequestOK, RenewalOK, Locked
        <4>5. req[p].at = "claimed" => req[p].token \in Unrevoked'
          BY <4>4 DEF Unrevoked, Stored
        <4>6. QED
          BY <1>2, <3>1, <3>3, <4>1, <4>2, <4>3, <4>5 DEF RequestOK, RenewalOK
      <3>5. Crossed(req[p].seen) => Crossed(req[p].seen)'
        BY <1>2, <3>1 DEF Crossed
      <3>6. ClosingOK(p)'
        <4>1. req[p].at \in {"close", "closing"} => Opened(p) /\ Opened(p)' /\ req[p].family # f
          BY <3>1, <3>3 DEF RequestOK, ClosingOK
        <4>2. Opened(p) /\ req[p].family # f => Of(req[p].family)' \subseteq Of(req[p].family)
          BY <1>8, <3>1 DEF Opened
        <4>3. QED
          BY <3>1, <3>5, <4>1, <4>2 DEF RequestOK, ClosingOK
      <3>7. ChangingOK(p)'
        <4>1. SUFFICES ASSUME req[p].at = "changing" PROVE ChangingOK(p)'
          BY <3>1 DEF RequestOK, ChangingOK
        <4>2. \A u \in req[p].seen \cap Stored' : u \in Stored /\ row'[u] = row[u] /\ row[u].family # f
          BY <1>7, <3>2
        <4>3. ASSUME NEW g \in Families \ {req[p].family}
              PROVE  \/ Of(g)' \subseteq req[p].seen
                     \/ Crossed(req[p].seen)'
                     \/ \A u \in req[p].seen \cap Stored' : row'[u].family # g
          <5>1. CASE g = f
            BY <4>2, <5>1
          <5>2. CASE g # f
            BY <1>8, <3>1, <3>5, <4>1, <4>2, <5>2 DEF RequestOK, ChangingOK
          <5>3. QED
            BY <5>1, <5>2
        <4>4. QED
          BY <3>1, <3>5, <4>1, <4>2, <4>3 DEF RequestOK, ChangingOK
      <3>8. QED
        BY <1>2, <3>1, <3>4, <3>6, <3>7 DEF RequestOK
    <2>3. QED
      BY <2>1, <2>2
  <1>17. QED
    BY <1>9, <1>10, <1>11, <1>12, <1>13, <1>14, <1>15, <1>16

LEMMA RotateCommitIInv ==
    ASSUME IInv, NEW r \in Requests, NEW t \in Tokens, RotateCommit(r, t)
    PROVE  IInv'
  <1> USE DEF IInv
  <1>0. PICK old, f : old = req[r].token /\ f = req[r].family
    OBVIOUS
  <1>1. /\ req' \in [Requests -> Request] /\ req'[r] = Idle
        /\ \A p \in Requests : p # r => req'[p] = req[p]
    BY StepIs, IdleIs DEF RotateCommit
  <1>2. /\ t \notin issued /\ issued' = issued \cup {t} /\ req[r].at = "claimed"
        /\ parent' = [parent EXCEPT ![t] = old]
        /\ UNCHANGED <<now, openedAt, password>>
    BY <1>0 DEF RotateCommit
  <1>3. RenewalOK(r) /\ f \in Families /\ openedAt[f] \in Nat
    BY <1>0, <1>2 DEF RequestOK, RenewalOK, Opened
  <1>4. /\ row' \in [Tokens -> Row \cup {Null}]
        /\ old \in Of(f) /\ t # old /\ t \notin Stored
        /\ row'[t] = NewRow(f, req[r].started, row[old].ends)
        /\ row[old].ends \in Nat /\ req[r].started \in Nat
        /\ t \in Unrevoked' /\ row'[t].family = f
        /\ old \in Stored' /\ old \notin Unrevoked'
        /\ row'[old].family = f /\ row'[old].expires = row[old].expires
        /\ row'[old].ends = row[old].ends
        /\ \A u \in Tokens \ {old, t} : row'[u] = row[u]
        /\ Unrevoked' = (Unrevoked \ {old}) \cup {t}
        /\ Of(f)' = (Of(f) \ {old}) \cup {t}
        /\ \A g \in Families : g # f => Of(g)' = Of(g)
    BY <1>0, <1>3, RotateIs
  <1>5. /\ old \in Stored /\ old \in Tokens /\ old \in issued /\ old \in Unrevoked
        /\ row[old].family = f
    BY <1>4 DEF Of, Unrevoked, Stored, StoredIsIssued
  <1>6. row'[t].ends = row[old].ends /\ row'[t].expires <= row'[t].ends
    BY <1>3, <1>4, NewRowIs
  <1>7. Stored' = Stored \cup {t}
    BY <1>4, <1>5 DEF Stored, Unrevoked
  <1>8. \A u \in Stored : /\ row'[u].family = row[u].family
                          /\ row'[u].expires = row[u].expires
                          /\ row'[u].ends = row[u].ends
    BY <1>4, <1>5 DEF Stored
  <1>9. /\ parent'[t] = old
        /\ \A u \in Tokens : u # t => parent'[u] = parent[u]
        /\ parent' \in [Tokens -> Tokens \cup {Null}]
    BY <1>2, <1>5 DEF TypeOK
  <1>10. TypeOK'
    BY <1>1, <1>2, <1>4, <1>9 DEF TypeOK
  <1>11. StoredIsIssued'
    BY <1>2, <1>7 DEF StoredIsIssued
  <1>12. EndsFixed'
    <2> SUFFICES ASSUME NEW u \in Stored'
                 PROVE  /\ openedAt'[row'[u].family] \in Nat
                        /\ row'[u].ends = openedAt'[row'[u].family] + MaxSession
                        /\ row'[u].expires <= row'[u].ends
      BY DEF EndsFixed
    <2>1. CASE u = t
      BY <1>2, <1>3, <1>4, <1>5, <1>6, <2>1 DEF EndsFixed
    <2>2. CASE u # t
      BY <1>2, <1>7, <1>8, <2>2 DEF EndsFixed
    <2>3. QED
      BY <2>1, <2>2
  <1>13. ParentSpent'
    <2> SUFFICES ASSUME NEW u \in Tokens, parent'[u] # Null
                 PROVE  u \in issued' /\ parent'[u] \in issued' /\ parent'[u] \notin Unrevoked'
      BY DEF ParentSpent
    <2>1. CASE u = t
      BY <1>2, <1>4, <1>5, <1>9, <2>1
    <2>2. CASE u # t
      BY <1>2, <1>4, <1>9, <2>2 DEF ParentSpent
    <2>3. QED
      BY <2>1, <2>2
  <1>14. OneSuccessor'
    <2>1. \A u \in issued : u \in Tokens /\ u # t /\ parent[u] # old
      BY <1>2, <1>5, SessionsAssumption DEF ParentSpent, TypeOK
    <2>2. QED
      BY <1>2, <1>9, <2>1 DEF OneSuccessor
  <1>15. OneLiveToken'
    <2>1. Of(f) = {old}
      BY <1>3, <1>4 DEF OneLiveToken
    <2>2. QED
      BY <1>4, <2>1 DEF OneLiveToken
  <1>16. OneClaim'
    BY <1>1, EndedKeepsOneClaim
  <1>17. ASSUME NEW p \in Requests PROVE RequestOK(p)'
    <2>1. CASE p = r
      BY <1>1, <2>1, EndedIsOK
    <2>2. CASE p # r
      <3>1. req'[p] = req[p] /\ RequestOK(p) /\ req[p].seen \subseteq issued
        BY <1>1, <2>2 DEF RequestOK
      <3>2. t \notin req[p].seen /\ (req[p].at \in {"read", "claimed"} => req[p].token # t)
        BY <1>2, <3>1 DEF RequestOK, RenewalOK
      <3>3. RenewalOK(p)'
        <4>1. req[p].at = "claimed" => req[p].token # old
          BY <1>0, <1>2, <2>2 DEF OneClaim
        <4>2. req[p].at \in {"read", "claimed"} /\ row'[req[p].token] # Null =>
                 row[req[p].token] # Null /\ row'[req[p].token].family = row[req[p].token].family
          BY <1>7, <1>8, <3>1, <3>2 DEF RequestOK, RenewalOK, TypeOK, Stored
        <4>3. QED
          BY <1>2, <1>4, <3>1, <4>1, <4>2 DEF RequestOK, RenewalOK, Opened
      <3>4. /\ Crossed(req[p].seen) => Crossed(req[p].seen)'
            /\ old \in req[p].seen => Crossed(req[p].seen)'
        <4>1. \A u \in issued : u \in issued' /\ parent'[u] = parent[u]
          BY <1>2, <1>9 DEF TypeOK
        <4>2. t \in issued' /\ parent'[t] = old
          BY <1>2, <1>9
        <4>3. QED
          BY <3>1, <4>1, <4>2 DEF Crossed
      <3>5. \A g \in Families : Of(g) \subseteq req[p].seen =>
                Of(g)' \subseteq req[p].seen \/ Crossed(req[p].seen)'
        BY <1>4, <3>4
      <3>6. ClosingOK(p)'
        BY <1>2, <3>1, <3>4, <3>5 DEF RequestOK, ClosingOK, Opened
      <3>7. ChangingOK(p)'
        <4>1. \A u \in req[p].seen \cap Stored' : u \in Stored /\ row'[u].family = row[u].family
          BY <1>7, <1>8, <3>2
        <4>2. QED
          BY <3>1, <3>4, <3>5, <4>1 DEF RequestOK, ChangingOK
      <3>8. QED
        BY <1>2, <3>1, <3>3, <3>6, <3>7 DEF RequestOK
    <2>3. QED
      BY <2>1, <2>2
  <1>18. QED
    BY <1>10, <1>11, <1>12, <1>13, <1>14, <1>15, <1>16, <1>17

\* Time passing, or nothing, changes none of the parts.
LEMMA TickIInv ==
    ASSUME IInv, Tick \/ UNCHANGED vars
    PROVE  IInv'
  <1> USE DEF IInv
  <1>1. UNCHANGED <<row, issued, parent, openedAt, password, req>> /\ now' \in Nat
    BY DEF Tick, vars, TypeOK
  <1>2. TypeOK'
    BY <1>1 DEF TypeOK
  <1>3. Stored' = Stored /\ Unrevoked' = Unrevoked /\ \A f \in Families : Of(f)' = Of(f)
    BY <1>1 DEF Stored, Unrevoked, Of
  <1>4. StoredIsIssued' /\ EndsFixed' /\ ParentSpent' /\ OneSuccessor' /\ OneLiveToken' /\ OneClaim'
    BY <1>1, <1>3
    DEF StoredIsIssued, EndsFixed, ParentSpent, OneSuccessor, OneLiveToken, OneClaim
  <1>5. ASSUME NEW p \in Requests PROVE RequestOK(p)'
    <2>1. RequestOK(p)
      OBVIOUS
    <2>2. RenewalOK(p)'
      BY <1>1, <1>3, <2>1 DEF RequestOK, RenewalOK, Opened
    <2>3. ClosingOK(p)'
      BY <1>1, <1>3, <2>1 DEF RequestOK, ClosingOK, Opened, Crossed
    <2>4. ChangingOK(p)'
      BY <1>1, <1>3, <2>1 DEF RequestOK, ChangingOK, Crossed
    <2>5. QED
      BY <1>1, <2>1, <2>2, <2>3, <2>4 DEF RequestOK
  <1>6. QED
    BY <1>2, <1>4, <1>5

LEMMA StepIInv == IInv /\ [Next]_vars => IInv'
  <1> SUFFICES ASSUME IInv, [Next]_vars PROVE IInv'
    OBVIOUS
  <1>1. CASE Tick \/ UNCHANGED vars
    BY <1>1, TickIInv
  <1>2. CASE \E r \in Requests, f \in Families, t \in Tokens : LoginOpen(r, f, t)
    BY <1>2, LoginOpenIInv
  <1>3. CASE \E r \in Requests, t \in Tokens : RotateCommit(r, t)
    BY <1>3, RotateCommitIInv
  <1>4. CASE \E r \in Requests : CloseEnd(r) \/ ChangeCommit(r)
    BY <1>4, RevokeStepIInv
  <1>5. CASE \E r \in Requests :
                \/ LoginVerify(r)
                \/ \E t \in Tokens : RotateRead(r, t)
                \/ RotateClaim(r)
                \/ \E t \in Tokens : LogoutRead(r, t)
                \/ CloseStart(r) \/ ChangeVerify(r) \/ ChangeStart(r) \/ Abort(r)
    BY <1>5, QuietStepIInv
  <1>6. QED
    BY <1>1, <1>2, <1>3, <1>4, <1>5 DEF Next

\* However many requests overlap, the tokens and what each request remembers of
\* them stay in step (session.service.ts).
THEOREM InductiveInvariant == Spec => []IInv
  BY InitIInv, StepIInv, PTL DEF Spec

-----------------------------------------------------------------------------
(* The properties *)

\* The types, one successor for each token, and no session past the end its
\* login set, however often it is renewed (session-policy.ts:43).
THEOREM SessionsEndOnTime == Spec => []Inv
  <1>1. IInv => Inv
    <2> SUFFICES ASSUME IInv PROVE Inv
      OBVIOUS
    <2>1. ASSUME NEW f \in Families, Active(f) PROVE now < openedAt[f] + MaxSession
      <3>1. PICK t \in Of(f) : row[t].expires > now
        BY <2>1 DEF Active
      <3>2. t \in Stored /\ row[t].family = f
        BY DEF Of, Unrevoked
      <3>3. row[t].expires \in Nat /\ openedAt[f] \in Nat
        BY <3>2, StoredIs DEF IInv
      <3>4. row[t].expires <= openedAt[f] + MaxSession
        BY <3>2 DEF IInv, EndsFixed
      <3>5. QED
        BY <3>1, <3>3, <3>4, SessionsAssumption DEF IInv, TypeOK
    <2>2. QED
      BY <2>1 DEF IInv, Inv, EndsOnTime
  <1>2. QED
    BY <1>1, InductiveInvariant, PTL

\* Of all the requests that present a session's token at once, at most one is
\* given the next: a session has one live token (session.service.ts:91).
THEOREM AlwaysOneLiveToken == Spec => []OneLiveToken
  <1>1. IInv => OneLiveToken
    BY DEF IInv
  <1>2. QED
    BY <1>1, InductiveInvariant, PTL

\* A logout or a presented old token leaves its session open only when a renewal
\* committed before it could revoke the token it had seen, and a password change
\* another session only when a renewal or a login crossed it; its own session is
\* left alone (session.service.ts:111, auth.service.ts:106).
THEOREM MissedOnlyWhatCrossed == Spec => MissOnlyCrossings
  <1> DEFINE CloseStep ==
                \A r \in Requests, f \in Families :
                    CloseEnd(r) /\ req[r].family = f /\ Of(f)' # {}
                    => \E t \in issued : parent[t] \in req[r].seen
             ChangeStep ==
                \A r \in Requests, f \in Families :
                    ChangeCommit(r) =>
                       IF f = req[r].family THEN Of(f)' = Of(f)
                       ELSE Of(f)' # {} =>
                               \/ \E t \in issued : parent[t] \in req[r].seen
                               \/ \A t \in req[r].seen \cap Stored : row[t].family # f
  <1>1. ASSUME TypeOK, NEW r \in Requests, NEW f \in Families, Revoke(req[r].seen)
        PROVE  Of(f)' = Of(f) \ req[r].seen
    <2>1. req[r].seen \in SUBSET Tokens
      BY <1>1 DEF TypeOK, Request
    <2>2. QED
      BY <1>1, <2>1, RevokeIs
  <1>2. IInv => CloseStep
    <2> SUFFICES ASSUME IInv, NEW r \in Requests, NEW f \in Families,
                        CloseEnd(r), req[r].family = f, Of(f)' # {}
                 PROVE  Crossed(req[r].seen)
      BY DEF Crossed
    <2>1. ClosingOK(r) /\ req[r].at = "closing"
      BY DEF IInv, RequestOK, CloseEnd
    <2>2. Of(f)' = Of(f) \ req[r].seen
      BY <1>1 DEF IInv, CloseEnd
    <2>3. QED
      BY <2>1, <2>2 DEF ClosingOK
  <1>3. IInv => ChangeStep
    <2> SUFFICES ASSUME IInv, NEW r \in Requests, NEW f \in Families, ChangeCommit(r)
                 PROVE  IF f = req[r].family THEN Of(f)' = Of(f)
                        ELSE Of(f)' # {} =>
                                \/ Crossed(req[r].seen)
                                \/ \A t \in req[r].seen \cap Stored : row[t].family # f
      BY DEF Crossed
    <2>1. ChangingOK(r) /\ req[r].at = "changing"
      BY DEF IInv, RequestOK, ChangeCommit
    <2>2. Of(f)' = Of(f) \ req[r].seen
      BY <1>1 DEF IInv, ChangeCommit
    <2>3. CASE f = req[r].family
      <3>1. \A t \in Of(f) : t \notin req[r].seen
        BY <2>1, <2>3 DEF ChangingOK, Of, Unrevoked
      <3>2. QED
        BY <2>2, <2>3, <3>1
    <2>4. CASE f # req[r].family
      BY <2>1, <2>2, <2>4 DEF ChangingOK
    <2>5. QED
      BY <2>3, <2>4
  <1>4. QED
    BY <1>2, <1>3, InductiveInvariant, PTL
    DEF MissOnlyCrossings, CloseMissesOnlyRenewals, ChangeMissesOnlyCrossings

-----------------------------------------------------------------------------
(* Sessions implements SessionBook *)

OpenSessions == {f \in Families : Of(f) # {}}
ClosedSessions == {f \in Families : openedAt[f] # Null /\ Of(f) = {}}

\* A session with a live token was opened.
LEMMA OpenWasOpened ==
    ASSUME IInv, NEW f \in OpenSessions
    PROVE  openedAt[f] \in Nat /\ openedAt[f] # Null
  <1>1. PICK t \in Stored : row[t].family = f
    BY DEF OpenSessions, Of, Unrevoked
  <1>2. QED
    BY <1>1, StoredIs, NullAssumption DEF IInv

\* A step after which each session has a live token exactly if it had one.
LEMMA SameSessions ==
    ASSUME \A f \in Families : Of(f)' = {} <=> Of(f) = {}, openedAt' = openedAt
    PROVE  UNCHANGED Book!vars
  BY DEF Book!vars

\* Revoking rows closes the sessions that keep none.
LEMMA RevokeCloses ==
    ASSUME IInv, NEW S \in SUBSET Tokens, Revoke(S), openedAt' = openedAt
    PROVE  Book!Next
  <1>0. PICK G : G = {f \in OpenSessions : Of(f) \subseteq S}
    OBVIOUS
  <1>1. \A f \in Families : Of(f)' = Of(f) \ S
    BY RevokeIs DEF IInv
  <1>2. G \in SUBSET Families /\ G \subseteq OpenSessions
    BY <1>0 DEF OpenSessions
  <1>3. OpenSessions' = OpenSessions \ G
    BY <1>0, <1>1 DEF OpenSessions
  <1>4. ClosedSessions' = ClosedSessions \cup G
    BY <1>0, <1>1, OpenWasOpened DEF OpenSessions, ClosedSessions
  <1>5. Book!Close(G)
    BY <1>2, <1>3, <1>4 DEF Book!Close, OpenSessions, ClosedSessions
  <1>6. QED
    BY <1>2, <1>5 DEF Book!Next

\* A login opens its session and closes those whose last live row it deletes.
LEMMA LoginOpens ==
    ASSUME IInv, NEW r \in Requests, NEW f \in Families, NEW t \in Tokens, LoginOpen(r, f, t)
    PROVE  Book!Next
  <1>0. PICK G : G = {g \in OpenSessions : Of(g)' = {}}
    OBVIOUS
  <1>1. /\ t \notin Stored /\ t \in Unrevoked'
        /\ row'[t] = NewRow(f, now, now + MaxSession)
        /\ \A u \in Unrevoked' : u = t \/ (u \in Unrevoked /\ row'[u] = row[u])
    BY LoginIs DEF IInv
  <1>2. row'[t].family = f
    BY <1>1, NewRowIs, SessionsAssumption DEF IInv, TypeOK
  <1>3. t \in Of(f)' /\ \A g \in Families : g # f => Of(g)' \subseteq Of(g)
    BY <1>1, <1>2 DEF Of
  <1>4. openedAt[f] = Null /\ openedAt' = [openedAt EXCEPT ![f] = now] /\ now # Null
    BY NullAssumption DEF LoginOpen, IInv, TypeOK
  <1>5. f \notin OpenSessions /\ f \notin ClosedSessions
    BY <1>4, OpenWasOpened DEF ClosedSessions
  <1>6. G \in SUBSET Families /\ G \subseteq OpenSessions
    BY <1>0 DEF OpenSessions
  <1>7. OpenSessions' = (OpenSessions \ G) \cup {f}
    BY <1>0, <1>3, <1>5 DEF OpenSessions
  <1>8. ClosedSessions' = ClosedSessions \cup G
    <2>1. openedAt'[f] # Null /\ \A g \in Families : g # f => openedAt'[g] = openedAt[g]
      BY <1>4 DEF IInv, TypeOK
    <2>2. \A g \in Families : g \in ClosedSessions' <=> g \in ClosedSessions \/ g \in G
      BY <1>0, <1>3, <1>4, <1>5, <2>1, OpenWasOpened DEF OpenSessions, ClosedSessions
    <2>3. QED
      BY <1>6, <2>2 DEF ClosedSessions
  <1>9. Book!Login(f, G)
    BY <1>5, <1>6, <1>7, <1>8 DEF Book!Login, OpenSessions, ClosedSessions
  <1>10. QED
    BY <1>6, <1>9 DEF Book!Next

\* A session is opened by a login only, stays open while it is renewed, and once
\* closed is never open again, whichever renewals and closings overlap.
THEOREM ImplementsBook == Spec => ImplementsSessionBook
  <1>1. Init => Book!Init
    BY DEF Init, Book!Init, Of, Unrevoked, Stored
  <1>2. IInv /\ [Next]_vars => [Book!Next]_(Book!vars)
    <2> SUFFICES ASSUME IInv, [Next]_vars PROVE Book!Next \/ UNCHANGED Book!vars
      OBVIOUS
    <2>1. ASSUME row' = row, openedAt' = openedAt PROVE UNCHANGED Book!vars
      <3>1. \A f \in Families : Of(f)' = Of(f)
        BY <2>1 DEF Of, Unrevoked, Stored
      <3>2. QED
        BY <2>1, <3>1, SameSessions
    <2>2. ASSUME NEW r \in Requests, NEW f \in Families, NEW t \in Tokens, LoginOpen(r, f, t)
          PROVE  Book!Next
      BY <2>2, LoginOpens
    <2>3. ASSUME NEW r \in Requests, NEW t \in Tokens, RotateCommit(r, t)
          PROVE  UNCHANGED Book!vars
      <3>1. PICK old, f : old = req[r].token /\ f = req[r].family
        OBVIOUS
      <3>2. RenewalOK(r) /\ openedAt' = openedAt
        BY <2>3 DEF IInv, RequestOK, RotateCommit
      <3>3. /\ f \in Families /\ old \in Of(f)
            /\ Of(f)' = (Of(f) \ {old}) \cup {t}
            /\ \A g \in Families : g # f => Of(g)' = Of(g)
        BY <2>3, <3>1, <3>2, RotateIs DEF IInv
      <3>4. QED
        BY <3>2, <3>3, SameSessions
    <2>4. ASSUME NEW r \in Requests, CloseEnd(r) \/ ChangeCommit(r)
          PROVE  Book!Next
      <3>1. Revoke(req[r].seen) /\ openedAt' = openedAt /\ req[r].seen \in SUBSET Tokens
        BY <2>4 DEF CloseEnd, ChangeCommit, IInv, TypeOK, Request
      <3>2. QED
        BY <3>1, RevokeCloses
    <2>5. ASSUME NEW r \in Requests,
                 \/ LoginVerify(r) \/ \E t \in Tokens : RotateRead(r, t)
                 \/ RotateClaim(r) \/ \E t \in Tokens : LogoutRead(r, t)
                 \/ CloseStart(r) \/ ChangeVerify(r) \/ ChangeStart(r) \/ Abort(r)
          PROVE  row' = row /\ openedAt' = openedAt
      BY <2>5
      DEF LoginVerify, RotateRead, RotateClaim, LogoutRead, CloseStart, ChangeVerify,
          ChangeStart, Abort
    <2>6. CASE Tick \/ UNCHANGED vars
      BY <2>1, <2>6 DEF Tick, vars
    <2>7. QED
      BY <2>1, <2>2, <2>3, <2>4, <2>5, <2>6 DEF Next
  <1>3. QED
    BY <1>1, <1>2, InductiveInvariant, PTL DEF Spec, ImplementsSessionBook, Book!Spec


-----------------------------------------------------------------------------
(* What a step of the backend does to the tokens *)

\* Nothing that is over begins again, and of the tokens that nobody exchanged
\* only old may be exchanged.
RowsStep(old) ==
    /\ issued \subseteq issued'
    /\ \A f \in Families : openedAt[f] \in Nat => openedAt'[f] \in Nat
    /\ \A f \in Families : openedAt[f] \in Nat /\ Of(f) = {} => Of(f)' = {}
    /\ \A t \in issued \ {old} : Spent(t) => Spent(t)'
    /\ \A t \in issued \ {old}, f \in Families :
          /\ openedAt[f] \in Nat
          /\ row[t] # Null => row[t].family = f
          /\ t \in Unrevoked \/ Of(f) = {}
          => t \in Unrevoked' \/ Of(f)' = {}

LEMMA QuietRows ==
    ASSUME UNCHANGED <<row, issued, openedAt>>, NEW old
    PROVE  RowsStep(old)
  <1>1. Stored' = Stored /\ Unrevoked' = Unrevoked /\ \A f : Of(f)' = Of(f)
    BY DEF Stored, Unrevoked, Of
  <1>2. \A t : Spent(t)' <=> Spent(t)
    BY <1>1 DEF Spent
  <1>3. QED
    BY <1>1, <1>2 DEF RowsStep

\* A session has at most one live token: when it is revoked, it is over.
LEMMA RevokeRows ==
    ASSUME IInv, NEW S \in SUBSET Tokens, Revoke(S), UNCHANGED <<issued, openedAt>>, NEW old
    PROVE  RowsStep(old)
  <1>0. TypeOK /\ StoredIsIssued /\ EndsFixed /\ OneLiveToken
    BY DEF IInv
  <1>1. /\ Stored' = Stored
        /\ \A t \in Stored : row'[t].family = row[t].family
        /\ Unrevoked' = Unrevoked \ S
        /\ \A f \in Families : Of(f)' = Of(f) \ S
    BY <1>0, RevokeIs
  <1>2. \A t \in Stored : row[t].family \in Families /\ row[t].revoked \in BOOLEAN
    BY <1>0, StoredIs
  <1>3. \A f \in Families : \A t \in Of(f) : t \in S => Of(f)' = {}
    BY <1>0, <1>1 DEF OneLiveToken
  <1>4. ASSUME NEW t \in issued, Spent(t) PROVE Spent(t)'
    <2>1. CASE t \in Stored /\ t \in Unrevoked
      <3>1. t \in Of(row[t].family) /\ row[t].family \in Families
        BY <1>2, <2>1 DEF Of
      <3>2. row'[t].revoked /\ t \in Stored' => t \in S
        BY <1>1, <2>1 DEF Unrevoked
      <3>3. QED
        BY <1>1, <1>3, <2>1, <3>1, <3>2 DEF Spent
    <2>2. CASE t \in Stored /\ t \notin Unrevoked
      BY <1>1, <1>2, <1>4, <2>2 DEF Spent, Unrevoked
    <2>3. CASE t \notin Stored
      BY <1>1, <2>3 DEF Spent
    <2>4. QED
      BY <2>1, <2>2, <2>3
  <1>5. ASSUME NEW t \in issued, NEW f \in Families, row[t] # Null => row[t].family = f,
               t \in Unrevoked \/ Of(f) = {}
        PROVE  t \in Unrevoked' \/ Of(f)' = {}
    <2>1. CASE t \in Unrevoked
      <3>1. t \in Of(f)
        BY <1>5, <2>1 DEF Of, Unrevoked, Stored
      <3>2. QED
        BY <1>1, <1>3, <2>1, <3>1
    <2>2. CASE Of(f) = {}
      BY <1>1, <2>2
    <2>3. QED
      BY <1>5, <2>1, <2>2
  <1>6. \A f \in Families : Of(f) = {} => Of(f)' = {}
    BY <1>1
  <1>7. QED
    BY <1>4, <1>5, <1>6 DEF RowsStep

LEMMA LoginRows ==
    ASSUME IInv, NEW r \in Requests, NEW g \in Families, NEW n \in Tokens, LoginOpen(r, g, n),
           NEW old
    PROVE  RowsStep(old) /\ n \notin issued /\ issued' = issued \cup {n} /\ Spent(n)'
  <1>0. TypeOK /\ StoredIsIssued /\ EndsFixed /\ OneLiveToken
    BY DEF IInv
  <1>1. /\ n \notin Stored /\ n \in Unrevoked'
        /\ row'[n] = NewRow(g, now, now + MaxSession)
        /\ \A u \in Tokens : u # n => row'[u] = row[u] \/ row'[u] = Null
        /\ \A u \in Unrevoked' : u = n \/ (u \in Unrevoked /\ row'[u] = row[u])
    BY <1>0, LoginIs
  <1>2. row'[n].family = g
    BY <1>1, NewRowIs, SessionsAssumption DEF IInv, TypeOK
  <1>3. /\ openedAt[g] = Null /\ openedAt' = [openedAt EXCEPT ![g] = now]
        /\ n \notin issued /\ issued' = issued \cup {n}
    BY DEF LoginOpen
  <1>4. g \in Families /\ openedAt[g] \notin Nat
    BY <1>3, NullAssumption
  <1>5. \A f \in Families : openedAt[f] \in Nat => openedAt'[f] \in Nat /\ Of(f)' \subseteq Of(f)
    BY <1>0, <1>1, <1>2, <1>3, <1>4 DEF Of, TypeOK
  <1>6. Spent(n)'
    BY <1>1 DEF Spent, Unrevoked
  <1>7. ASSUME NEW t \in issued, Spent(t) PROVE Spent(t)'
    <2>1. t # n /\ t \in Tokens
      BY <1>0, <1>3 DEF TypeOK
    <2>2. CASE t \in Stored' /\ row'[t].revoked
      <3>1. t \in Stored /\ row'[t] = row[t]
        BY <1>1, <2>1, <2>2 DEF Stored
      <3>2. Of(row[t].family) = {}
        BY <1>7, <2>2, <3>1 DEF Spent
      <3>3. row[t].family \in Families /\ openedAt[row[t].family] \in Nat
        BY <1>0, <3>1, StoredIs
      <3>4. QED
        BY <1>5, <3>1, <3>2, <3>3 DEF Spent
    <2>3. QED
      BY <2>2 DEF Spent
  <1>8. ASSUME NEW t \in issued, NEW f \in Families, openedAt[f] \in Nat,
               row[t] # Null => row[t].family = f, t \in Unrevoked \/ Of(f) = {}
        PROVE  t \in Unrevoked' \/ Of(f)' = {}
    <2>1. t # n /\ t \in Tokens
      BY <1>0, <1>3 DEF TypeOK
    <2>2. CASE t \in Unrevoked /\ row'[t] = row[t]
      BY <2>2 DEF Unrevoked, Stored
    <2>3. CASE t \in Unrevoked /\ row'[t] = Null
      <3>1. t \in Of(f) /\ t \notin Of(f)'
        BY <1>8, <2>3 DEF Of, Unrevoked, Stored
      <3>2. QED
        BY <1>0, <1>5, <1>8, <3>1 DEF OneLiveToken
    <2>4. CASE Of(f) = {}
      BY <1>5, <1>8, <2>4
    <2>5. QED
      BY <1>1, <1>8, <2>1, <2>2, <2>3, <2>4
  <1>9. QED
    BY <1>3, <1>5, <1>6, <1>7, <1>8 DEF RowsStep

LEMMA RotateRows ==
    ASSUME IInv, NEW r \in Requests, NEW n \in Tokens, RotateCommit(r, n)
    PROVE  /\ RowsStep(req[r].token) /\ n \notin issued /\ issued' = issued \cup {n}
           /\ Spent(n)'
  <1>0. TypeOK /\ StoredIsIssued /\ EndsFixed /\ OneLiveToken /\ RenewalOK(r)
    BY DEF IInv, RequestOK
  <1> DEFINE old == req[r].token
             g == req[r].family
  <1>1. /\ g \in Families /\ old \in Of(g) /\ n # old /\ n \notin Stored
        /\ n \in Unrevoked' /\ row'[n].family = g
        /\ old \in Stored' /\ old \notin Unrevoked'
        /\ \A u \in Tokens \ {old, n} : row'[u] = row[u]
        /\ Unrevoked' = (Unrevoked \ {old}) \cup {n}
        /\ \A f \in Families : f # g => Of(f)' = Of(f)
    BY <1>0, RotateIs
  <1>2. n \notin issued /\ issued' = issued \cup {n} /\ openedAt' = openedAt
    BY DEF RotateCommit
  <1> HIDE DEF old, g
  <1>3. Of(g) # {}
    BY <1>1
  <1>4. Spent(n)'
    BY <1>1 DEF Spent, Unrevoked
  <1>5. ASSUME NEW t \in issued \ {old}, Spent(t) PROVE Spent(t)'
    <2>1. t # n /\ t # old /\ t \in Tokens /\ row'[t] = row[t]
      BY <1>0, <1>1, <1>2 DEF TypeOK
    <2>2. CASE t \in Stored' /\ row'[t].revoked
      <3>1. t \in Stored /\ Of(row[t].family) = {}
        BY <1>5, <2>1, <2>2 DEF Stored, Spent
      <3>2. row[t].family \in Families
        BY <1>0, <3>1, StoredIs
      <3>3. Of(row[t].family)' = {}
        BY <1>1, <1>3, <2>1, <3>1, <3>2
      <3>4. QED
        BY <2>1, <3>3 DEF Spent
    <2>3. QED
      BY <2>2 DEF Spent
  <1>6. \A f \in Families : Of(f) = {} => Of(f)' = {}
    BY <1>1, <1>3
  <1>7. \A t \in issued \ {old}, f \in Families :
           t \in Unrevoked \/ Of(f) = {} => t \in Unrevoked' \/ Of(f)' = {}
    BY <1>1, <1>6
  <1>8. RowsStep(old)
    BY <1>2, <1>5, <1>6, <1>7 DEF RowsStep
  <1>9. QED
    BY <1>2, <1>4, <1>8 DEF old

-----------------------------------------------------------------------------
(* The requests of a tab *)

LEMMA NamesAre ==
    ASSUME PanelAssumption, NEW i \in Tabs, NEW j \in Tabs
    PROVE  /\ Renew(i) \in PanelRequests /\ Renew(i) \in Requests
           /\ Leave(i) \in PanelRequests /\ Leave(i) \in Requests
           /\ SignIn(i) \in PanelRequests /\ SignIn(i) \in Requests
           /\ Renew(i) # Leave(j) /\ Renew(i) # SignIn(j) /\ Leave(i) # SignIn(j)
           /\ Renew(i)[1] = i /\ Leave(i)[1] = i /\ SignIn(i)[1] = i
           /\ Renew(i) = Renew(j) => i = j
           /\ Leave(i) = Leave(j) => i = j
           /\ SignIn(i) = SignIn(j) => i = j
  BY DEF PanelAssumption, PanelRequests, Renew, Leave, SignIn

\* Every request of the backend but r is as it was.
OthersWait(r) == \A p \in Requests \ {r} : req'[p] = req[p]

LEMMA StepWaits ==
    ASSUME IInv, NEW r \in Requests, NEW q, Step(r, q)
    PROVE  OthersWait(r) /\ req'[r] = q
  BY DEF IInv, TypeOK, Step, OthersWait

\* A request that reads a token of the cookie.
LEMMA RotateReadIs ==
    ASSUME IInv, NEW r \in Requests, NEW t, RotateRead(r, t)
    PROVE  /\ OthersWait(r) /\ UNCHANGED <<row, issued, openedAt>>
           /\ t \in Stored
           /\ \/ /\ row[t].revoked
                 /\ req'[r].at = "close" /\ req'[r].family = row[t].family
              \/ /\ t \in Unrevoked
                 /\ req'[r].at = "read" /\ req'[r].token = t
  <1>1. /\ t \in Stored /\ UNCHANGED <<row, issued, openedAt>>
    BY Zenon DEF RotateRead
  <1>2. \/ /\ row[t].revoked
           /\ Step(r, [Idle EXCEPT !.at = "close", !.family = row[t].family])
        \/ /\ ~row[t].revoked
           /\ Step(r, [Idle EXCEPT !.at = "read", !.token = t,
                                   !.family = row[t].family, !.started = now])
    BY Zenon DEF RotateRead
  <1>3. CASE /\ row[t].revoked
             /\ Step(r, [Idle EXCEPT !.at = "close", !.family = row[t].family])
    <2>1. PICK q : q = [Idle EXCEPT !.at = "close", !.family = row[t].family]
      OBVIOUS
    <2>2. q.at = "close" /\ q.family = row[t].family
      BY <2>1 DEF Idle
    <2>3. OthersWait(r) /\ req'[r] = q
      BY <1>3, <2>1, StepWaits
    <2>4. QED
      BY <1>1, <1>3, <2>2, <2>3
  <1>4. CASE /\ ~row[t].revoked
             /\ Step(r, [Idle EXCEPT !.at = "read", !.token = t,
                                     !.family = row[t].family, !.started = now])
    <2>1. PICK q : q = [Idle EXCEPT !.at = "read", !.token = t,
                                    !.family = row[t].family, !.started = now]
      OBVIOUS
    <2>2. q.at = "read" /\ q.token = t
      BY <2>1 DEF Idle
    <2>3. OthersWait(r) /\ req'[r] = q
      BY <1>4, <2>1, StepWaits
    <2>4. QED
      BY <1>1, <1>4, <2>2, <2>3 DEF Unrevoked
  <1>5. QED
    BY <1>2, <1>3, <1>4

LEMMA RotateClaimIs ==
    ASSUME IInv, NEW r \in Requests, RotateClaim(r)
    PROVE  /\ OthersWait(r) /\ UNCHANGED <<row, issued, openedAt>>
           /\ req[r].at = "read"
           /\ \/ /\ req[r].token \in Unrevoked
                 /\ req'[r].at = "claimed" /\ req'[r].token = req[r].token
                 /\ req'[r].family = req[r].family
              \/ /\ req[r].token \notin Unrevoked
                 /\ req'[r].at = "close" /\ req'[r].family = req[r].family
  <1>1. req[r].at = "read" /\ UNCHANGED <<row, issued, openedAt>>
    BY Zenon DEF RotateClaim
  <1>2. \/ /\ req[r].token \in Unrevoked
           /\ Step(r, [req[r] EXCEPT !.at = "claimed"])
        \/ /\ req[r].token \notin Unrevoked
           /\ Step(r, [Idle EXCEPT !.at = "close", !.family = req[r].family])
    BY Zenon DEF RotateClaim
  <1>3. CASE /\ req[r].token \in Unrevoked
             /\ Step(r, [req[r] EXCEPT !.at = "claimed"])
    <2>1. req[r] \in Request
      BY DEF IInv, TypeOK
    <2>2. PICK q : q = [req[r] EXCEPT !.at = "claimed"]
      OBVIOUS
    <2>3. q.at = "claimed" /\ q.token = req[r].token /\ q.family = req[r].family
      BY <2>1, <2>2 DEF Request
    <2>4. OthersWait(r) /\ req'[r] = q
      BY <1>3, <2>2, StepWaits
    <2>5. QED
      BY <1>1, <1>3, <2>3, <2>4
  <1>4. CASE /\ req[r].token \notin Unrevoked
             /\ Step(r, [Idle EXCEPT !.at = "close", !.family = req[r].family])
    <2>1. PICK q : q = [Idle EXCEPT !.at = "close", !.family = req[r].family]
      OBVIOUS
    <2>2. q.at = "close" /\ q.family = req[r].family
      BY <2>1 DEF Idle
    <2>3. OthersWait(r) /\ req'[r] = q
      BY <1>4, <2>1, StepWaits
    <2>4. QED
      BY <1>1, <1>4, <2>2, <2>3
  <1>5. QED
    BY <1>2, <1>3, <1>4

LEMMA CloseStartIs ==
    ASSUME IInv, NEW r \in Requests, CloseStart(r)
    PROVE  /\ OthersWait(r) /\ UNCHANGED <<row, issued, openedAt>>
           /\ req[r].at = "close"
           /\ req'[r].at = "closing" /\ req'[r].family = req[r].family
  <1>1. /\ req[r].at = "close" /\ UNCHANGED <<row, issued, openedAt>>
        /\ Step(r, [req[r] EXCEPT !.at = "closing", !.seen = Of(req[r].family)])
    BY Zenon DEF CloseStart
  <1>2. req[r] \in Request
    BY DEF IInv, TypeOK
  <1>3. PICK q : q = [req[r] EXCEPT !.at = "closing", !.seen = Of(req[r].family)]
    OBVIOUS
  <1>4. q.at = "closing" /\ q.family = req[r].family
    BY <1>2, <1>3 DEF Request
  <1>5. OthersWait(r) /\ req'[r] = q
    BY <1>1, <1>3, StepWaits
  <1>6. QED
    BY <1>1, <1>4, <1>5

\* The end of a closing and a failure.
LEMMA CloseEndIs ==
    ASSUME IInv, NEW r \in Requests, CloseEnd(r)
    PROVE  OthersWait(r) /\ RowsStep(Null) /\ req'[r] = Idle
  <1>1. /\ req[r].at = "closing" /\ Revoke(req[r].seen) /\ Step(r, Idle)
        /\ UNCHANGED <<issued, openedAt>>
    BY Zenon DEF CloseEnd
  <1>2. req[r].seen \in SUBSET Tokens
    BY DEF IInv, TypeOK, Request
  <1>3. RowsStep(Null)
    BY <1>1, <1>2, RevokeRows
  <1>4. QED
    BY <1>1, <1>3, StepWaits

LEMMA AbortIs ==
    ASSUME IInv, NEW r \in Requests, Abort(r)
    PROVE  OthersWait(r) /\ RowsStep(Null) /\ req'[r] = Idle
  <1>1. Step(r, Idle) /\ UNCHANGED <<row, issued, openedAt>>
    BY Zenon DEF Abort
  <1>2. QED
    BY <1>1, StepWaits, QuietRows

\* A logout that found its token, and a login before it opens its session.
LEMMA LooksIs ==
    ASSUME IInv, NEW r \in Requests, LoginVerify(r) \/ \E t : LogoutRead(r, t)
    PROVE  OthersWait(r) /\ RowsStep(Null)
  <1>1. UNCHANGED <<row, issued, openedAt>> /\ \E q : Step(r, q)
    BY Zenon DEF LoginVerify, LogoutRead
  <1>2. QED
    BY <1>1, StepWaits, QuietRows

LEMMA CommitIs ==
    ASSUME IInv, NEW r \in Requests, NEW n \in Tokens, RotateCommit(r, n)
    PROVE  OthersWait(r) /\ req[r].at = "claimed" /\ req'[r] = Idle
  BY StepWaits, Zenon DEF RotateCommit

LEMMA OpenIs ==
    ASSUME IInv, NEW r \in Requests, NEW f \in Families, NEW n \in Tokens, LoginOpen(r, f, n)
    PROVE  OthersWait(r) /\ req'[r] = Idle
  BY StepWaits, Zenon DEF LoginOpen

-----------------------------------------------------------------------------
(* The exchanges with the backend *)

NetTyped == net \in [PanelRequests -> Exchange] /\ cookie \in Tokens \cup {Null}

\* Every exchange but that of r is as it was.
OthersHang(r) ==
    /\ net' \in [PanelRequests -> Exchange]
    /\ \A p \in PanelRequests \ {r} : net'[p] = net[p]

LEMMA NoExchangeIs ==
    /\ NoExchange \in Exchange
    /\ NoExchange.at = "none" /\ NoExchange.dropped = FALSE
    /\ NoExchange.cookie = Null /\ NoExchange.answer = "none" /\ NoExchange.session = Null
  BY DEF NoExchange, Exchange

LEMMA NetIs ==
    ASSUME NetTyped, NEW r \in PanelRequests, NEW e \in Exchange, net' = [net EXCEPT ![r] = e]
    PROVE  OthersHang(r) /\ net'[r] = e
  BY DEF NetTyped, OthersHang

LEMMA SendIs ==
    ASSUME NetTyped, NEW r \in PanelRequests, Send(r)
    PROVE  /\ OthersHang(r)
           /\ net'[r].at = "sent" /\ ~net'[r].dropped /\ net'[r].cookie = cookie
  <1>1. PICK n \in Exchange : n = NoExchange /\ n.dropped = FALSE
    BY NoExchangeIs
  <1>2. PICK e : e = [n EXCEPT !.at = "sent", !.cookie = cookie]
    OBVIOUS
  <1>3. e \in Exchange /\ e.at = "sent" /\ e.dropped = n.dropped /\ e.cookie = cookie
    BY <1>2 DEF NetTyped, Exchange
  <1>4. net' = [net EXCEPT ![r] = e]
    BY <1>1, <1>2, Zenon DEF Send
  <1>5. QED
    BY <1>1, <1>3, <1>4, NetIs

LEMMA WorkingIs ==
    ASSUME NetTyped, NEW r \in PanelRequests, Working(r)
    PROVE  /\ OthersHang(r)
           /\ net'[r].at = "working" /\ net'[r].dropped = net[r].dropped
  <1>1. PICK n \in Exchange : n = net[r]
    BY DEF NetTyped
  <1>2. PICK e : e = [n EXCEPT !.at = "working", !.cookie = Null]
    OBVIOUS
  <1>3. e \in Exchange /\ e.at = "working" /\ e.dropped = n.dropped
    BY <1>2 DEF Exchange
  <1>4. net' = [net EXCEPT ![r] = e]
    BY <1>1, <1>2 DEF Working, NetTyped
  <1>5. QED
    BY <1>1, <1>3, <1>4, NetIs

\* An answer on its way, if its page is still there.
LEMMA ArriveIs ==
    ASSUME NetTyped, NEW r \in PanelRequests, NEW e \in Exchange, Arrive(r, e)
    PROVE  /\ OthersHang(r)
           /\ net[r].dropped => net'[r] = NoExchange
           /\ ~net[r].dropped => net'[r] = e
  BY NoExchangeIs DEF NetTyped, OthersHang, Arrive

LEMMA AnswerIs ==
    ASSUME NetTyped, NEW r \in PanelRequests, NEW a \in {"refused", "done", "error"},
           Answer(r, a)
    PROVE  /\ OthersHang(r)
           /\ net[r].dropped => net'[r] = NoExchange
           /\ ~net[r].dropped => net'[r].at = "answered" /\ net'[r].answer = a /\ ~net'[r].dropped
  <1>1. PICK n \in Exchange : n = NoExchange /\ n.dropped = FALSE
    BY NoExchangeIs
  <1>2. PICK e : e = [n EXCEPT !.at = "answered", !.answer = a]
    OBVIOUS
  <1>3. e \in Exchange /\ e.at = "answered" /\ e.answer = a /\ e.dropped = n.dropped
    BY <1>2 DEF Exchange
  <1>4. Arrive(r, e)
    BY <1>1, <1>2, Zenon DEF Answer
  <1>5. QED
    BY <1>1, <1>3, <1>4, ArriveIs

LEMMA AnswerTokenIs ==
    ASSUME NetTyped, NEW r \in PanelRequests, NEW t \in Tokens, NEW f \in Families \cup {Null},
           AnswerToken(r, t, f)
    PROVE  /\ OthersHang(r)
           /\ net[r].dropped => net'[r] = NoExchange
           /\ ~net[r].dropped => /\ net'[r].at = "answered" /\ net'[r].answer = t
                                 /\ net'[r].session = f /\ ~net'[r].dropped
  <1>1. PICK n \in Exchange : n = NoExchange /\ n.dropped = FALSE
    BY NoExchangeIs
  <1>2. PICK e : e = [n EXCEPT !.at = "answered", !.answer = t, !.session = f]
    OBVIOUS
  <1>3. /\ e \in Exchange /\ e.at = "answered" /\ e.answer = t /\ e.session = f
        /\ e.dropped = n.dropped
    BY <1>2 DEF Exchange
  <1>4. Arrive(r, e)
    BY <1>1, <1>2, Zenon DEF AnswerToken
  <1>5. QED
    BY <1>1, <1>3, <1>4, ArriveIs

-----------------------------------------------------------------------------
(* Types *)

\* Everything of PanelTypeOK but the backend, the exchanges and the cookie.
PageTyped ==
    /\ hint \in BOOLEAN
    /\ turn \in Tabs \cup {Null}
    /\ tab \in [Tabs -> Tab]
    /\ lost \in BOOLEAN
    /\ faults \in 0..MaxFaults

LEMMA TypesAre == PanelTypeOK <=> TypeOK /\ NetTyped /\ PageTyped
  BY DEF PanelTypeOK, NetTyped, PageTyped

LEMMA TypesAreNext == PanelTypeOK' <=> TypeOK' /\ NetTyped' /\ PageTyped'
  BY DEF PanelTypeOK, NetTyped, PageTyped

\* A tab that changes.
LEMMA TabIs ==
    ASSUME PageTyped, NEW i \in Tabs, NEW x \in Tab, tab' = [tab EXCEPT ![i] = x]
    PROVE  tab' \in [Tabs -> Tab]
  BY DEF PageTyped

LEMMA TabOf ==
    ASSUME PageTyped, NEW i \in Tabs
    PROVE  /\ tab[i] \in Tab
           /\ tab[i].status \in {"closed", "restoring", "authenticated", "anonymous"}
           /\ tab[i].session \in Families \cup {Null}
           /\ tab[i].waits \subseteq Waiters
  BY DEF PageTyped, Tab

LEMMA FreshTab ==
    ASSUME NEW st \in {"closed", "restoring", "authenticated", "anonymous"},
           NEW se \in Families \cup {Null}, NEW w \in SUBSET Waiters
    PROVE  [status |-> st, session |-> se, waits |-> w] \in Tab
  BY DEF Tab

\* The screen changes at once, and the logout is sent.
LEMMA EndSessionIs ==
    ASSUME PanelAssumption, NetTyped, PageTyped, NEW i \in Tabs, EndSession(i)
    PROVE  /\ OthersHang(Leave(i)) /\ tab' \in [Tabs -> Tab] /\ hint' = FALSE
  <1>1. Send(Leave(i)) /\ hint' = FALSE
        /\ tab' = [tab EXCEPT ![i].status = "anonymous", ![i].session = Null]
    BY Zenon DEF EndSession
  <1>2. OthersHang(Leave(i))
    BY <1>1, NamesAre, SendIs
  <1>3. tab' \in [Tabs -> Tab]
    <2>1. PICK o \in Tab : o = tab[i]
      BY TabOf
    <2>2. [o EXCEPT !.status = "anonymous", !.session = Null] \in Tab
      BY DEF Tab
    <2>3. tab' = [tab EXCEPT ![i] = [o EXCEPT !.status = "anonymous", !.session = Null]]
      BY <1>1, <2>1 DEF PageTyped
    <2>4. QED
      BY <2>2, <2>3, TabIs
  <1>4. QED
    BY <1>1, <1>2, <1>3

\* Somebody more waits for the renewal.
LEMMA WaitIs ==
    ASSUME PageTyped, NEW i \in Tabs, NEW w \in Waiters,
           tab' = [tab EXCEPT ![i].waits = @ \cup {w}]
    PROVE  tab' \in [Tabs -> Tab]
  <1>1. PICK o \in Tab : o = tab[i]
    BY TabOf
  <1>2. [o EXCEPT !.waits = o.waits \cup {w}] \in Tab
    BY DEF Tab
  <1>3. tab' = [tab EXCEPT ![i] = [o EXCEPT !.waits = o.waits \cup {w}]]
    BY <1>1 DEF PageTyped
  <1>4. QED
    BY <1>2, <1>3, TabIs

\* Those who waited go on: the renewal is over, and a logout may follow.
LEMMA ResumeIs ==
    ASSUME PanelAssumption, NetTyped, PageTyped, NEW i \in Tabs,
           NEW f \in Families \cup {Null}, NEW failed \in BOOLEAN,
           cookie' \in Tokens \cup {Null}, Resume(i, f, failed)
    PROVE  /\ net' \in [PanelRequests -> Exchange]
           /\ net'[Renew(i)] = NoExchange
           /\ \A p \in PanelRequests \ {Renew(i), Leave(i)} : net'[p] = net[p]
           /\ tab' \in [Tabs -> Tab]
           /\ hint' \in BOOLEAN
  <1>0. /\ Renew(i) \in PanelRequests /\ Leave(i) \in PanelRequests /\ Renew(i) # Leave(i)
    BY NamesAre
  <1> DEFINE w == tab[i].waits
             over == ~failed /\ f = Null
             told == "retry" \in w /\ ~failed /\ (f = Null \/ ~Active(f))
             st == IF "restore" \in w
                   THEN IF failed \/ over THEN "anonymous" ELSE "authenticated"
                   ELSE IF told THEN "anonymous" ELSE tab[i].status
             se == IF told THEN Null
                   ELSE IF told \/ failed \/ over THEN tab[i].session ELSE f
             sent == [NoExchange EXCEPT !.at = "sent", !.cookie = cookie']
  <1>1. \/ /\ tab' = [tab EXCEPT ![i] = [status |-> st, session |-> se, waits |-> {}]]
           /\ hint' = IF told \/ ("restore" \in w /\ over) THEN FALSE ELSE hint
           /\ net' = [net EXCEPT ![Renew(i)] = NoExchange]
        \/ /\ tab' = [tab EXCEPT ![i] = [status |-> "anonymous", session |-> Null,
                                         waits |-> {}]]
           /\ hint' = FALSE
           /\ net' = [net EXCEPT ![Renew(i)] = NoExchange, ![Leave(i)] = sent]
    BY Zenon DEF Resume
  <1>2. st \in {"closed", "restoring", "authenticated", "anonymous"}
        /\ se \in Families \cup {Null}
    BY TabOf
  <1>3. sent \in Exchange
    <2>1. PICK n \in Exchange : n = NoExchange
      BY NoExchangeIs
    <2>2. [n EXCEPT !.at = "sent", !.cookie = cookie'] \in Exchange
      BY DEF Exchange
    <2>3. QED
      BY <2>1, <2>2, Zenon
  <1>4. hint' \in BOOLEAN
    BY <1>1 DEF PageTyped
  <1> HIDE DEF st, se, sent
  <1>5. tab' \in [Tabs -> Tab]
    BY <1>1, <1>2, FreshTab, TabIs
  <1>6. /\ net' \in [PanelRequests -> Exchange]
        /\ net'[Renew(i)] = NoExchange
        /\ \A p \in PanelRequests \ {Renew(i), Leave(i)} : net'[p] = net[p]
    BY <1>0, <1>1, <1>3, NoExchangeIs DEF NetTyped
  <1>7. QED
    BY <1>4, <1>5, <1>6

-----------------------------------------------------------------------------
(* The steps of a tab *)

\* A step that leaves the renewals, their turn and the answers of the logins as
\* they are, or drops such an answer, and at most clears the cookie.
Still ==
    /\ RowsStep(Null)
    /\ \A j \in Tabs : /\ net'[Renew(j)] = net[Renew(j)] /\ req'[Renew(j)] = req[Renew(j)]
                       /\ \/ net'[SignIn(j)] = net[SignIn(j)]
                          \/ net'[SignIn(j)].at # "answered"
    /\ cookie' \in {cookie, Null}
    /\ UNCHANGED <<turn, lost>>

\* A step of the renewal of tab i, which exchanges no token but old.
Renews(i, old) ==
    /\ RowsStep(old)
    /\ \A j \in Tabs : /\ net'[SignIn(j)] = net[SignIn(j)]
                       /\ j # i => /\ net'[Renew(j)] = net[Renew(j)]
                                   /\ req'[Renew(j)] = req[Renew(j)]

LEMMA StillSame ==
    ASSUME PanelAssumption, UNCHANGED <<vars, turn, lost>>, cookie' \in {cookie, Null},
           NEW S \in SUBSET PanelRequests, \A p \in S : net'[p] = net[p],
           \A j \in Tabs : Renew(j) \in S /\ SignIn(j) \in S
    PROVE  Still
  <1>1. UNCHANGED <<row, issued, openedAt, req>>
    BY DEF vars
  <1>2. RowsStep(Null)
    BY <1>1, QuietRows
  <1>3. QED
    BY <1>1, <1>2 DEF Still

LEMMA OpenPageIs ==
    ASSUME PanelAssumption, NetTyped, PageTyped, NEW i \in Tabs, OpenPage(i)
    PROVE  Still /\ NetTyped' /\ PageTyped' /\ [Next]_vars
  <1>1. UNCHANGED <<vars, cookie, hint, turn, net, lost, faults>>
    BY Zenon DEF OpenPage
  <1>2. tab' = [tab EXCEPT ![i] =
                  IF hint THEN [status |-> "restoring", session |-> Null, waits |-> {"restore"}]
                  ELSE [status |-> "anonymous", session |-> Null, waits |-> {}]]
    BY Zenon DEF OpenPage
  <1>3. tab' \in [Tabs -> Tab]
    BY <1>2, FreshTab, TabIs DEF Waiters
  <1>4. Still
    BY <1>1, NamesAre, StillSame
  <1>5. QED
    BY <1>1, <1>3, <1>4 DEF NetTyped, PageTyped

LEMMA CallRefusedIs ==
    ASSUME PanelAssumption, NetTyped, PageTyped, NEW i \in Tabs, CallRefused(i)
    PROVE  Still /\ NetTyped' /\ PageTyped' /\ [Next]_vars
  <1>1. UNCHANGED <<vars, cookie, hint, turn, net, lost, faults>>
        /\ tab' = [tab EXCEPT ![i].waits = @ \cup {"retry"}]
    BY Zenon DEF CallRefused
  <1>2. tab' \in [Tabs -> Tab]
    BY <1>1, WaitIs DEF Waiters
  <1>3. Still
    BY <1>1, NamesAre, StillSame
  <1>4. QED
    BY <1>1, <1>2, <1>3 DEF NetTyped, PageTyped

LEMMA LeavesIs ==
    ASSUME PanelAssumption, NetTyped, PageTyped, NEW i \in Tabs, EndSession(i),
           UNCHANGED <<vars, cookie, turn, lost, faults>>
    PROVE  Still /\ NetTyped' /\ PageTyped' /\ [Next]_vars
  <1>1. OthersHang(Leave(i)) /\ tab' \in [Tabs -> Tab] /\ hint' = FALSE
    BY EndSessionIs
  <1>2. Still
    <2>1. \A j \in Tabs : /\ Renew(j) \in PanelRequests \ {Leave(i)}
                          /\ SignIn(j) \in PanelRequests \ {Leave(i)}
      BY NamesAre
    <2>2. QED
      BY <1>1, <2>1, StillSame DEF OthersHang
  <1>3. QED
    BY <1>1, <1>2 DEF NetTyped, PageTyped, OthersHang

LEMMA KeepAliveIs ==
    ASSUME PanelAssumption, NetTyped, PageTyped, NEW i \in Tabs, KeepAlive(i)
    PROVE  Still /\ NetTyped' /\ PageTyped' /\ [Next]_vars
  <1>1. /\ UNCHANGED <<vars, cookie, turn, lost, faults>>
        /\ \/ /\ tab' = [tab EXCEPT ![i].waits = @ \cup {"keepAlive"}]
              /\ UNCHANGED <<hint, net>>
           \/ EndSession(i)
           \/ hint' = TRUE /\ UNCHANGED <<tab, net>>
    BY Zenon DEF KeepAlive
  <1>2. CASE EndSession(i)
    BY <1>1, <1>2, LeavesIs
  <1>3. CASE /\ tab' = [tab EXCEPT ![i].waits = @ \cup {"keepAlive"}]
             /\ UNCHANGED <<hint, net>>
    <2>1. tab' \in [Tabs -> Tab]
      BY <1>3, WaitIs DEF Waiters
    <2>2. Still
      BY <1>1, <1>3, NamesAre, StillSame
    <2>3. QED
      BY <1>1, <1>3, <2>1, <2>2 DEF NetTyped, PageTyped
  <1>4. CASE hint' = TRUE /\ UNCHANGED <<tab, net>>
    <2>1. Still
      BY <1>1, <1>4, NamesAre, StillSame
    <2>2. QED
      BY <1>1, <1>4, <2>1 DEF NetTyped, PageTyped
  <1>5. QED
    BY <1>1, <1>2, <1>3, <1>4

LEMMA SignOutIs ==
    ASSUME PanelAssumption, NetTyped, PageTyped, NEW i \in Tabs, SignOut(i)
    PROVE  Still /\ NetTyped' /\ PageTyped' /\ [Next]_vars
  <1>1. EndSession(i) /\ UNCHANGED <<vars, cookie, turn, lost, faults>>
    BY Zenon DEF SignOut
  <1>2. QED
    BY <1>1, LeavesIs

LEMMA LeaveAnsweredIs ==
    ASSUME PanelAssumption, NetTyped, PageTyped, NEW i \in Tabs, LeaveAnswered(i)
    PROVE  Still /\ NetTyped' /\ PageTyped' /\ [Next]_vars
  <1>1. /\ UNCHANGED <<vars, hint, turn, tab, lost, faults>> /\ cookie' = Null
        /\ net' = [net EXCEPT ![Leave(i)] = NoExchange]
    BY Zenon DEF LeaveAnswered
  <1>2. OthersHang(Leave(i))
    BY <1>1, NamesAre, NoExchangeIs, NetIs
  <1>3. Still
    <2>1. \A j \in Tabs : /\ Renew(j) \in PanelRequests \ {Leave(i)}
                          /\ SignIn(j) \in PanelRequests \ {Leave(i)}
      BY NamesAre
    <2>2. QED
      BY <1>1, <1>2, <2>1, StillSame DEF OthersHang
  <1>4. QED
    BY <1>1, <1>2, <1>3 DEF NetTyped, PageTyped, OthersHang

\* A logout in the backend.
LEMMA LeaveRunsIs ==
    ASSUME PanelAssumption, IInv, NetTyped, PageTyped, NEW i \in Tabs, LeaveRuns(i)
    PROVE  Still /\ NetTyped' /\ PageTyped' /\ [Next]_vars
  <1> DEFINE r == Leave(i)
  <1>0. r \in Requests /\ r \in PanelRequests
    BY NamesAre
  <1>1. /\ UNCHANGED <<cookie, hint, turn, tab, lost, faults>>
        /\ \/ Answer(r, "done") /\ UNCHANGED vars
           \/ LogoutRead(r, net[r].cookie) /\ Working(r)
           \/ CloseStart(r) /\ UNCHANGED net
           \/ CloseEnd(r) /\ Answer(r, "done")
    BY Zenon DEF LeaveRuns
  <1> HIDE DEF r
  <1>2. OthersHang(r)
    <2>1. CASE UNCHANGED net
      BY <2>1 DEF NetTyped, OthersHang
    <2>2. CASE Answer(r, "done")
      BY <1>0, <2>2, AnswerIs
    <2>3. CASE Working(r)
      BY <1>0, <2>3, WorkingIs
    <2>4. QED
      BY <1>1, <2>1, <2>2, <2>3
  <1>3. OthersWait(r) /\ RowsStep(Null)
    <2>1. CASE UNCHANGED vars
      <3>1. UNCHANGED <<row, issued, openedAt, req>>
        BY <2>1 DEF vars
      <3>2. QED
        BY <3>1, QuietRows DEF OthersWait
    <2>2. CASE LogoutRead(r, net[r].cookie)
      BY <1>0, <2>2, LooksIs
    <2>3. CASE CloseStart(r)
      BY <1>0, <2>3, CloseStartIs, QuietRows
    <2>4. CASE CloseEnd(r)
      BY <1>0, <2>4, CloseEndIs
    <2>5. QED
      BY <1>1, <2>1, <2>2, <2>3, <2>4
  <1>4. [Next]_vars
    <2>1. CASE LogoutRead(r, net[r].cookie)
      <3>1. net[r].cookie \in Tokens
        BY <2>1, Zenon DEF LogoutRead, Stored
      <3>2. QED
        BY <1>0, <2>1, <3>1, Zenon DEF Next
    <2>2. CASE CloseStart(r) \/ CloseEnd(r)
      BY <1>0, <2>2, Zenon DEF Next
    <2>3. QED
      BY <1>1, <2>1, <2>2
  <1>5. Still
    <2>1. \A j \in Tabs : /\ Renew(j) \in PanelRequests \ {r} /\ Renew(j) \in Requests \ {r}
                          /\ SignIn(j) \in PanelRequests \ {r}
      BY NamesAre DEF r
    <2>2. QED
      BY <1>1, <1>2, <1>3, <2>1 DEF Still, OthersHang, OthersWait
  <1>6. QED
    BY <1>1, <1>2, <1>4, <1>5 DEF NetTyped, PageTyped, OthersHang

LEMMA ClosePageIs ==
    ASSUME PanelAssumption, NetTyped, PageTyped, NEW i \in Tabs, ClosePage(i)
    PROVE  /\ UNCHANGED vars /\ UNCHANGED cookie /\ NetTyped' /\ PageTyped'
           /\ \A j \in Tabs \ {i} : /\ net'[Renew(j)] = net[Renew(j)]
                                    /\ net'[SignIn(j)] = net[SignIn(j)]
           /\ net'[SignIn(i)].at # "answered"
           /\ turn # i => turn' = turn
           /\ lost' \/ (~lost /\ net[Renew(i)].at = "none" /\ net'[Renew(i)] = NoExchange)
  <1>1. /\ faults < MaxFaults /\ faults' = faults + 1
        /\ tab' = [tab EXCEPT ![i] = [status |-> "closed", session |-> Null, waits |-> {}]]
        /\ turn' = (IF turn = i THEN Null ELSE turn)
        /\ net' = [r \in PanelRequests |->
                      IF r[1] # i THEN net[r]
                      ELSE IF net[r].at \in {"none", "answered"} THEN NoExchange
                      ELSE [net[r] EXCEPT !.dropped = TRUE]]
        /\ lost' = (lost \/ net[Renew(i)].at # "none")
        /\ UNCHANGED <<cookie, hint>>
    BY Zenon DEF ClosePage
  <1>2. UNCHANGED vars
    BY Zenon DEF ClosePage
  <1>3. ASSUME NEW r \in PanelRequests
        PROVE  /\ [net[r] EXCEPT !.dropped = TRUE] \in Exchange
               /\ [net[r] EXCEPT !.dropped = TRUE].at = net[r].at
    <2>1. net[r] \in Exchange
      BY DEF NetTyped
    <2>2. QED
      BY <2>1 DEF Exchange
  <1>4. net' \in [PanelRequests -> Exchange]
    <2>1. \A r \in PanelRequests : net[r] \in Exchange
      BY DEF NetTyped
    <2>2. \A r \in PanelRequests :
             (IF r[1] # i THEN net[r]
              ELSE IF net[r].at \in {"none", "answered"} THEN NoExchange
              ELSE [net[r] EXCEPT !.dropped = TRUE]) \in Exchange
      BY <1>3, <2>1, NoExchangeIs
    <2>3. QED
      BY <1>1, <2>2
  <1>5. /\ turn' \in Tabs \cup {Null} /\ lost' \in BOOLEAN /\ faults' \in 0..MaxFaults
    BY <1>1 DEF PageTyped, PanelAssumption
  <1>6. tab' \in [Tabs -> Tab]
    BY <1>1, FreshTab, TabIs
  <1>7. \A j \in Tabs \ {i} : /\ net'[Renew(j)] = net[Renew(j)]
                              /\ net'[SignIn(j)] = net[SignIn(j)]
    BY <1>1, NamesAre
  <1>8. net'[SignIn(i)].at # "answered"
    <2>1. SignIn(i) \in PanelRequests /\ SignIn(i)[1] = i
      BY NamesAre
    <2>2. net'[SignIn(i)] = IF net[SignIn(i)].at \in {"none", "answered"} THEN NoExchange
                            ELSE [net[SignIn(i)] EXCEPT !.dropped = TRUE]
      BY <1>1, <2>1
    <2>3. QED
      BY <1>3, <2>1, <2>2, NoExchangeIs
  <1>9. lost' \/ (~lost /\ net[Renew(i)].at = "none" /\ net'[Renew(i)] = NoExchange)
    <2>1. Renew(i) \in PanelRequests /\ Renew(i)[1] = i
      BY NamesAre
    <2>2. net[Renew(i)].at = "none" => net'[Renew(i)] = NoExchange
      BY <1>1, <2>1
    <2>3. QED
      BY <1>1, <2>2 DEF PageTyped
  <1>10. QED
    BY <1>1, <1>2, <1>4, <1>5, <1>6, <1>7, <1>8, <1>9 DEF NetTyped, PageTyped

\* A login: the password is verified, and then the session is opened.
LEMMA SignInRunsIs ==
    ASSUME PanelAssumption, IInv, NetTyped, PageTyped, NEW i \in Tabs, SignInRuns(i)
    PROVE  /\ NetTyped' /\ PageTyped' /\ [Next]_vars
           /\ \/ Still
              \/ /\ UNCHANGED <<cookie, turn, lost>> /\ RowsStep(Null)
                 /\ \A j \in Tabs :
                       /\ net'[Renew(j)] = net[Renew(j)] /\ req'[Renew(j)] = req[Renew(j)]
                       /\ j # i => net'[SignIn(j)] = net[SignIn(j)]
                 /\ \E n \in Tokens \ issued :
                       /\ issued' = issued \cup {n} /\ Spent(n)'
                       /\ net'[SignIn(i)].at = "answered" =>
                             /\ net'[SignIn(i)].answer = n
                             /\ net'[SignIn(i)].session \in Families
  <1> DEFINE r == SignIn(i)
  <1>0. /\ r \in Requests /\ r \in PanelRequests
        /\ \A j \in Tabs : /\ Renew(j) \in PanelRequests \ {r} /\ Renew(j) \in Requests \ {r}
                           /\ j # i => SignIn(j) \in PanelRequests \ {r}
    BY NamesAre
  <1>1. /\ UNCHANGED <<cookie, hint, turn, tab, lost, faults>>
        /\ \/ LoginVerify(r) /\ Send(r)
           \/ \E f \in Families, t \in Tokens : LoginOpen(r, f, t) /\ AnswerToken(r, t, f)
    BY Zenon DEF SignInRuns
  <1>2. PageTyped'
    BY <1>1 DEF PageTyped
  <1>3. CASE LoginVerify(r) /\ Send(r)
    <2>1. OthersWait(r) /\ RowsStep(Null)
      BY <1>0, <1>3, LooksIs
    <2>2. OthersHang(r) /\ net'[r].at = "sent"
      BY <1>0, <1>3, SendIs
    <2>3. Still
      BY <1>0, <1>1, <2>1, <2>2 DEF Still, OthersHang, OthersWait
    <2>4. Next
      BY <1>0, <1>3, Zenon DEF Next
    <2>5. QED
      BY <1>1, <1>2, <2>2, <2>3, <2>4 DEF NetTyped, OthersHang
  <1>4. ASSUME NEW f \in Families, NEW n \in Tokens, LoginOpen(r, f, n), AnswerToken(r, n, f)
        PROVE  /\ NetTyped' /\ Next
               /\ UNCHANGED <<cookie, turn, lost>> /\ RowsStep(Null)
               /\ \A j \in Tabs :
                     /\ net'[Renew(j)] = net[Renew(j)] /\ req'[Renew(j)] = req[Renew(j)]
                     /\ j # i => net'[SignIn(j)] = net[SignIn(j)]
               /\ n \notin issued /\ issued' = issued \cup {n} /\ Spent(n)'
               /\ net'[SignIn(i)].at = "answered" =>
                     net'[SignIn(i)].answer = n /\ net'[SignIn(i)].session \in Families
    <2>1. RowsStep(Null) /\ n \notin issued /\ issued' = issued \cup {n} /\ Spent(n)'
      BY <1>0, <1>4, LoginRows
    <2>2. OthersWait(r)
      BY <1>0, <1>4, OpenIs
    <2>3. /\ OthersHang(r)
          /\ net[r].dropped => net'[r] = NoExchange
          /\ ~net[r].dropped => net'[r].answer = n /\ net'[r].session = f
      BY <1>0, <1>4, AnswerTokenIs
    <2>4. Next
      BY <1>0, <1>4, Zenon DEF Next
    <2>5. net'[r].at = "answered" => net'[r].answer = n /\ net'[r].session \in Families
      BY <2>3, NoExchangeIs
    <2>6. QED
      BY <1>0, <1>1, <2>1, <2>2, <2>3, <2>4, <2>5 DEF OthersHang, OthersWait, NetTyped
  <1>5. QED
    BY <1>1, <1>2, <1>3, <1>4

\* The panel opens with the answer of a login.
LEMMA SignInAnsweredIs ==
    ASSUME PanelAssumption, NetTyped, PageTyped, SignInsAnswered, NEW i \in Tabs,
           SignInAnswered(i)
    PROVE  /\ UNCHANGED vars /\ UNCHANGED <<turn, lost>> /\ NetTyped' /\ PageTyped'
           /\ net[SignIn(i)].at = "answered" /\ cookie' = net[SignIn(i)].answer
           /\ \A j \in Tabs : /\ net'[Renew(j)] = net[Renew(j)]
                              /\ j # i => net'[SignIn(j)] = net[SignIn(j)]
           /\ net'[SignIn(i)].at # "answered"
  <1> DEFINE r == SignIn(i)
  <1>0. /\ r \in PanelRequests
        /\ \A j \in Tabs : /\ Renew(j) \in PanelRequests \ {r}
                           /\ j # i => SignIn(j) \in PanelRequests \ {r}
    BY NamesAre
  <1>1. /\ net[r].at = "answered" /\ net' = [net EXCEPT ![r] = NoExchange]
        /\ cookie' = net[r].answer /\ hint' = TRUE
        /\ tab' = [tab EXCEPT ![i].status = "authenticated", ![i].session = net[r].session]
        /\ UNCHANGED <<turn, lost, faults>>
    BY Zenon DEF SignInAnswered
  <1>2. UNCHANGED vars
    BY Zenon DEF SignInAnswered
  <1>3. net[r].answer \in Tokens /\ net[r].session \in Families
    BY <1>1 DEF SignInsAnswered
  <1>4. OthersHang(r) /\ net'[r] = NoExchange
    BY <1>0, <1>1, NoExchangeIs, NetIs
  <1>5. tab' \in [Tabs -> Tab]
    <2>1. PICK o \in Tab : o = tab[i]
      BY TabOf
    <2>2. PICK f \in Families : f = net[r].session
      BY <1>3
    <2>3. [o EXCEPT !.status = "authenticated", !.session = f] \in Tab
      BY DEF Tab
    <2>4. tab' = [tab EXCEPT ![i] = [o EXCEPT !.status = "authenticated", !.session = f]]
      BY <1>1, <2>1, <2>2 DEF PageTyped
    <2>5. QED
      BY <2>3, <2>4, TabIs
  <1>6. QED
    BY <1>0, <1>1, <1>2, <1>3, <1>4, <1>5, NoExchangeIs DEF OthersHang, NetTyped, PageTyped

\* What a step of the renewal of tab i leaves alone.
LEMMA RenewsIs ==
    ASSUME PanelAssumption, NEW i \in Tabs, NEW old, RowsStep(old),
           \A p \in PanelRequests \ {Renew(i), Leave(i)} : net'[p] = net[p],
           OthersWait(Renew(i))
    PROVE  Renews(i, old)
  <1>1. \A j \in Tabs :
           /\ SignIn(j) \in PanelRequests \ {Renew(i), Leave(i)}
           /\ j # i => /\ Renew(j) \in PanelRequests \ {Renew(i), Leave(i)}
                       /\ Renew(j) \in Requests \ {Renew(i)}
    BY NamesAre
  <1>2. QED
    BY <1>1 DEF Renews, OthersWait

LEMMA StartRenewalIs ==
    ASSUME PanelAssumption, NetTyped, PageTyped, NEW i \in Tabs, StartRenewal(i)
    PROVE  /\ NetTyped' /\ PageTyped' /\ UNCHANGED vars /\ UNCHANGED <<cookie, lost>>
           /\ Renews(i, Null) /\ turn = Null /\ turn' = i
           /\ net'[Renew(i)].at = "sent" /\ ~net'[Renew(i)].dropped
           /\ net'[Renew(i)].cookie = cookie
  <1>1. /\ FreeTurn /\ Send(Renew(i)) /\ turn' = i
        /\ UNCHANGED <<cookie, hint, tab, lost, faults>>
    BY Zenon DEF StartRenewal
  <1>2. UNCHANGED vars
    BY Zenon DEF StartRenewal
  <1>3. turn = Null
    BY <1>1 DEF FreeTurn, PanelAssumption
  <1>4. /\ OthersHang(Renew(i))
        /\ net'[Renew(i)].at = "sent" /\ ~net'[Renew(i)].dropped
        /\ net'[Renew(i)].cookie = cookie
    BY <1>1, NamesAre, SendIs
  <1>5. UNCHANGED <<row, issued, openedAt, req>>
    BY <1>2 DEF vars
  <1>6. Renews(i, Null)
    BY <1>4, <1>5, QuietRows, RenewsIs DEF OthersHang, OthersWait
  <1>7. QED
    BY <1>1, <1>2, <1>3, <1>4, <1>6 DEF NetTyped, PageTyped, OthersHang

\* The answer of a request that brought no token.
Told(r, a) ==
    /\ net[r].dropped => net'[r] = NoExchange
    /\ ~net[r].dropped => net'[r].at = "answered" /\ net'[r].answer = a /\ ~net'[r].dropped

LEMMA RenewalArrivesIs ==
    ASSUME PanelAssumption, IInv, NetTyped, PageTyped, NEW i \in Tabs, RenewalArrives(i)
    PROVE  /\ NetTyped' /\ PageTyped' /\ [Next]_vars /\ UNCHANGED <<cookie, turn, lost>>
           /\ Renews(i, Null) /\ net[Renew(i)].at = "sent"
           /\ \/ /\ Told(Renew(i), "refused") /\ req'[Renew(i)] = req[Renew(i)]
                 /\ RowsStep(Null)
              \/ /\ net'[Renew(i)].at = "working"
                 /\ net'[Renew(i)].dropped = net[Renew(i)].dropped
                 /\ UNCHANGED <<row, issued, openedAt>>
                 /\ net[Renew(i)].cookie \in Stored
                 /\ \/ /\ row[net[Renew(i)].cookie].revoked
                       /\ req'[Renew(i)].at = "close"
                       /\ req'[Renew(i)].family = row[net[Renew(i)].cookie].family
                    \/ /\ net[Renew(i)].cookie \in Unrevoked
                       /\ req'[Renew(i)].at = "read"
                       /\ req'[Renew(i)].token = net[Renew(i)].cookie
  <1> DEFINE r == Renew(i)
             t == net[r].cookie
  <1>0. r \in PanelRequests /\ r \in Requests
    BY NamesAre
  <1>1. /\ net[r].at = "sent" /\ UNCHANGED <<cookie, hint, turn, tab, lost, faults>>
        /\ \/ Answer(r, "refused") /\ UNCHANGED vars
           \/ RotateRead(r, t) /\ Working(r)
    BY Zenon DEF RenewalArrives
  <1>2. CASE Answer(r, "refused") /\ UNCHANGED vars
    <2>1. OthersHang(r) /\ Told(r, "refused")
      BY <1>0, <1>2, AnswerIs DEF Told
    <2>2. UNCHANGED <<row, issued, openedAt, req>>
      BY <1>2 DEF vars
    <2>3. Renews(i, Null) /\ RowsStep(Null)
      BY <2>1, <2>2, QuietRows, RenewsIs DEF OthersHang, OthersWait
    <2>4. QED
      BY <1>1, <1>2, <2>1, <2>2, <2>3 DEF NetTyped, PageTyped, OthersHang
  <1>3. CASE RotateRead(r, t) /\ Working(r)
    <2>1. /\ OthersWait(r) /\ UNCHANGED <<row, issued, openedAt>>
          /\ t \in Stored
          /\ \/ /\ row[t].revoked
                /\ req'[r].at = "close" /\ req'[r].family = row[t].family
             \/ /\ t \in Unrevoked
                /\ req'[r].at = "read" /\ req'[r].token = t
      BY <1>0, <1>3, RotateReadIs
    <2>2. OthersHang(r) /\ net'[r].at = "working" /\ net'[r].dropped = net[r].dropped
      BY <1>0, <1>3, WorkingIs
    <2>3. Renews(i, Null)
      BY <2>1, <2>2, QuietRows, RenewsIs DEF OthersHang
    <2>4. Next
      <3>1. t \in Tokens
        BY <2>1 DEF Stored
      <3>2. QED
        BY <1>0, <1>3, <3>1, Zenon DEF Next
    <2>5. QED
      BY <1>1, <2>1, <2>2, <2>3, <2>4 DEF NetTyped, PageTyped, OthersHang
  <1>4. QED
    BY <1>1, <1>2, <1>3

LEMMA RenewalRunsIs ==
    ASSUME PanelAssumption, IInv, NetTyped, PageTyped, NEW i \in Tabs, RenewalRuns(i)
    PROVE  /\ NetTyped' /\ PageTyped' /\ [Next]_vars /\ UNCHANGED <<cookie, turn, lost>>
           /\ net[Renew(i)].at = "working"
           /\ \/ /\ Renews(i, Null) /\ UNCHANGED <<row, issued, openedAt>>
                 /\ net'[Renew(i)] = net[Renew(i)]
                 /\ \/ /\ req[Renew(i)].at = "read"
                       /\ req[Renew(i)].token \in Unrevoked
                       /\ req'[Renew(i)].at = "claimed"
                       /\ req'[Renew(i)].token = req[Renew(i)].token
                       /\ req'[Renew(i)].family = req[Renew(i)].family
                    \/ /\ req[Renew(i)].at = "read"
                       /\ req[Renew(i)].token \notin Unrevoked
                       /\ req'[Renew(i)].at = "close"
                       /\ req'[Renew(i)].family = req[Renew(i)].family
                    \/ /\ req[Renew(i)].at = "close"
                       /\ req'[Renew(i)].at = "closing"
                       /\ req'[Renew(i)].family = req[Renew(i)].family
              \/ /\ Renews(i, req[Renew(i)].token)
                 /\ req[Renew(i)].at = "claimed" /\ req'[Renew(i)] = Idle
                 /\ \E n \in Tokens \ issued :
                       /\ issued' = issued \cup {n} /\ Spent(n)'
                       /\ Told(Renew(i), n)
              \/ /\ Renews(i, Null) /\ Told(Renew(i), "refused")
                 /\ req'[Renew(i)] = Idle
  <1> DEFINE r == Renew(i)
  <1>0. r \in PanelRequests /\ r \in Requests
    BY NamesAre
  <1>1. /\ net[r].at = "working" /\ UNCHANGED <<cookie, hint, turn, tab, lost, faults>>
        /\ \/ (RotateClaim(r) \/ CloseStart(r)) /\ UNCHANGED net
           \/ \E t \in Tokens : RotateCommit(r, t) /\ AnswerToken(r, t, req[r].family)
           \/ CloseEnd(r) /\ Answer(r, "refused")
    BY Zenon DEF RenewalRuns
  <1>2. PageTyped'
    BY <1>1 DEF PageTyped
  <1>3. CASE RotateClaim(r) /\ UNCHANGED net
    <2>1. /\ OthersWait(r) /\ UNCHANGED <<row, issued, openedAt>>
          /\ req[r].at = "read"
          /\ \/ /\ req[r].token \in Unrevoked
                /\ req'[r].at = "claimed" /\ req'[r].token = req[r].token
                /\ req'[r].family = req[r].family
             \/ /\ req[r].token \notin Unrevoked
                /\ req'[r].at = "close" /\ req'[r].family = req[r].family
      BY <1>0, <1>3, RotateClaimIs
    <2>2. Renews(i, Null)
      BY <1>3, <2>1, QuietRows, RenewsIs
    <2>3. Next
      BY <1>0, <1>3, Zenon DEF Next
    <2>4. NetTyped'
      BY <1>1, <1>3 DEF NetTyped
    <2>5. net'[r] = net[r]
      BY <1>3
    <2>6. QED
      BY <1>1, <1>2, <2>1, <2>2, <2>3, <2>4, <2>5
  <1>4. CASE CloseStart(r) /\ UNCHANGED net
    <2>1. /\ OthersWait(r) /\ UNCHANGED <<row, issued, openedAt>>
          /\ req[r].at = "close"
          /\ req'[r].at = "closing" /\ req'[r].family = req[r].family
      BY <1>0, <1>4, CloseStartIs
    <2>2. Renews(i, Null)
      BY <1>4, <2>1, QuietRows, RenewsIs
    <2>3. Next
      BY <1>0, <1>4, Zenon DEF Next
    <2>4. NetTyped'
      BY <1>1, <1>4 DEF NetTyped
    <2>5. net'[r] = net[r]
      BY <1>4
    <2>6. QED
      BY <1>1, <1>2, <2>1, <2>2, <2>3, <2>4, <2>5
  <1>5. ASSUME NEW n \in Tokens, RotateCommit(r, n), AnswerToken(r, n, req[r].family)
        PROVE  /\ NetTyped' /\ Next /\ Renews(i, req[r].token)
               /\ req[r].at = "claimed" /\ req'[r] = Idle
               /\ n \notin issued /\ issued' = issued \cup {n} /\ Spent(n)'
               /\ Told(r, n)
    <2>1. /\ RowsStep(req[r].token) /\ n \notin issued /\ issued' = issued \cup {n}
          /\ Spent(n)'
      BY <1>0, <1>5, RotateRows
    <2>2. OthersWait(r) /\ req[r].at = "claimed" /\ req'[r] = Idle
      BY <1>0, <1>5, CommitIs
    <2>3. req[r].family \in Families \cup {Null}
      BY <1>0 DEF IInv, TypeOK, Request
    <2>4. OthersHang(r) /\ Told(r, n)
      BY <1>0, <1>5, <2>3, AnswerTokenIs DEF Told
    <2>5. Renews(i, req[r].token)
      BY <2>1, <2>2, <2>4, RenewsIs DEF OthersHang
    <2>6. Next
      BY <1>0, <1>5, Zenon DEF Next
    <2>7. QED
      BY <1>1, <2>1, <2>2, <2>4, <2>5, <2>6 DEF NetTyped, OthersHang
  <1>6. CASE CloseEnd(r) /\ Answer(r, "refused")
    <2>1. OthersWait(r) /\ RowsStep(Null) /\ req'[r] = Idle
      BY <1>0, <1>6, CloseEndIs
    <2>2. OthersHang(r) /\ Told(r, "refused")
      BY <1>0, <1>6, AnswerIs DEF Told
    <2>3. Renews(i, Null)
      BY <2>1, <2>2, RenewsIs DEF OthersHang
    <2>4. Next
      BY <1>0, <1>6, Zenon DEF Next
    <2>5. NetTyped'
      BY <1>1, <2>2 DEF NetTyped, OthersHang
    <2>6. QED
      BY <1>1, <1>2, <2>1, <2>2, <2>3, <2>4, <2>5
  <1>7. QED
    BY <1>1, <1>2, <1>3, <1>4, <1>5, <1>6

LEMMA RenewalFailsIs ==
    ASSUME PanelAssumption, IInv, NetTyped, PageTyped, NEW i \in Tabs, RenewalFails(i)
    PROVE  /\ NetTyped' /\ PageTyped' /\ [Next]_vars /\ UNCHANGED <<cookie, turn, lost>>
           /\ net[Renew(i)].at = "working"
           /\ Renews(i, Null) /\ Told(Renew(i), "error") /\ req'[Renew(i)] = Idle
  <1> DEFINE r == Renew(i)
  <1>0. r \in PanelRequests /\ r \in Requests
    BY NamesAre
  <1>1. /\ net[r].at = "working" /\ faults < MaxFaults /\ faults' = faults + 1
        /\ Abort(r) /\ Answer(r, "error")
        /\ UNCHANGED <<cookie, hint, turn, tab, lost>>
    BY Zenon DEF RenewalFails
  <1>2. OthersWait(r) /\ RowsStep(Null) /\ req'[r] = Idle
    BY <1>0, <1>1, AbortIs
  <1>3. OthersHang(r) /\ Told(r, "error")
    BY <1>0, <1>1, AnswerIs DEF Told
  <1>4. Renews(i, Null)
    BY <1>2, <1>3, RenewsIs DEF OthersHang
  <1>5. Next
    BY <1>0, <1>1, Zenon DEF Next
  <1>6. PageTyped'
    BY <1>1 DEF PageTyped, PanelAssumption
  <1>7. QED
    BY <1>1, <1>2, <1>3, <1>4, <1>5, <1>6 DEF NetTyped, OthersHang

LEMMA RenewalAnsweredIs ==
    ASSUME PanelAssumption, NetTyped, PageTyped, NEW i \in Tabs, RenewalAnswered(i)
    PROVE  /\ NetTyped' /\ PageTyped' /\ UNCHANGED vars /\ UNCHANGED lost
           /\ net[Renew(i)].at = "answered" /\ net'[Renew(i)] = NoExchange
           /\ Renews(i, Null)
           /\ cookie' = CookieAfter(net[Renew(i)].answer)
           /\ turn # i => turn' = turn
  <1> DEFINE e == net[Renew(i)]
  <1>0. e \in Exchange
    BY NamesAre DEF NetTyped
  <1>1. /\ e.at = "answered" /\ cookie' = CookieAfter(e.answer)
        /\ Resume(i, e.session, e.answer = "error")
        /\ turn' = (IF turn = i THEN Null ELSE turn)
        /\ UNCHANGED <<lost, faults>>
    BY Zenon DEF RenewalAnswered
  <1>2. UNCHANGED vars
    BY Zenon DEF RenewalAnswered
  <1>3. /\ e.session \in Families \cup {Null} /\ (e.answer = "error") \in BOOLEAN
        /\ cookie' \in Tokens \cup {Null}
    BY <1>0, <1>1 DEF Exchange, CookieAfter
  <1>4. /\ net' \in [PanelRequests -> Exchange]
        /\ net'[Renew(i)] = NoExchange
        /\ \A p \in PanelRequests \ {Renew(i), Leave(i)} : net'[p] = net[p]
        /\ tab' \in [Tabs -> Tab]
        /\ hint' \in BOOLEAN
    BY <1>1, <1>3, ResumeIs
  <1>5. UNCHANGED <<row, issued, openedAt, req>>
    BY <1>2 DEF vars
  <1>6. Renews(i, Null)
    BY <1>4, <1>5, QuietRows, RenewsIs DEF OthersWait
  <1>7. QED
    BY <1>1, <1>2, <1>3, <1>4, <1>6 DEF NetTyped, PageTyped

LEMMA AnswerLostIs ==
    ASSUME PanelAssumption, NetTyped, PageTyped, NEW i \in Tabs, AnswerLost(i)
    PROVE  /\ NetTyped' /\ PageTyped' /\ UNCHANGED vars /\ UNCHANGED cookie
           /\ net[Renew(i)].at = "answered" /\ net'[Renew(i)] = NoExchange
           /\ Renews(i, Null)
           /\ lost' \/ (~lost /\ net[Renew(i)].answer \notin Tokens)
           /\ turn # i => turn' = turn
  <1> DEFINE e == net[Renew(i)]
  <1>1. /\ e.at = "answered" /\ faults < MaxFaults /\ faults' = faults + 1
        /\ lost' = (lost \/ e.answer \in Tokens)
        /\ Resume(i, Null, TRUE)
        /\ turn' = (IF turn = i THEN Null ELSE turn)
        /\ UNCHANGED cookie
    BY Zenon DEF AnswerLost
  <1>2. UNCHANGED vars
    BY Zenon DEF AnswerLost
  <1>3. cookie' \in Tokens \cup {Null}
    BY <1>1 DEF NetTyped
  <1>4. /\ net' \in [PanelRequests -> Exchange]
        /\ net'[Renew(i)] = NoExchange
        /\ \A p \in PanelRequests \ {Renew(i), Leave(i)} : net'[p] = net[p]
        /\ tab' \in [Tabs -> Tab]
        /\ hint' \in BOOLEAN
    BY <1>1, <1>3, ResumeIs
  <1>5. UNCHANGED <<row, issued, openedAt, req>>
    BY <1>2 DEF vars
  <1>6. Renews(i, Null)
    BY <1>4, <1>5, QuietRows, RenewsIs DEF OthersWait
  <1>7. PageTyped'
    BY <1>1, <1>4 DEF PageTyped, PanelAssumption
  <1>8. QED
    BY <1>1, <1>2, <1>3, <1>4, <1>6, <1>7 DEF NetTyped, PageTyped

-----------------------------------------------------------------------------
(* What the steps keep *)

LEMMA NullIsNoToken ==
    ASSUME IInv
    PROVE  /\ issued \subseteq Tokens /\ Null \notin Tokens /\ Null \notin issued
           /\ Stored \subseteq Tokens /\ Spent(Null)
  BY SessionsAssumption DEF IInv, TypeOK, Stored, Spent

\* The token of a renewal was handed out.
LEMMA TokenKnown ==
    ASSUME PanelAssumption, IInv, NetTyped, NEW j \in Tabs, RenewalIsClean(j)
    PROVE  /\ TokenOf(j) \in Tokens => TokenOf(j) \in issued
           /\ net[Renew(j)].at = "none" => TokenOf(j) = Null
  <1>0. Renew(j) \in Requests
    BY NamesAre
  <1>1. /\ net[Renew(j)].at = "sent" => TokenOf(j) = net[Renew(j)].cookie
        /\ net[Renew(j)].at = "answered" => TokenOf(j) = net[Renew(j)].answer
        /\ net[Renew(j)].at = "none" => TokenOf(j) = Null
        /\ \/ net[Renew(j)].at \in {"sent", "answered", "none"} \/ TokenOf(j) = Null
           \/ /\ TokenOf(j) = req[Renew(j)].token
              /\ req[Renew(j)].at \in {"read", "claimed"}
    BY DEF TokenOf
  <1>2. req[Renew(j)].at \in {"read", "claimed"} => req[Renew(j)].token \in issued
    BY <1>0 DEF IInv, RequestOK, RenewalOK
  <1>3. QED
    BY <1>1, <1>2, NullIsNoToken DEF RenewalIsClean

\* The renewal of a tab stays clean while others move.
LEMMA RenewalKept ==
    ASSUME PanelAssumption, IInv, IInv', NetTyped, NEW j \in Tabs, RenewalIsClean(j),
           NEW old, RowsStep(old), old = Null \/ TokenOf(j) # old,
           net'[Renew(j)] = net[Renew(j)], req'[Renew(j)] = req[Renew(j)]
    PROVE  RenewalIsClean(j)' /\ TokenOf(j)' = TokenOf(j)
  <1>0. Renew(j) \in Requests
    BY NamesAre
  <1>1. TokenOf(j)' = TokenOf(j)
    BY DEF TokenOf
  <1>2. /\ Null \notin issued /\ Spent(Null)' /\ issued \subseteq issued'
    BY NullIsNoToken DEF RowsStep, Stored, Spent
  <1>3. net[Renew(j)].at = "sent" =>
           net[Renew(j)].cookie \in issued' \cup {Null} /\ Spent(net[Renew(j)].cookie)'
    <2>1. net[Renew(j)].at = "sent" => TokenOf(j) = net[Renew(j)].cookie
      BY DEF TokenOf
    <2>2. \A t \in issued \ {old} : Spent(t) => Spent(t)'
      BY DEF RowsStep
    <2>3. CASE net[Renew(j)].at = "sent" /\ net[Renew(j)].cookie \in issued
      <3>1. Spent(net[Renew(j)].cookie) /\ net[Renew(j)].cookie \in issued \ {old}
        BY <1>2, <2>1, <2>3 DEF RenewalIsClean
      <3>2. PICK t \in issued \ {old} : t = net[Renew(j)].cookie
        BY <3>1
      <3>3. Spent(t)'
        BY <2>2, <3>1, <3>2
      <3>4. QED
        BY <1>2, <3>2, <3>3 DEF Spent
    <2>4. CASE net[Renew(j)].at = "sent" /\ net[Renew(j)].cookie = Null
      BY <1>2, <2>4 DEF Spent
    <2>5. QED
      BY <2>3, <2>4 DEF RenewalIsClean
  <1>4. net[Renew(j)].at = "answered" /\ net[Renew(j)].answer \in Tokens =>
           net[Renew(j)].answer \in issued' /\ Spent(net[Renew(j)].answer)'
    <2>1. SUFFICES ASSUME net[Renew(j)].at = "answered", net[Renew(j)].answer \in Tokens
                   PROVE  net[Renew(j)].answer \in issued' /\ Spent(net[Renew(j)].answer)'
      OBVIOUS
    <2>2. TokenOf(j) = net[Renew(j)].answer
      BY <2>1 DEF TokenOf
    <2>3. Spent(net[Renew(j)].answer) /\ net[Renew(j)].answer \in issued \ {old}
      BY <1>2, <2>1, <2>2 DEF RenewalIsClean
    <2>4. PICK t \in issued \ {old} : t = net[Renew(j)].answer
      BY <2>3
    <2>5. Spent(t)'
      BY <2>3, <2>4 DEF RowsStep
    <2>6. QED
      BY <1>2, <2>4, <2>5 DEF Spent
  <1>5. net[Renew(j)].at = "working" /\ req[Renew(j)].at \in {"read", "claimed"} =>
           req[Renew(j)].token \in Unrevoked' \/ Of(req[Renew(j)].family)' = {}
    <2>1. SUFFICES ASSUME net[Renew(j)].at = "working", req[Renew(j)].at \in {"read", "claimed"}
                   PROVE  req[Renew(j)].token \in Unrevoked' \/ Of(req[Renew(j)].family)' = {}
      OBVIOUS
    <2>2. TokenOf(j) = req[Renew(j)].token
      BY <2>1 DEF TokenOf
    <2>3. RenewalOK(Renew(j))
      BY <1>0 DEF IInv, RequestOK
    <2>4. PICK t \in issued \ {old}, f \in Families :
             t = req[Renew(j)].token /\ f = req[Renew(j)].family
      BY <1>2, <2>1, <2>2, <2>3 DEF RenewalOK, Opened
    <2>5. /\ openedAt[f] \in Nat
          /\ row[t] # Null => row[t].family = f
          /\ t \in Unrevoked \/ Of(f) = {}
      BY <2>1, <2>3, <2>4 DEF RenewalOK, Opened, RenewalIsClean
    <2>6. t \in Unrevoked' \/ Of(f)' = {}
      BY <2>5 DEF RowsStep
    <2>7. QED
      BY <2>4, <2>6 DEF Of
  <1>6. req[Renew(j)].at \in {"close", "closing"} => Of(req[Renew(j)].family)' = {}
    <2>1. SUFFICES ASSUME req[Renew(j)].at \in {"close", "closing"}
                   PROVE  Of(req[Renew(j)].family)' = {}
      OBVIOUS
    <2>2. PICK f \in Families : f = req[Renew(j)].family /\ openedAt[f] \in Nat
      BY <1>0, <2>1 DEF IInv, RequestOK, ClosingOK, Opened
    <2>3. Of(f) = {}
      BY <2>1, <2>2 DEF RenewalIsClean
    <2>4. Of(f)' = {}
      BY <2>2, <2>3 DEF RowsStep
    <2>5. QED
      BY <2>2, <2>4 DEF Of
  <1>7. QED
    BY <1>1, <1>3, <1>4, <1>5, <1>6 DEF RenewalIsClean

\* The cookie stays clean while its own token is not exchanged.
LEMMA CookieKept ==
    ASSUME PanelAssumption, IInv, IInv', CookieIsClean, Spent(cookie), RowsStep(Null),
           cookie' \in {cookie, Null}
    PROVE  CookieIsClean'
  <1>1. /\ Null \notin issued /\ Spent(Null)' /\ issued \subseteq issued'
    BY NullIsNoToken DEF RowsStep, Stored, Spent
  <1>2. ASSUME cookie \in issued PROVE Spent(cookie)' \/ cookie' = Null
    <2>1. PICK t \in issued \ {Null} : t = cookie
      BY <1>1, <1>2
    <2>2. Spent(t)'
      BY <2>1 DEF RowsStep
    <2>3. QED
      BY <2>1, <2>2 DEF Spent
  <1>3. Spent(cookie)'
    BY <1>1, <1>2 DEF CookieIsClean, Spent
  <1>4. QED
    BY <1>1, <1>3 DEF CookieIsClean

\* The answers of logins on their way stay unknown to everybody else.
LEMMA NewKept ==
    ASSUME PanelAssumption, IInv, SignInsAnswered, \A k \in Tabs : SignInIsNew(k),
           NEW old, RowsStep(old),
           \A k \in Tabs : net'[SignIn(k)].at = "answered" =>
               /\ net'[SignIn(k)] = net[SignIn(k)]
               /\ net[SignIn(k)].answer # old /\ net[SignIn(k)].answer # cookie'
               /\ \A j \in Tabs : TokenOf(j)' # net[SignIn(k)].answer
    PROVE  SignInsAnswered' /\ \A k \in Tabs : SignInIsNew(k)'
  <1>1. SignInsAnswered'
    BY DEF SignInsAnswered
  <1>2. ASSUME NEW k \in Tabs, net'[SignIn(k)].at = "answered" PROVE SignInIsNew(k)'
    <2>0. net[SignIn(k)].at = "answered" /\ SignInIsNew(k)
      BY <1>2
    <2>1. PICK t \in issued \ {old} : t = net[SignIn(k)].answer
      BY <1>2, <2>0 DEF SignInIsNew
    <2>2. Spent(t)
      BY <2>0, <2>1 DEF SignInIsNew
    <2>3. t \in issued' /\ Spent(t)'
      BY <2>1, <2>2 DEF RowsStep
    <2>4. \A j \in Tabs : net'[SignIn(j)].at = "answered" /\ net'[SignIn(j)].answer = t => j = k
      BY <1>2, <2>0, <2>1 DEF SignInIsNew
    <2>5. t = net'[SignIn(k)].answer /\ t # cookie' /\ \A j \in Tabs : TokenOf(j)' # t
      BY <1>2, <2>1
    <2>6. QED
      BY <2>3, <2>4, <2>5 DEF SignInIsNew, Spent
  <1>3. ASSUME NEW k \in Tabs, net'[SignIn(k)].at # "answered" PROVE SignInIsNew(k)'
    BY <1>3 DEF SignInIsNew
  <1>4. QED
    BY <1>1, <1>2, <1>3

LEMMA StillKeeps ==
    ASSUME PanelAssumption, IInv, IInv', NetTyped, SignInsAnswered, Still
    PROVE  SignInsAnswered' /\ (lost \/ Clean => lost' \/ Clean')
  <1>1. SignInsAnswered'
    BY DEF SignInsAnswered, Still
  <1>2. ASSUME Clean PROVE Clean'
    <2>0. InTurn /\ (\A j \in Tabs : RenewalIsClean(j)) /\ CookieIsClean
        /\ \A k \in Tabs : SignInIsNew(k)
      BY <1>2 DEF Clean
    <2>1. RowsStep(Null)
      BY DEF Still
    <2>2. \A j \in Tabs : RenewalIsClean(j)' /\ TokenOf(j)' = TokenOf(j)
      BY <2>0, <2>1, RenewalKept DEF Still
    <2>3. InTurn'
      BY <2>0 DEF InTurn, Still
    <2>4. CookieIsClean'
      <3>1. CASE Spent(cookie)
        BY <2>0, <2>1, <3>1, CookieKept DEF Still
      <3>2. CASE \E i \in Tabs : /\ net[Renew(i)].at = "answered"
                                 /\ net[Renew(i)].answer \in Tokens
        BY <2>0, <2>1, <3>2 DEF CookieIsClean, Still, RowsStep
      <3>3. QED
        BY <2>0, <3>1, <3>2 DEF CookieIsClean
    <2>5. \A k \in Tabs : SignInIsNew(k)'
      <3>1. \A k \in Tabs : net'[SignIn(k)].at = "answered" =>
               /\ net'[SignIn(k)] = net[SignIn(k)]
               /\ net[SignIn(k)].answer # Null /\ net[SignIn(k)].answer # cookie'
               /\ \A j \in Tabs : TokenOf(j)' # net[SignIn(k)].answer
        BY <2>0, <2>2, NullIsNoToken DEF Still, SignInIsNew
      <3>2. QED
        BY <2>0, <2>1, <3>1, NewKept
    <2>6. QED
      BY <2>2, <2>3, <2>4, <2>5 DEF Clean
  <1>3. QED
    BY <1>1, <1>2 DEF Still

LEMMA RenewsKeeps ==
    ASSUME PanelAssumption, IInv, IInv', NetTyped, SignInsAnswered, Clean, NEW i \in Tabs,
           NEW old, Renews(i, old), old \in {Null, TokenOf(i)},
           \A j \in Tabs \ {i} : net[Renew(j)].at = "none",
           net'[Renew(i)].at # "none" => turn' = i /\ ~net'[Renew(i)].dropped,
           RenewalIsClean(i)', CookieIsClean',
           cookie' \in {cookie, Null, TokenOf(i)},
           TokenOf(i)' \in {TokenOf(i), cookie} \/ TokenOf(i)' \notin issued
    PROVE  SignInsAnswered' /\ Clean'
  <1>0. InTurn /\ (\A j \in Tabs : RenewalIsClean(j)) /\ CookieIsClean
        /\ \A k \in Tabs : SignInIsNew(k)
    BY DEF Clean
  <1>1. ASSUME NEW j \in Tabs, j # i PROVE RenewalIsClean(j)' /\ TokenOf(j)' = Null
    <2>1. TokenOf(j) = Null
      BY <1>0, <1>1, TokenKnown
    <2>2. RenewalIsClean(j)' /\ TokenOf(j)' = TokenOf(j)
      BY <1>0, <1>1, <2>1, RenewalKept DEF Renews
    <2>3. QED
      BY <2>1, <2>2
  <1>2. InTurn'
    BY DEF InTurn, Renews
  <1>3. \A k \in Tabs : net'[SignIn(k)].at = "answered" =>
           /\ net'[SignIn(k)] = net[SignIn(k)]
           /\ net[SignIn(k)].answer # old /\ net[SignIn(k)].answer # cookie'
           /\ \A j \in Tabs : TokenOf(j)' # net[SignIn(k)].answer
    BY <1>0, <1>1, NullIsNoToken DEF Renews, SignInIsNew
  <1>4. SignInsAnswered' /\ \A k \in Tabs : SignInIsNew(k)'
    BY <1>0, <1>3, NewKept DEF Renews
  <1>5. QED
    BY <1>1, <1>2, <1>4 DEF Clean

-----------------------------------------------------------------------------
(* Each step of a renewal, a sign-in and a page *)

\* With one renewal at a time, the cookie is clean before its answer arrives.
LEMMA OnlyRenewal ==
    ASSUME PanelAssumption, Clean, NEW i \in Tabs, turn = Null \/ net[Renew(i)].at # "none"
    PROVE  /\ \A j \in Tabs \ {i} : net[Renew(j)].at = "none"
           /\ \/ Spent(cookie)
              \/ net[Renew(i)].at = "answered" /\ net[Renew(i)].answer \in Tokens
           /\ turn = Null => net[Renew(i)].at = "none"
  <1>1. \A j \in Tabs \ {i} : net[Renew(j)].at = "none"
    BY DEF Clean, InTurn, PanelAssumption
  <1>2. turn = Null => net[Renew(i)].at = "none"
    BY DEF Clean, InTurn, PanelAssumption
  <1>3. QED
    BY <1>1, <1>2 DEF Clean, CookieIsClean

LEMMA SameRows ==
    ASSUME UNCHANGED vars
    PROVE  /\ UNCHANGED <<row, issued, openedAt, req>> /\ RowsStep(Null)
           /\ Stored' = Stored /\ Unrevoked' = Unrevoked /\ \A f : Of(f)' = Of(f)
  <1>1. UNCHANGED <<row, issued, openedAt, req>>
    BY DEF vars
  <1>2. QED
    BY <1>1, QuietRows DEF Stored, Unrevoked, Of

LEMMA ClosePageKeeps ==
    ASSUME PanelAssumption, IInv, IInv', NetTyped, PageTyped, SignInsAnswered, NEW i \in Tabs,
           ClosePage(i), lost \/ Clean
    PROVE  SignInsAnswered' /\ (lost' \/ Clean')
  <1>0. /\ UNCHANGED vars /\ UNCHANGED cookie
        /\ \A j \in Tabs \ {i} : /\ net'[Renew(j)] = net[Renew(j)]
                                 /\ net'[SignIn(j)] = net[SignIn(j)]
        /\ net'[SignIn(i)].at # "answered"
        /\ turn # i => turn' = turn
        /\ lost' \/ (~lost /\ net[Renew(i)].at = "none" /\ net'[Renew(i)] = NoExchange)
    BY ClosePageIs
  <1>1. SignInsAnswered'
    BY <1>0 DEF SignInsAnswered
  <1>2. SUFFICES ASSUME ~lost' PROVE Clean'
    BY <1>1
  <1>3. /\ Clean /\ InTurn /\ (\A j \in Tabs : RenewalIsClean(j)) /\ CookieIsClean
        /\ \A k \in Tabs : SignInIsNew(k)
    BY <1>0, <1>2 DEF Clean
  <1>4. /\ UNCHANGED <<row, issued, openedAt, req>> /\ RowsStep(Null)
        /\ Stored' = Stored /\ Unrevoked' = Unrevoked /\ \A f : Of(f)' = Of(f)
    BY <1>0, SameRows
  <1>5. net[Renew(i)].at = "none" /\ net'[Renew(i)] = NoExchange
    BY <1>0, <1>2
  <1>6. ASSUME NEW j \in Tabs PROVE RenewalIsClean(j)' /\ TokenOf(j)' = TokenOf(j)
    <2>1. CASE j # i
      BY <1>0, <1>3, <1>4, <2>1, RenewalKept
    <2>2. CASE j = i
      <3>1. TokenOf(j) = Null /\ TokenOf(j)' = Null
        BY <1>5, <2>2, NoExchangeIs DEF TokenOf
      <3>2. req'[Renew(j)].at \in {"close", "closing"} => Of(req[Renew(j)].family)' = {}
        BY <1>3, <1>4 DEF RenewalIsClean, Of
      <3>3. RenewalIsClean(j)'
        BY <1>5, <2>2, <3>2, NoExchangeIs DEF RenewalIsClean
      <3>4. QED
        BY <3>1, <3>3
    <2>3. QED
      BY <2>1, <2>2
  <1>7. InTurn'
    <2>1. ASSUME NEW j \in Tabs, net'[Renew(j)].at # "none"
          PROVE  turn' = j /\ ~net'[Renew(j)].dropped
      <3>1. j # i
        BY <1>5, <2>1, NoExchangeIs
      <3>2. turn = j /\ ~net[Renew(j)].dropped
        BY <1>0, <1>3, <2>1, <3>1 DEF InTurn
      <3>3. QED
        BY <1>0, <3>1, <3>2
    <2>2. QED
      BY <2>1 DEF InTurn
  <1>8. CookieIsClean'
    <2>1. Spent(cookie)' <=> Spent(cookie)
      BY <1>0, <1>4 DEF Spent
    <2>2. ASSUME NEW j \in Tabs, net[Renew(j)].at = "answered" PROVE net'[Renew(j)] = net[Renew(j)]
      BY <1>0, <1>5, <2>2
    <2>3. cookie' \in issued' \cup {Null}
      BY <1>0, <1>3, <1>4 DEF CookieIsClean
    <2>4. QED
      BY <1>3, <2>1, <2>2, <2>3 DEF CookieIsClean
  <1>9. \A k \in Tabs : SignInIsNew(k)'
    <2>1. \A k \in Tabs : net'[SignIn(k)].at = "answered" =>
             /\ net'[SignIn(k)] = net[SignIn(k)]
             /\ net[SignIn(k)].answer # Null /\ net[SignIn(k)].answer # cookie'
             /\ \A j \in Tabs : TokenOf(j)' # net[SignIn(k)].answer
      BY <1>0, <1>3, <1>6, NullIsNoToken DEF SignInIsNew
    <2>2. QED
      BY <1>3, <1>4, <2>1, NewKept
  <1>10. QED
    BY <1>6, <1>7, <1>8, <1>9 DEF Clean

\* A login is given a token that nobody has.
LEMMA SignInRunsKeeps ==
    ASSUME PanelAssumption, IInv, IInv', NetTyped, PageTyped, SignInsAnswered, NEW i \in Tabs,
           SignInRuns(i), lost \/ Clean
    PROVE  SignInsAnswered' /\ (lost' \/ Clean')
  <1>1. CASE Still
    BY <1>1, StillKeeps
  <1>2. ASSUME UNCHANGED <<cookie, turn, lost>>, RowsStep(Null),
               \A j \in Tabs :
                   /\ net'[Renew(j)] = net[Renew(j)] /\ req'[Renew(j)] = req[Renew(j)]
                   /\ j # i => net'[SignIn(j)] = net[SignIn(j)],
               NEW n \in Tokens \ issued, issued' = issued \cup {n}, Spent(n)',
               net'[SignIn(i)].at = "answered" =>
                   net'[SignIn(i)].answer = n /\ net'[SignIn(i)].session \in Families
        PROVE  SignInsAnswered' /\ (lost' \/ Clean')
    <2>1. SignInsAnswered'
      BY <1>2 DEF SignInsAnswered
    <2>2. SUFFICES ASSUME ~lost PROVE Clean'
      BY <1>2, <2>1
    <2>3. /\ InTurn /\ (\A j \in Tabs : RenewalIsClean(j)) /\ CookieIsClean
          /\ \A k \in Tabs : SignInIsNew(k)
      BY <2>2 DEF Clean
    <2>4. \A j \in Tabs : RenewalIsClean(j)' /\ TokenOf(j)' = TokenOf(j)
      BY <1>2, <2>3, RenewalKept
    <2>5. InTurn'
      BY <1>2, <2>3 DEF InTurn
    <2>6. CookieIsClean'
      <3>1. CASE Spent(cookie)
        BY <1>2, <2>3, <3>1, CookieKept
      <3>2. CASE \E j \in Tabs : net[Renew(j)].at = "answered" /\ net[Renew(j)].answer \in Tokens
        BY <1>2, <2>3, <3>2 DEF CookieIsClean
      <3>3. QED
        BY <2>3, <3>1, <3>2 DEF CookieIsClean
    <2>7. n # cookie /\ \A j \in Tabs : TokenOf(j)' # n
      <3>1. \A j \in Tabs : TokenOf(j) \in Tokens => TokenOf(j) \in issued
        BY <2>3, TokenKnown
      <3>2. QED
        BY <1>2, <2>3, <2>4, <3>1, NullIsNoToken DEF CookieIsClean
    <2>8. ASSUME NEW k \in Tabs, net'[SignIn(k)].at = "answered" PROVE SignInIsNew(k)'
      <3>1. CASE k # i
        <4>1. net[SignIn(k)].at = "answered" /\ SignInIsNew(k) /\ net'[SignIn(k)] = net[SignIn(k)]
          BY <1>2, <2>3, <2>8, <3>1
        <4>2. PICK t \in issued \ {Null} : t = net[SignIn(k)].answer
          BY <4>1, NullIsNoToken DEF SignInIsNew
        <4>3. Spent(t) /\ t # cookie /\ \A j \in Tabs : TokenOf(j) # t
          BY <4>1, <4>2 DEF SignInIsNew
        <4>4. t \in issued' /\ Spent(t)' /\ t # n
          BY <1>2, <4>2, <4>3 DEF RowsStep
        <4>5. \A j \in Tabs : net'[SignIn(j)].at = "answered" /\ net'[SignIn(j)].answer = t => j = k
          BY <1>2, <4>1, <4>2, <4>4 DEF SignInIsNew
        <4>6. t = net'[SignIn(k)].answer /\ t # cookie' /\ \A j \in Tabs : TokenOf(j)' # t
          BY <1>2, <2>4, <4>1, <4>2, <4>3
        <4>7. QED
          BY <4>4, <4>5, <4>6 DEF SignInIsNew, Spent
      <3>2. CASE k = i
        <4>1. n = net'[SignIn(k)].answer /\ n \in issued' /\ n # cookie'
          BY <1>2, <2>7, <2>8, <3>2
        <4>2. \A j \in Tabs : net'[SignIn(j)].at = "answered" /\ net'[SignIn(j)].answer = n => j = k
          <5>1. SUFFICES ASSUME NEW j \in Tabs, j # i, net'[SignIn(j)].at = "answered"
                         PROVE  net'[SignIn(j)].answer # n
            BY <3>2
          <5>2. net[SignIn(j)].at = "answered" /\ net'[SignIn(j)] = net[SignIn(j)]
            BY <1>2, <5>1
          <5>3. net[SignIn(j)].answer \in issued
            BY <2>3, <5>2 DEF SignInIsNew
          <5>4. QED
            BY <1>2, <5>2, <5>3
        <4>3. QED
          BY <1>2, <2>7, <4>1, <4>2 DEF SignInIsNew, Spent
      <3>3. QED
        BY <3>1, <3>2
    <2>9. \A k \in Tabs : SignInIsNew(k)'
      <3>1. ASSUME NEW k \in Tabs, net'[SignIn(k)].at # "answered" PROVE SignInIsNew(k)'
        BY <3>1 DEF SignInIsNew
      <3>2. QED
        BY <2>8, <3>1
    <2>10. QED
      BY <2>4, <2>5, <2>6, <2>9 DEF Clean
  <1>3. QED
    BY <1>1, <1>2, SignInRunsIs

LEMMA SignInAnsweredKeeps ==
    ASSUME PanelAssumption, IInv, IInv', NetTyped, PageTyped, SignInsAnswered, NEW i \in Tabs,
           SignInAnswered(i), lost \/ Clean
    PROVE  SignInsAnswered' /\ (lost' \/ Clean')
  <1>0. /\ UNCHANGED vars /\ UNCHANGED <<turn, lost>>
        /\ net[SignIn(i)].at = "answered" /\ cookie' = net[SignIn(i)].answer
        /\ \A j \in Tabs : /\ net'[Renew(j)] = net[Renew(j)]
                           /\ j # i => net'[SignIn(j)] = net[SignIn(j)]
        /\ net'[SignIn(i)].at # "answered"
    BY SignInAnsweredIs
  <1>1. SignInsAnswered'
    BY <1>0 DEF SignInsAnswered
  <1>2. SUFFICES ASSUME ~lost PROVE Clean'
    BY <1>0, <1>1
  <1>3. /\ InTurn /\ (\A j \in Tabs : RenewalIsClean(j)) /\ CookieIsClean
        /\ \A k \in Tabs : SignInIsNew(k)
    BY <1>2 DEF Clean
  <1>4. /\ UNCHANGED <<row, issued, openedAt, req>> /\ RowsStep(Null)
        /\ Stored' = Stored /\ Unrevoked' = Unrevoked /\ \A f : Of(f)' = Of(f)
    BY <1>0, SameRows
  <1>5. \A j \in Tabs : RenewalIsClean(j)' /\ TokenOf(j)' = TokenOf(j)
    BY <1>0, <1>3, <1>4, RenewalKept
  <1>6. InTurn'
    BY <1>0, <1>3 DEF InTurn
  <1>7. CookieIsClean'
    <2>1. PICK t \in issued : t = net[SignIn(i)].answer
      BY <1>0, <1>3 DEF SignInIsNew
    <2>2. Spent(t)
      BY <1>0, <1>3, <2>1 DEF SignInIsNew
    <2>3. Spent(t)' /\ t \in issued'
      BY <1>4, <2>1, <2>2 DEF Spent
    <2>4. cookie' = t
      BY <1>0, <2>1
    <2>5. QED
      BY <2>3, <2>4 DEF CookieIsClean, Spent
  <1>8. \A k \in Tabs : SignInIsNew(k)'
    <2>1. ASSUME NEW k \in Tabs, net'[SignIn(k)].at = "answered"
          PROVE  /\ net'[SignIn(k)] = net[SignIn(k)]
                 /\ net[SignIn(k)].answer # Null /\ net[SignIn(k)].answer # cookie'
                 /\ \A j \in Tabs : TokenOf(j)' # net[SignIn(k)].answer
      <3>1. k # i /\ net'[SignIn(k)] = net[SignIn(k)] /\ SignInIsNew(k)
        BY <1>0, <1>3, <2>1
      <3>2. net[SignIn(k)].at = "answered"
        BY <2>1, <3>1
      <3>3. net[SignIn(k)].answer \in issued /\ net[SignIn(k)].answer # net[SignIn(i)].answer
        BY <1>0, <3>1, <3>2 DEF SignInIsNew
      <3>4. \A j \in Tabs : TokenOf(j)' # net[SignIn(k)].answer
        BY <1>5, <3>1, <3>2 DEF SignInIsNew
      <3>5. QED
        BY <1>0, <3>1, <3>3, <3>4, NullIsNoToken
    <2>2. QED
      BY <1>3, <1>4, <2>1, NewKept
  <1>9. QED
    BY <1>5, <1>6, <1>7, <1>8 DEF Clean

LEMMA StartRenewalKeeps ==
    ASSUME PanelAssumption, IInv, IInv', NetTyped, PageTyped, SignInsAnswered, NEW i \in Tabs,
           StartRenewal(i), Clean
    PROVE  SignInsAnswered' /\ Clean'
  <1>0. /\ UNCHANGED vars /\ UNCHANGED <<cookie, lost>>
        /\ Renews(i, Null) /\ turn = Null /\ turn' = i
        /\ net'[Renew(i)].at = "sent" /\ ~net'[Renew(i)].dropped
        /\ net'[Renew(i)].cookie = cookie
    BY StartRenewalIs
  <1>1. /\ \A j \in Tabs \ {i} : net[Renew(j)].at = "none"
        /\ net[Renew(i)].at = "none" /\ Spent(cookie)
    BY <1>0, OnlyRenewal
  <1>2. RenewalIsClean(i) /\ CookieIsClean
    BY DEF Clean
  <1>3. /\ UNCHANGED <<row, issued, openedAt, req>> /\ RowsStep(Null)
        /\ Stored' = Stored /\ Unrevoked' = Unrevoked /\ \A f : Of(f)' = Of(f)
    BY <1>0, SameRows
  <1>4. CookieIsClean'
    BY <1>0, <1>1, <1>2, <1>3, CookieKept
  <1>5. net'[Renew(i)].cookie \in issued' \cup {Null} /\ Spent(net[Renew(i)].cookie)'
    BY <1>0, <1>1, <1>2, <1>3 DEF CookieIsClean, Spent
  <1>6. req'[Renew(i)].at \in {"close", "closing"} => Of(req[Renew(i)].family)' = {}
    BY <1>2, <1>3 DEF RenewalIsClean, Of
  <1>7. RenewalIsClean(i)' /\ TokenOf(i)' = cookie
    BY <1>0, <1>5, <1>6 DEF RenewalIsClean, TokenOf
  <1>8. QED
    BY <1>0, <1>1, <1>4, <1>7, RenewsKeeps

\* An answer without a token leaves nothing with the tab.
LEMMA ToldKeeps ==
    ASSUME PanelAssumption, IInv, IInv', NetTyped, SignInsAnswered, Clean, NEW i \in Tabs,
           UNCHANGED <<cookie, turn>>, Renews(i, Null), NEW a \in {"refused", "error"},
           Told(Renew(i), a), net[Renew(i)].at \in {"sent", "working"},
           req'[Renew(i)] = Idle \/ req'[Renew(i)] = req[Renew(i)]
    PROVE  SignInsAnswered' /\ Clean'
  <1>0. Renew(i) \in Requests
    BY NamesAre
  <1>1. /\ \A j \in Tabs \ {i} : net[Renew(j)].at = "none"
        /\ Spent(cookie)
    BY OnlyRenewal
  <1>2. /\ RenewalIsClean(i) /\ CookieIsClean /\ turn = i /\ ~net[Renew(i)].dropped
        /\ RowsStep(Null)
    BY DEF Clean, InTurn, Renews
  <1>3. /\ net'[Renew(i)].at = "answered" /\ net'[Renew(i)].answer = a
        /\ ~net'[Renew(i)].dropped
    BY <1>2 DEF Told
  <1>4. a \notin Tokens
    BY DEF PanelAssumption
  <1>5. CookieIsClean'
    BY <1>1, <1>2, CookieKept
  <1>6. TokenOf(i)' = a /\ a \notin issued
    BY <1>3, <1>4, NullIsNoToken DEF TokenOf
  <1>7. req'[Renew(i)].at \in {"close", "closing"} => Of(req[Renew(i)].family)' = {}
    <2>1. Idle.at = "idle"
      BY DEF Idle
    <2>2. SUFFICES ASSUME req'[Renew(i)] = req[Renew(i)], req[Renew(i)].at \in {"close", "closing"}
                   PROVE  Of(req[Renew(i)].family)' = {}
      BY <2>1
    <2>3. PICK f \in Families : f = req[Renew(i)].family /\ openedAt[f] \in Nat
      BY <1>0, <2>2 DEF IInv, RequestOK, ClosingOK, Opened
    <2>4. Of(f) = {}
      BY <1>2, <2>2, <2>3 DEF RenewalIsClean
    <2>5. Of(f)' = {}
      BY <1>2, <2>3, <2>4 DEF RowsStep
    <2>6. QED
      BY <2>2, <2>3, <2>5 DEF Of
  <1>8. RenewalIsClean(i)'
    BY <1>3, <1>4, <1>7 DEF RenewalIsClean
  <1>9. QED
    BY <1>1, <1>2, <1>3, <1>5, <1>6, <1>8, RenewsKeeps

LEMMA RenewalArrivesKeeps ==
    ASSUME PanelAssumption, IInv, IInv', NetTyped, PageTyped, SignInsAnswered, NEW i \in Tabs,
           RenewalArrives(i), Clean
    PROVE  SignInsAnswered' /\ Clean'
  <1> DEFINE r == Renew(i)
             t == net[r].cookie
  <1>0. /\ UNCHANGED <<cookie, turn, lost>> /\ Renews(i, Null) /\ net[r].at = "sent"
        /\ \/ Told(r, "refused") /\ req'[r] = req[r]
           \/ /\ net'[r].at = "working" /\ net'[r].dropped = net[r].dropped
              /\ UNCHANGED <<row, issued, openedAt>>
              /\ t \in Stored
              /\ \/ /\ row[t].revoked
                    /\ req'[r].at = "close" /\ req'[r].family = row[t].family
                 \/ /\ t \in Unrevoked
                    /\ req'[r].at = "read" /\ req'[r].token = t
    BY RenewalArrivesIs
  <1>1. CASE Told(r, "refused") /\ req'[r] = req[r]
    BY <1>0, <1>1, ToldKeeps
  <1>2. ASSUME net'[r].at = "working", net'[r].dropped = net[r].dropped,
               UNCHANGED <<row, issued, openedAt>>, t \in Stored,
               \/ /\ row[t].revoked
                  /\ req'[r].at = "close" /\ req'[r].family = row[t].family
               \/ /\ t \in Unrevoked
                  /\ req'[r].at = "read" /\ req'[r].token = t
        PROVE  SignInsAnswered' /\ Clean'
    <2>1. /\ \A j \in Tabs \ {i} : net[Renew(j)].at = "none"
          /\ Spent(cookie)
      BY <1>0, OnlyRenewal
    <2>2. /\ RenewalIsClean(i) /\ CookieIsClean /\ turn = i /\ ~net[r].dropped
          /\ RowsStep(Null)
      BY <1>0 DEF Clean, InTurn, Renews
    <2>3. CookieIsClean'
      BY <1>0, <2>1, <2>2, CookieKept
    <2>4. Spent(t) /\ TokenOf(i) = t
      BY <1>0, <2>2 DEF RenewalIsClean, TokenOf
    <2>5. CASE row[t].revoked /\ req'[r].at = "close" /\ req'[r].family = row[t].family
      <3>1. Of(row[t].family) = {}
        BY <1>2, <2>4, <2>5 DEF Spent
      <3>2. Of(req[r].family)' = {}
        BY <1>2, <2>5, <3>1 DEF Of, Unrevoked, Stored
      <3>3. RenewalIsClean(i)' /\ TokenOf(i)' = Null
        BY <1>2, <2>5, <3>2 DEF RenewalIsClean, TokenOf
      <3>4. QED
        BY <1>0, <1>2, <2>1, <2>2, <2>3, <3>3, NullIsNoToken, RenewsKeeps
    <2>6. CASE t \in Unrevoked /\ req'[r].at = "read" /\ req'[r].token = t
      <3>1. t \in Unrevoked'
        BY <1>2, <2>6 DEF Unrevoked, Stored
      <3>2. RenewalIsClean(i)' /\ TokenOf(i)' = t
        BY <1>2, <2>6, <3>1 DEF RenewalIsClean, TokenOf
      <3>3. QED
        BY <1>0, <1>2, <2>1, <2>2, <2>3, <2>4, <3>2, RenewsKeeps
    <2>7. QED
      BY <1>2, <2>5, <2>6
  <1>3. QED
    BY <1>0, <1>1, <1>2

LEMMA RenewalRunsKeeps ==
    ASSUME PanelAssumption, IInv, IInv', NetTyped, PageTyped, SignInsAnswered, NEW i \in Tabs,
           RenewalRuns(i), Clean
    PROVE  SignInsAnswered' /\ Clean'
  <1> DEFINE r == Renew(i)
             q == req[r]
  <1>0. /\ UNCHANGED <<cookie, turn, lost>> /\ net[r].at = "working"
    BY RenewalRunsIs
  <1>1. /\ \A j \in Tabs \ {i} : net[Renew(j)].at = "none"
        /\ Spent(cookie)
    BY <1>0, OnlyRenewal
  <1>2. RenewalIsClean(i) /\ CookieIsClean /\ turn = i /\ ~net[r].dropped
    BY <1>0 DEF Clean, InTurn
  <1>3. ASSUME Renews(i, Null), UNCHANGED <<row, issued, openedAt>>, net'[r] = net[r],
               \/ /\ q.at = "read" /\ q.token \in Unrevoked
                  /\ req'[r].at = "claimed" /\ req'[r].token = q.token
                  /\ req'[r].family = q.family
               \/ /\ q.at = "read" /\ q.token \notin Unrevoked
                  /\ req'[r].at = "close" /\ req'[r].family = q.family
               \/ q.at = "close" /\ req'[r].at = "closing" /\ req'[r].family = q.family
        PROVE  SignInsAnswered' /\ Clean'
    <2>1. CookieIsClean'
      BY <1>0, <1>1, <1>2, <1>3, CookieKept DEF Renews
    <2>2. CASE /\ q.at = "read" /\ q.token \in Unrevoked
               /\ req'[r].at = "claimed" /\ req'[r].token = q.token
      <3>1. req'[r].token \in Unrevoked'
        BY <1>3, <2>2 DEF Unrevoked, Stored
      <3>2. RenewalIsClean(i)'
        BY <1>0, <1>3, <2>2, <3>1 DEF RenewalIsClean
      <3>3. TokenOf(i)' = q.token /\ TokenOf(i) = q.token
        BY <1>0, <1>3, <2>2 DEF TokenOf
      <3>4. QED
        BY <1>0, <1>1, <1>2, <1>3, <2>1, <3>2, <3>3, RenewsKeeps
    <2>3. CASE \/ /\ q.at = "read" /\ q.token \notin Unrevoked
                  /\ req'[r].at = "close" /\ req'[r].family = q.family
               \/ q.at = "close" /\ req'[r].at = "closing" /\ req'[r].family = q.family
      <3>1. Of(q.family) = {}
        BY <1>0, <1>2, <2>3 DEF RenewalIsClean
      <3>2. Of(req[r].family)' = {}
        BY <1>3, <2>3, <3>1 DEF Of, Unrevoked, Stored
      <3>3. RenewalIsClean(i)' /\ TokenOf(i)' = Null
        BY <1>0, <1>3, <2>3, <3>2 DEF RenewalIsClean, TokenOf
      <3>4. QED
        BY <1>0, <1>1, <1>2, <1>3, <2>1, <3>3, NullIsNoToken, RenewsKeeps
    <2>4. QED
      BY <1>3, <2>2, <2>3
  <1>4. ASSUME Renews(i, q.token), q.at = "claimed", req'[r] = Idle,
               NEW n \in Tokens \ issued, issued' = issued \cup {n}, Spent(n)', Told(r, n)
        PROVE  SignInsAnswered' /\ Clean'
    <2>1. /\ net'[r].at = "answered" /\ net'[r].answer = n /\ ~net'[r].dropped
      BY <1>2, <1>4 DEF Told
    <2>2. TokenOf(i) = q.token
      BY <1>0, <1>4 DEF TokenOf
    <2>3. TokenOf(i)' = n
      BY <2>1 DEF TokenOf
    <2>4. CookieIsClean'
      BY <1>0, <1>2, <1>4, <2>1 DEF CookieIsClean
    <2>5. RenewalIsClean(i)'
      <3>1. req'[r].at = "idle"
        BY <1>4 DEF Idle
      <3>2. n \in issued'
        BY <1>4
      <3>3. Spent(net[r].answer)'
        BY <1>4, <2>1 DEF Spent
      <3>4. QED
        BY <2>1, <3>1, <3>2, <3>3 DEF RenewalIsClean
    <2>6. QED
      BY <1>0, <1>1, <1>2, <1>4, <2>1, <2>2, <2>3, <2>4, <2>5, RenewsKeeps
  <1>5. CASE Renews(i, Null) /\ Told(r, "refused") /\ req'[r] = Idle
    BY <1>0, <1>5, ToldKeeps
  <1>6. QED
    BY <1>3, <1>4, <1>5, RenewalRunsIs

LEMMA RenewalFailsKeeps ==
    ASSUME PanelAssumption, IInv, IInv', NetTyped, PageTyped, SignInsAnswered, NEW i \in Tabs,
           RenewalFails(i), Clean
    PROVE  SignInsAnswered' /\ Clean'
  BY RenewalFailsIs, ToldKeeps

\* The renewal is over, and the cookie is clean.
LEMMA OverKeeps ==
    ASSUME PanelAssumption, IInv, IInv', NetTyped, SignInsAnswered, Clean, NEW i \in Tabs,
           UNCHANGED vars, net[Renew(i)].at = "answered", net'[Renew(i)] = NoExchange,
           Renews(i, Null), turn # i => turn' = turn, CookieIsClean',
           cookie' \in {cookie, Null, TokenOf(i)}
    PROVE  SignInsAnswered' /\ Clean'
  <1>1. \A j \in Tabs \ {i} : net[Renew(j)].at = "none"
    BY OnlyRenewal
  <1>2. RenewalIsClean(i)
    BY DEF Clean
  <1>3. /\ UNCHANGED <<row, issued, openedAt, req>>
        /\ Stored' = Stored /\ Unrevoked' = Unrevoked /\ \A f : Of(f)' = Of(f)
    BY SameRows
  <1>4. req'[Renew(i)].at \in {"close", "closing"} => Of(req[Renew(i)].family)' = {}
    BY <1>2, <1>3 DEF RenewalIsClean, Of
  <1>5. RenewalIsClean(i)' /\ TokenOf(i)' = Null
    BY <1>4, NoExchangeIs DEF RenewalIsClean, TokenOf
  <1>6. QED
    BY <1>1, <1>5, NoExchangeIs, NullIsNoToken, RenewsKeeps

LEMMA RenewalAnsweredKeeps ==
    ASSUME PanelAssumption, IInv, IInv', NetTyped, PageTyped, SignInsAnswered, NEW i \in Tabs,
           RenewalAnswered(i), Clean
    PROVE  SignInsAnswered' /\ Clean'
  <1> DEFINE a == net[Renew(i)].answer
  <1>0. /\ UNCHANGED vars /\ UNCHANGED lost
        /\ net[Renew(i)].at = "answered" /\ net'[Renew(i)] = NoExchange
        /\ Renews(i, Null) /\ cookie' = CookieAfter(a)
        /\ turn # i => turn' = turn
    BY RenewalAnsweredIs
  <1>1. TokenOf(i) = a /\ cookie' = IF a \in Tokens THEN a ELSE Null
    BY <1>0 DEF TokenOf, CookieAfter
  <1>2. /\ UNCHANGED <<row, issued, openedAt, req>>
        /\ Stored' = Stored /\ Unrevoked' = Unrevoked /\ \A f : Of(f)' = Of(f)
    BY <1>0, SameRows
  <1>3. CookieIsClean'
    <2>1. CASE a \in Tokens
      <3>1. a \in issued /\ Spent(a)
        BY <1>0, <2>1 DEF Clean, RenewalIsClean
      <3>2. PICK t \in issued : t = a
        BY <3>1
      <3>3. t \in issued' /\ Spent(t)' /\ cookie' = t
        BY <1>1, <1>2, <2>1, <3>1, <3>2 DEF Spent
      <3>4. QED
        BY <3>3 DEF CookieIsClean, Spent
    <2>2. CASE a \notin Tokens
      <3>1. cookie' = Null /\ Spent(Null)'
        BY <1>1, <1>2, <2>2, NullIsNoToken DEF Spent
      <3>2. QED
        BY <3>1 DEF CookieIsClean, Spent
    <2>3. QED
      BY <2>1, <2>2
  <1>4. QED
    BY <1>0, <1>1, <1>3, OverKeeps

LEMMA AnswerLostKeeps ==
    ASSUME PanelAssumption, IInv, IInv', NetTyped, PageTyped, SignInsAnswered, NEW i \in Tabs,
           AnswerLost(i), lost \/ Clean
    PROVE  SignInsAnswered' /\ (lost' \/ Clean')
  <1>0. /\ UNCHANGED vars /\ UNCHANGED cookie
        /\ net[Renew(i)].at = "answered" /\ net'[Renew(i)] = NoExchange
        /\ Renews(i, Null)
        /\ lost' \/ (~lost /\ net[Renew(i)].answer \notin Tokens)
        /\ turn # i => turn' = turn
    BY AnswerLostIs
  <1>1. SignInsAnswered'
    BY <1>0 DEF SignInsAnswered, Renews
  <1>2. SUFFICES ASSUME ~lost' PROVE Clean'
    BY <1>1
  <1>3. Clean /\ CookieIsClean /\ Spent(cookie)
    BY <1>0, <1>2, OnlyRenewal DEF Clean
  <1>4. RowsStep(Null)
    BY <1>0, SameRows
  <1>5. CookieIsClean'
    BY <1>0, <1>3, <1>4, CookieKept
  <1>6. QED
    BY <1>0, <1>3, <1>5, OverKeeps

-----------------------------------------------------------------------------
(* The panel *)

Safe == IInv /\ NetTyped /\ PageTyped /\ SignInsAnswered /\ (lost \/ Clean)

\* Each step of a tab keeps it.
LEMMA TabStep ==
    ASSUME PanelAssumption, Safe, NEW i \in Tabs,
           \/ OpenPage(i) \/ ClosePage(i) \/ CallRefused(i) \/ KeepAlive(i) \/ SignOut(i)
           \/ StartRenewal(i) \/ RenewalArrives(i) \/ RenewalRuns(i) \/ RenewalFails(i)
           \/ RenewalAnswered(i) \/ AnswerLost(i)
           \/ LeaveRuns(i) \/ LeaveAnswered(i) \/ SignInRuns(i) \/ SignInAnswered(i)
    PROVE  Safe'
  <1>0. IInv /\ NetTyped /\ PageTyped /\ SignInsAnswered /\ (lost \/ Clean)
    BY DEF Safe
  <1>1. ASSUME Still, [Next]_vars PROVE IInv' /\ SignInsAnswered' /\ (lost' \/ Clean')
    <2>1. IInv'
      BY <1>0, <1>1, StepIInv
    <2>2. QED
      BY <1>0, <1>1, <2>1, StillKeeps
  <1>2. CASE OpenPage(i) \/ CallRefused(i) \/ KeepAlive(i) \/ SignOut(i)
    <2>1. Still /\ NetTyped' /\ PageTyped' /\ [Next]_vars
      BY <1>0, <1>2, OpenPageIs, CallRefusedIs, KeepAliveIs, SignOutIs
    <2>2. QED
      BY <1>1, <2>1 DEF Safe
  <1>3. CASE LeaveRuns(i) \/ LeaveAnswered(i)
    <2>1. Still /\ NetTyped' /\ PageTyped' /\ [Next]_vars
      BY <1>0, <1>3, LeaveRunsIs, LeaveAnsweredIs
    <2>2. QED
      BY <1>1, <2>1 DEF Safe
  <1>4. CASE ClosePage(i)
    <2>1. UNCHANGED vars /\ NetTyped' /\ PageTyped'
      BY <1>0, <1>4, ClosePageIs
    <2>2. IInv'
      BY <1>0, <2>1, StepIInv
    <2>3. QED
      BY <1>0, <1>4, <2>1, <2>2, ClosePageKeeps DEF Safe
  <1>5. CASE SignInRuns(i)
    <2>1. [Next]_vars /\ NetTyped' /\ PageTyped'
      BY <1>0, <1>5, SignInRunsIs
    <2>2. IInv'
      BY <1>0, <2>1, StepIInv
    <2>3. QED
      BY <1>0, <1>5, <2>1, <2>2, SignInRunsKeeps DEF Safe
  <1>6. CASE SignInAnswered(i)
    <2>1. UNCHANGED vars /\ NetTyped' /\ PageTyped'
      BY <1>0, <1>6, SignInAnsweredIs
    <2>2. IInv'
      BY <1>0, <2>1, StepIInv
    <2>3. QED
      BY <1>0, <1>6, <2>1, <2>2, SignInAnsweredKeeps DEF Safe
  <1>7. CASE AnswerLost(i)
    <2>1. UNCHANGED vars /\ NetTyped' /\ PageTyped'
      BY <1>0, <1>7, AnswerLostIs
    <2>2. IInv'
      BY <1>0, <2>1, StepIInv
    <2>3. QED
      BY <1>0, <1>7, <2>1, <2>2, AnswerLostKeeps DEF Safe
  <1>8. CASE \/ StartRenewal(i) \/ RenewalArrives(i) \/ RenewalRuns(i)
             \/ RenewalFails(i) \/ RenewalAnswered(i)
    <2>1. /\ [Next]_vars /\ NetTyped' /\ PageTyped' /\ lost' = lost
          /\ \E old : Renews(i, old)
      <3>1. CASE StartRenewal(i)
        BY <1>0, <3>1, StartRenewalIs
      <3>2. CASE RenewalArrives(i)
        BY <1>0, <3>2, RenewalArrivesIs
      <3>3. CASE RenewalRuns(i)
        BY <1>0, <3>3, RenewalRunsIs
      <3>4. CASE RenewalFails(i)
        BY <1>0, <3>4, RenewalFailsIs
      <3>5. CASE RenewalAnswered(i)
        BY <1>0, <3>5, RenewalAnsweredIs
      <3>6. QED
        BY <1>8, <3>1, <3>2, <3>3, <3>4, <3>5
    <2>2. IInv'
      BY <1>0, <2>1, StepIInv
    <2>3. SignInsAnswered'
      BY <1>0, <2>1 DEF SignInsAnswered, Renews
    <2>4. CASE lost
      BY <2>1, <2>2, <2>3, <2>4 DEF Safe
    <2>5. CASE Clean
      <3>1. Clean'
        BY <1>0, <1>8, <2>2, <2>5, StartRenewalKeeps, RenewalArrivesKeeps, RenewalRunsKeeps,
           RenewalFailsKeeps, RenewalAnsweredKeeps
      <3>2. QED
        BY <2>1, <2>2, <2>3, <3>1 DEF Safe
    <2>6. QED
      BY <1>0, <2>4, <2>5
  <1>9. QED
    BY <1>2, <1>3, <1>4, <1>5, <1>6, <1>7, <1>8

\* A step of a tab is a step of Sessions, or none of its steps.
LEMMA StepOfSessions ==
    ASSUME PanelAssumption, Safe, NEW i \in Tabs,
           \/ OpenPage(i) \/ ClosePage(i) \/ CallRefused(i) \/ KeepAlive(i) \/ SignOut(i)
           \/ StartRenewal(i) \/ RenewalArrives(i) \/ RenewalRuns(i) \/ RenewalFails(i)
           \/ RenewalAnswered(i) \/ AnswerLost(i)
           \/ LeaveRuns(i) \/ LeaveAnswered(i) \/ SignInRuns(i) \/ SignInAnswered(i)
    PROVE  [Next]_vars
  <1>0. IInv /\ NetTyped /\ PageTyped /\ SignInsAnswered
    BY DEF Safe
  <1>1. CASE OpenPage(i) \/ CallRefused(i) \/ KeepAlive(i) \/ SignOut(i)
    BY <1>0, <1>1, OpenPageIs, CallRefusedIs, KeepAliveIs, SignOutIs
  <1>2. CASE LeaveRuns(i) \/ LeaveAnswered(i)
    BY <1>0, <1>2, LeaveRunsIs, LeaveAnsweredIs
  <1>3. CASE ClosePage(i) \/ SignInAnswered(i) \/ AnswerLost(i)
    BY <1>0, <1>3, ClosePageIs, SignInAnsweredIs, AnswerLostIs
  <1>4. CASE SignInRuns(i)
    BY <1>0, <1>4, SignInRunsIs
  <1>5. CASE StartRenewal(i) \/ RenewalAnswered(i)
    BY <1>0, <1>5, StartRenewalIs, RenewalAnsweredIs
  <1>6. CASE RenewalArrives(i) \/ RenewalRuns(i) \/ RenewalFails(i)
    BY <1>0, <1>6, RenewalArrivesIs, RenewalRunsIs, RenewalFailsIs
  <1>7. QED
    BY <1>1, <1>2, <1>3, <1>4, <1>5, <1>6

\* A step that changes nothing.
LEMMA QuietStep ==
    ASSUME PanelAssumption, Safe, UNCHANGED allVars
    PROVE  Safe'
  <1>0. UNCHANGED vars /\ UNCHANGED panelVars
    BY DEF allVars
  <1>1. UNCHANGED <<cookie, hint, turn, tab, net, lost, faults>>
    BY <1>0 DEF panelVars
  <1>2. NetTyped' /\ PageTyped'
    BY <1>1 DEF Safe, NetTyped, PageTyped
  <1>3. IInv'
    BY <1>0, StepIInv DEF Safe
  <1>4. UNCHANGED <<row, issued, openedAt, req>> /\ RowsStep(Null)
    BY <1>0, SameRows
  <1>5. Still
    BY <1>1, <1>4 DEF Still
  <1>6. SignInsAnswered' /\ (lost' \/ Clean')
    BY <1>3, <1>5, StillKeeps DEF Safe
  <1>7. QED
    BY <1>2, <1>3, <1>6 DEF Safe

LEMMA InitSafe ==
    ASSUME PanelAssumption, PanelInit
    PROVE  Safe
  <1>1. /\ Init /\ cookie = Null /\ hint = FALSE /\ turn = Null
        /\ tab = [i \in Tabs |-> [status |-> "closed", session |-> Null, waits |-> {}]]
        /\ net = [r \in PanelRequests |-> NoExchange]
        /\ lost = FALSE /\ faults = 0
    BY DEF PanelInit
  <1>2. IInv /\ \A r \in Requests : req[r] = Idle
    BY <1>1, InitIInv DEF Init
  <1>3. NetTyped
    BY <1>1, NoExchangeIs DEF NetTyped
  <1>4. PageTyped
    <2>1. [status |-> "closed", session |-> Null, waits |-> {}] \in Tab
      BY FreshTab
    <2>2. tab \in [Tabs -> Tab]
      BY <1>1, <2>1
    <2>3. 0 \in 0..MaxFaults
      BY DEF PanelAssumption
    <2>4. QED
      BY <1>1, <2>2, <2>3 DEF PageTyped
  <1>5. \A i \in Tabs : /\ net[Renew(i)] = NoExchange /\ net[SignIn(i)] = NoExchange
                        /\ req[Renew(i)].at = "idle"
    <2>1. Idle.at = "idle"
      BY DEF Idle
    <2>2. QED
      BY <1>1, <1>2, <2>1, NamesAre
  <1>6. SignInsAnswered /\ InTurn /\ (\A k \in Tabs : SignInIsNew(k))
    BY <1>5, NoExchangeIs DEF SignInsAnswered, InTurn, SignInIsNew
  <1>7. \A i \in Tabs : RenewalIsClean(i)
    BY <1>5, NoExchangeIs DEF RenewalIsClean
  <1>8. CookieIsClean
    BY <1>1, <1>2, NullIsNoToken DEF CookieIsClean
  <1>9. QED
    BY <1>2, <1>3, <1>4, <1>6, <1>7, <1>8 DEF Safe, Clean

\* The types of the panel and of the sessions under it, and, as long as no
\* answer of a renewal is lost: one renewal at a time, in its tab's turn; no
\* exchanged token in the cookie, on the way to the backend or back; the token
\* of a login with nobody but its tab until it is the cookie
\* (httpClient.ts:98-130).
THEOREM PanelInvariant ==
    ASSUME PanelAssumption
    PROVE  PanelSpec => [](IInv /\ PanelInv)
  <1>1. PanelInit => Safe
    BY InitSafe
  <1>2. Safe /\ [PanelNext]_allVars => Safe'
    BY TabStep, QuietStep DEF PanelNext
  <1>3. Safe => IInv /\ PanelInv
    BY TypesAre DEF Safe, PanelInv, IInv
  <1>4. QED
    BY <1>1, <1>2, <1>3, PTL DEF PanelSpec

\* Tabs of one browser with navigator.locks never close each other's session:
\* when the backend closes a family for a renewal, no token of it was live,
\* unless an earlier renewal's answer never arrived (httpClient.ts:98,
\* session.service.ts:86).
THEOREM TabsNeverCollide ==
    ASSUME PanelAssumption
    PROVE  PanelSpec => []NoFalseReuse
  <1>1. PanelInv => NoFalseReuse
    BY DEF PanelInv, Clean, RenewalIsClean, NoFalseReuse
  <1>2. QED
    BY <1>1, PanelInvariant, PTL

\* The tabs of a browser only do what Sessions allows its requests: whatever
\* holds of Sessions for every interleaving of requests holds behind the tabs.
THEOREM TabsUseSessions ==
    ASSUME PanelAssumption
    PROVE  PanelSpec => Spec
  <1>1. PanelInit => Init
    BY DEF PanelInit
  <1>2. Safe /\ [PanelNext]_allVars => [Next]_vars
    <2>1. SUFFICES ASSUME Safe, [PanelNext]_allVars PROVE [Next]_vars
      OBVIOUS
    <2>2. CASE UNCHANGED allVars
      BY <2>2 DEF allVars
    <2>3. CASE PanelNext
      <3>1. PICK i \in Tabs :
               \/ OpenPage(i) \/ ClosePage(i) \/ CallRefused(i) \/ KeepAlive(i) \/ SignOut(i)
               \/ StartRenewal(i) \/ RenewalArrives(i) \/ RenewalRuns(i) \/ RenewalFails(i)
               \/ RenewalAnswered(i) \/ AnswerLost(i)
               \/ LeaveRuns(i) \/ LeaveAnswered(i) \/ SignInRuns(i) \/ SignInAnswered(i)
        BY <2>3, Zenon DEF PanelNext
      <3>2. QED
        BY <2>1, <3>1, StepOfSessions
    <2>4. QED
      BY <2>1, <2>2, <2>3
  <1>3. PanelInit => Safe
    BY InitSafe
  <1>4. Safe /\ [PanelNext]_allVars => Safe'
    BY TabStep, QuietStep DEF PanelNext
  <1>5. QED
    BY <1>1, <1>2, <1>3, <1>4, PTL DEF PanelSpec, Spec
-----------------------------------------------------------------------------
(* The lockout of repeated failed logins *)

CONSTANTS Emails, Addresses, Attempts, MaxFailed, Window, BaseLockout, MaxLockout, MaxTracked

VARIABLES clock, record, attempt, wrong, lastLock

Logins == INSTANCE LoginAttempts WITH now <- clock

\* The failures of a key that are not in its record are out of the window, and
\* those in it are too few to lock it.
FailuresOK(t, rec, w, k) ==
    /\ w \in Seq(Nat) /\ \A n \in DOMAIN w : w[n] <= t
    /\ k \in DOMAIN rec =>
          /\ rec[k] \in Logins!Record
          /\ rec[k].failures \subseteq DOMAIN w
          /\ Cardinality(rec[k].failures) < MaxFailed
          /\ rec[k].lastActivity <= t
          /\ \A n \in DOMAIN w : w[n] <= rec[k].lastActivity
          /\ \A n \in (DOMAIN w) \ rec[k].failures : t - w[n] >= Window
    /\ k \notin DOMAIN rec => \A n \in DOMAIN w : t - w[n] >= Window

\* The record of a key that was locked remembers it, until it has been unlocked
\* for as long as the longest lockout.
LockOK(t, rec, last, k) ==
    /\ last \in [lasted : Nat, until : Nat]
    /\ \/ last.lasted = 0
       \/ t - last.until >= MaxLockout
       \/ /\ k \in DOMAIN rec
          /\ last.until <= rec[k].lockedUntil
          /\ Logins!Smaller(2 * last.lasted, MaxLockout) <= Logins!LockoutDuration(rec[k].lockouts)

KeyOK(t, rec, w, last, k) == FailuresOK(t, rec, w, k) /\ LockOK(t, rec, last, k)

LoginInv ==
    /\ Logins!TypeOK
    /\ \A k \in Logins!Keys : KeyOK(clock, record, wrong[k], lastLock[k], k)

\* The library's Cardinality, by the name the instance has for it.
LEMMA SameCardinality ==
    \A S : Logins!Cardinality(S) = Cardinality(S)
  <1>1. \A S : Logins!IsFiniteSet(S) <=> IsFiniteSet(S)
    BY DEF Logins!IsFiniteSet, IsFiniteSet
  <1>2. QED
    BY <1>1 DEF Logins!Cardinality, Cardinality

\* Places in a sequence are finitely many.
LEMMA PlacesAreFinite ==
    ASSUME NEW w \in Seq(Nat), NEW P \in SUBSET DOMAIN w
    PROVE  IsFiniteSet(P) /\ Cardinality(P) \in Nat
  <1>1. DOMAIN w = 1 .. Len(w) /\ Len(w) \in Nat
    OBVIOUS
  <1>2. IsFiniteSet(DOMAIN w)
    BY <1>1, FS_Interval
  <1>3. IsFiniteSet(P)
    BY <1>2, FS_Subset
  <1>4. QED
    BY <1>3, FS_CardinalityType

\* A lockout is never longer than the longest, and the next is twice as long up
\* to it.
LEMMA DurationIs ==
    ASSUME Logins!LoginAttemptsAssumption, NEW n \in Nat \ {0}
    PROVE  /\ Logins!LockoutDuration(n) \in Nat
           /\ 2 * n \in Nat \ {0}
           /\ Logins!Smaller(2 * Logins!LockoutDuration(n), MaxLockout)
                 <= Logins!LockoutDuration(2 * n)
           /\ Logins!Smaller(2 * 0, MaxLockout) <= Logins!LockoutDuration(n)
  <1> DEFINE long == BaseLockout * n
  <1>1. long \in Nat /\ BaseLockout * (2 * n) = 2 * long /\ MaxLockout \in Nat
    BY DEF Logins!LoginAttemptsAssumption
  <1> HIDE DEF long
  <1>2. /\ Logins!LockoutDuration(n) = IF long <= MaxLockout THEN long ELSE MaxLockout
        /\ Logins!LockoutDuration(2 * n) = IF 2 * long <= MaxLockout THEN 2 * long ELSE MaxLockout
    BY <1>1 DEF Logins!LockoutDuration, Logins!Smaller, long
  <1>3. QED
    BY <1>1, <1>2 DEF Logins!Smaller

\* A key whose record starts over: nothing of it counts any more.
StartsOver(t, w, last) ==
    /\ \A n \in DOMAIN w : t - w[n] >= Window
    /\ last.lasted = 0 \/ t - last.until >= MaxLockout

LEMMA StaleStartsOver ==
    ASSUME Logins!LoginAttemptsAssumption, LoginInv, NEW k \in Logins!Keys,
           k \notin DOMAIN record \/ Logins!IsStale(record[k])
    PROVE  StartsOver(clock, wrong[k], lastLock[k])
  <1>1. /\ clock \in Nat /\ KeyOK(clock, record, wrong[k], lastLock[k], k)
        /\ Window \in Nat /\ MaxLockout \in Nat /\ Window <= MaxLockout
    BY DEF LoginInv, Logins!TypeOK, Logins!LoginAttemptsAssumption
  <1>2. CASE k \notin DOMAIN record
    BY <1>1, <1>2 DEF KeyOK, FailuresOK, LockOK, StartsOver
  <1>3. CASE k \in DOMAIN record /\ Logins!IsStale(record[k])
    <2> DEFINE r == record[k]
    <2>1. r.lockedUntil \in Nat /\ r.lastActivity \in Nat /\ r.lastActivity <= clock
      BY <1>1, <1>3 DEF KeyOK, FailuresOK, Logins!Record
    <2>2. clock - r.lockedUntil >= MaxLockout /\ clock - r.lastActivity >= MaxLockout
      BY <1>1, <1>3, <2>1 DEF Logins!IsStale, Logins!Larger
    <2>3. ASSUME NEW n \in DOMAIN wrong[k] PROVE clock - wrong[k][n] >= Window
      <3>1. wrong[k][n] \in Nat /\ wrong[k][n] <= r.lastActivity
        BY <1>1, <1>3 DEF KeyOK, FailuresOK
      <3>2. QED
        BY <1>1, <2>1, <2>2, <3>1
    <2>4. ASSUME lastLock[k].until <= r.lockedUntil
          PROVE  clock - lastLock[k].until >= MaxLockout
      <3>1. lastLock[k].until \in Nat
        BY <1>1 DEF KeyOK, LockOK
      <3>2. QED
        BY <1>1, <2>1, <2>2, <2>4, <3>1
    <2>5. lastLock[k].lasted = 0 \/ clock - lastLock[k].until >= MaxLockout
      BY <1>1, <1>3, <2>4 DEF KeyOK, LockOK
    <2>6. QED
      BY <2>3, <2>5 DEF StartsOver
  <1>4. QED
    BY <1>2, <1>3

\* The record of a key after one more failure.
LEMMA FailedIs ==
    ASSUME Logins!LoginAttemptsAssumption, LoginInv, NEW k \in Logins!Keys
    PROVE  LET r == Logins!Failed(k)
               w == wrong[k]
               known == k \in DOMAIN record /\ ~Logins!IsStale(record[k])
               lockouts == IF known THEN record[k].lockouts ELSE 1
           IN  /\ r \in [failures : SUBSET Nat, lockedUntil : Nat, lockouts : Nat \ {0},
                         lastActivity : Nat]
               /\ lockouts \in Nat \ {0} /\ r.lastActivity = clock
               /\ Logins!Locks(k) =>
                     /\ r.failures = {}
                     /\ r.lockedUntil = clock + Logins!LockoutDuration(lockouts)
                     /\ r.lockouts = 2 * lockouts
               /\ ~Logins!Locks(k) =>
                     /\ r.failures \subseteq DOMAIN w \cup {Len(w) + 1}
                     /\ Cardinality(r.failures) < MaxFailed
                     /\ Len(w) + 1 \in r.failures
                     /\ \A n \in (DOMAIN w) \ r.failures : clock - w[n] >= Window
                     /\ r.lockouts = lockouts
                     /\ known => r.lockedUntil = record[k].lockedUntil
  <1> DEFINE r == Logins!Failed(k)
             w == wrong[k]
             known == k \in DOMAIN record /\ ~Logins!IsStale(record[k])
             lockouts == IF known THEN record[k].lockouts ELSE 1
             old == IF known THEN record[k]
                    ELSE [failures |-> {}, lockedUntil |-> 0, lockouts |-> 1,
                          lastActivity |-> clock]
             fails == {n \in old.failures : Logins!InWindow(w[n])} \cup {Len(w) + 1}
             Records == [failures : SUBSET Nat, lockedUntil : Nat, lockouts : Nat \ {0},
                         lastActivity : Nat]
  <1>1. /\ clock \in Nat /\ w \in Seq(Nat) /\ Len(w) \in Nat /\ DOMAIN w = 1 .. Len(w)
        /\ Window \in Nat /\ MaxFailed \in Nat \ {0}
        /\ FailuresOK(clock, record, w, k)
    BY DEF LoginInv, KeyOK, FailuresOK, Logins!TypeOK, Logins!LoginAttemptsAssumption
  <1>2. /\ old \in Records /\ old.lockouts = lockouts /\ old.failures \subseteq DOMAIN w
        /\ known => old = record[k]
        /\ \A n \in (DOMAIN w) \ old.failures : clock - w[n] >= Window
    <2>1. CASE known
      BY <1>1, <2>1 DEF FailuresOK, Logins!Record
    <2>2. CASE ~known
      <3>1. StartsOver(clock, w, lastLock[k])
        BY <2>2, StaleStartsOver
      <3>2. QED
        BY <1>1, <2>2, <3>1 DEF StartsOver
    <2>3. QED
      BY <2>1, <2>2
  <1>3. r = IF Logins!Cardinality(fails) >= MaxFailed
            THEN [failures |-> {}, lockedUntil |-> clock + Logins!LockoutDuration(old.lockouts),
                  lockouts |-> 2 * old.lockouts, lastActivity |-> clock]
            ELSE [old EXCEPT !.failures = fails, !.lastActivity = clock]
    BY DEF Logins!Failed
  <1>4. /\ fails \subseteq DOMAIN w \cup {Len(w) + 1} /\ Len(w) + 1 \in fails
        /\ fails \subseteq Nat
        /\ \A n \in (DOMAIN w) \ fails : clock - w[n] >= Window
    <2>1. \A n \in DOMAIN w : w[n] \in Nat /\ n \in Nat
      BY <1>1
    <2>2. ASSUME NEW n \in (DOMAIN w) \ fails PROVE clock - w[n] >= Window
      <3>1. CASE n \in old.failures
        <4>1. ~(clock - w[n] < Window)
          BY <3>1 DEF Logins!InWindow
        <4>2. QED
          BY <1>1, <2>1, <4>1
      <3>2. CASE n \notin old.failures
        BY <1>2, <3>2
      <3>3. QED
        BY <3>1, <3>2
    <2>3. \A n \in fails : n \in old.failures \/ n = Len(w) + 1
      OBVIOUS
    <2>4. Len(w) + 1 \in fails
      OBVIOUS
    <2> HIDE DEF fails, old, w
    <2>5. QED
      BY <1>1, <1>2, <2>1, <2>2, <2>3, <2>4
  <1>5. lockouts \in Nat \ {0}
    BY <1>2
  <1>6. Logins!LockoutDuration(lockouts) \in Nat /\ 2 * lockouts \in Nat \ {0}
    BY <1>5, DurationIs
  <1>7. Logins!Locks(k) <=> r.failures = {}
    BY DEF Logins!Locks
  <1>8. IsFiniteSet(fails) /\ Cardinality(fails) \in Nat
    <2>1. fails \subseteq 1 .. (Len(w) + 1)
      BY <1>1, <1>4
    <2>2. IsFiniteSet(1 .. (Len(w) + 1))
      <3>1. Len(w) + 1 \in Int
        BY <1>1
      <3>2. QED
        BY <3>1, FS_Interval
    <2>3. IsFiniteSet(fails)
      BY <2>1, <2>2, FS_Subset
    <2>4. QED
      BY <2>3, FS_CardinalityType
  <1>9. CASE Cardinality(fails) >= MaxFailed
    <2>1. /\ r.failures = {} /\ r.lastActivity = clock
          /\ r.lockedUntil = clock + Logins!LockoutDuration(lockouts)
          /\ r.lockouts = 2 * lockouts
          /\ r = [failures |-> {}, lockedUntil |-> r.lockedUntil,
                  lockouts |-> r.lockouts, lastActivity |-> clock]
      <3> HIDE DEF fails, r
      <3>1. r = [failures |-> {}, lockedUntil |-> clock + Logins!LockoutDuration(old.lockouts),
                 lockouts |-> 2 * old.lockouts, lastActivity |-> clock]
        BY <1>3, <1>9, SameCardinality
      <3> HIDE DEF old, lockouts
      <3>2. QED
        BY <1>2, <3>1
    <2>2. r \in Records
      <3> HIDE DEF r, lockouts, fails, old
      <3>1. r.lockedUntil \in Nat /\ r.lockouts \in Nat \ {0}
        BY <1>1, <1>6, <2>1
      <3>2. QED
        BY <1>1, <2>1, <3>1
    <2> HIDE DEF r, lockouts, fails, old, Records
    <2>3. Logins!Locks(k)
      BY <1>7, <2>1
    <2>4. QED
      BY <1>5, <2>1, <2>2, <2>3 DEF r, lockouts, Records
  <1>10. CASE ~(Cardinality(fails) >= MaxFailed)
    <2>1. r = [old EXCEPT !.failures = fails, !.lastActivity = clock]
      <3> HIDE DEF fails, r, old
      <3>1. QED
        BY <1>3, <1>10, SameCardinality
    <2>2. /\ r.failures = fails /\ r.lastActivity = clock
          /\ r.lockedUntil = old.lockedUntil /\ r.lockouts = old.lockouts
          /\ r \in Records
      <3> HIDE DEF fails, r, old
      <3>1. QED
        BY <1>1, <1>2, <1>4, <2>1
    <2>3. ~Logins!Locks(k)
      <3> HIDE DEF fails, r, old
      <3>1. QED
        BY <1>4, <1>7, <2>2
    <2>4. Cardinality(fails) < MaxFailed
      <3> HIDE DEF fails
      <3>1. QED
        BY <1>1, <1>8, <1>10
    <2> HIDE DEF fails, r, old, lockouts, w, known, Records
    <2>5. known => r.lockedUntil = record[k].lockedUntil
      BY <1>2, <2>2
    <2>6. QED
      BY <1>2, <1>4, <1>5, <2>2, <2>3, <2>4, <2>5 DEF r, w, known, lockouts, Records
  <1>11. QED
    BY <1>9, <1>10

\* A wrong password that is counted.
LEMMA FailureKeeps ==
    ASSUME Logins!LoginAttemptsAssumption, LoginInv, NEW keys \in SUBSET Logins!Keys,
           Logins!RegisterFailure(keys), UNCHANGED clock, NEW k \in Logins!Keys
    PROVE  /\ KeyOK(clock', record', wrong'[k], lastLock'[k], k)
           /\ \/ lastLock'[k] = lastLock[k]
              \/ lastLock'[k].lasted >= Logins!Smaller(2 * lastLock[k].lasted, MaxLockout)
              \/ clock - lastLock[k].until >= MaxLockout
  <1> DEFINE r == Logins!Failed(k)
             w == wrong[k]
             last == lastLock[k]
             known == k \in DOMAIN record /\ ~Logins!IsStale(record[k])
             lockouts == IF known THEN record[k].lockouts ELSE 1
  <1>1. /\ clock \in Nat /\ KeyOK(clock, record, w, last, k)
        /\ w \in Seq(Nat) /\ Len(w) \in Nat
        /\ last.lasted \in Nat /\ last.until \in Nat
        /\ Window \in Nat \ {0} /\ MaxLockout \in Nat /\ MaxFailed \in Nat \ {0}
    BY DEF LoginInv, KeyOK, FailuresOK, LockOK, Logins!TypeOK, Logins!LoginAttemptsAssumption
  <1>2. /\ DOMAIN record' = Logins!Kept \cup keys /\ Logins!Kept \in SUBSET DOMAIN record
        /\ k \in keys => record'[k] = r
        /\ k \notin keys /\ k \in DOMAIN record' => record'[k] = record[k]
        /\ wrong'[k] = IF k \notin keys THEN w ELSE IF Logins!Locks(k) THEN <<>> ELSE Append(w, clock)
        /\ lastLock'[k] = IF k \in keys /\ Logins!Locks(k)
                          THEN [lasted |-> r.lockedUntil - clock, until |-> r.lockedUntil]
                          ELSE last
    BY DEF Logins!RegisterFailure, Logins!Kept
  <1>3. k \notin keys /\ k \notin DOMAIN record' =>
            k \notin DOMAIN record \/ Logins!IsStale(record[k])
    BY <1>2 DEF Logins!Kept
  <1>4. ~known => StartsOver(clock, w, last)
    BY StaleStartsOver
  <1>5. clock' = clock
    OBVIOUS
  <1>6. CASE k \notin keys
    <2>1. CASE k \in DOMAIN record'
      <3>1. k \in DOMAIN record
        BY <1>2, <1>6, <2>1
      <3>2. QED
        BY <1>1, <1>2, <1>5, <1>6, <2>1, <3>1 DEF KeyOK, FailuresOK, LockOK
    <2>2. CASE k \notin DOMAIN record'
      <3>1. StartsOver(clock, w, last)
        BY <1>3, <1>4, <1>6, <2>2
      <3>2. QED
        BY <1>1, <1>2, <1>5, <1>6, <2>2, <3>1
           DEF KeyOK, FailuresOK, LockOK, StartsOver
    <2>3. QED
      BY <2>1, <2>2
  <1>7. /\ r \in Logins!Record /\ lockouts \in Nat \ {0} /\ r.lastActivity = clock
        /\ Logins!Locks(k) =>
              /\ r.failures = {}
              /\ r.lockedUntil = clock + Logins!LockoutDuration(lockouts)
              /\ r.lockouts = 2 * lockouts
        /\ ~Logins!Locks(k) =>
              /\ r.failures \subseteq DOMAIN w \cup {Len(w) + 1}
              /\ Cardinality(r.failures) < MaxFailed
              /\ Len(w) + 1 \in r.failures
              /\ \A n \in (DOMAIN w) \ r.failures : clock - w[n] >= Window
              /\ r.lockouts = lockouts
              /\ known => r.lockedUntil = record[k].lockedUntil
    BY FailedIs DEF Logins!Record
  <1> DEFINE duration == Logins!LockoutDuration(lockouts)
  <1>8. /\ duration \in Nat
        /\ Logins!Smaller(2 * duration, MaxLockout) <= Logins!LockoutDuration(2 * lockouts)
        /\ Logins!Smaller(2 * 0, MaxLockout) <= duration
    BY <1>7, DurationIs
  <1>9. \/ last.lasted = 0
        \/ clock - last.until >= MaxLockout
        \/ /\ known /\ last.until <= record[k].lockedUntil
           /\ Logins!Smaller(2 * last.lasted, MaxLockout) <= duration
    <2>1. CASE known
      BY <1>1, <2>1 DEF KeyOK, LockOK
    <2>2. CASE ~known
      BY <1>4, <2>2 DEF StartsOver
    <2>3. QED
      BY <2>1, <2>2
  <1> HIDE DEF r, w, last, known, lockouts, duration
  <1>10. k \in keys => k \in DOMAIN record'
    BY <1>2
  <1>11. CASE k \in keys /\ Logins!Locks(k)
    <2>1. /\ lastLock'[k] = [lasted |-> duration, until |-> r.lockedUntil]
          /\ r.lockedUntil \in Nat /\ r.lockouts = 2 * lockouts /\ r.failures = {}
          /\ wrong'[k] = <<>>
      <3>1. r.lockedUntil - clock = duration /\ r.lockedUntil \in Nat
        BY <1>1, <1>7, <1>8, <1>11 DEF duration
      <3>2. QED
        BY <1>2, <1>7, <1>11, <3>1
    <2>2. FailuresOK(clock', record', wrong'[k], k)
      <3>1. Cardinality({}) < MaxFailed
        BY <1>1, FS_EmptySet
      <3>2. record'[k] = r /\ k \in DOMAIN record'
        BY <1>2, <1>10, <1>11
      <3>3. \A n \in DOMAIN wrong'[k] : FALSE
        BY <2>1
      <3>4. wrong'[k] \in Seq(Nat)
        BY <2>1
      <3>5. r \in Logins!Record /\ r.failures = {} /\ r.lastActivity = clock /\ clock <= clock
        BY <1>1, <1>7, <2>1
      <3>6. QED
        BY <1>5, <3>1, <3>2, <3>3, <3>4, <3>5 DEF FailuresOK
    <2>3. LockOK(clock', record', lastLock'[k], k)
      <3>1. /\ lastLock'[k] \in [lasted : Nat, until : Nat]
            /\ lastLock'[k].lasted = duration /\ lastLock'[k].until = r.lockedUntil
        BY <1>8, <2>1
      <3>2. record'[k] = r /\ k \in DOMAIN record'
        BY <1>2, <1>10, <1>11
      <3>3. r.lockedUntil <= r.lockedUntil
        BY <2>1
      <3>4. QED
        BY <1>8, <2>1, <3>1, <3>2, <3>3 DEF LockOK
    <2>4. \/ duration >= Logins!Smaller(2 * last.lasted, MaxLockout)
          \/ clock - last.until >= MaxLockout
      <3>1. Logins!Smaller(2 * last.lasted, MaxLockout) \in Nat
            /\ Logins!Smaller(2 * 0, MaxLockout) \in Nat
        BY <1>1 DEF Logins!Smaller
      <3>2. QED
        BY <1>8, <1>9, <3>1
    <2>5. QED
      BY <2>1, <2>2, <2>3, <2>4 DEF KeyOK, last
  <1>12. CASE k \in keys /\ ~Logins!Locks(k)
    <2>1. /\ record'[k] = r /\ k \in DOMAIN record'
          /\ wrong'[k] = Append(w, clock) /\ lastLock'[k] = last
      BY <1>2, <1>10, <1>12
    <2>2. FailuresOK(clock', record', wrong'[k], k)
      <3> DEFINE more == Append(w, clock)
      <3>1. /\ more \in Seq(Nat) /\ DOMAIN more = DOMAIN w \cup {Len(w) + 1}
            /\ more[Len(w) + 1] = clock /\ \A n \in DOMAIN w : more[n] = w[n]
        BY <1>1
      <3>2. \A n \in DOMAIN w : w[n] \in Nat /\ w[n] <= clock
        BY <1>1 DEF KeyOK, FailuresOK
      <3> HIDE DEF more
      <3>3. \A n \in DOMAIN more : more[n] <= clock
        BY <1>1, <3>1, <3>2
      <3>4. \A n \in (DOMAIN more) \ r.failures : clock - more[n] >= Window
        BY <1>7, <1>12, <3>1
      <3>5. r.failures \subseteq DOMAIN more
        BY <1>7, <1>12, <3>1
      <3>6. QED
        BY <1>5, <1>7, <1>12, <2>1, <3>1, <3>3, <3>4, <3>5 DEF FailuresOK, more
    <2>3. LockOK(clock', record', lastLock'[k], k)
      <3>1. last \in [lasted : Nat, until : Nat]
        BY <1>1 DEF KeyOK, LockOK
      <3>2. known => r.lockedUntil = record[k].lockedUntil
        BY <1>7, <1>12
      <3>3. r.lockouts = lockouts
        BY <1>7, <1>12
      <3>4. QED
        BY <1>5, <1>9, <2>1, <3>1, <3>2, <3>3 DEF LockOK, duration
    <2>4. QED
      BY <2>1, <2>2, <2>3 DEF KeyOK, last
  <1>13. QED
    BY <1>6, <1>11, <1>12

\* The right password.
LEMMA SuccessKeeps ==
    ASSUME Logins!LoginAttemptsAssumption, LoginInv, NEW keys \in SUBSET Logins!Keys,
           Logins!RegisterSuccess(keys), UNCHANGED clock, NEW k \in Logins!Keys
    PROVE  /\ KeyOK(clock', record', wrong'[k], lastLock'[k], k)
           /\ lastLock'[k] = lastLock[k] \/ lastLock'[k].lasted = 0
  <1>1. /\ DOMAIN record' = (DOMAIN record) \ keys
        /\ k \notin keys /\ k \in DOMAIN record => record'[k] = record[k]
        /\ wrong'[k] = IF k \in keys THEN <<>> ELSE wrong[k]
        /\ lastLock'[k] = IF k \in keys THEN [lasted |-> 0, until |-> 0] ELSE lastLock[k]
        /\ clock' = clock
    BY DEF Logins!RegisterSuccess
  <1>2. KeyOK(clock, record, wrong[k], lastLock[k], k)
    BY DEF LoginInv
  <1>3. CASE k \in keys
    <2>1. wrong'[k] \in Seq(Nat) /\ \A n \in DOMAIN wrong'[k] : FALSE
      BY <1>1, <1>3
    <2>2. k \notin DOMAIN record'
      BY <1>1, <1>3
    <2>3. FailuresOK(clock', record', wrong'[k], k)
      BY <2>1, <2>2 DEF FailuresOK
    <2>4. /\ lastLock'[k] = [lasted |-> 0, until |-> 0]
          /\ lastLock'[k] \in [lasted : Nat, until : Nat] /\ lastLock'[k].lasted = 0
      BY <1>1, <1>3
    <2>5. QED
      BY <2>3, <2>4 DEF KeyOK, LockOK
  <1>4. CASE k \notin keys
    BY <1>1, <1>2, <1>4 DEF KeyOK, FailuresOK, LockOK
  <1>5. QED
    BY <1>3, <1>4

\* Time passes: what is out of the window stays out of it.
LEMMA ClockKeeps ==
    ASSUME Logins!LoginAttemptsAssumption, LoginInv, Logins!Tick, NEW k \in Logins!Keys
    PROVE  KeyOK(clock', record', wrong'[k], lastLock'[k], k)
  <1> DEFINE w == wrong[k]
             last == lastLock[k]
  <1>1. /\ clock \in Nat /\ clock' = clock + 1 /\ UNCHANGED <<record, wrong, lastLock>>
        /\ KeyOK(clock, record, w, last, k) /\ Window \in Nat /\ MaxLockout \in Nat
    BY DEF LoginInv, Logins!Tick, Logins!TypeOK, Logins!LoginAttemptsAssumption
  <1>2. \A n \in DOMAIN w :
            /\ w[n] \in Nat /\ w[n] <= clock + 1
            /\ clock - w[n] >= Window => clock + 1 - w[n] >= Window
    <2>1. \A n \in DOMAIN w : w[n] \in Nat /\ w[n] <= clock
      BY <1>1 DEF KeyOK, FailuresOK
    <2>2. QED
      BY <1>1, <2>1
  <1>3. k \in DOMAIN record => record[k].lastActivity <= clock + 1
    <2>1. ASSUME k \in DOMAIN record
          PROVE  record[k].lastActivity \in Nat /\ record[k].lastActivity <= clock
      BY <1>1, <2>1 DEF KeyOK, FailuresOK, Logins!Record
    <2>2. QED
      BY <1>1, <2>1
  <1>4. FailuresOK(clock', record', wrong'[k], k)
    BY <1>1, <1>2, <1>3 DEF KeyOK, FailuresOK
  <1>5. clock - last.until >= MaxLockout => clock + 1 - last.until >= MaxLockout
    <2>1. last.until \in Nat
      BY <1>1 DEF KeyOK, LockOK
    <2>2. QED
      BY <1>1, <2>1
  <1>6. LockOK(clock', record', lastLock'[k], k)
    BY <1>1, <1>5 DEF KeyOK, LockOK
  <1>7. QED
    BY <1>4, <1>6 DEF KeyOK

\* A lockout of a key is longer than its last one, or long after it.
GrewOrRested(k) ==
    lastLock'[k] # lastLock[k] /\ lastLock'[k].lasted > 0 =>
        \/ lastLock'[k].lasted >= Logins!Smaller(2 * lastLock[k].lasted, MaxLockout)
        \/ clock - lastLock[k].until >= MaxLockout

LEMMA AttemptTypes ==
    ASSUME Logins!LoginAttemptsAssumption, LoginInv, NEW a \in Attempts
    PROVE  /\ Logins!NoAttempt \in Logins!Attempt
           /\ attempt[a].keys \in SUBSET Logins!Keys
           /\ \A e \in Logins!Attempt :
                 [attempt EXCEPT ![a] = e] \in [Attempts -> Logins!Attempt]
  BY DEF LoginInv, Logins!TypeOK, Logins!Attempt, Logins!NoAttempt

LEMMA LoginSteps ==
    ASSUME Logins!LoginAttemptsAssumption, LoginInv, [Logins!Next]_Logins!vars
    PROVE  LoginInv' /\ \A k \in Logins!Keys : GrewOrRested(k)
  <1>1. ASSUME NEW a \in Attempts, Logins!Check(a) \/ Logins!AnswerLocked(a)
        PROVE  LoginInv' /\ \A k \in Logins!Keys : GrewOrRested(k)
    <2>1. /\ UNCHANGED <<clock, record, wrong, lastLock>>
          /\ attempt' \in [Attempts -> Logins!Attempt]
      <3>1. CASE Logins!Check(a)
        <4>1. PICK e \in Emails, ip \in Addresses :
                  attempt' = [attempt EXCEPT ![a] =
                                 [at |-> "checked", keys |-> {e, ip},
                                  locked |-> Logins!IsLocked({e, ip})]]
          BY <3>1 DEF Logins!Check
        <4>2. [at |-> "checked", keys |-> {e, ip}, locked |-> Logins!IsLocked({e, ip})]
                  \in Logins!Attempt
          <5>1. Logins!IsLocked({e, ip}) \in BOOLEAN
            BY DEF Logins!IsLocked
          <5>2. {e, ip} \in SUBSET Logins!Keys
            BY DEF Logins!Keys
          <5>3. QED
            BY <5>1, <5>2 DEF Logins!Attempt
        <4>3. QED
          BY <3>1, <4>1, <4>2, AttemptTypes DEF Logins!Check
      <3>2. CASE Logins!AnswerLocked(a)
        BY <3>2, AttemptTypes DEF Logins!AnswerLocked
      <3>3. QED
        BY <1>1, <3>1, <3>2
    <2>2. QED
      BY <2>1 DEF LoginInv, Logins!TypeOK, GrewOrRested
  <1>2. ASSUME NEW a \in Attempts, Logins!AnswerWrong(a)
        PROVE  LoginInv' /\ \A k \in Logins!Keys : GrewOrRested(k)
    <2> DEFINE keys == attempt[a].keys
    <2>1. /\ keys \in SUBSET Logins!Keys /\ Logins!RegisterFailure(keys) /\ UNCHANGED clock
          /\ attempt' \in [Attempts -> Logins!Attempt]
      BY <1>2, AttemptTypes DEF Logins!AnswerWrong
    <2> HIDE DEF keys
    <2>2. \A k \in Logins!Keys : KeyOK(clock', record', wrong'[k], lastLock'[k], k)
      BY <2>1, FailureKeeps
    <2>3. \A k \in Logins!Keys : GrewOrRested(k)
      BY <2>1, FailureKeeps DEF GrewOrRested
    <2>4. DOMAIN record' \subseteq Logins!Keys
      BY <2>1 DEF LoginInv, Logins!TypeOK, Logins!RegisterFailure, Logins!Kept
    <2>5. \A k \in DOMAIN record' : record'[k] \in Logins!Record
      BY <2>2, <2>4 DEF KeyOK, FailuresOK
    <2>6. QED
      BY <2>1, <2>2, <2>3, <2>4, <2>5 DEF LoginInv, Logins!TypeOK
  <1>3. ASSUME NEW a \in Attempts, Logins!AnswerRight(a)
        PROVE  LoginInv' /\ \A k \in Logins!Keys : GrewOrRested(k)
    <2> DEFINE keys == attempt[a].keys
    <2>1. /\ keys \in SUBSET Logins!Keys /\ Logins!RegisterSuccess(keys) /\ UNCHANGED clock
          /\ attempt' \in [Attempts -> Logins!Attempt]
      BY <1>3, AttemptTypes DEF Logins!AnswerRight
    <2> HIDE DEF keys
    <2>2. \A k \in Logins!Keys : KeyOK(clock', record', wrong'[k], lastLock'[k], k)
      BY <2>1, SuccessKeeps
    <2>3. \A k \in Logins!Keys : GrewOrRested(k)
      BY <2>1, SuccessKeeps DEF GrewOrRested
    <2>4. DOMAIN record' \subseteq Logins!Keys
      BY <2>1 DEF LoginInv, Logins!TypeOK, Logins!RegisterSuccess
    <2>5. \A k \in DOMAIN record' : record'[k] \in Logins!Record
      BY <2>2, <2>4 DEF KeyOK, FailuresOK
    <2>6. QED
      BY <2>1, <2>2, <2>3, <2>4, <2>5 DEF LoginInv, Logins!TypeOK
  <1>4. CASE Logins!Tick
    <2>1. \A k \in Logins!Keys : KeyOK(clock', record', wrong'[k], lastLock'[k], k)
      BY <1>4, ClockKeeps
    <2>2. clock' \in 0 .. Horizon /\ UNCHANGED <<record, attempt, lastLock>>
      BY <1>4 DEF Logins!Tick, LoginInv, Logins!TypeOK, Logins!LoginAttemptsAssumption
    <2>3. QED
      BY <2>1, <2>2 DEF LoginInv, Logins!TypeOK, GrewOrRested
  <1>5. CASE UNCHANGED Logins!vars
    BY <1>5 DEF LoginInv, Logins!vars, Logins!TypeOK, GrewOrRested
  <1>6. QED
    BY <1>1, <1>2, <1>3, <1>4, <1>5 DEF Logins!Next

LEMMA LoginStarts ==
    ASSUME Logins!LoginAttemptsAssumption, Logins!Init
    PROVE  LoginInv
  <1>1. Logins!TypeOK
    BY DEF Logins!Init, Logins!TypeOK, Logins!NoAttempt, Logins!Attempt,
           Logins!LoginAttemptsAssumption
  <1>2. ASSUME NEW k \in Logins!Keys
        PROVE  KeyOK(clock, record, wrong[k], lastLock[k], k)
    <2>1. /\ clock = 0 /\ k \notin DOMAIN record /\ wrong[k] = <<>>
          /\ lastLock[k] = [lasted |-> 0, until |-> 0]
      BY DEF Logins!Init
    <2>2. \A n \in DOMAIN wrong[k] : FALSE
      BY <2>1
    <2>3. lastLock[k] \in [lasted : Nat, until : Nat] /\ lastLock[k].lasted = 0
      BY <2>1
    <2>4. wrong[k] \in Seq(Nat)
      BY <2>1
    <2>5. QED
      BY <2>1, <2>2, <2>3, <2>4 DEF KeyOK, FailuresOK, LockOK
  <1>3. QED
    BY <1>1, <1>2 DEF LoginInv

\* The lockout (LoginAttemptTracker), for every set of emails and addresses,
\* any number of attempts in flight and any limit, window and durations whose
\* longest lockout is no shorter than the window: since the last lockout of a
\* key fewer than the limit of wrong passwords are in the window, whatever the
\* tracker prunes or starts over.
THEOREM LoginsHoldTheWindow ==
    ASSUME Logins!LoginAttemptsAssumption
    PROVE  Logins!Spec => [](Logins!TypeOK /\ Logins!WindowHolds)
  <1>1. ASSUME LoginInv PROVE Logins!TypeOK /\ Logins!WindowHolds
    <2>1. ASSUME NEW k \in Logins!Keys
          PROVE  Cardinality({n \in DOMAIN wrong[k] : clock - wrong[k][n] < Window}) < MaxFailed
      <3> DEFINE w == wrong[k]
                 counted == {n \in DOMAIN w : clock - w[n] < Window}
      <3>1. /\ clock \in Nat /\ w \in Seq(Nat) /\ FailuresOK(clock, record, w, k)
            /\ Window \in Nat /\ MaxFailed \in Nat \ {0}
            /\ \A n \in DOMAIN w : w[n] \in Nat
        BY <1>1 DEF LoginInv, KeyOK, FailuresOK, Logins!TypeOK, Logins!LoginAttemptsAssumption
      <3>2. CASE k \in DOMAIN record
        <4>1. counted \in SUBSET record[k].failures
          BY <3>1, <3>2 DEF FailuresOK
        <4>2. record[k].failures \in SUBSET DOMAIN w
          BY <3>1, <3>2 DEF FailuresOK
        <4>3. IsFiniteSet(record[k].failures) /\ Cardinality(record[k].failures) \in Nat
          BY <3>1, <4>2, PlacesAreFinite
        <4>4. Cardinality(counted) \in Nat
          BY <3>1, PlacesAreFinite
        <4>5. Cardinality(counted) <= Cardinality(record[k].failures)
          BY <4>1, <4>3, FS_Subset
        <4>6. Cardinality(record[k].failures) < MaxFailed
          BY <3>1, <3>2 DEF FailuresOK
        <4> HIDE DEF counted
        <4>7. Cardinality(counted) < MaxFailed
          BY <3>1, <4>3, <4>4, <4>5, <4>6
        <4>8. QED
          BY <4>7 DEF counted
      <3>3. CASE k \notin DOMAIN record
        <4>1. \A n \in DOMAIN w : ~(clock - w[n] < Window)
          BY <3>1, <3>3 DEF FailuresOK
        <4>2. counted = {}
          BY <4>1
        <4>3. Cardinality(counted) = 0
          BY <4>2, FS_EmptySet
        <4>4. QED
          BY <3>1, <4>3
      <3>4. QED
        BY <3>2, <3>3
    <2>2. QED
      BY <1>1, <2>1, SameCardinality DEF LoginInv, Logins!WindowHolds
  <1>2. Logins!Init => LoginInv
    BY LoginStarts
  <1>3. LoginInv /\ [Logins!Next]_Logins!vars => LoginInv'
    BY LoginSteps
  <1>4. QED
    BY <1>1, <1>2, <1>3, PTL DEF Logins!Spec

\* And a key that locks again locks for at least twice as long, up to the
\* longest lockout, unless it was unlocked for that long in between.
THEOREM LocksOnlyGrow ==
    ASSUME Logins!LoginAttemptsAssumption
    PROVE  Logins!Spec => Logins!LocksGrow
  <1>1. ASSUME LoginInv, [Logins!Next]_Logins!vars
        PROVE  [\A k \in Logins!Keys :
                  lastLock'[k] # lastLock[k] /\ lastLock'[k].lasted > 0
                  => \/ lastLock'[k].lasted >= Logins!Smaller(2 * lastLock[k].lasted, MaxLockout)
                     \/ clock - lastLock[k].until >= MaxLockout]_Logins!vars
    BY <1>1, LoginSteps DEF GrewOrRested
  <1>2. Logins!Init => LoginInv
    BY LoginStarts
  <1>3. LoginInv /\ [Logins!Next]_Logins!vars => LoginInv'
    BY LoginSteps
  <1>4. QED
    BY <1>1, <1>2, <1>3, PTL DEF Logins!Spec, Logins!LocksGrow
=============================================================================
