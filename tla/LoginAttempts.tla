--------------------------- MODULE LoginAttempts ---------------------------
(***************************************************************************)
(* The temporary lockout after repeated failed logins (and wrong current   *)
(* passwords in a password change), kept in the backend's memory per email *)
(* and per client address.  An attempt looks at the lock, then waits for   *)
(* the database and the hash, and then counts; the tracker's own methods   *)
(* run to their end without interruption.                                  *)
(***************************************************************************)
EXTENDS Integers, Sequences, FiniteSets

CONSTANTS
    Emails, Addresses,
    Attempts,      \* attempts that may be in flight at the same time
    MaxFailed,     \* MAX_FAILED_ATTEMPTS
    Window,        \* FAILURE_WINDOW_MS, in ticks
    BaseLockout,   \* BASE_LOCKOUT_MS
    MaxLockout,    \* MAX_LOCKOUT_MS
    MaxTracked,    \* MAX_TRACKED_KEYS
    Horizon        \* bound: the last tick

\* The relation of the source's values that the counts rely on.
LoginAttemptsAssumption ==
    /\ MaxFailed \in Nat \ {0}
    /\ Window \in Nat \ {0}
    /\ BaseLockout \in Nat \ {0}
    /\ MaxLockout \in Nat
    /\ Window <= MaxLockout
    /\ Horizon \in Nat

VARIABLES
    now,
    record,   \* the tracker's map, from its keys to their records
    attempt,  \* what each attempt in flight has seen
    wrong,    \* of each key, when wrong passwords were counted since its last lock
    lastLock  \* history: the last lockout of each key and its end

vars == <<now, record, attempt, wrong, lastLock>>

Keys == Emails \cup Addresses

\* failures: those of wrong[key] that still count, by their place in it.
\* lockouts: what they multiply the next one by, 2 ** lockouts in the code.
Record ==
    [failures : SUBSET Nat, lockedUntil : Nat, lockouts : Nat \ {0}, lastActivity : Nat]

Attempt == [at : {"idle", "checked"}, keys : SUBSET Keys, locked : BOOLEAN]

NoAttempt == [at |-> "idle", keys |-> {}, locked |-> FALSE]

TypeOK ==
    /\ now \in 0..Horizon
    /\ DOMAIN record \subseteq Keys
    /\ \A k \in DOMAIN record : record[k] \in Record
    /\ attempt \in [Attempts -> Attempt]

-----------------------------------------------------------------------------
(* The tracker *)

Smaller(a, b) == IF a <= b THEN a ELSE b
Larger(a, b) == IF a >= b THEN a ELSE b

\* lockoutDurationMs: doubled by every lockout before it, up to the cap.
LockoutDuration(lockouts) == Smaller(BaseLockout * lockouts, MaxLockout)

\* isStale: unlocked and quiet for as long as the longest lockout.
IsStale(r) == now - Larger(r.lockedUntil, r.lastActivity) >= MaxLockout

IsLocked(keys) == \E k \in keys \cap DOMAIN record : record[k].lockedUntil > now

InWindow(failedAt) == now - failedAt < Window

\* The record of a key after one more failure, its next in wrong[k].
Failed(k) ==
    LET known == k \in DOMAIN record /\ ~IsStale(record[k])
        old   == IF known THEN record[k]
                 ELSE [failures |-> {}, lockedUntil |-> 0, lockouts |-> 1, lastActivity |-> now]
        fails == {n \in old.failures : InWindow(wrong[k][n])} \cup {Len(wrong[k]) + 1}
    IN  IF Cardinality(fails) >= MaxFailed
        THEN [failures |-> {}, lockedUntil |-> now + LockoutDuration(old.lockouts),
              lockouts |-> 2 * old.lockouts, lastActivity |-> now]
        ELSE [old EXCEPT !.failures = fails, !.lastActivity = now]

\* That failure locks it.
Locks(k) == Failed(k).failures = {}

\* prune: only when the map is full, and only records that start over anyway.
Kept == IF Cardinality(DOMAIN record) < MaxTracked THEN DOMAIN record
        ELSE {k \in DOMAIN record : ~IsStale(record[k])}

RegisterFailure(keys) ==
    /\ record' = [k \in Kept \cup keys |-> IF k \in keys THEN Failed(k) ELSE record[k]]
    /\ wrong' = [k \in Keys |->
                    IF k \notin keys THEN wrong[k]
                    ELSE IF Locks(k) THEN <<>> ELSE Append(wrong[k], now)]
    /\ lastLock' = [k \in Keys |->
                       IF k \in keys /\ Locks(k)
                       THEN [lasted |-> Failed(k).lockedUntil - now, until |-> Failed(k).lockedUntil]
                       ELSE lastLock[k]]

\* registerSuccess: the keys start over.
RegisterSuccess(keys) ==
    /\ record' = [k \in (DOMAIN record) \ keys |-> record[k]]
    /\ wrong' = [k \in Keys |-> IF k \in keys THEN <<>> ELSE wrong[k]]
    /\ lastLock' = [k \in Keys |-> IF k \in keys THEN [lasted |-> 0, until |-> 0] ELSE lastLock[k]]

-----------------------------------------------------------------------------
(* An attempt: login, or the current password of changePassword *)

\* isLocked, before the account is read and the hash compared.
Check(a) ==
    /\ attempt[a].at = "idle"
    /\ \E e \in Emails, ip \in Addresses :
          attempt' = [attempt EXCEPT ![a] =
                         [at |-> "checked", keys |-> {e, ip}, locked |-> IsLocked({e, ip})]]
    /\ UNCHANGED <<now, record, wrong, lastLock>>

\* A locked attempt is answered as a wrong one and counts for nothing.
AnswerLocked(a) ==
    /\ attempt[a].at = "checked"
    /\ attempt[a].locked
    /\ attempt' = [attempt EXCEPT ![a] = NoAttempt]
    /\ UNCHANGED <<now, record, wrong, lastLock>>

AnswerWrong(a) ==
    /\ attempt[a].at = "checked"
    /\ ~attempt[a].locked
    /\ RegisterFailure(attempt[a].keys)
    /\ attempt' = [attempt EXCEPT ![a] = NoAttempt]
    /\ UNCHANGED now

AnswerRight(a) ==
    /\ attempt[a].at = "checked"
    /\ ~attempt[a].locked
    /\ RegisterSuccess(attempt[a].keys)
    /\ attempt' = [attempt EXCEPT ![a] = NoAttempt]
    /\ UNCHANGED now

Tick ==
    /\ now < Horizon
    /\ now' = now + 1
    /\ UNCHANGED <<record, attempt, wrong, lastLock>>

Init ==
    /\ now = 0
    /\ record = [k \in {} |-> 0]
    /\ attempt = [a \in Attempts |-> NoAttempt]
    /\ wrong = [k \in Keys |-> <<>>]
    /\ lastLock = [k \in Keys |-> [lasted |-> 0, until |-> 0]]

Next ==
    \/ \E a \in Attempts : Check(a) \/ AnswerLocked(a) \/ AnswerWrong(a) \/ AnswerRight(a)
    \/ Tick

Spec == Init /\ [][Next]_vars

-----------------------------------------------------------------------------
(* Properties *)

\* Since the last lockout or success of a key, fewer than MaxFailed wrong
\* passwords were counted in any stretch of the window that ends now: no
\* record is thrown away (isStale, prune) while its failures still count.
WindowHolds ==
    \A k \in Keys :
        Cardinality({n \in DOMAIN wrong[k] : now - wrong[k][n] < Window}) < MaxFailed

\* A key that locks again locks for at least twice as long, up to the cap,
\* unless it was unlocked for as long as the longest lockout in between.
LocksGrow ==
    [][\A k \in Keys :
          lastLock'[k] # lastLock[k] /\ lastLock'[k].lasted > 0
          => \/ lastLock'[k].lasted >= Smaller(2 * lastLock[k].lasted, MaxLockout)
             \/ now - lastLock[k].until >= MaxLockout]_vars
=============================================================================
