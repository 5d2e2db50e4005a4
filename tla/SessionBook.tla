---------------------------- MODULE SessionBook ----------------------------
(***************************************************************************)
(* What a session is for those who hold it, without tokens, rows or        *)
(* transactions: it is opened by a login, stays open while it is renewed,  *)
(* and is closed once.                                                     *)
(***************************************************************************)
CONSTANT Families

VARIABLES
    open,    \* sessions nobody has closed yet
    closed   \* sessions that were open and are over

vars == <<open, closed>>

Init == open = {} /\ closed = {}

\* One or more sessions end for good: a logout, a reuse, a password change,
\* or rows past their expiry that a login deletes.
Close(S) ==
    /\ S \subseteq open
    /\ open' = open \ S
    /\ closed' = closed \cup S

\* A login opens a session and clears away the expired ones.
Login(f, S) ==
    /\ f \notin open \cup closed
    /\ S \subseteq open
    /\ open' = (open \ S) \cup {f}
    /\ closed' = closed \cup S

Next ==
    \/ \E f \in Families, S \in SUBSET Families : Login(f, S)
    \/ \E S \in SUBSET Families : Close(S)

Spec == Init /\ [][Next]_vars
=============================================================================
