---------------------------- MODULE AssistantLimit ----------------------------
(***************************************************************************)
(* AssistantRateLimiter: the messages one Administrator may send, over a   *)
(* sliding window, and the wait a refused one is told.  The count is in    *)
(* memory; the process may restart.                                        *)
(***************************************************************************)
EXTENDS Integers, FiniteSets, Sequences

CONSTANTS
    PerWindow,   \* MESSAGES_PER_WINDOW
    Window,      \* WINDOW_MS
    Second,      \* a second, in the unit of Window
    MaxTime,     \* bound: instants
    MaxRestarts  \* bound: restarts

AssistantLimitAssumption ==
    /\ PerWindow \in Nat \ {0} /\ Second \in Nat \ {0}
    /\ Window \in Nat \ {0} /\ Window % Second = 0
    /\ MaxTime \in Nat /\ MaxRestarts \in Nat

VARIABLES
    now,
    sent,       \* the Administrator's that are kept, by their place in let
    let,        \* when each message was let through
    restarts,   \* when the process restarted
    wait        \* the last refusal: when, and the seconds it was told

vars == <<now, sent, let, restarts, wait>>

NoWait == [at |-> 0, seconds |-> 0]

TypeOK ==
    /\ now \in 0 .. MaxTime
    /\ let \in Seq(Nat) /\ \A i \in DOMAIN let : let[i] <= now
    /\ restarts \in Seq(Nat) /\ \A i \in DOMAIN restarts : restarts[i] <= now
    /\ sent \subseteq DOMAIN let
    /\ wait.at \in 0 .. now /\ wait.seconds \in Nat

Init == now = 0 /\ sent = {} /\ let = <<>> /\ restarts = <<>> /\ wait = NoWait

Recent == {i \in sent : now - let[i] < Window}

Oldest == CHOOSE i \in Recent : \A k \in Recent : i <= k

AtLeast(low, n) == IF n < low THEN low ELSE n

\* Rounded up, and never 0.
RetryAfter == AtLeast(1, (let[Oldest] + Window - now + Second - 1) \div Second)

Consume ==
    IF Cardinality(Recent) >= PerWindow
    THEN /\ sent' = Recent
         /\ wait' = [at |-> now, seconds |-> RetryAfter]
         /\ UNCHANGED <<now, let, restarts>>
    ELSE /\ sent' = Recent \cup {Len(let) + 1}
         /\ let' = Append(let, now)
         /\ wait' = NoWait
         /\ UNCHANGED <<now, restarts>>

Restart ==
    /\ Len(restarts) < MaxRestarts
    /\ restarts' = Append(restarts, now)
    /\ sent' = {} /\ wait' = NoWait
    /\ UNCHANGED <<now, let>>

Tick == now < MaxTime /\ now' = now + 1 /\ UNCHANGED <<sent, let, restarts, wait>>

Next == Consume \/ Restart \/ Tick

Spec == Init /\ [][Next]_vars

-----------------------------------------------------------------------------
(* Properties *)

CountIn(times, from) ==
    Cardinality({i \in DOMAIN times : from <= times[i] /\ times[i] < from + Window})

\* No window of time, wherever it starts, lets more than PerWindow messages
\* through, and a restart gives back at most one window's worth
\* (assistant-rate-limiter.ts:21-23,31-44).
WindowHolds ==
    \A from \in 0 .. now :
        CountIn(let, from) <= PerWindow * (1 + CountIn(restarts, from))

\* Who waits the seconds a refusal said, and sends nothing else, is let
\* through: the wait is never short (assistant-rate-limiter.ts:38-40).
WaitIsEnough ==
    wait # NoWait /\ now >= wait.at + wait.seconds * Second
        => Cardinality(Recent) < PerWindow
=============================================================================
