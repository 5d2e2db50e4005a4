----------------------------- MODULE NumberBook -----------------------------
(***************************************************************************)
(* What the consecutive counters promise, without locks, transactions or   *)
(* requests: one book per counter, where entry n says who issued number n. *)
(* A book grows at its end and loses entries only when a failed job hands  *)
(* back the last ones, which are all its own.                              *)
(***************************************************************************)
EXTENDS Integers

CONSTANTS
    Jobs, Counters, Null,
    Sizes   \* how many numbers may be taken at once

VARIABLES
    size,  \* size[c]: how many numbers of c are in use
    by,    \* by[c][n]: the job that issued number n of c, Null for the panel
    open   \* open[j]: NotOpen, or the counter and the size of a job's range

vars == <<size, by, open>>

NotOpen == [counter |-> Null, size |-> 0]

\* n more entries of owner o on top of the book of c.
Add(c, n, o) ==
    /\ size' = [size EXCEPT ![c] = @ + n]
    /\ by' = [by EXCEPT ![c] =
                 [i \in 1..(size[c] + n) |-> IF i <= size[c] THEN by[c][i] ELSE o]]

\* The last n entries of the book of c are taken off.
Remove(c, n) ==
    /\ size' = [size EXCEPT ![c] = @ - n]
    /\ by' = [by EXCEPT ![c] = [i \in 1..(size[c] - n) |-> by[c][i]]]

Init ==
    /\ size = [c \in Counters |-> 0]
    /\ by = [c \in Counters |-> [i \in 1..0 |-> Null]]
    /\ open = [j \in Jobs |-> NotOpen]

\* The panel issues numbers of c: never on top of a range still open.
Issue(c, n) ==
    /\ n > 0
    /\ \A j \in Jobs : open[j].counter # c
    /\ Add(c, n, Null)
    /\ UNCHANGED open

\* A job takes n numbers of c while no other job is open.
Reserve(j, c, n) ==
    /\ \A i \in Jobs : open[i] = NotOpen
    /\ Add(c, n, j)
    /\ open' = [open EXCEPT ![j] = [counter |-> c, size |-> n]]

\* The job ends well and keeps its numbers.
Close(j) ==
    /\ open[j] # NotOpen
    /\ open' = [open EXCEPT ![j] = NotOpen]
    /\ UNCHANGED <<size, by>>

\* The job fails: its numbers, the last of the book, are free again.
HandBack(j) ==
    LET c == open[j].counter
        n == open[j].size
    IN  /\ open[j] # NotOpen
        /\ \A i \in (size[c] - n + 1)..size[c] : by[c][i] = j
        /\ Remove(c, n)
        /\ open' = [open EXCEPT ![j] = NotOpen]

Next ==
    \/ \E c \in Counters, n \in Sizes : Issue(c, n)
    \/ \E j \in Jobs, c \in Counters, n \in Sizes : Reserve(j, c, n)
    \/ \E j \in Jobs : Close(j)
    \/ \E j \in Jobs : HandBack(j)

Spec == Init /\ [][Next]_vars
=============================================================================
