------------------------------- MODULE MCEnds --------------------------------
(***************************************************************************)
(* The backend's parts that must end or get somewhere, for TLC.  They share*)
(* nothing here, so their state graphs are put side by side, not           *)
(* multiplied: the initial state says which part runs, and the variables   *)
(* of the others stay as they are.                                         *)
(*                                                                         *)
(* The fairness of a part that does not run asks for nothing: none of its  *)
(* fair actions is enabled in its initial state.                           *)
(***************************************************************************)
EXTENDS CounterLock

CONSTANTS r1, r2, res26, res27, p1, land, d1, a

VARIABLES
    part,
    \* Settlements
    settlement, audited, settlementJob, request,
    \* AssistantLoop
    phase, configured, withExcel, messages, toolsCalled, queue, results,
    proposals, settlements, aborted, answer,
    \* AssistantLimit
    now, sent, let, restarts, wait,
    \* Templates
    saved, blob, rowLock, draft, kept, sweep, fileRequest, cancelled, undone,
    abandoned, faults

settlementVars == <<settlement, audited, settlementJob, request>>
loopVars == <<phase, configured, withExcel, messages, toolsCalled, queue, results,
              proposals, settlements, aborted, answer>>
limitVars == <<now, sent, let, restarts, wait>>
draftVars == <<saved, blob, rowLock, draft, kept, sweep, fileRequest, cancelled, undone,
               abandoned, faults>>
allVars == <<part, vars, settlementVars, loopVars, limitVars, draftVars>>

\* Two years of one kind: their counters share the settlements' link column.
MCKinds == {"resolution"}
MCKindOf == [c \in {res26, res27} |-> "resolution"]

\* The sweep against one request of any kind, changes to PAGADA included.
Sweep == INSTANCE Settlements WITH
             Rows <- {r1, r2}, Periods <- {p1},
             PropertyOf <- [p \in {p1} |-> land], Risk <- {},
             Requests <- {r1}, Settled <- {"PAGADA"},
             job <- settlementJob, tx <- request

Loop == INSTANCE AssistantLoop WITH
            MaxTools <- 2, MaxHistory <- 1, MaxCalls <- 2, rows <- withExcel

\* A second is two instants, and the window four.
Limit == INSTANCE AssistantLimit WITH
             PerWindow <- 2, Window <- 4, Second <- 2, MaxTime <- 8,
             MaxRestarts <- 1

\* One request beside the hourly sweep, and two failures or stops: a sweep that is
\* cut short, and the one that finds what it left.
Files == INSTANCE Templates WITH
             Requests <- {r1}, Contents <- {a}, Drafts <- {d1},
             Marked <- [d \in {d1} |-> a], MaxVersion <- 1, MaxFaults <- 2,
             lock <- rowLock, req <- fileRequest

\* The bounds are what the modules assume of their constants.
ASSUME Bounds ==
    /\ Loop!AssistantLoopAssumption /\ Limit!AssistantLimitAssumption
    /\ Files!TemplatesAssumption

MCInit ==
    /\ part \in {"numbers", "settlements", "loop", "limit", "drafts"}
    /\ Init /\ Sweep!Init /\ Loop!Init /\ Limit!Init /\ Files!Init

MCNext ==
    \/ /\ part = "numbers" /\ Next
       /\ UNCHANGED <<part, settlementVars, loopVars, limitVars, draftVars>>
    \/ /\ part = "settlements" /\ Sweep!Next
       /\ UNCHANGED <<part, vars, loopVars, limitVars, draftVars>>
    \/ /\ part = "loop" /\ Loop!Next
       /\ UNCHANGED <<part, vars, settlementVars, limitVars, draftVars>>
    \/ /\ part = "limit" /\ Limit!Next
       /\ UNCHANGED <<part, vars, settlementVars, loopVars, draftVars>>
    \/ /\ part = "drafts" /\ Files!Next
       /\ UNCHANGED <<part, vars, settlementVars, loopVars, limitVars>>

MCSpec ==
    /\ MCInit /\ [][MCNext]_allVars
    /\ Fairness /\ Sweep!Fairness /\ Loop!Fairness /\ Files!Fairness

-----------------------------------------------------------------------------

\* AssistantLoop: the provider is sent a conversation it can answer, with no
\* document number of those that are masked; a reply carries the last proposal of its message, which
\* runs no more tools than its limit, whatever the rounds.  AssistantLimit: no
\* window lets more messages through than its limit, and who waits what a
\* refusal said is let through.
AssistantHolds ==
    /\ Loop!TypeOK /\ Loop!ProviderCanAnswer /\ Loop!NoDocumentLeaves
    /\ Loop!AnswerIsTrue
    /\ Limit!TypeOK /\ Limit!WindowHolds /\ Limit!WaitIsEnough

\* What the backend's answers and rows rest on: in CounterLock, a settlement's
\* link and its document say the same number.
BackendIsTrue == LinksMatchDocuments /\ AssistantHolds

\* CounterLock: every transaction that opened commits or rolls back.
\* AssistantLoop: a message is answered even if the provider never does.
RequestsEnd == TransactionsEnd /\ Loop!Answered

\* Settlements: what the sweep is to mark EN_FIRME does not wait for ever.
FirmEventually == Sweep!FirmEventually

\* Templates: an expired draft is removed in the end, by its owner or by the
\* sweep, though Storage fails and the process stops on the way.
ExpiredAreSwept == Files!ExpiredAreSwept
=============================================================================
