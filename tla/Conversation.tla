---------------------------- MODULE Conversation ----------------------------
(***************************************************************************)
(* A conversation of the panel with Slompsim, against the backend that     *)
(* reviews and applies its proposals: conversationReducer with the hook    *)
(* useSlompsimConversation and the buttons of its entries, and             *)
(* AssistantToolsService.proposeStatusChange with                          *)
(* AssistantChangesService.confirm.                                        *)
(*                                                                         *)
(* A request is two steps, the backend's and the delivery of its answer.   *)
(* A reply or a preview (call) is aborted when the conversation ends; a    *)
(* confirmation is not, so there may be one in flight that an earlier      *)
(* conversation sent.  The other Administrators, the sweeps and the        *)
(* imports change the rows in between.                                     *)
(*                                                                         *)
(* The entries of a conversation are numbered as they are appended, and    *)
(* none is numbered twice, so they are kept by number: a function instead  *)
(* of a list.                                                              *)
(*                                                                         *)
(* A proposal has one target state, which the model, a button of the       *)
(* unlisted question or one of a rejection chose.  What is said is text.   *)
(***************************************************************************)
EXTENDS Naturals, FiniteSets

CONSTANTS
    Rows,        \* settlements
    Towns,
    TownOf,      \* the municipality of each row
    MaxBatch,    \* MAX_CHANGES_PER_BATCH
    MaxId,       \* bound: entries a conversation starts by its own
    MaxSwitches, \* bound: changes of municipality
    MaxConfirms, \* bound: confirmations in flight
    MaxFaults,   \* bound: requests that fail
    Null

ASSUME ConversationAssumption ==
    /\ TownOf \in [Rows -> Towns]
    /\ MaxBatch \in Nat \ {0} /\ MaxId \in Nat
    /\ MaxSwitches \in Nat /\ MaxConfirms \in Nat /\ MaxFaults \in Nat

\* PAGADA stands for ACUERDO_DE_PAGO too; "gone" is a replaced row.
Targets  == {"firm", "paid", "prescribed"}
Statuses == Targets \cup {"gone"}

VARIABLES
    status, ordered,   \* of each row; ordered: in a recent payment order
    town,              \* the municipality the panel shows
    entries, nextId, waiting, appliedIds,   \* ConversationState: entries by id
    last,              \* lastRequest: what "Reintentar" repeats
    call,              \* the reply or preview in flight, or Null
    confirms,          \* the confirmations in flight
    switches, faults

rows   == <<status, ordered>>
chat   == <<entries, nextId, waiting, appliedIds>>
bounds == <<switches, faults>>
vars   == <<rows, town, chat, last, call, confirms, bounds>>

Stages == {"open", "applying", "applied", "discarded", "replaced", "conflict"}

Proposals ==
    [changes : SUBSET Rows, unchanged : SUBSET Rows, rejected : SUBSET Rows,
     to : Targets, pick : SUBSET Targets]

Asks == [rows : SUBSET Rows, to : Targets]

\* What the model is asked is not a list of rows.
Message == [rows |-> {}, to |-> "firm"]

\* What each side said, what the notice of an Excel asks, and the proposals.
Text == [kind : {"text", "failure", "final failure"}]

Unlisted == [kind : {"unlisted"}, rows : (SUBSET Rows) \ {{}}, asking : BOOLEAN]

Proposal == [kind : {"proposal"}, proposal : Proposals, stage : Stages]

Entry == Text \cup Unlisted \cup Proposal

Call == [ask : Asks, answer : {"wait", "text", "proposal", "fail"},
         proposal : Proposals \cup {Null}]

\* key tells apart confirmations that ask for the same.
Confirm == [key : 1 .. MaxConfirms, id : Nat, town : Towns, rows : SUBSET Rows,
            to : Targets, answer : {"wait", "fail", "conflict", "applied"},
            applied : SUBSET Rows]

ASSUME NullAssumption == Null \notin Call

TypeOK ==
    /\ status \in [Rows -> Statuses] /\ ordered \in [Rows -> BOOLEAN]
    /\ town \in Towns
    /\ entries \in [DOMAIN entries -> Entry]
    /\ DOMAIN entries \subseteq 1 .. nextId - 1
    /\ nextId \in Nat \ {0} /\ waiting \in BOOLEAN
    /\ appliedIds \subseteq Rows
    /\ last \in Asks \cup {Null}
    /\ call \in Call \cup {Null}
    /\ confirms \subseteq Confirm
    /\ switches \in 0 .. MaxSwitches /\ faults \in 0 .. MaxFaults

Empty == [n \in {} |-> Null]

Init ==
    /\ status = [r \in Rows |-> "firm"]
    /\ ordered = [r \in Rows |-> FALSE]
    /\ town \in Towns
    /\ entries = Empty /\ nextId = 1 /\ waiting = FALSE /\ appliedIds = {}
    /\ last = Null /\ call = Null /\ confirms = {}
    /\ switches = 0 /\ faults = 0

-----------------------------------------------------------------------------
(* The backend *)

\* allowedStatusesOf: back to the base state, paid or under an agreement at
\* any time, prescribed unless a payment order is too recent.
Allowed(r) ==
    {status[r], "firm", "paid"}
    \cup (IF ordered[r] THEN {} ELSE {"prescribed"})

Changeable(t, r) == TownOf[r] = t /\ status[r] # "gone"

\* reviewStatusChanges, as toProposal and rejectedTargets read it.
Review(ask) ==
    LET accepted == {r \in ask.rows : /\ Changeable(town, r)
                                      /\ ask.to \in Allowed(r)}
        same == {r \in accepted : status[r] = ask.to}
        rejected == ask.rows \ accepted
    IN [changes   |-> accepted \ same,
        unchanged |-> same,
        rejected  |-> rejected,
        to        |-> ask.to,
        pick      |-> {s \in Targets \ {ask.to} :
                         \A r \in rejected : /\ Changeable(town, r)
                                             /\ s \in Allowed(r) \ {status[r]}}]

\* A preview, or a message the model answers with or without a proposal.
ServeCall ==
    /\ call # Null
    /\ call.answer = "wait"
    /\ \/ /\ call.ask = Message
          /\ call' = [call EXCEPT !.answer = "text"]
       \/ \E ask \in IF call.ask = Message
                     THEN [rows : (SUBSET Rows) \ {{}}, to : Targets]
                     ELSE {call.ask} :
             call' = [call EXCEPT !.answer = "proposal", !.proposal = Review(ask)]
    /\ UNCHANGED <<rows, town, chat, last, confirms, bounds>>

\* A mutant: what the preview allowed is not checked again.
StillAppliesUnchecked(c, r) == Changeable(c.town, r)

\* What confirm checks again, with the rows locked.
StillApplies(c, r) == Changeable(c.town, r) /\ c.to \in Allowed(r)

\* confirm: all or nothing.
ServeConfirm(c) ==
    /\ c.answer = "wait"
    /\ LET applies == \A r \in c.rows : StillApplies(c, r)
       IN /\ status' = [r \in Rows |-> IF applies /\ r \in c.rows THEN c.to
                                       ELSE status[r]]
          /\ confirms' = (confirms \ {c}) \cup
                {[c EXCEPT !.answer = IF applies THEN "applied" ELSE "conflict",
                           !.applied = {r \in c.rows : /\ applies
                                                       /\ status[r] # c.to}]}
    /\ UNCHANGED <<ordered, town, chat, last, call, bounds>>

\* A request fails, or its answer is lost.
Fails ==
    /\ faults < MaxFaults
    /\ faults' = faults + 1
    /\ \/ /\ call # Null /\ call.answer # "fail"
          /\ call' = [call EXCEPT !.answer = "fail"]
          /\ UNCHANGED confirms
       \/ /\ \E c \in confirms :
                /\ c.answer # "fail"
                /\ confirms' = (confirms \ {c}) \cup {[c EXCEPT !.answer = "fail"]}
          /\ UNCHANGED call
    /\ UNCHANGED <<rows, town, chat, last, switches>>

\* The rest of the system: a change by hand, a payment order, an import.
Elsewhere(r) ==
    /\ \/ /\ \E s \in Allowed(r) \ {status[r]} : status' = [status EXCEPT ![r] = s]
          /\ UNCHANGED ordered
       \/ /\ status[r] = "firm"
          /\ ordered' = [ordered EXCEPT ![r] = TRUE]
          /\ UNCHANGED status
       \/ /\ status' = [status EXCEPT ![r] = "gone"]
          /\ UNCHANGED ordered
    /\ status[r] # "gone" /\ ~ordered[r]
    /\ UNCHANGED <<town, chat, last, call, confirms, bounds>>

-----------------------------------------------------------------------------
(* conversationReducer *)

Is(e, kind, stage) == e.kind = kind /\ e.stage = stage

\* appendEntries
Appended(es, n, e) ==
    [k \in DOMAIN es \cup {n} |-> IF k = n THEN e ELSE es[k]]

IsLast(n) == \A k \in DOMAIN entries : k <= n

WithoutFailures(es) ==
    [n \in {k \in DOMAIN es : es[k].kind \notin {"failure", "final failure"}} |-> es[n]]

SetStage(es, id, stage) ==
    [n \in DOMAIN es |-> IF n = id /\ es[n].kind = "proposal"
                         THEN [es[n] EXCEPT !.stage = stage] ELSE es[n]]

ReplaceOpenProposals(es) ==
    [n \in DOMAIN es |-> IF es[n].kind = "proposal" /\ es[n].stage = "open"
                         THEN [es[n] EXCEPT !.stage = "replaced"] ELSE es[n]]

Said(kind) == [kind |-> kind]

NewProposal(p) == [kind |-> "proposal", proposal |-> p, stage |-> "open"]

Question(R) == [kind |-> "unlisted", rows |-> R, asking |-> TRUE]

\* lastUnlisted, if it asks.
LastAsking(es) ==
    {n \in DOMAIN es :
        /\ es[n].kind = "unlisted" /\ es[n].asking
        /\ \A k \in DOMAIN es : es[k].kind = "unlisted" => k <= n}

\* Mutants: the whole question is asked again; nothing of it is.
LeftOfAll(asked, settled)  == asked
LeftOfNone(asked, settled) == {}

LeftOf(asked, settled) == asked \ settled

\* settleUnlisted: what is left of the last question is asked again.
SettleUnlisted(es, settled) ==
    \/ /\ \A n \in LastAsking(es) : es[n].rows \cap settled = {}
       /\ entries' = es /\ nextId' = nextId
    \/ \E n \in LastAsking(es) :
          LET left   == LeftOf(es[n].rows, settled)
              closed == [es EXCEPT ![n].asking = FALSE]
          IN  /\ es[n].rows \cap settled # {}
              /\ IF left = {}
                 THEN entries' = closed /\ nextId' = nextId
                 ELSE /\ entries' = Appended(closed, nextId, Question(left))
                      /\ nextId' = nextId + 1

Applying == \E n \in DOMAIN entries : Is(entries[n], "proposal", "applying")

\* Every button of the conversation but "Reintentar" and "Nueva conversacion".
Busy == waiting \/ Applying

Room == nextId <= MaxId

Ask(ask) ==
    /\ waiting' = TRUE
    /\ last' = ask
    /\ call' = [ask |-> ask, answer |-> "wait", proposal |-> Null]

-----------------------------------------------------------------------------
(* What the Administrator does *)

Send ==
    /\ ~Busy /\ Room
    /\ entries' = Appended(WithoutFailures(entries), nextId, Said("text"))
    /\ nextId' = nextId + 1
    /\ Ask(Message)
    /\ UNCHANGED <<rows, town, appliedIds, confirms, bounds>>

Preview(ask) ==
    /\ entries' = WithoutFailures(entries)
    /\ Ask(ask)
    /\ UNCHANGED <<rows, town, nextId, appliedIds, confirms, bounds>>

\* deliver sends the first changes of a request over the limit.
FirstBatch(R) ==
    {S \in SUBSET R : Cardinality(S) = IF Cardinality(R) < MaxBatch
                                       THEN Cardinality(R) ELSE MaxBatch}

\* A state button of the question, of a rejection, or "Revisar de nuevo".
Propose ==
    /\ ~Busy /\ Room
    /\ \E n \in DOMAIN entries :
          LET e == entries[n]
          IN \/ /\ e.kind = "unlisted" /\ e.asking
                /\ \E to \in Targets, S \in FirstBatch(e.rows) :
                      Preview([rows |-> S, to |-> to])
             \/ /\ Is(e, "proposal", "open")
                /\ e.proposal.changes = {} /\ e.proposal.rejected # {}
                /\ \E to \in e.proposal.pick, S \in FirstBatch(e.proposal.rejected) :
                      Preview([rows |-> S, to |-> to])
             \/ /\ Is(e, "proposal", "conflict")
                /\ IsLast(n)
                /\ Preview([rows |-> e.proposal.changes, to |-> e.proposal.to])

\* "Reintentar": it looks at nothing else.
Retry ==
    /\ \E n \in DOMAIN entries : entries[n].kind = "failure"
    /\ Preview(last)

OpenChange(e) == Is(e, "proposal", "open") /\ e.proposal.changes # {}

FreeKey(key) == \A c \in confirms : c.key # key

Apply ==
    /\ ~Busy
    /\ \E n \in DOMAIN entries, key \in 1 .. MaxConfirms :
          /\ OpenChange(entries[n])
          /\ FreeKey(key) /\ \A k \in 1 .. key - 1 : ~FreeKey(k)
          /\ entries' = SetStage(entries, n, "applying")
          /\ confirms' = confirms \cup
                {[key |-> key, id |-> n, town |-> town,
                  rows |-> entries[n].proposal.changes,
                  to |-> entries[n].proposal.to, answer |-> "wait",
                  applied |-> {}]}
    /\ UNCHANGED <<rows, town, nextId, waiting, appliedIds, last, call, bounds>>

Discard ==
    /\ ~Busy
    /\ \E n \in DOMAIN entries :
          /\ OpenChange(entries[n])
          /\ entries' = SetStage(entries, n, "discarded")
    /\ UNCHANGED <<rows, town, nextId, waiting, appliedIds, last, call, confirms,
                   bounds>>

\* The notice of the payment orders screen, on an Excel just reviewed: what
\* this conversation applied is not counted.  The same notice pressed again
\* finds its question at the end and changes nothing.
OpenUnlisted ==
    /\ Room
    /\ \E R \in (SUBSET {r \in Rows : TownOf[r] = town}) \ {{}} :
          /\ R \cap appliedIds = {}
          /\ entries' = Appended(entries, nextId, Question(R))
    /\ nextId' = nextId + 1
    /\ UNCHANGED <<rows, town, waiting, appliedIds, last, call, confirms, bounds>>

\* INITIAL_CONVERSATION, and the abort of what is on its way.
Fresh ==
    /\ entries' = Empty /\ nextId' = 1 /\ waiting' = FALSE /\ appliedIds' = {}
    /\ call' = Null

StartOver ==
    /\ DOMAIN entries # {} /\ ~Applying
    /\ Fresh
    /\ UNCHANGED <<rows, town, last, confirms, bounds>>

SwitchTown ==
    /\ switches < MaxSwitches
    /\ switches' = switches + 1
    /\ town' \in Towns \ {town}
    /\ Fresh
    /\ UNCHANGED <<rows, last, confirms, faults>>

-----------------------------------------------------------------------------
(* The answers *)

DeliverCall ==
    /\ call # Null /\ call.answer # "wait"
    /\ call' = Null
    /\ waiting' = FALSE
    /\ \/ /\ call.answer = "fail"
          /\ \E kind \in {"failure", "final failure"} :
                /\ kind = "failure" \/ call.ask = Message
                /\ entries' = Appended(entries, nextId, Said(kind))
          /\ nextId' = nextId + 1
       \/ /\ call.answer = "text"
          /\ entries' = Appended(entries, nextId, Said("text"))
          /\ nextId' = nextId + 1
       \/ /\ call.answer = "proposal"
          /\ \/ /\ entries' = Appended(ReplaceOpenProposals(entries), nextId,
                                     NewProposal(call.proposal))
                /\ nextId' = nextId + 1
             \/ /\ call.ask = Message
                /\ entries' = Appended(Appended(ReplaceOpenProposals(entries), nextId,
                                            Said("text")),
                                     nextId + 1, NewProposal(call.proposal))
                /\ nextId' = nextId + 2
    /\ UNCHANGED <<rows, town, appliedIds, last, confirms, bounds>>

\* unchangedIn
UnchangedIn(id) ==
    IF id \in DOMAIN entries /\ entries[id].kind = "proposal"
    THEN entries[id].proposal.unchanged ELSE {}

\* A mutant: only a refusal is handled.
StageAfterRefusal(answer) == IF answer = "fail" THEN "applying" ELSE "conflict"

\* All or nothing and repeatable, so a failure leaves "Aplicar".
StageAfter(answer) == IF answer = "fail" THEN "open" ELSE "conflict"

\* The proposal is found by its id in whatever conversation is open by now.
DeliverConfirm(c) ==
    /\ c.answer # "wait"
    /\ confirms' = confirms \ {c}
    /\ \/ /\ c.answer = "applied"
          /\ LET settled == c.applied \cup UnchangedIn(c.id)
             IN /\ appliedIds' = appliedIds \cup settled
                /\ SettleUnlisted(SetStage(entries, c.id, "applied"), settled)
       \/ /\ c.answer \in {"fail", "conflict"}
          /\ entries' = SetStage(entries, c.id, StageAfter(c.answer))
          /\ UNCHANGED <<nextId, appliedIds>>
    /\ UNCHANGED <<rows, town, waiting, last, call, bounds>>

-----------------------------------------------------------------------------

Administrator ==
    \/ Send \/ Propose \/ Retry \/ Apply \/ Discard
    \/ OpenUnlisted \/ StartOver \/ SwitchTown

Backend ==
    \/ ServeCall \/ Fails
    \/ \E c \in confirms : ServeConfirm(c)
    \/ \E r \in Rows : Elsewhere(r)

Next ==
    \/ Administrator
    \/ Backend
    \/ DeliverCall
    \/ \E c \in confirms : DeliverConfirm(c)

Spec == Init /\ [][Next]_vars

\* Every request is answered or fails; the Administrator owes nothing.
Fairness ==
    /\ WF_vars(ServeCall) /\ WF_vars(DeliverCall)
    /\ WF_vars(\E c \in confirms : ServeConfirm(c))
    /\ WF_vars(\E c \in confirms : DeliverConfirm(c))

FairSpec == Spec /\ Fairness

-----------------------------------------------------------------------------
(* Properties *)

\* The conversation waits exactly while a reply or a preview is on its way,
\* whatever was retried, started over or left behind meanwhile.
WaitingHasAnAnswer == waiting <=> call # Null

\* A proposal that says it is being applied, which locks the conversation,
\* has a confirmation in flight under its id.
ApplyingHasAnAnswer ==
    \A n \in DOMAIN entries :
       Is(entries[n], "proposal", "applying") => \E c \in confirms : c.id = n

\* Whoever changes a row, and however old what the panel shows of it, a
\* replaced row stays as it is and a row of a recent payment order is not
\* prescribed.
EveryChangeAllowed ==
    [][\A r \in Rows : status'[r] # status[r] =>
          status[r] # "gone" /\ status'[r] \in Allowed(r) \cup {"gone"}]_vars

Asked(es) == UNION {es[n].rows : n \in LastAsking(es)}

\* The last question about an Excel asks about nothing this conversation is
\* done with.
SettledNotAsked == Asked(entries) \cap appliedIds = {}

\* The types, what locks the conversation, and what it asks about.
Inv == TypeOK /\ WaitingHasAnAnswer /\ ApplyingHasAnAnswer /\ SettledNotAsked

\* The invariant behind it: what was answered to the request in flight, and that
\* "Reintentar" has a request to repeat.
AnswerIsThere ==
    call # Null /\ call.answer = "proposal" => call.proposal \in Proposals

RetryIsKnown ==
    call # Null \/ (\E n \in DOMAIN entries : entries[n].kind = "failure") => last \in Asks

IInv == Inv /\ AnswerIsThere /\ RetryIsKnown

\* The conversation forgets nothing of an Excel: what one batch leaves out is
\* asked again.
LeftOutAskedAgain ==
    [][\/ entries' = Empty
       \/ Asked(entries) \subseteq appliedIds' \cup
             UNION {entries'[n].rows : n \in {k \in DOMAIN entries' :
                       entries'[k].kind = "unlisted" /\ entries'[k].asking}}]_vars

\* Nothing locks the conversation for good.
NeverLocked == Busy ~> ~Busy
=============================================================================
