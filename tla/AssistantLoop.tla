---------------------------- MODULE AssistantLoop ----------------------------
(***************************************************************************)
(* One message of the Administrator answered by the backend:               *)
(* AssistantConversationService.reply with the tools it runs, and the turns*)
(* AnthropicAssistantModel sends to the provider.                          *)
(*                                                                         *)
(* The server keeps no conversation: the history comes with the message,   *)
(* as the panel keeps it, so what was typed before comes back unmasked.    *)
(* The deadline's timer runs on its own.  A call of a tool is known by its *)
(* place among those of the message; of what the tools read only whose it  *)
(* is matters here.                                                        *)
(***************************************************************************)
EXTENDS Naturals, SequencesExt

CONSTANTS
    MaxTools,     \* MAX_TOOL_CALLS_PER_MESSAGE
    MaxHistory,   \* MAX_HISTORY_TURNS
    MaxCalls      \* bound: calls of one answer of the model

AssistantLoopAssumption ==
    /\ MaxTools \in Nat \ {0} /\ MaxHistory \in Nat /\ MaxCalls \in Nat \ {0}

Tools   == {"search", "unlisted", "propose", "unknown"}
Texts   == {"plain", "document", "masked", "blank"}
Answers == {"none", "reply", "refused", "too many", "TIMEOUT", "FAILED",
            "NOT_CONFIGURED", "error"}

VARIABLES
    phase,        \* "idle", "asking" the model, "running" its calls, "over"
    configured,   \* there is a model
    rows,         \* the message carries the payment orders Excel
    messages,     \* what the model is sent
    toolsCalled,  \* how many
    queue,        \* the calls of the last answer still to run
    results,      \* of those already run: done, or an error result
    proposals, settlements,   \* the call they come from, 0 when null
    aborted,      \* the deadline's signal
    answer

vars == <<phase, configured, rows, messages, toolsCalled, queue, results,
          proposals, settlements, aborted, answer>>

\* A turn of the history, as the body's validation lets it in.
Turn == [role : {"user"}, text : {"plain", "document"}]
        \cup [role : {"assistant"}, text : {"plain", "document", "blank"}]

TypeOK ==
    /\ phase \in {"idle", "asking", "running", "over"}
    /\ configured \in BOOLEAN /\ rows \in BOOLEAN /\ aborted \in BOOLEAN
    /\ \A i \in DOMAIN messages :
          /\ messages[i].role \in {"user", "assistant", "tool"}
          /\ messages[i].text \in Texts
    /\ toolsCalled \in Nat
    /\ queue \in Seq(Tools)
    /\ results \in Seq([tool : Tools, isError : BOOLEAN])
    /\ proposals \in 0 .. toolsCalled /\ settlements \in 0 .. toolsCalled
    /\ answer \in Answers

Init ==
    /\ phase = "idle" /\ configured \in BOOLEAN /\ rows = FALSE
    /\ messages = <<>> /\ toolsCalled = 0 /\ queue = <<>> /\ results = <<>>
    /\ proposals = 0 /\ settlements = 0 /\ aborted = FALSE
    /\ answer = "none"

-----------------------------------------------------------------------------

maskDocuments(text) == IF text = "document" THEN "masked" ELSE text

\* The client's turn as the model reads it.
Told(turn) == [role |-> turn.role, text |-> maskDocuments(turn.text), calls |-> <<>>]

\* The controller lets it through (see AssistantLimit).
Receive ==
    /\ phase = "idle"
    /\ \E history \in BoundedSeq(Turn, MaxHistory),
          text \in {"plain", "document"}, file \in BOOLEAN :
          /\ messages' = Append([i \in DOMAIN history |-> Told(history[i])],
                                Told([role |-> "user", text |-> text]))
          /\ rows' = file
    /\ IF configured
       THEN phase' = "asking" /\ answer' = answer
       ELSE phase' = "over" /\ answer' = "NOT_CONFIGURED"
    /\ UNCHANGED <<configured, toolsCalled, queue, results, proposals,
                   settlements, aborted>>

\* The timer is cleared with the answer.
Expire ==
    /\ phase \in {"asking", "running"} /\ ~aborted
    /\ aborted' = TRUE
    /\ UNCHANGED <<phase, configured, rows, messages, toolsCalled, queue,
                   results, proposals, settlements, answer>>

Finish(result) ==
    /\ phase' = "over" /\ answer' = result
    /\ queue' = <<>>
    /\ UNCHANGED <<configured, rows, messages, toolsCalled, results, aborted>>

Fail(result) == Finish(result) /\ proposals' = 0 /\ settlements' = 0

\* The signal aborts the call to the provider.
Abort == phase = "asking" /\ aborted /\ Fail("TIMEOUT")

ModelFails == phase = "asking" /\ ~aborted /\ Fail("FAILED")

Refuse == phase = "asking" /\ ~aborted /\ Fail("refused")

Reply ==
    /\ phase = "asking" /\ ~aborted
    /\ Finish("reply") /\ UNCHANGED <<proposals, settlements>>

\* The model calls tools: all those of its answer run, or none.
CallTools(calls) ==
    /\ phase = "asking" /\ ~aborted
    /\ IF toolsCalled + Len(calls) > MaxTools
       THEN Fail("too many")
       ELSE /\ phase' = "running"
            /\ messages' = Append(messages, [role |-> "assistant", text |-> "plain",
                                             calls |-> calls])
            /\ queue' = calls /\ results' = <<>>
            /\ UNCHANGED <<configured, rows, toolsCalled, proposals, settlements,
                           aborted, answer>>

\* runTool: what it cannot do goes back to the model as an error result.
CanWork(tool) == \/ tool \in {"search", "propose"}
                 \/ tool = "unlisted" /\ rows

\* A round ends with its last call; the deadline is looked at then.
TooLate == Len(queue) = 1 /\ aborted

EndOfRound(done) ==
    IF Len(queue) > 1
    THEN UNCHANGED <<phase, messages, answer>>
    ELSE IF TooLate
    THEN phase' = "over" /\ answer' = "TIMEOUT" /\ UNCHANGED messages
    ELSE /\ phase' = "asking"
         /\ messages' = Append(messages, [role |-> "tool", text |-> "plain",
                                          calls |-> done])
         /\ UNCHANGED answer

\* What the call found, if it is not the end of the message.
Found(isError, tools, before) ==
    IF TooLate THEN 0
    ELSE IF ~isError /\ Head(queue) \in tools THEN toolsCalled + 1 ELSE before

RunTool(isError) ==
    /\ phase = "running"
    /\ ~isError => CanWork(Head(queue))
    /\ toolsCalled' = toolsCalled + 1
    /\ queue' = Tail(queue)
    /\ results' = Append(results, [tool |-> Head(queue), isError |-> isError])
    /\ proposals' = Found(isError, {"propose"}, proposals)
    /\ settlements' = Found(isError, {"search", "unlisted"}, settlements)
    /\ EndOfRound(results')
    /\ UNCHANGED <<configured, rows, aborted>>

\* The database fails: not an HttpException.
ToolBreaks == phase = "running" /\ CanWork(Head(queue)) /\ Fail("error")

CallLists == BoundedSeq(Tools, MaxCalls) \ {<<>>}

Next ==
    \/ Receive \/ Expire \/ Abort \/ ModelFails \/ Refuse \/ Reply
    \/ \E calls \in CallLists : CallTools(calls)
    \/ \E isError \in BOOLEAN : RunTool(isError)
    \/ ToolBreaks

\* The timer fires, an aborted call ends and a query ends; the provider may
\* never answer.
Fairness ==
    /\ WF_vars(Expire) /\ WF_vars(Abort)
    /\ WF_vars(\E isError \in BOOLEAN : RunTool(isError))

Spec == Init /\ [][Next]_vars /\ Fairness

-----------------------------------------------------------------------------
(* What the provider reads: toAnthropicMessages.  The turns of the client   *)
(* without text are left out, those of this message are sent as they came. *)

PanelOpened == [role |-> "user", text |-> "plain", calls |-> <<>>]

Convert(converted, turn) ==
    IF turn.role = "assistant" /\ turn.calls = <<>>
    THEN IF turn.text = "blank" THEN converted
         ELSE Append(IF converted = <<>> THEN <<PanelOpened>> ELSE converted, turn)
    ELSE Append(converted, turn)

toAnthropicMessages == FoldLeft(Convert, <<>>, messages)

-----------------------------------------------------------------------------
(* Properties *)

\* Whenever the provider is called, the conversation it gets opens with the
\* user, the results of a round answer the calls of the turn just before them,
\* one each, and it ends with something to answer
\* (anthropic-assistant-model.ts:29-60).
ProviderCanAnswer ==
    phase = "asking" =>
        LET sent == toAnthropicMessages
        IN /\ sent[1].role = "user"
           /\ Last(sent).role \in {"user", "tool"}
           /\ \A i \in DOMAIN sent :
                 /\ sent[i].role = "tool" =>
                       /\ i > 1
                       /\ [k \in DOMAIN sent[i].calls |-> sent[i].calls[k].tool]
                             = sent[i - 1].calls
                 /\ sent[i].role = "assistant" /\ sent[i].calls # <<>> =>
                       i < Len(sent) /\ sent[i + 1].role = "tool"

\* No document number typed now or earlier in the conversation as maskDocuments
\* looks for them (6 to 10 digits after CC, CE, NIT, TI or PP) reaches the provider
\* (assistant-conversation.service.ts:193-203).
NoDocumentLeaves ==
    \A i \in DOMAIN messages : messages[i].text # "document"

\* The results the model has read of this message, in order.
Ran == FoldLeft(LAMBDA seen, turn : IF turn.role = "tool" THEN seen \o turn.calls
                                    ELSE seen, <<>>, messages)

LastDone(tools) ==
    LET done == {i \in DOMAIN Ran : ~Ran[i].isError /\ Ran[i].tool \in tools}
    IN IF done = {} THEN 0 ELSE CHOOSE i \in done : \A k \in done : k <= i

\* Never more than MaxTools tools run for one message, whatever the rounds
\* (assistant-conversation.service.ts:239-262).
ToolsWithinBudget == toolsCalled <= MaxTools

\* No answer but a reply carries proposals or a list, whatever the tools found
\* before it (assistant-conversation.service.ts:213-270).
OthersCarryNothing ==
    answer \notin {"none", "reply"} => proposals = 0 /\ settlements = 0

\* A reply carries the last proposal and the last list of this message, the
\* ones of earlier rounds included, and any other answer carries none
\* (assistant-conversation.service.ts:213-262).
AnswerIsTrue ==
    /\ ToolsWithinBudget /\ OthersCarryNothing
    /\ answer = "reply" =>
          /\ Len(Ran) = toolsCalled
          /\ proposals = LastDone({"propose"})
          /\ settlements = LastDone({"search", "unlisted"})

\* A message is answered even if the provider never does
\* (assistant-conversation.service.ts:211-226, 263).
Answered == phase = "asking" ~> phase = "over"
=============================================================================
