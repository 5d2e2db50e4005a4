------------------------- MODULE ConversationProofs -------------------------
(***************************************************************************)
(* Proofs about Conversation for every set of settlements and              *)
(* municipalities, batches of any size and any bounds; about the limiter   *)
(* of its messages (AssistantLimit, instance Limit); and about the rounds  *)
(* of one message (AssistantLoop, instance Loop).                          *)
(***************************************************************************)
EXTENDS Conversation, Sequences, FiniteSetTheorems, WellFoundedInduction, TLAPS

-----------------------------------------------------------------------------
(* Entries *)

Entries(es) == es \in [DOMAIN es -> Entry]

\* An entry is of the kind it says.
LEMMA KindIs ==
    ASSUME NEW e \in Entry
    PROVE  /\ e.kind = "unlisted" => e \in Unlisted
           /\ e.kind = "proposal" => e \in Proposal
           /\ e.kind \notin {"unlisted", "proposal"} => e \in Text
  BY DEF Entry, Text, Unlisted, Proposal

\* What is appended is an entry.
LEMMA NewEntries ==
    /\ \A kind \in {"text", "failure", "final failure"} :
          Said(kind) \in Entry /\ Said(kind).kind = kind
    /\ \A p \in Proposals :
          /\ NewProposal(p) \in Entry /\ NewProposal(p).kind = "proposal"
          /\ NewProposal(p).stage = "open"
    /\ \A R \in (SUBSET Rows) \ {{}} :
          /\ Question(R) \in Entry /\ Question(R).kind = "unlisted"
          /\ Question(R).rows = R /\ Question(R).asking
  BY DEF Said, NewProposal, Question, Entry, Text, Proposal, Unlisted, Stages

LEMMA AppendedIs ==
    ASSUME NEW es, NEW n, NEW e, NEW fs, fs = Appended(es, n, e)
    PROVE  /\ DOMAIN fs = DOMAIN es \cup {n}
           /\ fs[n] = e
           /\ \A k \in DOMAIN es \ {n} : fs[k] = es[k]
           /\ \A k \in DOMAIN fs : k = n \/ (k \in DOMAIN es /\ fs[k] = es[k])
           /\ Entries(es) /\ e \in Entry => Entries(fs)
  BY DEF Appended, Entries

-----------------------------------------------------------------------------
(* What a step of the conversation leaves alone *)

\* The questions about an Excel are the same,
SameQuestions(es, fs) ==
    /\ \A n \in DOMAIN es : es[n].kind = "unlisted" => n \in DOMAIN fs /\ fs[n] = es[n]
    /\ \A n \in DOMAIN fs : fs[n].kind = "unlisted" => n \in DOMAIN es /\ fs[n] = es[n]

\* and no proposal is newly being applied.
NoneApplied(es, fs) ==
    \A n \in DOMAIN fs : Is(fs[n], "proposal", "applying") =>
        n \in DOMAIN es /\ Is(es[n], "proposal", "applying")

NoneFailed(es, fs) ==
    \A n \in DOMAIN fs : fs[n].kind = "failure" => n \in DOMAIN es /\ es[n].kind = "failure"

Quiet(es, fs) == SameQuestions(es, fs) /\ NoneApplied(es, fs)

LEMMA SameAsked ==
    ASSUME NEW es, NEW fs, SameQuestions(es, fs)
    PROVE  LastAsking(fs) = LastAsking(es) /\ Asked(fs) = Asked(es)
  <1>1. \A n : n \in LastAsking(es) <=> n \in LastAsking(fs)
    BY DEF SameQuestions, LastAsking
  <1>2. \A n \in LastAsking(es) : fs[n] = es[n]
    BY DEF SameQuestions, LastAsking
  <1>3. LastAsking(fs) = LastAsking(es)
    BY <1>1
  <1>4. QED
    BY <1>2, <1>3 DEF Asked

\* Something that is no question is appended.
LEMMA AppendedQuiet ==
    ASSUME NEW es, NEW n, n \notin DOMAIN es, NEW e, NEW fs, fs = Appended(es, n, e),
           e.kind # "unlisted", e.kind = "proposal" => e.stage # "applying"
    PROVE  Quiet(es, fs) /\ (e.kind # "failure" => NoneFailed(es, fs))
  <1>1. /\ \A k \in DOMAIN es : k \in DOMAIN fs /\ fs[k] = es[k]
        /\ \A k \in DOMAIN fs : fs[k] = e \/ (k \in DOMAIN es /\ fs[k] = es[k])
    BY DEF Appended
  <1>2. SameQuestions(es, fs)
    BY <1>1 DEF SameQuestions
  <1>3. NoneApplied(es, fs)
    BY <1>1 DEF NoneApplied, Is
  <1>4. e.kind # "failure" => NoneFailed(es, fs)
    BY <1>1 DEF NoneFailed
  <1>5. QED
    BY <1>2, <1>3, <1>4 DEF Quiet

LEMMA WithoutFailuresIs ==
    ASSUME NEW es, NEW fs, fs = WithoutFailures(es)
    PROVE  /\ DOMAIN fs \subseteq DOMAIN es
           /\ Entries(es) => Entries(fs)
           /\ Quiet(es, fs)
           /\ \A n \in DOMAIN fs : fs[n].kind # "failure"
  BY DEF WithoutFailures, Entries, Quiet, SameQuestions, NoneApplied, Is

LEMMA SetStageIs ==
    ASSUME NEW es, Entries(es), NEW id, NEW stage \in Stages, NEW fs,
           fs = SetStage(es, id, stage)
    PROVE  /\ DOMAIN fs = DOMAIN es /\ Entries(fs)
           /\ \A n \in DOMAIN es : n # id \/ es[n].kind # "proposal" => fs[n] = es[n]
           /\ id \in DOMAIN es /\ es[id].kind = "proposal" =>
                 fs[id].kind = "proposal" /\ fs[id].stage = stage
           /\ SameQuestions(es, fs) /\ NoneFailed(es, fs)
  <1>1. DOMAIN fs = DOMAIN es
    BY DEF SetStage
  <1>2. ASSUME NEW n \in DOMAIN es
        PROVE  /\ fs[n] \in Entry
               /\ n # id \/ es[n].kind # "proposal" => fs[n] = es[n]
               /\ n = id /\ es[n].kind = "proposal" =>
                     fs[n].kind = "proposal" /\ fs[n].stage = stage
    <2>1. CASE n # id \/ es[n].kind # "proposal"
      BY <2>1 DEF SetStage, Entries
    <2>2. CASE n = id /\ es[n].kind = "proposal"
      <3>1. PICK e \in Proposal : e = es[n]
        BY <2>2, KindIs DEF Entries
      <3>2. fs[n] = [e EXCEPT !.stage = stage]
        BY <2>2, <3>1 DEF SetStage
      <3>3. fs[n] \in Proposal /\ fs[n].kind = "proposal" /\ fs[n].stage = stage
        BY <3>1, <3>2 DEF Proposal
      <3>4. QED
        BY <2>2, <3>3 DEF Entry
    <2>3. QED
      BY <2>1, <2>2
  <1>3. Entries(fs)
    BY <1>1, <1>2 DEF SetStage, Entries
  <1>4. QED
    BY <1>1, <1>2, <1>3 DEF SameQuestions, NoneFailed

LEMMA ReplaceIs ==
    ASSUME NEW es, Entries(es), NEW fs, fs = ReplaceOpenProposals(es)
    PROVE  DOMAIN fs = DOMAIN es /\ Entries(fs) /\ Quiet(es, fs) /\ NoneFailed(es, fs)
  <1>1. DOMAIN fs = DOMAIN es
    BY DEF ReplaceOpenProposals
  <1>2. ASSUME NEW n \in DOMAIN es
        PROVE  /\ fs[n] \in Entry
               /\ \/ fs[n] = es[n]
                  \/ /\ es[n].kind = "proposal" /\ fs[n].kind = "proposal"
                     /\ fs[n].stage = "replaced"
    <2>1. CASE es[n].kind = "proposal" /\ es[n].stage = "open"
      <3>1. PICK e \in Proposal : e = es[n]
        BY <2>1, KindIs DEF Entries
      <3>2. fs[n] = [e EXCEPT !.stage = "replaced"]
        BY <2>1, <3>1 DEF ReplaceOpenProposals
      <3>3. fs[n] \in Proposal /\ fs[n].kind = "proposal" /\ fs[n].stage = "replaced"
        BY <3>1, <3>2 DEF Proposal, Stages
      <3>4. QED
        BY <2>1, <3>3 DEF Entry
    <2>2. CASE ~ (es[n].kind = "proposal" /\ es[n].stage = "open")
      BY <2>2 DEF ReplaceOpenProposals, Entries
    <2>3. QED
      BY <2>1, <2>2
  <1>3. Entries(fs)
    BY <1>1, <1>2 DEF ReplaceOpenProposals, Entries
  <1>4. QED
    BY <1>1, <1>2, <1>3 DEF Quiet, SameQuestions, NoneApplied, NoneFailed, Is

LEMMA QuietTwice ==
    ASSUME NEW es, NEW fs, NEW gs, Quiet(es, fs), Quiet(fs, gs)
    PROVE  Quiet(es, gs)
  BY DEF Quiet, SameQuestions, NoneApplied

-----------------------------------------------------------------------------
(* What the conversation asks *)

\* Every question that is still asked, the last or not.
Still(es) ==
    UNION {es[n].rows : n \in {k \in DOMAIN es : es[k].kind = "unlisted" /\ es[k].asking}}

LEMMA AskedIsStill ==
    ASSUME NEW es
    PROVE  Asked(es) \subseteq Still(es)
  BY DEF Asked, Still, LastAsking

LEMMA SameStill ==
    ASSUME NEW es, NEW fs, SameQuestions(es, fs)
    PROVE  Still(es) \subseteq Still(fs)
  <1>1. \A n \in DOMAIN es : es[n].kind = "unlisted" => n \in DOMAIN fs /\ fs[n] = es[n]
    BY DEF SameQuestions
  <1>2. QED
    BY <1>1 DEF Still

\* A question that is appended is the last one.
LEMMA AskedAnew ==
    ASSUME NEW es, NEW m \in Nat, DOMAIN es \subseteq 1 .. m - 1,
           NEW R \in (SUBSET Rows) \ {{}}, NEW fs, fs = Appended(es, m, Question(R))
    PROVE  Asked(fs) = R /\ Still(es) \subseteq Still(fs)
  <1>1. /\ \A k \in DOMAIN es : k \in DOMAIN fs /\ fs[k] = es[k] /\ k < m
        /\ \A k \in DOMAIN fs : k = m \/ (k \in DOMAIN es /\ fs[k] = es[k])
        /\ m \in DOMAIN fs /\ fs[m] = Question(R)
    BY DEF Appended
  <1>2. fs[m].kind = "unlisted" /\ fs[m].asking /\ fs[m].rows = R
    BY <1>1 DEF Question
  <1>3. LastAsking(fs) = {m}
    <2>1. m \in LastAsking(fs)
      BY <1>1, <1>2 DEF LastAsking
    <2>2. ASSUME NEW k \in LastAsking(fs) PROVE k = m
      BY <1>1, <1>2 DEF LastAsking
    <2>3. QED
      BY <2>1, <2>2
  <1>4. Asked(fs) = R
    BY <1>2, <1>3 DEF Asked
  <1>5. Still(es) \subseteq Still(fs)
    BY <1>1 DEF Still
  <1>6. QED
    BY <1>4, <1>5

\* There is one last question.
LEMMA OneLast ==
    ASSUME NEW es, DOMAIN es \subseteq Nat, NEW n \in LastAsking(es)
    PROVE  LastAsking(es) = {n} /\ Asked(es) = es[n].rows
  <1>1. ASSUME NEW k \in LastAsking(es) PROVE k = n
    BY DEF LastAsking
  <1>2. LastAsking(es) = {n}
    BY <1>1
  <1>3. QED
    BY <1>2 DEF Asked

LEMMA SettleIs ==
    ASSUME NEW es, Entries(es), DOMAIN es \subseteq 1 .. nextId - 1,
           nextId \in Nat \ {0}, NEW settled, SettleUnlisted(es, settled)
    PROVE  /\ Entries(entries') /\ DOMAIN entries' \subseteq 1 .. nextId' - 1
           /\ nextId' \in Nat \ {0}
           /\ NoneApplied(es, entries') /\ NoneFailed(es, entries')
           /\ Asked(entries') = Asked(es) \ settled
  <1>1. CASE /\ \A n \in LastAsking(es) : es[n].rows \cap settled = {}
             /\ entries' = es /\ nextId' = nextId
    <2>1. Asked(es) \cap settled = {}
      BY <1>1 DEF Asked
    <2>2. NoneApplied(es, entries') /\ NoneFailed(es, entries')
      BY <1>1 DEF NoneApplied, NoneFailed
    <2>3. Entries(entries') /\ Asked(entries') = Asked(es)
      BY <1>1
    <2>4. QED
      BY <1>1, <2>1, <2>2, <2>3
  <1>2. ASSUME NEW n \in LastAsking(es),
               NEW left, left = LeftOf(es[n].rows, settled),
               NEW closed, closed = [es EXCEPT ![n].asking = FALSE],
               IF left = {}
               THEN entries' = closed /\ nextId' = nextId
               ELSE /\ entries' = Appended(closed, nextId, Question(left))
                    /\ nextId' = nextId + 1
        PROVE  /\ Entries(entries') /\ DOMAIN entries' \subseteq 1 .. nextId' - 1
               /\ nextId' \in Nat \ {0}
               /\ NoneApplied(es, entries') /\ NoneFailed(es, entries')
               /\ Asked(entries') = Asked(es) \ settled
    <2>1. n \in DOMAIN es /\ es[n].kind = "unlisted" /\ es[n] \in Entry
      BY DEF LastAsking, Entries
    <2>2. PICK e \in Unlisted : e = es[n]
      BY <2>1, KindIs
    <2>3. LastAsking(es) = {n} /\ Asked(es) = e.rows
      BY <2>2, OneLast
    <2>4. /\ DOMAIN closed = DOMAIN es
          /\ closed[n] = [e EXCEPT !.asking = FALSE]
          /\ \A k \in DOMAIN es \ {n} : closed[k] = es[k]
      BY <1>2, <2>1, <2>2
    <2>5. closed[n] \in Unlisted /\ closed[n].kind = "unlisted" /\ ~closed[n].asking
      BY <2>4 DEF Unlisted
    <2>6. Entries(closed)
      <3>1. \A k \in DOMAIN closed : closed[k] \in Entry
        BY <2>4, <2>5 DEF Entries, Entry
      <3>2. closed = [k \in DOMAIN closed |-> closed[k]]
        BY <1>2 DEF Entries
      <3>3. QED
        BY <3>1, <3>2 DEF Entries
    <2>7. NoneApplied(es, closed) /\ NoneFailed(es, closed)
      BY <2>4, <2>5 DEF NoneApplied, NoneFailed, Is
    <2>8. LastAsking(closed) = {}
      <3>1. ASSUME NEW k \in LastAsking(closed) PROVE FALSE
        <4>1. k \in DOMAIN es /\ k # n /\ es[k] = closed[k] /\ es[k].kind = "unlisted"
          BY <2>4, <2>5 DEF LastAsking
        <4>2. k <= n
          BY <4>1 DEF LastAsking
        <4>3. n <= k
          BY <2>1, <2>4, <2>5 DEF LastAsking
        <4>4. QED
          BY <2>1, <4>1, <4>2, <4>3
      <3>2. QED
        BY <3>1
    <2>9. left = e.rows \ settled /\ left \subseteq Rows
      BY <1>2, <2>2 DEF LeftOf, Unlisted
    <2>10. CASE left = {}
      <3>1. entries' = closed /\ nextId' = nextId
        BY <1>2, <2>10
      <3>2. Asked(closed) = {}
        BY <2>8 DEF Asked
      <3>3. Asked(entries') = Asked(es) \ settled
        BY <2>3, <2>9, <2>10, <3>1, <3>2
      <3>4. QED
        BY <2>4, <2>6, <2>7, <3>1, <3>3
    <2>11. CASE left # {}
      <3>1. entries' = Appended(closed, nextId, Question(left)) /\ nextId' = nextId + 1
        BY <1>2, <2>11
      <3>2. left \in (SUBSET Rows) \ {{}}
        BY <2>9, <2>11
      <3>3. Question(left) \in Entry /\ Question(left).kind = "unlisted"
        BY <3>2, NewEntries
      <3>4. Asked(entries') = left
        BY <2>4, <3>1, <3>2, AskedAnew
      <3>5. /\ DOMAIN entries' = DOMAIN es \cup {nextId} /\ Entries(entries')
            /\ \A k \in DOMAIN entries' :
                  entries'[k] = Question(left) \/ (k \in DOMAIN es /\ entries'[k] = closed[k])
        BY <2>4, <2>6, <3>1, <3>3 DEF Appended, Entries
      <3>6. NoneApplied(es, entries') /\ NoneFailed(es, entries')
        <4>1. \A k \in DOMAIN entries' :
                 entries'[k].kind = "unlisted" \/ (k \in DOMAIN es /\ entries'[k] = closed[k])
          BY <3>3, <3>5
        <4>2. NoneApplied(es, entries')
          BY <2>4, <2>7, <4>1 DEF NoneApplied, Is
        <4>3. NoneFailed(es, entries')
          BY <2>4, <2>7, <4>1 DEF NoneFailed
        <4>4. QED
          BY <4>2, <4>3
      <3>7. DOMAIN entries' \subseteq 1 .. nextId' - 1 /\ nextId' \in Nat \ {0}
        BY <3>1, <3>5
      <3>8. QED
        BY <2>3, <2>9, <3>4, <3>5, <3>6, <3>7
    <2>12. QED
      BY <2>10, <2>11
  <1>3. QED
    BY <1>1, <1>2 DEF SettleUnlisted

-----------------------------------------------------------------------------
(* The invariant, in parts *)

ChatOK ==
    /\ Entries(entries) /\ DOMAIN entries \subseteq 1 .. nextId - 1
    /\ nextId \in Nat \ {0} /\ appliedIds \subseteq Rows
    /\ SettledNotAsked

\* The types of the rest.
RestOK ==
    /\ status \in [Rows -> Statuses] /\ ordered \in [Rows -> BOOLEAN]
    /\ town \in Towns /\ waiting \in BOOLEAN
    /\ last \in Asks \cup {Null}
    /\ call \in Call \cup {Null}
    /\ confirms \subseteq Confirm
    /\ switches \in 0 .. MaxSwitches /\ faults \in 0 .. MaxFaults

LEMMA IInvIs ==
    IInv <=> /\ ChatOK /\ RestOK /\ WaitingHasAnAnswer /\ ApplyingHasAnAnswer
             /\ AnswerIsThere /\ RetryIsKnown
  BY DEF IInv, Inv, TypeOK, ChatOK, RestOK, Entries

LEMMA IInvNext ==
    ASSUME ChatOK', RestOK', WaitingHasAnAnswer', ApplyingHasAnAnswer',
           AnswerIsThere', RetryIsKnown'
    PROVE  IInv'
  BY DEF IInv, Inv, TypeOK, ChatOK, RestOK, Entries

\* What a step leaves of the questions, LeftOutAskedAgain.
LeftOut ==
    \/ entries' = Empty
    \/ Asked(entries) \subseteq appliedIds' \cup Still(entries')

Good == IInv' /\ LeftOut

\* A step after which the questions are the same.
LEMMA SameChat ==
    ASSUME ChatOK, SameQuestions(entries, entries'), Entries(entries'),
           DOMAIN entries' \subseteq 1 .. nextId' - 1, nextId' \in Nat \ {0},
           appliedIds' = appliedIds
    PROVE  ChatOK' /\ LeftOut
  <1>1. Asked(entries') = Asked(entries)
    BY SameAsked
  <1>2. SettledNotAsked'
    BY <1>1 DEF ChatOK, SettledNotAsked
  <1>3. Asked(entries) \subseteq Still(entries')
    BY AskedIsStill, SameStill
  <1>4. QED
    BY <1>2, <1>3 DEF ChatOK, LeftOut

\* A step of the others.
LEMMA ChatUnchanged ==
    ASSUME ChatOK, UNCHANGED <<entries, nextId, appliedIds>>
    PROVE  ChatOK' /\ LeftOut
  <1>1. SameQuestions(entries, entries')
    BY DEF SameQuestions
  <1>2. QED
    BY <1>1, SameChat DEF ChatOK

\* Nothing is newly applied, and no confirmation is lost.
LEMMA ApplyingKept ==
    ASSUME ApplyingHasAnAnswer, NoneApplied(entries, entries'),
           \A c \in confirms : \E d \in confirms' : d.id = c.id
    PROVE  ApplyingHasAnAnswer'
  BY DEF ApplyingHasAnAnswer, NoneApplied

LEMMA FreshChat ==
    ASSUME Fresh
    PROVE  /\ ChatOK' /\ LeftOut /\ WaitingHasAnAnswer' /\ ApplyingHasAnAnswer'
           /\ AnswerIsThere' /\ RetryIsKnown'
           /\ waiting' \in BOOLEAN /\ call' = Null
  <1>1. DOMAIN entries' = {} /\ entries' = Empty
    BY DEF Fresh, Empty
  <1>2. Entries(entries')
    BY <1>1 DEF Entries, Empty
  <1>3. Asked(entries') = {}
    BY <1>1 DEF Asked, LastAsking
  <1>4. ChatOK' /\ LeftOut
    BY <1>1, <1>2, <1>3 DEF Fresh, ChatOK, SettledNotAsked, LeftOut
  <1>5. QED
    BY <1>1, <1>4 DEF Fresh, WaitingHasAnAnswer, ApplyingHasAnAnswer, AnswerIsThere,
                      RetryIsKnown

LEMMA ReviewIs ==
    ASSUME RestOK, NEW ask \in Asks
    PROVE  Review(ask) \in Proposals
  BY DEF Review, Asks, Proposals

LEMMA MessageIs == Message \in Asks
  BY DEF Message, Asks, Targets

LEMMA AskIs ==
    ASSUME NEW ask \in Asks, Ask(ask)
    PROVE  /\ last' \in Asks /\ waiting' /\ call' \in Call /\ call' # Null
           /\ WaitingHasAnAnswer' /\ AnswerIsThere' /\ RetryIsKnown'
  <1>1. call' \in Call /\ call'.answer = "wait"
    BY DEF Ask, Call
  <1>2. call' # Null
    BY <1>1, NullAssumption
  <1>3. QED
    BY <1>1, <1>2 DEF Ask, WaitingHasAnAnswer, AnswerIsThere, RetryIsKnown

-----------------------------------------------------------------------------
(* The Administrator *)

LEMMA SendStep ==
    ASSUME IInv, Send
    PROVE  Good
  <1> DEFINE ws == WithoutFailures(entries)
  <1>1. ChatOK /\ RestOK /\ ApplyingHasAnAnswer
    BY IInvIs
  <1>2. /\ entries' = Appended(ws, nextId, Said("text")) /\ nextId' = nextId + 1
        /\ Ask(Message)
        /\ UNCHANGED <<status, ordered, town, appliedIds, confirms, switches, faults>>
    BY DEF Send, rows, bounds
  <1>3. DOMAIN ws \subseteq DOMAIN entries /\ Entries(ws) /\ Quiet(entries, ws)
    BY <1>1, WithoutFailuresIs DEF ChatOK
  <1>4. Said("text") \in Entry /\ Said("text").kind = "text"
    BY NewEntries
  <1> HIDE DEF ws
  <1>5. nextId \notin DOMAIN ws /\ DOMAIN ws \subseteq 1 .. nextId - 1
    BY <1>1, <1>3 DEF ChatOK
  <1>6. Quiet(ws, entries')
    BY <1>2, <1>4, <1>5, AppendedQuiet
  <1>7. Quiet(entries, entries')
    BY <1>3, <1>6, QuietTwice
  <1>8. Entries(entries') /\ DOMAIN entries' = DOMAIN ws \cup {nextId}
    BY <1>2, <1>3, <1>4 DEF Appended, Entries
  <1>9. DOMAIN entries' \subseteq 1 .. nextId' - 1 /\ nextId' \in Nat \ {0}
    BY <1>1, <1>2, <1>5, <1>8 DEF ChatOK
  <1>10. ChatOK' /\ LeftOut
    BY <1>1, <1>2, <1>7, <1>8, <1>9, SameChat DEF Quiet
  <1>11. ApplyingHasAnAnswer'
    BY <1>1, <1>2, <1>7, ApplyingKept DEF Quiet
  <1>12. /\ last' \in Asks /\ waiting' /\ call' \in Call
         /\ WaitingHasAnAnswer' /\ AnswerIsThere' /\ RetryIsKnown'
    BY <1>2, MessageIs, AskIs
  <1>13. RestOK'
    BY <1>1, <1>2, <1>12 DEF RestOK, Ask
  <1>14. IInv'
    BY <1>10, <1>11, <1>12, <1>13, IInvNext
  <1>15. QED
    BY <1>10, <1>14 DEF Good

LEMMA PreviewStep ==
    ASSUME IInv, NEW ask \in Asks, Preview(ask)
    PROVE  Good
  <1>1. ChatOK /\ RestOK /\ ApplyingHasAnAnswer
    BY IInvIs
  <1>2. /\ entries' = WithoutFailures(entries) /\ Ask(ask)
        /\ UNCHANGED <<status, ordered, town, nextId, appliedIds, confirms, switches, faults>>
    BY DEF Preview, rows, bounds
  <1>3. /\ DOMAIN entries' \subseteq DOMAIN entries /\ Entries(entries')
        /\ Quiet(entries, entries')
    BY <1>1, <1>2, WithoutFailuresIs DEF ChatOK
  <1>4. ChatOK' /\ LeftOut
    BY <1>1, <1>2, <1>3, SameChat DEF Quiet, ChatOK
  <1>5. ApplyingHasAnAnswer'
    BY <1>1, <1>2, <1>3, ApplyingKept DEF Quiet
  <1>6. /\ last' \in Asks /\ waiting' /\ call' \in Call
        /\ WaitingHasAnAnswer' /\ AnswerIsThere' /\ RetryIsKnown'
    BY <1>2, AskIs
  <1>7. RestOK'
    BY <1>1, <1>2, <1>6 DEF RestOK, Ask
  <1>8. IInv'
    BY <1>4, <1>5, <1>6, <1>7, IInvNext
  <1>9. QED
    BY <1>4, <1>8 DEF Good

LEMMA ProposeStep ==
    ASSUME IInv, Propose
    PROVE  Good
  <1>1. PICK n \in DOMAIN entries :
           \/ /\ entries[n].kind = "unlisted"
              /\ \E to \in Targets, S \in FirstBatch(entries[n].rows) :
                    Preview([rows |-> S, to |-> to])
           \/ /\ entries[n].kind = "proposal"
              /\ \E to \in entries[n].proposal.pick,
                    S \in FirstBatch(entries[n].proposal.rejected) :
                    Preview([rows |-> S, to |-> to])
           \/ /\ entries[n].kind = "proposal"
              /\ Preview([rows |-> entries[n].proposal.changes,
                          to |-> entries[n].proposal.to])
    BY DEF Propose, Is
  <1>2. entries[n] \in Entry
    BY IInvIs DEF ChatOK, Entries
  <1>3. ASSUME NEW R \in SUBSET Rows, NEW S \in FirstBatch(R), NEW to \in Targets
        PROVE  [rows |-> S, to |-> to] \in Asks
    BY <1>3 DEF FirstBatch, Asks
  <1>4. CASE /\ entries[n].kind = "unlisted"
             /\ \E to \in Targets, S \in FirstBatch(entries[n].rows) :
                   Preview([rows |-> S, to |-> to])
    <2>1. entries[n].rows \in SUBSET Rows
      BY <1>2, <1>4, KindIs DEF Unlisted
    <2>2. QED
      BY <1>3, <1>4, <2>1, PreviewStep
  <1>5. CASE entries[n].kind = "proposal"
    <2>1. entries[n].proposal \in Proposals
      BY <1>2, <1>5, KindIs DEF Proposal
    <2>2. /\ entries[n].proposal.pick \subseteq Targets
          /\ entries[n].proposal.rejected \in SUBSET Rows
          /\ [rows |-> entries[n].proposal.changes, to |-> entries[n].proposal.to] \in Asks
      BY <2>1 DEF Proposals, Asks
    <2>3. QED
      BY <1>1, <1>3, <1>5, <2>2, PreviewStep
  <1>6. QED
    BY <1>1, <1>4, <1>5

LEMMA RetryStep ==
    ASSUME IInv, Retry
    PROVE  Good
  <1>1. last \in Asks
    BY IInvIs DEF Retry, RetryIsKnown
  <1>2. Preview(last)
    BY DEF Retry
  <1>3. QED
    BY <1>1, <1>2, PreviewStep

\* The stage of a proposal changes, and nothing else of the conversation.
LEMMA StageStep ==
    ASSUME ChatOK, NEW id, NEW stage \in Stages,
           entries' = SetStage(entries, id, stage), UNCHANGED <<nextId, appliedIds>>
    PROVE  ChatOK' /\ LeftOut /\ (RetryIsKnown /\ UNCHANGED <<last, call>> => RetryIsKnown')
  <1>1. /\ DOMAIN entries' = DOMAIN entries /\ Entries(entries')
        /\ SameQuestions(entries, entries') /\ NoneFailed(entries, entries')
    BY SetStageIs DEF ChatOK
  <1>2. ChatOK' /\ LeftOut
    BY <1>1, SameChat DEF ChatOK
  <1>3. QED
    BY <1>1, <1>2 DEF NoneFailed, RetryIsKnown

LEMMA ApplyStep ==
    ASSUME IInv, Apply
    PROVE  Good
  <1>1. ChatOK /\ RestOK /\ RetryIsKnown /\ WaitingHasAnAnswer /\ AnswerIsThere
    BY IInvIs
  <1>2. PICK n \in DOMAIN entries, key \in 1 .. MaxConfirms :
           /\ OpenChange(entries[n])
           /\ entries' = SetStage(entries, n, "applying")
           /\ confirms' = confirms \cup
                 {[key |-> key, id |-> n, town |-> town,
                   rows |-> entries[n].proposal.changes,
                   to |-> entries[n].proposal.to, answer |-> "wait",
                   applied |-> {}]}
    BY DEF Apply
  <1>3. /\ ~Applying
        /\ UNCHANGED <<status, ordered, town, nextId, waiting, appliedIds, last, call,
                       switches, faults>>
    BY DEF Apply, Busy, rows, bounds
  <1>4. n \in Nat /\ entries[n] \in Proposal
    <2>1. n \in 1 .. nextId - 1 /\ nextId \in Nat /\ entries[n] \in Entry
      BY <1>1 DEF ChatOK, Entries
    <2>2. QED
      BY <1>2, <2>1, KindIs DEF OpenChange, Is
  <1>5. PICK c : /\ c \in Confirm /\ c.id = n /\ confirms' = confirms \cup {c}
    <2>1. entries[n].proposal \in Proposals
      BY <1>4 DEF Proposal
    <2>2. entries[n].proposal.changes \subseteq Rows /\ entries[n].proposal.to \in Targets
      BY <2>1 DEF Proposals
    <2>3. town \in Towns
      BY <1>1 DEF RestOK
    <2>4. QED
      BY <1>2, <1>4, <2>2, <2>3 DEF Confirm
  <1>6. ChatOK' /\ LeftOut /\ RetryIsKnown'
    BY <1>1, <1>2, <1>3, StageStep DEF Stages
  <1>7. ApplyingHasAnAnswer'
    <2>1. ASSUME NEW m \in DOMAIN entries', Is(entries'[m], "proposal", "applying")
          PROVE  m = n
      BY <1>1, <1>2, <1>3, <2>1, SetStageIs DEF Applying, ChatOK, Stages
    <2>2. c \in confirms' /\ c.id = n
      BY <1>5
    <2>3. QED
      BY <2>1, <2>2 DEF ApplyingHasAnAnswer
  <1>8. RestOK'
    BY <1>1, <1>3, <1>5 DEF RestOK
  <1>9. WaitingHasAnAnswer' /\ AnswerIsThere'
    BY <1>1, <1>3 DEF WaitingHasAnAnswer, AnswerIsThere
  <1>10. IInv'
    BY <1>6, <1>7, <1>8, <1>9, IInvNext
  <1>11. QED
    BY <1>6, <1>10 DEF Good

\* No proposal is newly applied by the stages that end one.
LEMMA StageQuiet ==
    ASSUME NEW es, Entries(es), NEW id, NEW stage \in Stages \ {"applying"}, NEW fs,
           fs = SetStage(es, id, stage)
    PROVE  /\ NoneApplied(es, fs)
           /\ \A n \in DOMAIN fs : Is(fs[n], "proposal", "applying") => n # id
  <1>1. /\ DOMAIN fs = DOMAIN es
        /\ \A n \in DOMAIN es : n # id \/ es[n].kind # "proposal" => fs[n] = es[n]
        /\ id \in DOMAIN es /\ es[id].kind = "proposal" => fs[id].stage = stage
    BY SetStageIs
  <1>2. ASSUME NEW n \in DOMAIN fs, Is(fs[n], "proposal", "applying")
        PROVE  n # id /\ Is(es[n], "proposal", "applying")
    BY <1>1, <1>2 DEF Is
  <1>3. QED
    BY <1>1, <1>2 DEF NoneApplied

LEMMA DiscardStep ==
    ASSUME IInv, Discard
    PROVE  Good
  <1>1. /\ ChatOK /\ RestOK /\ RetryIsKnown /\ WaitingHasAnAnswer /\ AnswerIsThere
        /\ ApplyingHasAnAnswer
    BY IInvIs
  <1>2. PICK n \in DOMAIN entries : entries' = SetStage(entries, n, "discarded")
    BY DEF Discard
  <1>3. UNCHANGED <<status, ordered, town, nextId, waiting, appliedIds, last, call, confirms,
                    switches, faults>>
    BY DEF Discard, rows, bounds
  <1>4. ChatOK' /\ LeftOut /\ RetryIsKnown'
    BY <1>1, <1>2, <1>3, StageStep DEF Stages
  <1>5. ApplyingHasAnAnswer'
    BY <1>1, <1>2, <1>3, StageQuiet, ApplyingKept DEF ChatOK, Stages
  <1>6. RestOK'
    BY <1>1, <1>3 DEF RestOK
  <1>7. WaitingHasAnAnswer' /\ AnswerIsThere'
    BY <1>1, <1>3 DEF WaitingHasAnAnswer, AnswerIsThere
  <1>8. IInv'
    BY <1>4, <1>5, <1>6, <1>7, IInvNext
  <1>9. QED
    BY <1>4, <1>8 DEF Good

LEMMA OpenUnlistedStep ==
    ASSUME IInv, OpenUnlisted
    PROVE  Good
  <1>1. /\ ChatOK /\ RestOK /\ RetryIsKnown /\ WaitingHasAnAnswer /\ AnswerIsThere
        /\ ApplyingHasAnAnswer
    BY IInvIs
  <1>2. PICK R \in (SUBSET Rows) \ {{}} :
           R \cap appliedIds = {} /\ entries' = Appended(entries, nextId, Question(R))
    BY DEF OpenUnlisted
  <1>3. /\ nextId' = nextId + 1
        /\ UNCHANGED <<status, ordered, town, waiting, appliedIds, last, call, confirms,
                       switches, faults>>
    BY DEF OpenUnlisted, rows, bounds
  <1>4. /\ DOMAIN entries \subseteq 1 .. nextId - 1 /\ nextId \in Nat \ {0}
        /\ Entries(entries)
    BY <1>1 DEF ChatOK
  <1>5. Question(R) \in Entry /\ Question(R).kind = "unlisted"
    BY NewEntries
  <1>6. /\ DOMAIN entries' = DOMAIN entries \cup {nextId} /\ Entries(entries')
        /\ \A k \in DOMAIN entries' :
              entries'[k].kind = "unlisted" \/ (k \in DOMAIN entries /\ entries'[k] = entries[k])
    <2>1. /\ DOMAIN entries' = DOMAIN entries \cup {nextId}
          /\ entries'[nextId] = Question(R)
          /\ \A k \in DOMAIN entries' :
                k = nextId \/ (k \in DOMAIN entries /\ entries'[k] = entries[k])
      BY <1>2 DEF Appended
    <2>2. Entries(entries')
      BY <1>2, <1>4, <1>5 DEF Appended, Entries
    <2>3. ASSUME NEW k \in DOMAIN entries'
          PROVE  entries'[k].kind = "unlisted" \/ (k \in DOMAIN entries /\ entries'[k] = entries[k])
      BY <1>5, <2>1
    <2>4. QED
      BY <2>1, <2>2, <2>3
  <1>7. Asked(entries') = R /\ Still(entries) \subseteq Still(entries')
    BY <1>2, <1>4, AskedAnew
  <1>8. ChatOK'
    BY <1>1, <1>2, <1>3, <1>4, <1>6, <1>7 DEF ChatOK, SettledNotAsked
  <1>9. LeftOut
    BY <1>7, AskedIsStill DEF LeftOut
  <1>10. ApplyingHasAnAnswer'
    <2>1. NoneApplied(entries, entries')
      BY <1>6 DEF NoneApplied, Is
    <2>2. QED
      BY <1>1, <1>3, <2>1, ApplyingKept
  <1>11. RetryIsKnown'
    BY <1>1, <1>3, <1>6 DEF RetryIsKnown
  <1>12. RestOK'
    BY <1>1, <1>3 DEF RestOK
  <1>13. WaitingHasAnAnswer' /\ AnswerIsThere'
    BY <1>1, <1>3 DEF WaitingHasAnAnswer, AnswerIsThere
  <1>14. IInv'
    BY <1>8, <1>10, <1>11, <1>12, <1>13, IInvNext
  <1>15. QED
    BY <1>9, <1>14 DEF Good

LEMMA FreshStep ==
    ASSUME IInv, StartOver \/ SwitchTown
    PROVE  Good
  <1>1. RestOK
    BY IInvIs
  <1>2. /\ Fresh /\ UNCHANGED <<status, ordered, last, confirms, faults>>
        /\ town' \in Towns \cup {town} /\ switches' \in {switches} \cup {switches + 1}
        /\ switches' # switches => switches < MaxSwitches
    BY DEF StartOver, SwitchTown, rows, bounds
  <1>3. /\ ChatOK' /\ LeftOut /\ WaitingHasAnAnswer' /\ ApplyingHasAnAnswer'
        /\ AnswerIsThere' /\ RetryIsKnown' /\ waiting' \in BOOLEAN /\ call' = Null
    BY <1>2, FreshChat
  <1>4. switches' \in 0 .. MaxSwitches
    BY <1>1, <1>2, ConversationAssumption DEF RestOK
  <1>5. RestOK'
    BY <1>1, <1>2, <1>3, <1>4 DEF RestOK
  <1>6. IInv'
    BY <1>3, <1>5, IInvNext
  <1>7. QED
    BY <1>3, <1>6 DEF Good

-----------------------------------------------------------------------------
(* The backend *)

\* A step that leaves the conversation, and loses no confirmation.
LEMMA OtherStep ==
    ASSUME IInv, UNCHANGED <<entries, nextId, waiting, appliedIds, last>>, RestOK',
           call = Null <=> call' = Null, AnswerIsThere',
           \A c \in confirms : \E d \in confirms' : d.id = c.id
    PROVE  Good
  <1>1. /\ ChatOK /\ RetryIsKnown /\ WaitingHasAnAnswer /\ ApplyingHasAnAnswer
    BY IInvIs
  <1>2. ChatOK' /\ LeftOut
    BY <1>1, ChatUnchanged
  <1>3. NoneApplied(entries, entries')
    BY DEF NoneApplied
  <1>4. ApplyingHasAnAnswer'
    BY <1>1, <1>3, ApplyingKept
  <1>5. RetryIsKnown' /\ WaitingHasAnAnswer'
    BY <1>1 DEF RetryIsKnown, WaitingHasAnAnswer
  <1>6. IInv'
    BY <1>2, <1>4, <1>5, IInvNext
  <1>7. QED
    BY <1>2, <1>6 DEF Good

LEMMA ServeCallStep ==
    ASSUME IInv, ServeCall
    PROVE  Good
  <1>1. RestOK
    BY IInvIs
  <1>2. PICK k \in Call : k = call
    BY <1>1 DEF ServeCall, RestOK
  <1>3. UNCHANGED <<status, ordered, town, entries, nextId, waiting, appliedIds, last,
                    confirms, switches, faults>>
    BY DEF ServeCall, rows, chat, bounds
  <1>4. \/ call' = [call EXCEPT !.answer = "text"]
        \/ \E ask \in Asks :
              call' = [call EXCEPT !.answer = "proposal", !.proposal = Review(ask)]
    <2>1. call.ask \in Asks
      BY <1>2 DEF Call
    <2>2. [rows : (SUBSET Rows) \ {{}}, to : Targets] \subseteq Asks
      BY DEF Asks
    <2>3. QED
      BY <2>1, <2>2 DEF ServeCall
  <1>5. call' \in Call /\ (call'.answer = "proposal" => call'.proposal \in Proposals)
    <2>1. CASE call' = [call EXCEPT !.answer = "text"]
      <3>1. call' = [k EXCEPT !.answer = "text"]
        BY <1>2, <2>1
      <3>2. QED
        BY <3>1 DEF Call
    <2>2. ASSUME NEW ask \in Asks,
                 call' = [call EXCEPT !.answer = "proposal", !.proposal = Review(ask)]
          PROVE  call' \in Call /\ (call'.answer = "proposal" => call'.proposal \in Proposals)
      <3>1. PICK p \in Proposals : p = Review(ask)
        BY <1>1, ReviewIs
      <3>2. call' = [k EXCEPT !.answer = "proposal", !.proposal = p]
        BY <1>2, <2>2, <3>1
      <3>3. QED
        BY <3>2 DEF Call
    <2>3. QED
      BY <1>4, <2>1, <2>2
  <1>6. call # Null /\ call' # Null
    BY <1>2, <1>5, NullAssumption
  <1>7. AnswerIsThere' /\ RestOK'
    BY <1>1, <1>3, <1>5 DEF AnswerIsThere, RestOK
  <1>8. QED
    BY <1>3, <1>6, <1>7, OtherStep

LEMMA ServeConfirmStep ==
    ASSUME IInv, NEW c \in confirms, ServeConfirm(c)
    PROVE  Good
  <1>1. RestOK /\ AnswerIsThere
    BY IInvIs
  <1>2. c \in Confirm
    BY <1>1 DEF RestOK
  <1>3. UNCHANGED <<ordered, town, entries, nextId, waiting, appliedIds, last, call,
                    switches, faults>>
    BY DEF ServeConfirm, chat, bounds
  <1>4. PICK applies \in BOOLEAN :
           /\ status' = [r \in Rows |-> IF applies /\ r \in c.rows THEN c.to ELSE status[r]]
           /\ confirms' = (confirms \ {c}) \cup
                {[c EXCEPT !.answer = IF applies THEN "applied" ELSE "conflict",
                           !.applied = {r \in c.rows : /\ applies
                                                       /\ status[r] # c.to}]}
    <2>1. (\A r \in c.rows : StillApplies(c, r)) \in BOOLEAN
      OBVIOUS
    <2>2. QED
      BY <2>1 DEF ServeConfirm
  <1>5. PICK d : d \in Confirm /\ d.id = c.id /\ confirms' = (confirms \ {c}) \cup {d}
    <2>1. PICK R \in SUBSET Rows : R = {r \in c.rows : applies /\ status[r] # c.to}
      BY <1>2 DEF Confirm
    <2>2. confirms' = (confirms \ {c}) \cup
             {[c EXCEPT !.answer = IF applies THEN "applied" ELSE "conflict", !.applied = R]}
      BY <1>4, <2>1
    <2>3. [c EXCEPT !.answer = IF applies THEN "applied" ELSE "conflict", !.applied = R]
             \in Confirm
      BY <1>2 DEF Confirm
    <2>4. [c EXCEPT !.answer = IF applies THEN "applied" ELSE "conflict", !.applied = R].id
             = c.id
      BY <1>2 DEF Confirm
    <2>5. QED
      BY <2>2, <2>3, <2>4
  <1>6. status' \in [Rows -> Statuses]
    BY <1>1, <1>2, <1>4 DEF RestOK, Confirm, Statuses
  <1>7. RestOK'
    BY <1>1, <1>3, <1>5, <1>6 DEF RestOK
  <1>8. AnswerIsThere'
    BY <1>1, <1>3 DEF AnswerIsThere
  <1>9. \A b \in confirms : \E a \in confirms' : a.id = b.id
    BY <1>5
  <1>10. QED
    BY <1>3, <1>7, <1>8, <1>9, OtherStep

LEMMA FailsStep ==
    ASSUME IInv, Fails
    PROVE  Good
  <1>1. RestOK /\ AnswerIsThere
    BY IInvIs
  <1>2. UNCHANGED <<status, ordered, town, entries, nextId, waiting, appliedIds, last,
                    switches>>
    BY DEF Fails, rows, chat
  <1>3. faults' \in 0 .. MaxFaults
    <2>1. faults < MaxFaults /\ faults' = faults + 1
      BY DEF Fails
    <2>2. QED
      BY <1>1, <2>1, ConversationAssumption DEF RestOK
  <1>4. CASE call # Null /\ call' = [call EXCEPT !.answer = "fail"] /\ UNCHANGED confirms
    <2>1. PICK k \in Call : k = call
      BY <1>1, <1>4 DEF RestOK
    <2>2. call' = [k EXCEPT !.answer = "fail"]
      BY <1>4, <2>1
    <2>3. call' \in Call /\ call'.answer = "fail"
      BY <2>2 DEF Call
    <2>4. call' # Null
      BY <2>3, NullAssumption
    <2>5. AnswerIsThere' /\ RestOK'
      BY <1>1, <1>2, <1>3, <1>4, <2>3 DEF AnswerIsThere, RestOK
    <2>6. QED
      BY <1>2, <1>4, <2>4, <2>5, OtherStep
  <1>5. CASE /\ \E c \in confirms :
                   confirms' = (confirms \ {c}) \cup {[c EXCEPT !.answer = "fail"]}
             /\ UNCHANGED call
    <2>1. PICK c \in confirms :
             confirms' = (confirms \ {c}) \cup {[c EXCEPT !.answer = "fail"]}
      BY <1>5
    <2>2. c \in Confirm
      BY <1>1 DEF RestOK
    <2>3. [c EXCEPT !.answer = "fail"] \in Confirm /\ [c EXCEPT !.answer = "fail"].id = c.id
      BY <2>2 DEF Confirm
    <2>4. PICK d : d \in Confirm /\ d.id = c.id /\ confirms' = (confirms \ {c}) \cup {d}
      BY <2>1, <2>3
    <2>5. AnswerIsThere' /\ RestOK'
      BY <1>1, <1>2, <1>3, <1>5, <2>4 DEF AnswerIsThere, RestOK
    <2>6. \A b \in confirms : \E a \in confirms' : a.id = b.id
      BY <2>4
    <2>7. QED
      BY <1>2, <1>5, <2>5, <2>6, OtherStep
  <1>6. QED
    BY <1>4, <1>5, Zenon DEF Fails

LEMMA ElsewhereStep ==
    ASSUME IInv, NEW r \in Rows, Elsewhere(r)
    PROVE  Good
  <1>1. RestOK /\ AnswerIsThere
    BY IInvIs
  <1>2. UNCHANGED <<town, entries, nextId, waiting, appliedIds, last, call, confirms,
                    switches, faults>>
    BY DEF Elsewhere, chat, bounds
  <1>3. status' \in [Rows -> Statuses] /\ ordered' \in [Rows -> BOOLEAN]
    <2>1. Allowed(r) \subseteq Statuses
      BY <1>1 DEF Allowed, RestOK, Statuses, Targets
    <2>2. status \in [Rows -> Statuses] /\ ordered \in [Rows -> BOOLEAN]
      BY <1>1 DEF RestOK
    <2>3. QED
      BY <2>1, <2>2 DEF Elsewhere, Statuses
  <1>4. RestOK' /\ AnswerIsThere'
    BY <1>1, <1>2, <1>3 DEF RestOK, AnswerIsThere
  <1>5. QED
    BY <1>2, <1>4, OtherStep

-----------------------------------------------------------------------------
(* The answers *)

\* Entries appended to what the conversation shows, no question among them.
LEMMA AnswerStep ==
    ASSUME IInv, Entries(entries'), Quiet(entries, entries'), call # Null, call' = Null,
           waiting' = FALSE, DOMAIN entries' \subseteq 1 .. nextId' - 1,
           nextId' \in Nat \ {0},
           UNCHANGED <<status, ordered, town, appliedIds, last, confirms, switches, faults>>
    PROVE  Good
  <1>1. /\ ChatOK /\ RestOK /\ RetryIsKnown /\ ApplyingHasAnAnswer
    BY IInvIs
  <1>2. ChatOK' /\ LeftOut
    BY <1>1, SameChat DEF Quiet
  <1>3. ApplyingHasAnAnswer'
    BY <1>1, ApplyingKept DEF Quiet
  <1>4. last' \in Asks
    BY <1>1 DEF RetryIsKnown
  <1>5. RetryIsKnown' /\ WaitingHasAnAnswer' /\ AnswerIsThere'
    BY <1>4 DEF RetryIsKnown, WaitingHasAnAnswer, AnswerIsThere
  <1>6. RestOK'
    BY <1>1, <1>4 DEF RestOK
  <1>7. IInv'
    BY <1>2, <1>3, <1>5, <1>6, IInvNext
  <1>8. QED
    BY <1>2, <1>7 DEF Good

\* What one more entry keeps.
LEMMA OneMore ==
    ASSUME NEW es, Entries(es), NEW m \in Nat \ {0}, DOMAIN es \subseteq 1 .. m - 1,
           NEW e \in Entry, e.kind # "unlisted", e.kind = "proposal" => e.stage = "open",
           NEW fs, fs = Appended(es, m, e)
    PROVE  Entries(fs) /\ DOMAIN fs \subseteq 1 .. (m + 1) - 1 /\ Quiet(es, fs)
  <1>1. m \notin DOMAIN es
    OBVIOUS
  <1>2. Quiet(es, fs)
    BY <1>1, AppendedQuiet
  <1>3. Entries(fs) /\ DOMAIN fs = DOMAIN es \cup {m}
    BY DEF Appended, Entries
  <1>4. QED
    BY <1>2, <1>3

LEMMA DeliverCallStep ==
    ASSUME IInv, DeliverCall
    PROVE  Good
  <1>1. ChatOK /\ RestOK /\ AnswerIsThere
    BY IInvIs
  <1>2. /\ call # Null /\ call' = Null /\ waiting' = FALSE
        /\ UNCHANGED <<status, ordered, town, appliedIds, last, confirms, switches, faults>>
    BY DEF DeliverCall, rows, bounds
  <1>3. /\ Entries(entries) /\ DOMAIN entries \subseteq 1 .. nextId - 1
        /\ nextId \in Nat \ {0}
    BY <1>1 DEF ChatOK
  <1>0. nextId + 1 \in Nat \ {0}
    BY <1>3
  <1>4. /\ \A kind \in {"text", "failure", "final failure"} :
              Said(kind) \in Entry /\ Said(kind).kind = kind
        /\ \A p \in Proposals :
              /\ NewProposal(p) \in Entry /\ NewProposal(p).kind = "proposal"
              /\ NewProposal(p).stage = "open"
    BY NewEntries
  <1>5. ASSUME NEW kind \in {"text", "failure", "final failure"},
               entries' = Appended(entries, nextId, Said(kind)), nextId' = nextId + 1
        PROVE  Good
    <2>1. Said(kind) \in Entry /\ Said(kind).kind = kind
      BY <1>4
    <2>2. Entries(entries') /\ DOMAIN entries' \subseteq 1 .. nextId' - 1
          /\ Quiet(entries, entries')
      BY <1>3, <1>5, <2>1, OneMore
    <2>3. nextId' = nextId + 1
      BY <1>5
    <2>4. nextId' \in Nat \ {0}
      BY <1>0, <2>3
    <2>5. QED
      BY <1>2, <2>2, <2>4, AnswerStep
  <1>6. CASE call.answer = "proposal"
    <2> DEFINE rs == ReplaceOpenProposals(entries)
    <2>1. call.proposal \in Proposals
      BY <1>1, <1>2, <1>6 DEF AnswerIsThere
    <2>2. DOMAIN rs = DOMAIN entries /\ Entries(rs) /\ Quiet(entries, rs)
      BY <1>3, ReplaceIs
    <2> DEFINE np == NewProposal(call.proposal)
    <2>3. np \in Entry /\ np.kind = "proposal" /\ np.stage = "open"
      BY <1>4, <2>1
    <2>4. CASE entries' = Appended(rs, nextId, np) /\ nextId' = nextId + 1
      <3> HIDE DEF rs, np
      <3>1. /\ Entries(entries') /\ DOMAIN entries' \subseteq 1 .. (nextId + 1) - 1
            /\ Quiet(rs, entries')
        BY <1>3, <2>2, <2>3, <2>4, OneMore
      <3>2. Quiet(entries, entries')
        BY <2>2, <3>1, QuietTwice
      <3>3. DOMAIN entries' \subseteq 1 .. nextId' - 1 /\ nextId' \in Nat \ {0}
        BY <1>3, <2>4, <3>1
      <3>4. QED
        BY <1>2, <3>1, <3>2, <3>3, AnswerStep
    <2>5. CASE /\ entries' = Appended(Appended(rs, nextId, Said("text")), nextId + 1, np)
               /\ nextId' = nextId + 2
      <3> DEFINE ts == Appended(rs, nextId, Said("text"))
      <3>1. Said("text") \in Entry /\ Said("text").kind = "text"
        BY <1>4
      <3> HIDE DEF rs, np
      <3>2. Entries(ts) /\ DOMAIN ts \subseteq 1 .. (nextId + 1) - 1 /\ Quiet(rs, ts)
        BY <1>3, <2>2, <3>1, OneMore
      <3>3. entries' = Appended(ts, nextId + 1, np)
        BY <2>5
      <3> HIDE DEF ts
      <3>4. nextId + 1 \in Nat \ {0}
        BY <1>3
      <3>5. /\ Entries(entries') /\ DOMAIN entries' \subseteq 1 .. ((nextId + 1) + 1) - 1
            /\ Quiet(ts, entries')
        BY <2>3, <3>2, <3>3, <3>4, OneMore
      <3>6. Quiet(entries, entries')
        BY <2>2, <3>2, <3>5, QuietTwice
      <3>7. DOMAIN entries' \subseteq 1 .. nextId' - 1 /\ nextId' \in Nat \ {0}
        BY <1>3, <2>5, <3>5
      <3>8. QED
        BY <1>2, <3>5, <3>6, <3>7, AnswerStep
    <2>6. QED
      BY <1>6, <2>4, <2>5 DEF DeliverCall
  <1>7. CASE call.answer # "proposal"
    <2>1. /\ nextId' = nextId + 1
          /\ \E kind \in {"text", "failure", "final failure"} :
                entries' = Appended(entries, nextId, Said(kind))
      BY <1>7 DEF DeliverCall
    <2>2. QED
      BY <1>5, <2>1
  <1>8. QED
    BY <1>6, <1>7

LEMMA DeliverConfirmStep ==
    ASSUME IInv, NEW c \in confirms, DeliverConfirm(c)
    PROVE  Good
  <1>1. /\ ChatOK /\ RestOK /\ RetryIsKnown /\ WaitingHasAnAnswer /\ AnswerIsThere
        /\ ApplyingHasAnAnswer
    BY IInvIs
  <1>2. c \in Confirm /\ confirms' = confirms \ {c}
    BY <1>1 DEF RestOK, DeliverConfirm
  <1>3. UNCHANGED <<status, ordered, town, waiting, last, call, switches, faults>>
    BY DEF DeliverConfirm, rows, bounds
  <1>4. /\ Entries(entries) /\ DOMAIN entries \subseteq 1 .. nextId - 1
        /\ nextId \in Nat \ {0} /\ appliedIds \subseteq Rows /\ SettledNotAsked
    BY <1>1 DEF ChatOK
  <1>5. RestOK'
    BY <1>1, <1>2, <1>3 DEF RestOK
  <1>6. WaitingHasAnAnswer' /\ AnswerIsThere'
    BY <1>1, <1>3 DEF WaitingHasAnAnswer, AnswerIsThere
  \* Whatever the stage it is left at, the proposal is not being applied.
  <1>7. ASSUME NEW stage \in Stages \ {"applying"}, NEW es,
               es = SetStage(entries, c.id, stage), NoneApplied(es, entries')
        PROVE  ApplyingHasAnAnswer'
    <2>1. /\ NoneApplied(entries, es)
          /\ \A n \in DOMAIN es : Is(es[n], "proposal", "applying") => n # c.id
      BY <1>4, <1>7, StageQuiet
    <2>2. ASSUME NEW n \in DOMAIN entries', Is(entries'[n], "proposal", "applying")
          PROVE  \E d \in confirms' : d.id = n
      <3>1. n \in DOMAIN es /\ Is(es[n], "proposal", "applying")
        BY <1>7, <2>2 DEF NoneApplied
      <3>2. n # c.id /\ n \in DOMAIN entries /\ Is(entries[n], "proposal", "applying")
        BY <2>1, <3>1 DEF NoneApplied
      <3>3. PICK d \in confirms : d.id = n
        BY <1>1, <3>2 DEF ApplyingHasAnAnswer
      <3>4. QED
        BY <1>2, <3>2, <3>3
    <2>3. QED
      BY <2>2 DEF ApplyingHasAnAnswer
  <1>8. CASE c.answer = "applied"
    <2> DEFINE es == SetStage(entries, c.id, "applied")
               settled == c.applied \cup UnchangedIn(c.id)
    <2>1. appliedIds' = appliedIds \cup settled /\ SettleUnlisted(es, settled)
      BY <1>8 DEF DeliverConfirm
    <2>2. settled \subseteq Rows
      <3>1. c.applied \subseteq Rows
        BY <1>2 DEF Confirm
      <3>2. CASE c.id \in DOMAIN entries /\ entries[c.id].kind = "proposal"
        <4>1. entries[c.id].proposal \in Proposals
          BY <1>4, <3>2, KindIs DEF Entries, Proposal
        <4>2. QED
          BY <3>1, <3>2, <4>1 DEF UnchangedIn, Proposals
      <3>3. QED
        BY <3>1, <3>2 DEF UnchangedIn
    <2>3. /\ DOMAIN es = DOMAIN entries /\ Entries(es)
          /\ SameQuestions(entries, es) /\ NoneFailed(entries, es)
      BY <1>4, SetStageIs DEF Stages
    <2> HIDE DEF settled
    <2>4. /\ Entries(entries') /\ DOMAIN entries' \subseteq 1 .. nextId' - 1
          /\ nextId' \in Nat \ {0}
          /\ NoneApplied(es, entries') /\ NoneFailed(es, entries')
          /\ Asked(entries') = Asked(es) \ settled
      BY <1>4, <2>1, <2>3, SettleIs
    <2>5. ApplyingHasAnAnswer'
      BY <1>7, <2>4 DEF Stages
    <2> HIDE DEF es
    <2>6. Asked(entries') = Asked(entries) \ settled
      BY <2>3, <2>4, SameAsked
    <2>7. ChatOK'
      BY <1>4, <2>1, <2>2, <2>4, <2>6 DEF ChatOK, SettledNotAsked
    <2>8. LeftOut
      BY <2>1, <2>6, AskedIsStill DEF LeftOut
    <2>9. RetryIsKnown'
      BY <1>1, <1>3, <2>3, <2>4 DEF RetryIsKnown, NoneFailed
    <2>10. IInv'
      BY <1>5, <1>6, <2>5, <2>7, <2>9, IInvNext
    <2>11. QED
      BY <2>8, <2>10 DEF Good
  <1>9. CASE c.answer # "applied"
    <2>1. /\ entries' = SetStage(entries, c.id, StageAfter(c.answer))
          /\ UNCHANGED <<nextId, appliedIds>>
      BY <1>9 DEF DeliverConfirm
    <2>2. StageAfter(c.answer) \in Stages \ {"applying"}
      BY DEF StageAfter, Stages
    <2>3. ChatOK' /\ LeftOut /\ RetryIsKnown'
      BY <1>1, <1>3, <2>1, <2>2, StageStep
    <2>4. NoneApplied(entries', entries')
      BY DEF NoneApplied
    <2>5. ApplyingHasAnAnswer'
      BY <1>7, <2>1, <2>2, <2>4
    <2>6. IInv'
      BY <1>5, <1>6, <2>3, <2>5, IInvNext
    <2>7. QED
      BY <2>3, <2>6 DEF Good
  <1>10. QED
    BY <1>8, <1>9

-----------------------------------------------------------------------------

LEMMA StutterStep ==
    ASSUME IInv, UNCHANGED vars
    PROVE  Good
  <1>1. UNCHANGED <<status, ordered, town, entries, nextId, waiting, appliedIds, last,
                    call, confirms, switches, faults>>
    BY DEF vars, rows, chat, bounds
  <1>2. RestOK' /\ AnswerIsThere'
    BY <1>1, IInvIs DEF RestOK, AnswerIsThere
  <1>3. QED
    BY <1>1, <1>2, OtherStep

LEMMA EveryStep ==
    ASSUME IInv, [Next]_vars
    PROVE  Good
  <1>1. CASE Administrator
    BY <1>1, SendStep, ProposeStep, RetryStep, ApplyStep, DiscardStep, OpenUnlistedStep,
       FreshStep DEF Administrator
  <1>2. CASE Backend
    BY <1>2, ServeCallStep, FailsStep, ServeConfirmStep, ElsewhereStep DEF Backend
  <1>3. CASE DeliverCall
    BY <1>3, DeliverCallStep
  <1>4. CASE \E c \in confirms : DeliverConfirm(c)
    BY <1>4, DeliverConfirmStep
  <1>5. CASE UNCHANGED vars
    BY <1>5, StutterStep
  <1>6. QED
    BY <1>1, <1>2, <1>3, <1>4, <1>5 DEF Next

LEMMA InitIInv == Init => IInv
  <1> SUFFICES ASSUME Init PROVE IInv
    OBVIOUS
  <1>1. DOMAIN entries = {} /\ Entries(entries) /\ Asked(entries) = {}
    BY DEF Init, Empty, Entries, Asked, LastAsking
  <1>2. ChatOK
    BY <1>1 DEF Init, ChatOK, SettledNotAsked
  <1>3. RestOK
    <2>1. status \in [Rows -> Statuses] /\ ordered \in [Rows -> BOOLEAN]
      BY DEF Init, Statuses, Targets
    <2>2. switches \in 0 .. MaxSwitches /\ faults \in 0 .. MaxFaults
      BY ConversationAssumption DEF Init
    <2>3. town \in Towns /\ waiting \in BOOLEAN /\ last = Null /\ call = Null /\ confirms = {}
      BY DEF Init
    <2>4. QED
      BY <2>1, <2>2, <2>3 DEF RestOK
  <1>4. /\ WaitingHasAnAnswer /\ ApplyingHasAnAnswer /\ AnswerIsThere /\ RetryIsKnown
    BY <1>1 DEF Init, WaitingHasAnAnswer, ApplyingHasAnAnswer, AnswerIsThere, RetryIsKnown
  <1>5. QED
    BY <1>2, <1>3, <1>4, IInvIs

-----------------------------------------------------------------------------
(* The theorems *)

LEMMA Invariance == Spec => []IInv
  <1>1. IInv /\ [Next]_vars => IInv'
    BY EveryStep DEF Good
  <1>2. QED
    BY <1>1, InitIInv, PTL DEF Spec

\* The types; the conversation waits exactly while its reply is on its way and
\* a proposal is locked only with its confirmation in flight; and the last
\* question about an Excel asks about nothing that is settled.
THEOREM ConversationInvariant == Spec => []Inv
  <1>1. IInv => Inv
    BY DEF IInv
  <1>2. QED
    BY <1>1, Invariance, PTL

\* However old the preview an Administrator confirms, no step touches a
\* replaced row or prescribes one of a recent payment order.
THEOREM ChangesAreAllowed == Spec => EveryChangeAllowed
  <1>1. ASSUME IInv, [Next]_vars, NEW r \in Rows, status'[r] # status[r]
        PROVE  status[r] # "gone" /\ status'[r] \in Allowed(r) \cup {"gone"}
    <2>1. status \in [Rows -> Statuses]
      BY <1>1, IInvIs DEF RestOK
    <2>2. CASE \E c \in confirms : ServeConfirm(c)
      <3>1. PICK c \in confirms : ServeConfirm(c)
        BY <2>2
      <3>2. (\A q \in c.rows : StillApplies(c, q)) /\ r \in c.rows /\ status'[r] = c.to
        BY <1>1, <3>1 DEF ServeConfirm
      <3>3. QED
        BY <3>2 DEF StillApplies, Changeable
    <2>3. CASE \E q \in Rows : Elsewhere(q)
      <3>1. PICK q \in Rows : Elsewhere(q)
        BY <2>3
      <3>2. \/ \E s \in Allowed(q) : status' = [status EXCEPT ![q] = s]
            \/ status' = [status EXCEPT ![q] = "gone"]
        BY <1>1, <3>1 DEF Elsewhere
      <3>3. q = r /\ status'[r] \in Allowed(q) \cup {"gone"}
        BY <1>1, <2>1, <3>2
      <3>4. status[r] # "gone"
        BY <3>1, <3>3 DEF Elsewhere
      <3>5. QED
        BY <3>3, <3>4
    <2>4. CASE UNCHANGED status
      BY <1>1, <2>4
    <2>5. QED
      <3>1. Administrator => UNCHANGED status
        BY DEF Administrator, Send, Propose, Preview, Retry, Apply, Discard, OpenUnlisted,
               StartOver, SwitchTown, rows
      <3>2. ServeCall \/ Fails \/ DeliverCall \/ (\E c \in confirms : DeliverConfirm(c))
               => UNCHANGED status
        BY DEF ServeCall, Fails, DeliverCall, DeliverConfirm, rows
      <3>3. UNCHANGED vars => UNCHANGED status
        BY DEF vars, rows
      <3>4. QED
        BY <1>1, <2>2, <2>3, <2>4, <3>1, <3>2, <3>3 DEF Next, Backend
  <1>2. IInv /\ [Next]_vars =>
           [\A r \in Rows : status'[r] # status[r] =>
               status[r] # "gone" /\ status'[r] \in Allowed(r) \cup {"gone"}]_vars
    BY <1>1
  <1>3. QED
    BY <1>2, Invariance, PTL DEF Spec, EveryChangeAllowed

\* What a batch leaves out of an Excel is asked again, unless the conversation
\* is started over.
THEOREM NothingIsLeftOut == Spec => LeftOutAskedAgain
  <1>1. IInv /\ [Next]_vars =>
           [\/ entries' = Empty
            \/ Asked(entries) \subseteq appliedIds' \cup
                  UNION {entries'[n].rows : n \in {k \in DOMAIN entries' :
                            entries'[k].kind = "unlisted" /\ entries'[k].asking}}]_vars
    BY EveryStep DEF Good, LeftOut, Still
  <1>2. QED
    BY <1>1, Invariance, PTL DEF Spec, LeftOutAskedAgain
-----------------------------------------------------------------------------
(* The limiter of the messages of one Administrator *)

CONSTANTS PerWindow, Window, Second, MaxTime, MaxRestarts

VARIABLES now, sent, let, restarts, wait

Limit == INSTANCE AssistantLimit

\* What is kept of the window that starts at an instant.
Kept(s, l, from) == {i \in s : from <= l[i]}

\* Every window that is over was within its allowance; what an open one let
\* through is still kept, but for what a restart forgot.
WindowsOK(t, s, l, r) ==
    /\ Cardinality(s) <= PerWindow
    /\ \A from \in Nat :
          Limit!CountIn(l, from) <= PerWindow * (1 + Limit!CountIn(r, from))
    /\ \A from \in Nat : t < from + Window =>
          Limit!CountIn(l, from)
              <= PerWindow * Limit!CountIn(r, from) + Cardinality(Kept(s, l, from))

\* The wait covers the time of one of the messages kept.
WaitOK(s, l, w) ==
    w # Limit!NoWait =>
        \E i \in s : l[i] + Window <= w.at + w.seconds * Second

LimitInv ==
    Limit!TypeOK /\ WindowsOK(now, sent, let, restarts) /\ WaitOK(sent, let, wait)

\* The library's Cardinality, by the name the instance has for it.
LEMMA SameCardinality ==
    \A S : Limit!Cardinality(S) = Cardinality(S)
  <1>1. \A S : Limit!IsFiniteSet(S) <=> IsFiniteSet(S)
    BY DEF Limit!IsFiniteSet, IsFiniteSet
  <1>2. QED
    BY <1>1 DEF Limit!Cardinality, Cardinality

LEMMA Products ==
    /\ \A a, b \in Nat : a * b \in Nat
    /\ \A a, b, c \in Nat : b <= c => a * b <= a * c /\ b * a <= c * a
    /\ \A a, b \in Nat : a * (1 + b) = a * b + a /\ a * (b + 1) = a * b + a
  OBVIOUS

\* Rounding up loses nothing.
LEMMA RoundedUp ==
    ASSUME NEW n \in Nat, NEW d \in Nat \ {0}
    PROVE  /\ (n + d - 1) \div d \in Nat
           /\ ((n + d - 1) \div d) * d >= n
  OBVIOUS

\* What a window counts is a number of places, and one more when one more
\* instant falls in it.
LEMMA CountGrows ==
    ASSUME NEW times \in Seq(Nat), NEW t \in Nat, NEW from \in Nat, Window \in Nat
    PROVE  /\ Limit!CountIn(times, from) \in Nat
           /\ Limit!CountIn(Append(times, t), from)
                 = IF from <= t /\ t < from + Window THEN Limit!CountIn(times, from) + 1
                   ELSE Limit!CountIn(times, from)
  <1> DEFINE In == {i \in DOMAIN times : from <= times[i] /\ times[i] < from + Window}
             more == Append(times, t)
             Now == {i \in DOMAIN more : from <= more[i] /\ more[i] < from + Window}
             n == Len(times) + 1
  <1>1. IsFiniteSet(DOMAIN times) /\ In \in SUBSET DOMAIN times
    <2>1. DOMAIN times = 1 .. Len(times) /\ Len(times) \in Nat
      OBVIOUS
    <2>2. QED
      BY <2>1, FS_Interval
  <1>2. IsFiniteSet(In) /\ Cardinality(In) \in Nat
    BY <1>1, FS_Subset, FS_CardinalityType
  <1>3. n \notin In
    OBVIOUS
  <1>4. Now = IF from <= t /\ t < from + Window THEN In \cup {n} ELSE In
    <2>1. /\ DOMAIN more = DOMAIN times \cup {n} /\ more[n] = t
          /\ \A i \in DOMAIN times : more[i] = times[i]
      OBVIOUS
    <2>2. QED
      BY <2>1
  <1>5. Cardinality(In \cup {n}) = Cardinality(In) + 1
    BY <1>2, <1>3, FS_AddElement
  <1>6. /\ Limit!CountIn(times, from) = Cardinality(In)
        /\ Limit!CountIn(Append(times, t), from) = Cardinality(Now)
    BY SameCardinality DEF Limit!CountIn
  <1>7. QED
    BY <1>2, <1>4, <1>5, <1>6

\* No window that starts later has seen anything yet.
LEMMA CountAhead ==
    ASSUME NEW times \in Seq(Nat), NEW t \in Nat, NEW from \in Nat, t < from,
           \A i \in DOMAIN times : times[i] <= t
    PROVE  Limit!CountIn(times, from) = 0
  <1> DEFINE In == {i \in DOMAIN times : from <= times[i] /\ times[i] < from + Window}
  <1>1. In = {}
    <2>1. \A i \in DOMAIN times : times[i] \in Nat
      OBVIOUS
    <2>2. QED
      BY <2>1
  <1>2. QED
    BY <1>1, FS_EmptySet, SameCardinality DEF Limit!CountIn

\* The messages kept are finitely many, those of a window no more than all.
LEMMA KeptIs ==
    ASSUME NEW l \in Seq(Nat), NEW s \in SUBSET DOMAIN l, NEW from \in Nat
    PROVE  /\ IsFiniteSet(s) /\ Cardinality(s) \in Nat
           /\ IsFiniteSet(Kept(s, l, from)) /\ Cardinality(Kept(s, l, from)) \in Nat
           /\ Cardinality(Kept(s, l, from)) <= Cardinality(s)
  <1>1. IsFiniteSet(DOMAIN l)
    <2>1. DOMAIN l = 1 .. Len(l) /\ Len(l) \in Nat
      OBVIOUS
    <2>2. QED
      BY <2>1, FS_Interval
  <1>2. IsFiniteSet(s)
    BY <1>1, FS_Subset
  <1>3. Kept(s, l, from) \in SUBSET s
    BY DEF Kept
  <1>4. QED
    BY <1>2, <1>3, FS_Subset, FS_CardinalityType

\* Those Consume keeps; the one whose time it tells is one of them.
LEMMA RecentIs ==
    ASSUME Limit!AssistantLimitAssumption, LimitInv
    PROVE  /\ Limit!Recent \in SUBSET sent /\ IsFiniteSet(Limit!Recent)
           /\ Cardinality(Limit!Recent) \in Nat
           /\ Cardinality(Limit!Recent) <= Cardinality(sent)
           /\ \A i \in Limit!Recent : let[i] \in Nat /\ let[i] <= now /\ now - let[i] < Window
           /\ \A from \in Nat : now < from + Window =>
                 Kept(Limit!Recent, let, from) = Kept(sent, let, from)
           /\ Cardinality(Limit!Recent) >= PerWindow => Limit!Oldest \in Limit!Recent
  <1>1. /\ now \in Nat /\ let \in Seq(Nat) /\ sent \in SUBSET DOMAIN let
        /\ Window \in Nat /\ PerWindow \in Nat \ {0}
        /\ \A i \in DOMAIN let : let[i] <= now
    BY DEF Limit!AssistantLimitAssumption, LimitInv, Limit!TypeOK
  <1>2. IsFiniteSet(sent)
    BY <1>1, KeptIs
  <1>3. Limit!Recent \in SUBSET sent
    BY DEF Limit!Recent
  <1>4. /\ IsFiniteSet(Limit!Recent) /\ Cardinality(Limit!Recent) \in Nat
        /\ Cardinality(Limit!Recent) <= Cardinality(sent)
    BY <1>2, <1>3, FS_Subset, FS_CardinalityType
  <1>5. \A i \in Limit!Recent : let[i] \in Nat /\ let[i] <= now /\ now - let[i] < Window
    BY <1>1 DEF Limit!Recent
  <1>6. ASSUME NEW from \in Nat, now < from + Window
        PROVE  Kept(Limit!Recent, let, from) = Kept(sent, let, from)
    <2>1. \A i \in sent : let[i] \in Nat /\ (from <= let[i] => now - let[i] < Window)
      BY <1>1, <1>6
    <2>2. QED
      BY <2>1 DEF Kept, Limit!Recent
  <1>7. ASSUME Cardinality(Limit!Recent) >= PerWindow
        PROVE  Limit!Oldest \in Limit!Recent
    <2>1. Limit!Recent # {}
      <3>1. Limit!Recent = {} => Cardinality(Limit!Recent) = 0
        BY FS_EmptySet
      <3>2. QED
        BY <1>1, <1>7, <3>1
    <2>5. Limit!Recent \in SUBSET Nat
      <3>1. DOMAIN let = 1 .. Len(let)
        BY <1>1
      <3>2. QED
        BY <1>1, <1>3, <3>1
    <2>2. PICK i \in Limit!Recent : \A k \in Limit!Recent : ~(<<k, i>> \in OpToRel(<, Nat))
      BY <2>1, <2>5, NatLessThanWellFounded, WFMin
    <2>3. ASSUME NEW k \in Limit!Recent PROVE i <= k
      <3>1. i \in Nat /\ k \in Nat
        BY <2>5
      <3>2. ~(k < i)
        BY <2>2, <3>1 DEF OpToRel
      <3>3. QED
        BY <3>1, <3>2
    <2>4. QED
      BY <2>3 DEF Limit!Oldest
  <1>8. QED
    BY <1>3, <1>4, <1>5, <1>6, <1>7

LEMMA LimitStarts ==
    ASSUME Limit!AssistantLimitAssumption
    PROVE  Limit!Init => LimitInv
  <1> SUFFICES ASSUME Limit!Init PROVE LimitInv
    OBVIOUS
  <1> USE DEF Limit!Init
  <1>1. Limit!TypeOK
    BY DEF Limit!TypeOK, Limit!AssistantLimitAssumption, Limit!NoWait
  <1>2. \A from : Limit!CountIn(<<>>, from) = 0
    BY FS_EmptySet, SameCardinality DEF Limit!CountIn
  <1>3. \A from : Cardinality(Kept({}, <<>>, from)) = 0 /\ Cardinality({}) = 0
    BY FS_EmptySet DEF Kept
  <1>4. WindowsOK(now, sent, let, restarts)
    BY <1>2, <1>3 DEF WindowsOK, Limit!AssistantLimitAssumption
  <1>5. QED
    BY <1>1, <1>4 DEF LimitInv, WaitOK

LEMMA ConsumeKeeps ==
    ASSUME Limit!AssistantLimitAssumption, LimitInv, Limit!Consume
    PROVE  LimitInv'
  <1>1. /\ now \in Nat /\ let \in Seq(Nat) /\ sent \in SUBSET DOMAIN let
        /\ restarts \in Seq(Nat)
        /\ Window \in Nat \ {0} /\ PerWindow \in Nat \ {0} /\ Second \in Nat \ {0}
        /\ \A i \in DOMAIN let : let[i] \in Nat /\ let[i] <= now
    BY DEF Limit!AssistantLimitAssumption, LimitInv, Limit!TypeOK
  <1>2. \A from \in Nat : Limit!CountIn(let, from) \in Nat /\ Limit!CountIn(restarts, from) \in Nat
    BY <1>1, CountGrows
  <1>3. CASE Cardinality(Limit!Recent) >= PerWindow
    <2> DEFINE oldest == Limit!Oldest
               seconds == Limit!RetryAfter
    <2>1. /\ sent' = Limit!Recent /\ wait' = [at |-> now, seconds |-> seconds]
          /\ UNCHANGED <<now, let, restarts>>
      BY <1>3, SameCardinality DEF Limit!Consume
    <2>2. oldest \in Limit!Recent
      BY <1>3, RecentIs
    <2>3. let[oldest] \in Nat /\ let[oldest] <= now /\ now - let[oldest] < Window
      BY <2>2, RecentIs
    <2>4. /\ seconds \in Nat
          /\ let[oldest] + Window <= now + seconds * Second
      <3> DEFINE left == let[oldest] + Window - now
                 up == (left + Second - 1) \div Second
      <3>1. left \in Nat \ {0}
        BY <1>1, <2>3
      <3>2. up \in Nat /\ up * Second >= left
        <4> HIDE DEF left
        <4>1. QED
          BY <1>1, <3>1, RoundedUp
      <3>3. seconds = IF up < 1 THEN 1 ELSE up
        BY DEF Limit!RetryAfter, Limit!AtLeast
      <3> HIDE DEF up, seconds
      <3>4. seconds \in Nat /\ seconds >= up
        BY <3>2, <3>3
      <3>5. up * Second <= seconds * Second
        BY <1>1, <3>2, <3>4, Products
      <3> DEFINE told == seconds * Second
                 rounded == up * Second
      <3>6. told \in Nat /\ rounded \in Nat /\ rounded <= told /\ rounded >= left
        BY <1>1, <3>2, <3>4, <3>5, Products
      <3> HIDE DEF told, rounded
      <3>7. let[oldest] + Window <= now + told
        BY <1>1, <2>3, <3>6
      <3>8. QED
        BY <3>4, <3>7 DEF told
    <2> HIDE DEF oldest, seconds
    <2>5. Limit!TypeOK'
      BY <1>1, <2>1, <2>4, RecentIs DEF LimitInv, Limit!TypeOK
    <2>6. WaitOK(sent', let', wait')
      BY <2>1, <2>2, <2>4 DEF WaitOK
    <2>7. WindowsOK(now', sent', let', restarts')
      <3>1. Cardinality(Limit!Recent) <= PerWindow
        <4>1. Cardinality(sent) \in Nat
          BY <1>1, KeptIs
        <4>2. Cardinality(sent) <= PerWindow
          BY DEF LimitInv, WindowsOK
        <4>3. QED
          BY <1>1, <4>1, <4>2, RecentIs
      <3>2. \A from \in Nat : now < from + Window =>
                Kept(Limit!Recent, let, from) = Kept(sent, let, from)
        BY RecentIs
      <3>3. QED
        BY <2>1, <3>1, <3>2 DEF LimitInv, WindowsOK
    <2>8. QED
      BY <2>5, <2>6, <2>7 DEF LimitInv
  <1>4. CASE ~(Cardinality(Limit!Recent) >= PerWindow)
    <2> DEFINE n == Len(let) + 1
    <2>1. /\ sent' = Limit!Recent \cup {n} /\ let' = Append(let, now)
          /\ wait' = Limit!NoWait /\ UNCHANGED <<now, restarts>>
      BY <1>4, SameCardinality DEF Limit!Consume
    <2>2. /\ let' \in Seq(Nat) /\ DOMAIN let' = DOMAIN let \cup {n}
          /\ let'[n] = now /\ n \notin DOMAIN let
          /\ \A i \in DOMAIN let : let'[i] = let[i]
      BY <1>1, <2>1
    <2>3. Limit!Recent \in SUBSET DOMAIN let /\ IsFiniteSet(Limit!Recent)
          /\ Cardinality(Limit!Recent) \in Nat
      BY <1>1, RecentIs
    <2>4. Limit!TypeOK'
      BY <1>1, <2>1, <2>2, <2>3 DEF LimitInv, Limit!TypeOK, Limit!NoWait
    <2>5. Cardinality(sent') = Cardinality(Limit!Recent) + 1
      BY <2>1, <2>2, <2>3, FS_AddElement
    <2>6. Cardinality(sent') <= PerWindow
      BY <1>1, <1>4, <2>3, <2>5
    <2>7. ASSUME NEW from \in Nat
          PROVE  Limit!CountIn(let', from) =
                   IF from <= now /\ now < from + Window THEN Limit!CountIn(let, from) + 1
                   ELSE Limit!CountIn(let, from)
      BY <1>1, <2>1, CountGrows
    <2>8. ASSUME NEW from \in Nat, now < from + Window
          PROVE  Limit!CountIn(let', from)
                    <= PerWindow * Limit!CountIn(restarts, from)
                           + Cardinality(Kept(sent', let', from))
      <3> DEFINE K == Kept(sent, let, from)
      <3>1. /\ Limit!CountIn(let, from)
                  <= PerWindow * Limit!CountIn(restarts, from) + Cardinality(K)
            /\ PerWindow * Limit!CountIn(restarts, from) \in Nat
        BY <1>1, <1>2, <2>8, Products DEF LimitInv, WindowsOK
      <3>2. K = Kept(Limit!Recent, let, from)
        BY <2>8, RecentIs
      <3>3. IsFiniteSet(K) /\ Cardinality(K) \in Nat
        BY <1>1, KeptIs
      <3>4. Kept(sent', let', from) = IF from <= now THEN K \cup {n} ELSE K
        BY <2>1, <2>2, <2>3, <3>2 DEF Kept
      <3>5. n \notin K
        BY <1>1, <2>2 DEF Kept
      <3>6. Cardinality(K \cup {n}) = Cardinality(K) + 1
        BY <3>3, <3>5, FS_AddElement
      <3> DEFINE allowed == PerWindow * Limit!CountIn(restarts, from)
                 kept == Cardinality(K)
      <3>7. /\ allowed \in Nat /\ kept \in Nat /\ Limit!CountIn(let, from) <= allowed + kept
            /\ Cardinality(Kept(sent', let', from)) = IF from <= now THEN kept + 1 ELSE kept
        BY <3>1, <3>3, <3>4, <3>6
      <3> HIDE DEF K, allowed, kept
      <3>8. Limit!CountIn(let', from) <= allowed + Cardinality(Kept(sent', let', from))
        <4>1. Limit!CountIn(let, from) \in Nat
          BY <1>2
        <4>2. Limit!CountIn(let', from) =
                 IF from <= now THEN Limit!CountIn(let, from) + 1 ELSE Limit!CountIn(let, from)
          BY <2>7, <2>8
        <4>3. QED
          BY <3>7, <4>1, <4>2
      <3>9. QED
        BY <3>8 DEF allowed
    <2>9. ASSUME NEW from \in Nat
          PROVE  Limit!CountIn(let', from) <= PerWindow * (1 + Limit!CountIn(restarts, from))
      <3>1. CASE now < from + Window
        <4>1. Cardinality(Kept(sent', let', from)) \in Nat
              /\ Cardinality(Kept(sent', let', from)) <= Cardinality(sent')
          <5>1. sent' \in SUBSET DOMAIN let'
            BY <2>4 DEF Limit!TypeOK
          <5>2. QED
            BY <2>2, <5>1, KeptIs
        <4>2. Cardinality(sent') \in Nat
          BY <2>3, <2>5
        <4>3. Limit!CountIn(let', from) \in Nat
          BY <1>2, <2>7
        <4>4. PerWindow * (1 + Limit!CountIn(restarts, from))
                  = PerWindow * Limit!CountIn(restarts, from) + PerWindow
          BY <1>1, <1>2, Products
        <4>5. PerWindow * Limit!CountIn(restarts, from) \in Nat
          BY <1>1, <1>2, Products
        <4>6. QED
          BY <1>1, <2>6, <2>8, <3>1, <4>1, <4>2, <4>3, <4>4, <4>5
      <3>2. CASE ~(now < from + Window)
        BY <2>7, <3>2 DEF LimitInv, WindowsOK
      <3>3. QED
        BY <3>1, <3>2
    <2>10. WindowsOK(now', sent', let', restarts')
      BY <2>1, <2>6, <2>8, <2>9 DEF WindowsOK
    <2>11. QED
      BY <2>1, <2>4, <2>10 DEF LimitInv, WaitOK
  <1>5. QED
    BY <1>3, <1>4

LEMMA RestartKeeps ==
    ASSUME Limit!AssistantLimitAssumption, LimitInv, Limit!Restart
    PROVE  LimitInv'
  <1>1. /\ now \in Nat /\ let \in Seq(Nat) /\ sent \in SUBSET DOMAIN let
        /\ restarts \in Seq(Nat)
        /\ Window \in Nat \ {0} /\ PerWindow \in Nat \ {0}
        /\ \A i \in DOMAIN let : let[i] \in Nat /\ let[i] <= now
    BY DEF Limit!AssistantLimitAssumption, LimitInv, Limit!TypeOK
  <1>2. /\ restarts' = Append(restarts, now) /\ sent' = {} /\ wait' = Limit!NoWait
        /\ UNCHANGED <<now, let>>
    BY DEF Limit!Restart
  <1>3. Limit!TypeOK'
    BY <1>1, <1>2 DEF LimitInv, Limit!TypeOK, Limit!NoWait
  <1>4. Cardinality(sent') = 0
    BY <1>2, FS_EmptySet
  <1>5. ASSUME NEW from \in Nat
        PROVE  /\ Limit!CountIn(let, from) \in Nat /\ Limit!CountIn(restarts, from) \in Nat
               /\ Limit!CountIn(restarts', from) =
                     IF from <= now /\ now < from + Window THEN Limit!CountIn(restarts, from) + 1
                     ELSE Limit!CountIn(restarts, from)
    BY <1>1, <1>2, CountGrows
  <1>6. ASSUME NEW from \in Nat
        PROVE  Limit!CountIn(let, from) <= PerWindow * (1 + Limit!CountIn(restarts', from))
    <2> DEFINE c == Limit!CountIn(let, from)
               r == Limit!CountIn(restarts, from)
               q == Limit!CountIn(restarts', from)
    <2>1. c \in Nat /\ r \in Nat /\ q \in Nat /\ q >= r /\ c <= PerWindow * (1 + r)
      BY <1>5 DEF LimitInv, WindowsOK
    <2> HIDE DEF c, r, q
    <2>2. PerWindow * (1 + r) <= PerWindow * (1 + q)
      BY <1>1, <2>1
    <2>3. PerWindow * (1 + r) \in Nat /\ PerWindow * (1 + q) \in Nat
      BY <1>1, <2>1
    <2>4. c <= PerWindow * (1 + q)
      BY <2>1, <2>2, <2>3
    <2>5. QED
      BY <2>4 DEF c, q
  <1>7. ASSUME NEW from \in Nat, now < from + Window
        PROVE  Limit!CountIn(let, from) <= PerWindow * Limit!CountIn(restarts', from)
    <2>1. CASE from <= now
      BY <1>1, <1>5, <1>7, <2>1 DEF LimitInv, WindowsOK
    <2>2. CASE now < from
      <3>1. Limit!CountIn(let, from) = 0
        BY <1>1, <2>2, CountAhead
      <3>2. PerWindow * Limit!CountIn(restarts', from) \in Nat
        <4>1. Limit!CountIn(restarts', from) \in Nat
          BY <1>5
        <4>2. QED
          BY <1>1, <4>1, Products
      <3>3. QED
        BY <3>1, <3>2
    <2>3. QED
      BY <1>1, <2>1, <2>2
  <1>8. \A from : Cardinality(Kept(sent', let', from)) = 0
    BY <1>2, FS_EmptySet DEF Kept
  <1>9. ASSUME NEW from \in Nat, now < from + Window
        PROVE  Limit!CountIn(let, from) <= PerWindow * Limit!CountIn(restarts', from) + 0
    <2> DEFINE allowed == PerWindow * Limit!CountIn(restarts', from)
    <2>1. Limit!CountIn(restarts', from) \in Nat
      BY <1>5
    <2>2. allowed \in Nat /\ Limit!CountIn(let, from) <= allowed
      BY <1>1, <1>7, <1>9, <2>1, Products
    <2> HIDE DEF allowed
    <2>3. Limit!CountIn(let, from) <= allowed + 0
      BY <1>5, <2>2
    <2>4. QED
      BY <2>3 DEF allowed
  <1>10. WindowsOK(now', sent', let', restarts')
    BY <1>1, <1>2, <1>4, <1>6, <1>8, <1>9 DEF WindowsOK
  <1>11. QED
    BY <1>2, <1>3, <1>10 DEF LimitInv, WaitOK

LEMMA LimitSteps ==
    ASSUME Limit!AssistantLimitAssumption
    PROVE  LimitInv /\ [Limit!Next]_Limit!vars => LimitInv'
  <1> SUFFICES ASSUME LimitInv, [Limit!Next]_Limit!vars PROVE LimitInv'
    OBVIOUS
  <1>1. CASE Limit!Consume
    BY <1>1, ConsumeKeeps
  <1>2. CASE Limit!Restart
    BY <1>2, RestartKeeps
  <1>3. CASE Limit!Tick
    <2>1. now \in Nat /\ now' = now + 1 /\ UNCHANGED <<sent, let, restarts, wait>>
      BY <1>3 DEF Limit!Tick, LimitInv, Limit!TypeOK
    <2>2. Limit!TypeOK'
      <3>1. /\ let \in Seq(Nat) /\ restarts \in Seq(Nat)
            /\ \A i \in DOMAIN let : let[i] \in Nat /\ let[i] <= now
            /\ \A i \in DOMAIN restarts : restarts[i] \in Nat /\ restarts[i] <= now
        BY DEF LimitInv, Limit!TypeOK
      <3>2. /\ \A i \in DOMAIN let : let[i] <= now + 1
            /\ \A i \in DOMAIN restarts : restarts[i] <= now + 1
        BY <2>1, <3>1
      <3>3. now' \in 0 .. MaxTime /\ wait.at \in 0 .. now'
        BY <1>3, <2>1
           DEF Limit!Tick, LimitInv, Limit!TypeOK, Limit!AssistantLimitAssumption
      <3>4. QED
        BY <2>1, <3>2, <3>3 DEF LimitInv, Limit!TypeOK
    <2>3. \A from \in Nat : now' < from + Window => now < from + Window
      BY <2>1 DEF Limit!AssistantLimitAssumption
    <2>4. WindowsOK(now', sent', let', restarts')
      BY <2>1, <2>3 DEF LimitInv, WindowsOK
    <2>5. QED
      BY <2>1, <2>2, <2>4 DEF LimitInv
  <1>4. CASE UNCHANGED Limit!vars
    BY <1>4 DEF LimitInv, Limit!vars, Limit!TypeOK
  <1>5. QED
    BY <1>1, <1>2, <1>3, <1>4 DEF Limit!Next

\* The limiter (AssistantRateLimiter), whatever its limit and its window and
\* however many times the process restarts: no window, wherever it starts, lets
\* more than PerWindow messages through for each restart in it and one more, and
\* who waits the seconds a refusal said is let through.
THEOREM LimitIsTrue ==
    ASSUME Limit!AssistantLimitAssumption
    PROVE  Limit!Spec => [](Limit!TypeOK /\ Limit!WindowHolds /\ Limit!WaitIsEnough)
  <1>1. ASSUME LimitInv
        PROVE  Limit!TypeOK /\ Limit!WindowHolds /\ Limit!WaitIsEnough
    <2>1. /\ now \in Nat /\ let \in Seq(Nat) /\ sent \in SUBSET DOMAIN let
          /\ wait.at \in Nat /\ wait.seconds \in Nat
          /\ Window \in Nat /\ PerWindow \in Nat \ {0} /\ Second \in Nat
      BY <1>1 DEF LimitInv, Limit!TypeOK, Limit!AssistantLimitAssumption
    <2>2. Limit!WindowHolds
      BY <1>1, <2>1 DEF LimitInv, WindowsOK, Limit!WindowHolds
    <2>3. ASSUME wait # Limit!NoWait, now >= wait.at + wait.seconds * Second
          PROVE  Cardinality(Limit!Recent) < PerWindow
      <3>1. PICK i \in sent : let[i] + Window <= wait.at + wait.seconds * Second
        BY <1>1, <2>3 DEF LimitInv, WaitOK
      <3> DEFINE told == wait.seconds * Second
      <3>2. told \in Nat /\ let[i] \in Nat
        BY <2>1, Products
      <3>3. ~(now - let[i] < Window)
        <4>1. now >= wait.at + told /\ let[i] + Window <= wait.at + told
          BY <2>3, <3>1
        <4> HIDE DEF told
        <4>2. QED
          BY <1>1, <2>1, <3>2, <4>1 DEF LimitInv, Limit!TypeOK, Limit!AssistantLimitAssumption
      <3>4. i \notin Limit!Recent
        BY <3>3 DEF Limit!Recent
      <3>5. IsFiniteSet(sent) /\ Cardinality(sent) \in Nat
        BY <2>1, KeptIs
      <3>6. Cardinality(sent \ {i}) = Cardinality(sent) - 1 /\ IsFiniteSet(sent \ {i})
        BY <3>5, FS_RemoveElement
      <3>7. Limit!Recent \in SUBSET (sent \ {i})
        BY <1>1, <3>4, RecentIs
      <3>8. Cardinality(Limit!Recent) <= Cardinality(sent \ {i})
        BY <3>6, <3>7, FS_Subset
      <3>9. Cardinality(sent) <= PerWindow
        BY <1>1 DEF LimitInv, WindowsOK
      <3>10. Cardinality(Limit!Recent) \in Nat
        BY <1>1, RecentIs
      <3>11. QED
        BY <2>1, <3>5, <3>6, <3>8, <3>9, <3>10
    <2>4. QED
      BY <1>1, <2>2, <2>3, SameCardinality DEF LimitInv, Limit!WaitIsEnough
  <1>2. QED
    BY <1>1, LimitStarts, LimitSteps, PTL DEF Limit!Spec

-----------------------------------------------------------------------------
(* The rounds of one message *)

CONSTANTS MaxTools, MaxHistory, MaxCalls

VARIABLES phase, configured, withExcel, messages, toolsCalled, queue, results,
          proposals, settlements, aborted, answer

Loop == INSTANCE AssistantLoop WITH rows <- withExcel

Results == [tool : Loop!Tools, isError : BOOLEAN]

\* A turn as the model may be sent it: no document in it.
Turns == [role : {"user", "assistant", "tool"}, text : Loop!Texts \ {"document"},
          calls : Seq(Loop!Tools) \cup Seq(Results)]

\* The results answer the calls, one each.
Answers(done, calls) == [k \in DOMAIN done |-> done[k].tool] = calls

\* The results of a round follow the calls they answer, and no calls wait for
\* theirs when the model is asked.
RoundsAnswered ==
    /\ \A i \in DOMAIN messages : messages[i].role = "tool" =>
          i - 1 \in DOMAIN messages /\ Answers(messages[i].calls, messages[i - 1].calls)
    /\ \A i \in DOMAIN messages :
          messages[i].role = "assistant" /\ messages[i].calls # <<>> =>
             \/ i + 1 \in DOMAIN messages /\ messages[i + 1].role = "tool"
             \/ i = Len(messages) /\ phase # "asking"
    /\ phase = "asking" =>
          messages # <<>> /\ messages[Len(messages)].role \in {"user", "tool"}

\* The calls of the round are those that ran and those still to run.
RoundOK ==
    phase = "running" =>
        /\ queue # <<>> /\ messages # <<>>
        /\ messages[Len(messages)].role = "assistant"
        /\ messages[Len(messages)].calls
              = [k \in DOMAIN results |-> results[k].tool] \o queue

\* What may still run is within the budget.
BudgetOK ==
    /\ toolsCalled \in Nat /\ toolsCalled <= MaxTools
    /\ phase = "running" => toolsCalled + Len(queue) <= MaxTools

LoopInv ==
    /\ Loop!TypeOK /\ messages \in Seq(Turns)
    /\ RoundsAnswered /\ RoundOK /\ BudgetOK /\ Loop!OthersCarryNothing
    /\ phase # "over" => answer = "none"
    /\ phase = "idle" => proposals = 0 /\ settlements = 0

LEMMA LoopStarts ==
    ASSUME Loop!AssistantLoopAssumption
    PROVE  Loop!Init => LoopInv
  <1> SUFFICES ASSUME Loop!Init PROVE LoopInv
    OBVIOUS
  <1>1. messages = <<>> /\ DOMAIN messages = {} /\ phase = "idle" /\ answer = "none"
    BY DEF Loop!Init
  <1>2. messages \in Seq(Turns) /\ queue \in Seq(Loop!Tools) /\ results \in Seq(Results)
    BY DEF Loop!Init
  <1>3. Loop!TypeOK
    <2>1. toolsCalled \in Nat /\ proposals \in 0 .. toolsCalled /\ settlements \in 0 .. toolsCalled
      BY DEF Loop!Init
    <2>2. configured \in BOOLEAN /\ withExcel \in BOOLEAN /\ aborted \in BOOLEAN
      BY Zenon DEF Loop!Init
    <2>3. QED
      BY <1>1, <1>2, <2>1, <2>2 DEF Loop!TypeOK, Loop!Answers, Results
  <1>4. RoundsAnswered /\ RoundOK /\ Loop!OthersCarryNothing
    BY <1>1 DEF RoundsAnswered, RoundOK, Loop!OthersCarryNothing
  <1>5. BudgetOK
    BY <1>1 DEF Loop!AssistantLoopAssumption, Loop!Init, BudgetOK
  <1>6. QED
    BY <1>1, <1>2, <1>3, <1>4, <1>5 DEF LoopInv, Loop!Init

\* The turns of the client: nothing of them is a round.
LEMMA ReceiveKeeps ==
    ASSUME Loop!AssistantLoopAssumption, LoopInv, Loop!Receive
    PROVE  LoopInv'
  <1> DEFINE Client == [role : {"user", "assistant"}, text : Loop!Texts \ {"document"},
                        calls : {<<>>}]
  <1>1. PICK history \in Loop!BoundedSeq(Loop!Turn, MaxHistory), text \in {"plain", "document"} :
           messages' = Append([i \in DOMAIN history |-> Loop!Told(history[i])],
                              Loop!Told([role |-> "user", text |-> text]))
    BY DEF Loop!Receive
  <1>2. PICK n \in Nat : history \in [1 .. n -> Loop!Turn]
    BY DEF Loop!BoundedSeq, Loop!SeqOf, Loop!AssistantLoopAssumption
  <1>3. \A t \in Loop!Turn \cup {[role |-> "user", text |-> text]} : Loop!Told(t) \in Client
    BY DEF Loop!Told, Loop!maskDocuments, Loop!Turn, Loop!Texts
  <1> DEFINE told == [i \in DOMAIN history |-> Loop!Told(history[i])]
             mine == Loop!Told([role |-> "user", text |-> text])
  <1>4. told \in Seq(Client) /\ mine \in Client /\ mine.role = "user"
    <2>1. told \in [1 .. n -> Client]
      BY <1>2, <1>3
    <2>2. told \in Seq(Client)
      BY <1>2, <2>1
    <2>3. mine \in Client
      BY <1>3
    <2>4. mine.role = "user"
      BY DEF Loop!Told
    <2>5. QED
      BY <2>2, <2>3, <2>4
  <1> HIDE DEF told, mine
  <1>5. messages' \in Seq(Client) /\ Len(messages') = Len(told) + 1
        /\ messages'[Len(messages')] = mine
    BY <1>1, <1>4 DEF told, mine
  <1>6. Client \subseteq Turns
    <2>1. <<>> \in Seq(Loop!Tools)
      OBVIOUS
    <2>2. QED
      BY <2>1 DEF Turns
  <1> HIDE DEF Client
  <1>7. ASSUME NEW i \in DOMAIN messages' PROVE messages'[i] \in Client
    BY <1>5, <1>7
  <1>8. RoundsAnswered'
    <2>1. \A t \in Client : t.role # "tool" /\ t.calls = <<>>
      BY DEF Client
    <2>2. Len(messages') \in Nat \ {0}
      BY <1>4, <1>5
    <2>3. QED
      BY <1>4, <1>5, <1>7, <2>1, <2>2 DEF RoundsAnswered
  <1>9. messages' \in Seq(Turns)
    BY <1>5, <1>6
  <1>10. QED
    <2>1. /\ phase = "idle" /\ phase' \in {"asking", "over"}
          /\ answer = "none" /\ (phase' = "asking" => answer' = "none")
          /\ answer' \in {"none", "NOT_CONFIGURED"}
          /\ UNCHANGED <<toolsCalled, queue, results, proposals, settlements>>
      BY DEF LoopInv, Loop!Receive
    <2>2. withExcel' \in BOOLEAN
      BY Zenon DEF Loop!Receive
    <2>3. configured' \in BOOLEAN /\ aborted' \in BOOLEAN
      BY Zenon DEF LoopInv, Loop!Receive, Loop!TypeOK
    <2>4. proposals = 0 /\ settlements = 0
      BY <2>1 DEF LoopInv
    <2>5. Loop!TypeOK'
      <3>1. ASSUME NEW i \in DOMAIN messages'
            PROVE  messages'[i].role \in {"user", "assistant", "tool"}
                   /\ messages'[i].text \in Loop!Texts
        <4>1. messages'[i] \in Turns
          BY <1>9, <3>1
        <4>2. QED
          BY <4>1 DEF Turns
      <3>2. phase' \in {"idle", "asking", "running", "over"} /\ answer' \in Loop!Answers
        BY <2>1 DEF Loop!Answers
      <3>3. QED
        BY <2>1, <2>2, <2>3, <3>1, <3>2 DEF LoopInv, Loop!TypeOK
    <2>6. RoundOK' /\ BudgetOK' /\ Loop!OthersCarryNothing'
      BY <2>1, <2>4 DEF LoopInv, RoundOK, BudgetOK, Loop!OthersCarryNothing
    <2>7. QED
      BY <1>8, <1>9, <2>1, <2>5, <2>6 DEF LoopInv

\* An answer ends the rounds, those of a call that breaks included.
LEMMA FinishKeeps ==
    ASSUME LoopInv, NEW result \in Loop!Answers, Loop!Finish(result),
           proposals' \in {proposals, 0}, settlements' \in {settlements, 0},
           result # "reply" => proposals' = 0 /\ settlements' = 0
    PROVE  LoopInv'
  <1>1. RoundsAnswered'
    BY DEF LoopInv, RoundsAnswered, Loop!Finish
  <1>2. QED
    BY <1>1 DEF LoopInv, Loop!Finish, Loop!TypeOK, RoundOK, BudgetOK, Loop!OthersCarryNothing

LEMMA CallToolsKeeps ==
    ASSUME Loop!AssistantLoopAssumption, LoopInv,
           NEW calls \in Loop!CallLists, Loop!CallTools(calls)
    PROVE  LoopInv'
  <1>1. CASE toolsCalled + Len(calls) > MaxTools
    BY <1>1, FinishKeeps DEF Loop!CallTools, Loop!Fail, Loop!Answers
  <1>2. CASE ~(toolsCalled + Len(calls) > MaxTools)
    <2> DEFINE turn == [role |-> "assistant", text |-> "plain", calls |-> calls]
    <2>1. calls \in Seq(Loop!Tools) /\ calls # <<>>
      <3>1. PICK n \in Nat : calls \in [1 .. n -> Loop!Tools]
        BY DEF Loop!CallLists, Loop!BoundedSeq, Loop!SeqOf, Loop!AssistantLoopAssumption
      <3>2. QED
        BY <3>1 DEF Loop!CallLists
    <2>2. /\ phase = "asking" /\ phase' = "running" /\ messages' = Append(messages, turn)
          /\ queue' = calls /\ results' = <<>>
          /\ UNCHANGED <<configured, withExcel, toolsCalled, proposals, settlements,
                         aborted, answer>>
      BY <1>2 DEF Loop!CallTools
    <2>3. turn \in Turns /\ turn.role = "assistant" /\ turn.calls = calls
      BY <2>1 DEF Turns, Loop!Texts
    <2> HIDE DEF turn
    <2>4. messages \in Seq(Turns) /\ messages # <<>>
          /\ messages[Len(messages)].role \in {"user", "tool"}
      BY <2>2 DEF LoopInv, RoundsAnswered
    <2>5. /\ messages' \in Seq(Turns) /\ Len(messages') = Len(messages) + 1
          /\ messages'[Len(messages')] = turn
          /\ \A i \in DOMAIN messages : messages'[i] = messages[i]
      BY <2>2, <2>3, <2>4
    <2>6. RoundsAnswered'
      BY <2>2, <2>3, <2>4, <2>5 DEF LoopInv, RoundsAnswered
    <2>7. RoundOK'
      <3>1. [k \in DOMAIN results' |-> results'[k].tool] = <<>>
        BY <2>2
      <3>2. <<>> \o calls = calls
        BY <2>1
      <3>3. QED
        BY <2>1, <2>2, <2>3, <2>5, <3>1, <3>2 DEF RoundOK
    <2>8. Loop!TypeOK'
      BY <2>1, <2>2, <2>5 DEF LoopInv, Loop!TypeOK, Turns
    <2>9. BudgetOK'
      BY <1>2, <2>1, <2>2 DEF LoopInv, BudgetOK, Loop!AssistantLoopAssumption
    <2>10. QED
      BY <2>2, <2>5, <2>6, <2>7, <2>8, <2>9 DEF LoopInv, Loop!OthersCarryNothing
  <1>3. QED
    BY <1>1, <1>2

\* What is ahead is what ran and what is left, whichever way the next is counted.
LEMMA MovedOver ==
    ASSUME NEW S, NEW a \in Seq(S), NEW q \in Seq(S), q # <<>>
    PROVE  Append(a, Head(q)) \o Tail(q) = a \o q
  OBVIOUS

LEMMA RunToolKeeps ==
    ASSUME Loop!AssistantLoopAssumption, LoopInv,
           NEW isError \in BOOLEAN, Loop!RunTool(isError)
    PROVE  LoopInv'
  <1> DEFINE done == [tool |-> Head(queue), isError |-> isError]
             names == [k \in DOMAIN results |-> results[k].tool]
             names1 == [k \in DOMAIN results' |-> results'[k].tool]
             turn == [role |-> "tool", text |-> "plain", calls |-> results']
  <1>1. /\ queue \in Seq(Loop!Tools) /\ queue # <<>> /\ results \in Seq(Results)
        /\ messages \in Seq(Turns) /\ messages # <<>>
        /\ messages[Len(messages)].role = "assistant"
        /\ messages[Len(messages)].calls = names \o queue
    BY DEF LoopInv, Loop!TypeOK, RoundOK, Loop!RunTool, Results
  <1>2. /\ toolsCalled' = toolsCalled + 1 /\ queue' = Tail(queue)
        /\ results' = Append(results, done)
        /\ UNCHANGED <<configured, withExcel, aborted>>
    BY DEF Loop!RunTool
  <1>3. done \in Results /\ done.tool = Head(queue)
    BY <1>1 DEF Results
  <1> HIDE DEF done
  <1>4. /\ queue' \in Seq(Loop!Tools) /\ Len(queue') = Len(queue) - 1
        /\ results' \in Seq(Results) /\ Len(results') = Len(results) + 1
        /\ results'[Len(results')] = done
        /\ \A k \in DOMAIN results : results'[k] = results[k]
    BY <1>1, <1>2, <1>3
  <1>5. names \in Seq(Loop!Tools) /\ names1 = Append(names, Head(queue))
        /\ names1 \o queue' = names \o queue
    <2>1. \A k \in DOMAIN results : results[k].tool \in Loop!Tools
      <3>1. \A k \in DOMAIN results : results[k] \in Results
        BY <1>1
      <3>2. QED
        BY <3>1 DEF Results
    <2>2. names \in Seq(Loop!Tools)
      <3>1. DOMAIN results = 1 .. Len(results) /\ Len(results) \in Nat
        BY <1>1
      <3>2. names \in [1 .. Len(results) -> Loop!Tools]
        BY <2>1, <3>1
      <3>3. QED
        BY <3>1, <3>2
    <2>3. names1 = Append(names, Head(queue))
      BY <1>1, <1>2, <1>3, <1>4, <2>2
    <2>4. QED
      BY <1>1, <1>2, <2>2, <2>3, MovedOver
  <1>6. BudgetOK' /\ toolsCalled \in Nat /\ Len(queue) \in Nat \ {0}
    BY <1>1, <1>2, <1>4 DEF LoopInv, BudgetOK, Loop!AssistantLoopAssumption, Loop!RunTool
  <1>7. /\ proposals' \in 0 .. toolsCalled' /\ settlements' \in 0 .. toolsCalled'
        /\ Loop!TooLate => proposals' = 0 /\ settlements' = 0
    BY <1>2, <1>6 DEF LoopInv, Loop!TypeOK, Loop!RunTool, Loop!Found
  <1> HIDE DEF names, names1
  <1>8. CASE Len(queue) > 1
    <2>1. UNCHANGED <<phase, messages, answer>>
      BY <1>8 DEF Loop!RunTool, Loop!EndOfRound
    <2>2. RoundOK'
      <3>1. queue' # <<>>
        BY <1>4, <1>6, <1>8
      <3>2. QED
        BY <1>1, <1>5, <2>1, <3>1 DEF RoundOK, names1
    <2>3. QED
      BY <1>2, <1>4, <1>6, <1>7, <2>1, <2>2
         DEF LoopInv, Loop!TypeOK, RoundsAnswered, Loop!OthersCarryNothing, Loop!RunTool, Results
  <1>9. CASE ~(Len(queue) > 1) /\ Loop!TooLate
    <2>1. phase' = "over" /\ answer' = "TIMEOUT" /\ UNCHANGED messages
      BY <1>9 DEF Loop!RunTool, Loop!EndOfRound
    <2>2. RoundsAnswered' /\ RoundOK'
      BY <2>1 DEF LoopInv, RoundsAnswered, RoundOK
    <2>3. proposals' = 0 /\ settlements' = 0
      BY <1>7, <1>9
    <2>4. Loop!TypeOK'
      <3>1. configured' \in BOOLEAN /\ withExcel' \in BOOLEAN /\ aborted' \in BOOLEAN
        BY <1>2, Zenon DEF LoopInv, Loop!TypeOK
      <3>2. phase' \in {"idle", "asking", "running", "over"} /\ answer' \in Loop!Answers
        BY <2>1 DEF Loop!Answers
      <3>3. toolsCalled' \in Nat
        BY <1>2, <1>6
      <3>4. QED
        BY <1>4, <1>7, <2>1, <3>1, <3>2, <3>3 DEF LoopInv, Loop!TypeOK, Results
    <2>5. QED
      BY <1>6, <2>1, <2>2, <2>3, <2>4 DEF LoopInv, Loop!OthersCarryNothing
  <1>10. CASE ~(Len(queue) > 1) /\ ~Loop!TooLate
    <2>1. phase = "running" /\ phase' = "asking" /\ messages' = Append(messages, turn)
          /\ UNCHANGED answer
      BY <1>10 DEF Loop!RunTool, Loop!EndOfRound
    <2>2. turn \in Turns /\ turn.role = "tool" /\ turn.calls = results'
      BY <1>4 DEF Turns, Loop!Texts
    <2> HIDE DEF turn
    <2>3. /\ messages' \in Seq(Turns) /\ Len(messages') = Len(messages) + 1
          /\ messages'[Len(messages')] = turn
          /\ \A i \in DOMAIN messages : messages'[i] = messages[i]
          /\ Len(messages) \in Nat \ {0}
      BY <1>1, <2>1, <2>2
    <2>4. Answers(results', messages[Len(messages)].calls)
      <3>1. queue' = <<>>
        BY <1>4, <1>6, <1>10
      <3>2. names1 \o <<>> = names1
        BY <1>4 DEF names1, Results
      <3>3. QED
        BY <1>1, <1>5, <3>1, <3>2 DEF Answers, names1
    <2>5. RoundsAnswered'
      <3> DEFINE n == Len(messages)
      <3>1. n \in Nat \ {0} /\ DOMAIN messages = 1 .. n /\ DOMAIN messages' = 1 .. n + 1
        BY <1>1, <2>3
      <3>2. messages'[n + 1] = turn /\ messages'[n] = messages[n]
        BY <2>3, <3>1
      <3>3. RoundsAnswered
        BY DEF LoopInv
      <3> HIDE DEF n
      <3>4. ASSUME NEW i \in DOMAIN messages', messages'[i].role = "tool"
            PROVE  i - 1 \in DOMAIN messages'
                   /\ Answers(messages'[i].calls, messages'[i - 1].calls)
        <4>1. CASE i = n + 1
          BY <2>2, <2>4, <3>1, <3>2, <4>1 DEF n
        <4>2. CASE i # n + 1
          BY <2>3, <3>1, <3>3, <3>4, <4>2 DEF RoundsAnswered
        <4>3. QED
          BY <4>1, <4>2
      <3>5. ASSUME NEW i \in DOMAIN messages', messages'[i].role = "assistant",
                   messages'[i].calls # <<>>
            PROVE  i + 1 \in DOMAIN messages' /\ messages'[i + 1].role = "tool"
        <4>1. i # n + 1
          BY <2>2, <3>2, <3>5
        <4>2. CASE i = n
          BY <2>2, <3>1, <3>2, <4>2
        <4>3. CASE i # n
          BY <2>3, <3>1, <3>3, <3>5, <4>1, <4>3 DEF RoundsAnswered, n
        <4>4. QED
          BY <4>2, <4>3
      <3>6. messages' # <<>> /\ messages'[Len(messages')].role \in {"user", "tool"}
        BY <2>2, <2>3
      <3>7. QED
        BY <3>4, <3>5, <3>6 DEF RoundsAnswered
    <2>6. QED
      BY <1>2, <1>4, <1>6, <1>7, <2>1, <2>3, <2>5
         DEF LoopInv, Loop!TypeOK, RoundOK, Loop!OthersCarryNothing, Turns, Results
  <1>11. QED
    BY <1>8, <1>9, <1>10

\* What the panel types reaches the model only masked, no message runs more tools
\* than its budget, no answer but a reply carries anything, and every call of a
\* tool is answered before the model is asked again.
THEOREM RoundsAreTrue ==
    ASSUME Loop!AssistantLoopAssumption
    PROVE  Loop!Spec => [](/\ Loop!TypeOK /\ Loop!NoDocumentLeaves
                           /\ Loop!ToolsWithinBudget /\ Loop!OthersCarryNothing
                           /\ RoundsAnswered)
  <1>1. LoopInv => /\ Loop!TypeOK /\ Loop!NoDocumentLeaves
                   /\ Loop!ToolsWithinBudget /\ Loop!OthersCarryNothing
                   /\ RoundsAnswered
    <2>1. ASSUME LoopInv, NEW i \in DOMAIN messages PROVE messages[i].text # "document"
      <3>1. messages[i] \in Turns
        BY <2>1 DEF LoopInv
      <3>2. QED
        BY <3>1 DEF Turns
    <2>2. QED
      BY <2>1 DEF LoopInv, Loop!NoDocumentLeaves, Loop!ToolsWithinBudget, BudgetOK
  <1>2. LoopInv /\ [Loop!Next]_Loop!vars => LoopInv'
    <2>1. CASE Loop!Receive
      BY <2>1, ReceiveKeeps
    <2>2. CASE Loop!Expire
      BY <2>2 DEF Loop!Expire, LoopInv, Loop!TypeOK, RoundsAnswered, RoundOK, BudgetOK,
         Loop!OthersCarryNothing
    <2>3. CASE Loop!Abort
      BY <2>3, FinishKeeps DEF Loop!Abort, Loop!Fail, Loop!Answers
    <2>4. CASE Loop!ModelFails
      BY <2>4, FinishKeeps DEF Loop!ModelFails, Loop!Fail, Loop!Answers
    <2>5. CASE Loop!Refuse
      BY <2>5, FinishKeeps DEF Loop!Refuse, Loop!Fail, Loop!Answers
    <2>6. CASE Loop!Reply
      BY <2>6, FinishKeeps DEF Loop!Reply, Loop!Answers
    <2>7. CASE \E calls \in Loop!CallLists : Loop!CallTools(calls)
      BY <2>7, CallToolsKeeps
    <2>8. CASE \E isError \in BOOLEAN : Loop!RunTool(isError)
      BY <2>8, RunToolKeeps
    <2>9. CASE Loop!ToolBreaks
      BY <2>9, FinishKeeps DEF Loop!ToolBreaks, Loop!Fail, Loop!Answers
    <2>10. CASE UNCHANGED Loop!vars
      BY <2>10 DEF Loop!vars, LoopInv, Loop!TypeOK, RoundsAnswered, RoundOK, BudgetOK,
         Loop!OthersCarryNothing
    <2>11. QED
      BY <2>1, <2>2, <2>3, <2>4, <2>5, <2>6, <2>7, <2>8, <2>9, <2>10 DEF Loop!Next
  <1>3. QED
    BY <1>1, <1>2, LoopStarts, PTL DEF Loop!Spec
=============================================================================
