------------------------- MODULE PublicConsultation -------------------------
(***************************************************************************)
(* The public consultation of one visitor: PublicConsultationRoute (the    *)
(* municipality of the address), PublicConsultationPage (the form, the     *)
(* list, its PDFs) and PublicSettlementQueryController with its service.   *)
(*                                                                         *)
(* A request is sent, handled and answered apart.  A PDF is handled in two *)
(* steps, the query that checks it and the generation, with the changes of *)
(* the panel and of the jobs in between.  The limits per minute count the  *)
(* visitor's requests of each municipality and route.                      *)
(***************************************************************************)
EXTENDS SettlementGroups

CONSTANTS
    Towns,       \* municipalities
    Slugs,       \* what the address may name: the towns, and what is none
    TownOf,      \* the municipality of each property
    Facts,       \* what is on record of each property: field -> value
    Forms,       \* what the visitor may write: functions from the fields filled
    Limit,       \* requests per minute: "info", "query", "pdf" -> number
    MaxVisits,   \* bound: changes of the address
    MaxCalls,    \* bound: requests of the visitor
    MaxOthers,   \* bound: changes other actors make
    MaxFaults    \* bound: requests that fail

PublicConsultationAssumption ==
    /\ Towns \subseteq Slugs
    /\ PeriodOf \in [Settlement -> Nat]
    /\ <<>> \in Forms /\ Null \notin Forms
    /\ DOMAIN Limit = {"info", "query", "pdf"}
    /\ {MaxVisits, MaxCalls, MaxOthers, MaxFaults} \subseteq Nat

MinFilled == 2

VARIABLES
    stored,      \* of each settlement [current, res]
    era,         \* changes of the settlements so far, at most MaxOthers
    hits,        \* the limiter: requests counted of a slug and a route
    slug,        \* the hash of the address: a slug, or Null
    route,       \* the state of the route: [slug, kind]
    info,        \* the id of the request that is not aborted, 0 if none
    values,      \* the form: the fields filled
    search,      \* its kind, with what it found or must ask again
    submitted,   \* submittedCriteria
    pdfState,    \* "loading" or "error" of the rows whose PDF was asked
    consulting,  \* the consultation that is not aborted, 0 if none
    calls,
    delivered,   \* history: the PDFs delivered [settlement, res]
    visits, sent, faults

table  == <<stored, era>>
place  == <<slug, route, info>>
page   == <<values, search, submitted, pdfState, consulting>>
vars == <<table, hits, place, page, calls, delivered, visits, sent, faults>>

Fields == {"code", "owner", "address"}
Routes == {"info", "query", "pdf"}

Filled == DOMAIN values

Idle == [kind |-> "idle", found |-> {}, asked |-> <<>>, era |-> 0]

TypeOK ==
    /\ stored \in [Settlement -> [current : BOOLEAN, res : Nat \cup {Null}]]
    /\ era \in 0 .. MaxOthers
    /\ hits \in [Slugs \X Routes -> Nat]
    /\ slug \in Slugs \cup {Null}
    /\ route \in [slug : Slugs \cup {Null},
                  kind : {"loading", "ready", "unavailable", "failed"}]
    /\ values \in Forms /\ submitted \in Forms \cup {Null}
    /\ search.kind \in {"idle", "loading", "not-found", "error", "found"}
    /\ search.found \subseteq SUBSET Settlement
    /\ \A s \in DOMAIN pdfState : s \in Settlement /\ pdfState[s] \in {"loading", "error", "done"}
    /\ {info, consulting} \subseteq 0 .. sent
    /\ \A c \in calls :
          /\ c.id \in 1 .. sent /\ c.kind \in Routes
          /\ c.state \in {"sent", "checked", "done", "refused", "failed"}

Init ==
    /\ stored = [s \in Settlement |-> [current |-> TRUE, res |-> Null]]
    /\ era = 0
    /\ hits = [k \in Slugs \X Routes |-> 0]
    /\ slug = Null /\ route = [slug |-> Null, kind |-> "unavailable"] /\ info = 0
    /\ values = <<>> /\ search = Idle /\ submitted = Null /\ pdfState = <<>>
    /\ consulting = 0
    /\ calls = {} /\ delivered = {}
    /\ visits = 0 /\ sent = 0 /\ faults = 0

-----------------------------------------------------------------------------
(***************************************************************************)
(* The backend                                                             *)
(***************************************************************************)

\* Every field given is the one on record.
Matches(p, criteria) == \A f \in DOMAIN criteria : Facts[p][f] = criteria[f]

\* PublicSettlementQueryService.query: the current settlements of the
\* municipality's properties that match, one row per resolution issued, when the
\* table holds S.
Query(S, town, criteria) ==
    LET listed == {s \in Settlement :
                     /\ S[s].current
                     /\ TownOf[PropertyOf[s]] = town
                     /\ Matches(PropertyOf[s], criteria)}
    IN {m \in Buckets(S, listed) : S[Trigger(m)].res # Null}

\* queryBySlug: a slug that is no municipality finds nothing.
QueryBySlug(S, s, criteria) == IF s \in Towns THEN Query(S, s, criteria) ELSE {}

\* MunicipalityThrottlerGuard: each slug has its own count of each route.
Limited(c) == hits[<<c.slug, c.kind>>] >= Limit[c.kind]

Count(c) == hits' = [hits EXCEPT ![<<c.slug, c.kind>>] = @ + 1]

Answer(c, state, said) ==
    calls' = (calls \ {c}) \cup {[c EXCEPT !.state = state, !.said = said]}

Throttle(c) ==
    /\ c.state = "sent" /\ Limited(c)
    /\ Answer(c, "failed", {})
    /\ UNCHANGED <<table, hits, place, page, delivered, visits, sent, faults>>

\* A minute passes.
WindowEnds(s, r) ==
    /\ hits[<<s, r>>] > 0
    /\ hits' = [hits EXCEPT ![<<s, r>>] = 0]
    /\ UNCHANGED <<table, place, page, calls, delivered, visits, sent, faults>>

HandleInfo(c) ==
    /\ c.kind = "info" /\ c.state = "sent" /\ ~Limited(c)
    /\ Count(c)
    /\ Answer(c, IF c.slug \in Towns THEN "done" ELSE "refused", {})
    /\ UNCHANGED <<table, place, page, delivered, visits, sent, faults>>

HandleQuery(c) ==
    /\ c.kind = "query" /\ c.state = "sent" /\ ~Limited(c)
    /\ Count(c)
    /\ calls' = (calls \ {c}) \cup
                {[c EXCEPT !.state = "done", !.era = era,
                           !.said = QueryBySlug(stored, c.slug, c.criteria)]}
    /\ UNCHANGED <<table, place, page, delivered, visits, sent, faults>>

\* generateLiquidationPdf: the same query must list the settlement.
CheckPdf(c) ==
    /\ c.kind = "pdf" /\ c.state = "sent" /\ ~Limited(c)
    /\ Count(c)
    /\ Answer(c,
              IF \E m \in QueryBySlug(stored, c.slug, c.criteria) : Trigger(m) = c.of
              THEN "checked" ELSE "refused", {})
    /\ UNCHANGED <<table, place, page, delivered, visits, sent, faults>>

\* generateIssued never reserves a number: not issued is not found.
NotIssued(s) == ~stored[s].current \/ stored[s].res = Null

GenerateIssued(c) ==
    /\ c.kind = "pdf" /\ c.state = "checked"
    /\ IF NotIssued(c.of)
       THEN /\ Answer(c, "refused", {})
            /\ UNCHANGED delivered
       ELSE /\ Answer(c, "done", {})
            /\ delivered' = delivered \cup {[settlement |-> c.of, res |-> stored[c.of].res]}
    /\ UNCHANGED <<table, hits, place, page, visits, sent, faults>>

Fail(c) ==
    /\ c.state \in {"sent", "checked", "done"} /\ faults < MaxFaults
    /\ faults' = faults + 1
    /\ Answer(c, "failed", {})
    /\ UNCHANGED <<table, hits, place, page, delivered, visits, sent>>

Change ==
    /\ era < MaxOthers /\ era' = era + 1
    /\ UNCHANGED <<hits, place, page, calls, delivered, visits, sent, faults>>

\* The panel or a job issues the resolution of a property's settlements.
Issue(s) ==
    /\ Change
    /\ stored[s].current /\ stored[s].res = Null
    /\ LET pending == {t \in Settlement : /\ PropertyOf[t] = PropertyOf[s]
                                          /\ stored[t].current /\ stored[t].res = Null}
       IN stored' = [t \in Settlement |->
                       IF t \in FutureGroup(pending, s)
                       THEN [stored[t] EXCEPT !.res = era + 1] ELSE stored[t]]

\* A job that failed takes its numbers back.
TakeBack(n) ==
    /\ Change
    /\ \E s \in Settlement : stored[s].res = n
    /\ stored' = [t \in Settlement |->
                    IF stored[t].res = n THEN [stored[t] EXCEPT !.res = Null]
                                         ELSE stored[t]]

\* A tax roll replaces the settlement.
Replace(s) ==
    /\ Change
    /\ stored[s].current
    /\ stored' = [stored EXCEPT ![s].current = FALSE]

-----------------------------------------------------------------------------
(***************************************************************************)
(* The route                                                               *)
(***************************************************************************)

Request(kind, criteria, of) ==
    [id |-> sent + 1, kind |-> kind, slug |-> slug, criteria |-> criteria,
     of |-> of, visit |-> visits, era |-> search.era,
     state |-> "sent", said |-> {}]

FreshPage ==
    /\ values' = <<>> /\ search' = Idle /\ submitted' = Null
    /\ pdfState' = <<>> /\ consulting' = 0

\* What the route asked for the address before is aborted.
NotAborted == calls \ {c \in calls : c.id \in {info, consulting}}

\* The hash changes: the route starts over, its effect asks for the
\* municipality, and the page of the slug before is gone.
ChangeHash(s) ==
    /\ visits < MaxVisits /\ s # slug
    /\ visits' = visits + 1
    /\ slug' = s
    /\ route' = [slug |-> s, kind |-> IF s = Null THEN "unavailable" ELSE "loading"]
    /\ IF s = Null
       THEN /\ info' = 0 /\ calls' = NotAborted
            /\ UNCHANGED sent
       ELSE /\ sent' = sent + 1 /\ info' = sent + 1
            /\ calls' = NotAborted \cup
                        {[Request("info", <<>>, Null) EXCEPT !.slug = s]}
    /\ FreshPage
    /\ UNCHANGED <<table, hits, delivered, faults>>

\* "Reintentar" of a municipality that could not be read.
RetryInfo ==
    /\ route.kind = "failed" /\ sent < MaxCalls
    /\ route' = [route EXCEPT !.kind = "loading"]
    /\ sent' = sent + 1 /\ info' = sent + 1
    /\ calls' = NotAborted \cup {Request("info", <<>>, Null)}
    /\ UNCHANGED <<table, hits, slug, page, delivered, visits, faults>>

LandInfo(c) ==
    /\ c.kind = "info" /\ c.state \in {"done", "refused", "failed"}
    /\ calls' = calls \ {c}
    /\ route' = [slug |-> c.slug,
                 kind |-> CASE c.state = "done" -> "ready"
                            [] c.state = "refused" -> "unavailable"
                            [] c.state = "failed" -> "failed"]
    /\ info' = 0
    /\ UNCHANGED <<table, hits, slug, page, delivered, visits, sent, faults>>

-----------------------------------------------------------------------------
(***************************************************************************)
(* The page                                                                *)
(***************************************************************************)

OnPage == route.kind = "ready" /\ UNCHANGED <<table, hits, place, delivered, visits, faults>>

\* The visitor writes.
Write(form) ==
    /\ OnPage
    /\ form # values /\ values' = form
    /\ UNCHANGED <<search, submitted, pdfState, consulting, calls, sent>>

\* consult: what was asked before is aborted.
Consult(criteria) ==
    /\ sent < MaxCalls /\ sent' = sent + 1
    /\ search' = [Idle EXCEPT !.kind = "loading"]
    /\ consulting' = sent + 1
    /\ calls' = {c \in calls : c.id # consulting} \cup {Request("query", criteria, Null)}

\* handleSubmit: at least two of the three, and the button is free.
Submit ==
    /\ OnPage /\ search.kind # "loading"
    /\ Cardinality(Filled) >= MinFilled
    /\ Consult(values)
    /\ UNCHANGED <<values, submitted, pdfState>>

RetryQuery ==
    /\ OnPage /\ search.kind = "error"
    /\ Consult(search.asked)
    /\ UNCHANGED <<values, submitted, pdfState>>

LandQuery(c) ==
    /\ c.kind = "query" /\ c.state \in {"done", "failed"}
    /\ calls' = calls \ {c}
    /\ IF c.state = "done"
       THEN /\ search' = [kind |-> IF c.said = {} THEN "not-found" ELSE "found",
                          found |-> c.said, asked |-> <<>>, era |-> c.era]
            /\ submitted' = c.criteria
            /\ pdfState' = <<>>
       ELSE /\ search' = [Idle EXCEPT !.kind = "error", !.asked = c.criteria]
            /\ UNCHANGED <<submitted, pdfState>>
    /\ consulting' = 0
    /\ UNCHANGED <<table, hits, place, values, delivered, visits, sent, faults>>

Clear ==
    /\ OnPage /\ search.kind # "loading"
    /\ values' = <<>> /\ search' = Idle /\ submitted' = Null /\ pdfState' = <<>>
    /\ UNCHANGED <<consulting, calls, sent>>

\* A mutant: what the form says now.
AskedWithForm == values

\* What a PDF is asked with: what the list was found with.
AskedWith == submitted

\* A row's PDF, or its button, changes state.
Marked(s, state) ==
    [t \in (DOMAIN pdfState) \cup {s} |-> IF t = s THEN state ELSE pdfState[t]]

\* handleDownloadPdf, of a row whose button is not loading.
Download(m) ==
    /\ OnPage /\ search.kind = "found" /\ m \in search.found
    /\ submitted # Null
    /\ Trigger(m) \in DOMAIN pdfState => pdfState[Trigger(m)] # "loading"
    /\ sent < MaxCalls /\ sent' = sent + 1
    /\ pdfState' = Marked(Trigger(m), "loading")
    /\ calls' = calls \cup {Request("pdf", AskedWith, Trigger(m))}
    /\ UNCHANGED <<values, search, submitted, consulting>>

\* Its answer finds the page it was asked from, or another.
LandPdf(c) ==
    /\ c.kind = "pdf" /\ c.state \in {"done", "refused", "failed"}
    /\ calls' = calls \ {c}
    /\ pdfState' = IF c.visit # visits THEN pdfState
                   ELSE Marked(c.of, IF c.state = "done" THEN "done" ELSE "error")
    /\ UNCHANGED <<table, hits, place, values, search, submitted, consulting,
                   delivered, visits, sent, faults>>

Next ==
    \/ \E c \in calls :
          \/ Throttle(c) \/ HandleInfo(c) \/ HandleQuery(c) \/ CheckPdf(c)
          \/ GenerateIssued(c) \/ Fail(c)
          \/ LandInfo(c) \/ LandQuery(c) \/ LandPdf(c)
    \/ \E s \in Slugs, r \in Routes : WindowEnds(s, r)
    \/ \E s \in Settlement : Issue(s) \/ Replace(s)
    \/ \E n \in 1 .. era : TakeBack(n)
    \/ \E s \in Slugs \cup {Null} : ChangeHash(s)
    \/ \E form \in Forms : Write(form)
    \/ \E m \in search.found : Download(m)
    \/ RetryInfo \/ Submit \/ RetryQuery \/ Clear

Spec == Init /\ [][Next]_vars

-----------------------------------------------------------------------------
(***************************************************************************)
(* Properties                                                              *)
(***************************************************************************)

\* What the page lists is what the consultation it shows would find now in the
\* municipality of the address, unless a settlement changed since it was read.
ListIsTheirs ==
    search.kind = "found" =>
        /\ submitted # Null
        /\ search.era = era => search.found = QueryBySlug(stored, slug, submitted)

\* A PDF of a listed row is refused only when a settlement changed after the
\* list was read: whatever the visitor wrote since, it is asked with what the
\* list was found with.
RefusedMeansChanged ==
    \A c \in calls : c.kind = "pdf" /\ c.state = "refused" => c.era < era

\* Every PDF delivered is of a number that was issued, even if it is taken
\* back between the check and the generation: the consultation "never
\* reserves a number" (public-settlement-query.service.ts:17-21).
DeliveredIsIssued == \A d \in delivered : d.res # Null

\* What says it waits has a request that will end it.
NothingHangs ==
    /\ route.slug = slug
    /\ route.kind = "loading" => \E c \in calls : c.kind = "info" /\ c.slug = slug
    /\ search.kind = "loading" => \E c \in calls : c.kind = "query" /\ c.visit = visits
    /\ \A s \in DOMAIN pdfState :
          pdfState[s] = "loading" =>
              \E c \in calls : c.kind = "pdf" /\ c.of = s /\ c.visit = visits

ConsultationIsTrue ==
    ListIsTheirs /\ RefusedMeansChanged /\ DeliveredIsIssued /\ NothingHangs
=============================================================================
