--------------------------- MODULE MCSettlements ---------------------------
(***************************************************************************)
(* The settlements for TLC: the states of the rows, the screen             *)
(* Liquidaciones and the public consultation.  Each page holds the part of *)
(* the table it reads, so they share nothing and their state graphs are    *)
(* put side by side, not multiplied: the initial state says which part     *)
(* runs, and the variables of the others stay as they are.                 *)
(***************************************************************************)
EXTENDS Settlements, TLC

CONSTANT land

VARIABLES
    part,
    \* SettlementsScreen
    stored, calls, sent, faults, counter, bulk, results, listState, searched,
    selected, sheetId, editing, saving, failed, dialog, generating, slompsim,
    effect, others, clock, readAt, wroteAt, otherAt, behind, reverted,
    \* PublicConsultation
    publicStored, publicCalls, publicSent, publicFaults, era, hits, slug, route,
    info, values, search, submitted, pdfState, consulting, delivered, visits

screenVars == <<stored, calls, sent, faults, counter, bulk, results, listState,
                searched, selected, sheetId, editing, saving, failed, dialog,
                generating, slompsim, effect, others, clock, readAt, wroteAt,
                otherAt, behind, reverted>>
publicVars == <<publicStored, publicCalls, publicSent, publicFaults, era, hits,
                slug, route, info, values, search, submitted, pdfState,
                consulting, delivered, visits>>
allVars == <<part, vars, screenVars, publicVars>>

\* Every period is of one property.
MCPropertyOf == [p \in Periods |-> land]

MCSymmetry == Permutations(Rows) \cup Permutations(Requests)

\* The table of the pages: two periods of the property "p" (1 and 2), one of
\* "q" (3), and the settlement the next roll replaces the first by (4).
Property(ids) == [s \in ids |-> IF s = 3 THEN "q" ELSE "p"]
Period(ids) == [s \in ids |-> IF s = 2 THEN 2 ELSE 1]
FindsOf(criteria) == [c \in criteria |-> IF c = "p" THEN {"p"} ELSE {"p", "q"}]

\* Three requests that cross, over two criteria and two properties.
Crossing == INSTANCE SettlementsScreen WITH
                Settlement <- 1 .. 3, PropertyOf <- Property(1 .. 3),
                PeriodOf <- Period(1 .. 3), RiskYear <- 0,
                Reissued <- [s \in 1 .. 3 |-> s],
                Criteria <- {"p", "both"}, Finds <- FindsOf({"p", "both"}),
                MaxCalls <- 3, MaxOthers <- 0, MaxFaults <- 0, job <- bulk

\* Three requests, one of which may fail.
Failing == INSTANCE SettlementsScreen WITH
               Settlement <- {1, 3}, PropertyOf <- Property({1, 3}),
               PeriodOf <- Period({1, 3}), RiskYear <- 0,
               Reissued <- [s \in {1, 3} |-> s],
               Criteria <- {"both"}, Finds <- FindsOf({"both"}),
               MaxCalls <- 3, MaxOthers <- 0, MaxFaults <- 1, job <- bulk

\* Two requests and two changes of others: an import, a job and its end.
Changing == INSTANCE SettlementsScreen WITH
                Settlement <- {1, 2, 4}, PropertyOf <- Property({1, 2, 4}),
                PeriodOf <- Period({1, 2, 4}), RiskYear <- 0,
                Reissued <- [s \in {1, 2, 4} |-> IF s = 1 THEN 4 ELSE s],
                Criteria <- {"p"}, Finds <- FindsOf({"p"}),
                MaxCalls <- 2, MaxOthers <- 2, MaxFaults <- 0, job <- bulk

\* Two properties of one owner at one address: only the code tells them apart.
OnRecord == [p |-> [code |-> 1, owner |-> 1, address |-> 1],
             q |-> [code |-> 2, owner |-> 1, address |-> 1]]
Town == [p |-> "town", q |-> "town"]
Owner == [owner |-> 1, address |-> 1]
Code  == [code |-> 1, owner |-> 1]

\* A visit of four requests (the municipality, a list, its PDFs) with two
\* changes in between, one PDF per minute.
Listing == INSTANCE PublicConsultation WITH
               Settlement <- 1 .. 3, PropertyOf <- Property(1 .. 3),
               PeriodOf <- Period(1 .. 3), RiskYear <- 0,
               Towns <- {"town"}, Slugs <- {"town"}, TownOf <- Town,
               Facts <- OnRecord, Forms <- {<<>>, Owner, Code},
               Limit <- [info |-> 4, query |-> 4, pdf |-> 1],
               MaxVisits <- 1, MaxCalls <- 4, MaxOthers <- 2, MaxFaults <- 0,
               stored <- publicStored, calls <- publicCalls,
               sent <- publicSent, faults <- publicFaults

\* The address changes once, maybe to what is no municipality, and a request
\* may fail; no room for two requests of a kind in a minute.
Visiting == INSTANCE PublicConsultation WITH
                Settlement <- {1, 3}, PropertyOf <- Property({1, 3}),
                PeriodOf <- Period({1, 3}), RiskYear <- 0,
                Towns <- {"town"}, Slugs <- {"town", "nowhere"}, TownOf <- Town,
                Facts <- OnRecord, Forms <- {<<>>, [owner |-> 1], Owner},
                Limit <- [info |-> 1, query |-> 1, pdf |-> 1],
                MaxVisits <- 2, MaxCalls <- 4, MaxOthers <- 1, MaxFaults <- 1,
                stored <- publicStored, calls <- publicCalls,
                sent <- publicSent, faults <- publicFaults

\* The bounds are those the pages ask for.
ASSUME Bounds ==
    /\ Crossing!SettlementsScreenAssumption /\ Failing!SettlementsScreenAssumption
    /\ Changing!SettlementsScreenAssumption
    /\ Listing!PublicConsultationAssumption /\ Visiting!PublicConsultationAssumption

Screens == {"crossing", "failing", "changing"}

\* A part that does not run stays in an initial state of its own.
MCInit ==
    /\ part \in Screens \cup {"rows", "listing", "visiting"}
    /\ Init
    /\ CASE part = "failing"  -> Failing!Init
         [] part = "changing" -> Changing!Init
         [] OTHER             -> Crossing!Init
    /\ IF part = "visiting" THEN Visiting!Init ELSE Listing!Init

MCNext ==
    \/ /\ part = "rows" /\ Next
       /\ UNCHANGED <<part, screenVars, publicVars>>
    \/ /\ part = "crossing" /\ Crossing!Next
       /\ UNCHANGED <<part, vars, publicVars>>
    \/ /\ part = "failing" /\ Failing!Next
       /\ UNCHANGED <<part, vars, publicVars>>
    \/ /\ part = "changing" /\ Changing!Next
       /\ UNCHANGED <<part, vars, publicVars>>
    \/ /\ part = "listing" /\ Listing!Next
       /\ UNCHANGED <<part, vars, screenVars>>
    \/ /\ part = "visiting" /\ Visiting!Next
       /\ UNCHANGED <<part, vars, screenVars>>

MCSpec == MCInit /\ [][MCNext]_allVars

\* The rows alone, with their sweep.
RowsSpec == MCInit /\ part = "rows" /\ [][MCNext]_allVars /\ Fairness

\* What each page shows (SettlementsScreen!ScreenIsTrue): the screen, that its
\* list is true unless it may know it is behind, that no number is issued
\* unasked and nothing hangs; the consultation (ConsultationIsTrue), that it
\* lists and delivers what was issued and nothing hangs.
PagesAreTrue ==
    CASE part = "rows"     -> TRUE
      [] part = "crossing" -> Crossing!TypeOK /\ Crossing!ScreenIsTrue
      [] part = "failing"  -> Failing!TypeOK /\ Failing!ScreenIsTrue
      [] part = "changing" -> Changing!TypeOK /\ Changing!ScreenIsTrue
      [] part = "listing"  -> Listing!TypeOK /\ Listing!ConsultationIsTrue
      [] part = "visiting" -> Visiting!TypeOK /\ Visiting!ConsultationIsTrue
=============================================================================
