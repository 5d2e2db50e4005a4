------------------------------ MODULE MCScreens ------------------------------
(***************************************************************************)
(* Three screens of the panel for TLC, and what the file uploaded on one of *)
(* them becomes.  They share nothing, so their state graphs are put side by *)
(* side, not multiplied: the initial state says which screen is open, and  *)
(* the variables of the others stay as they are.                           *)
(*                                                                         *)
(* The screen of a ZIP job is there twice, with the same two jobs: both of *)
(* its type, and one of each type while a request fails.  Its fairness is  *)
(* stated once: an action of the one is enabled when that of the other is, *)
(* and a step of either ends its wait.  When another screen is open it asks *)
(* for nothing: none of the fair actions is enabled in the initial state.  *)
(***************************************************************************)
EXTENDS JobScreen, Sequences

CONSTANTS j1, j2, f1, f2, p1, p2, bad, excel,
          home, away, c1, c2, d1, cc, v1, v2, code, total, district, a1, a2

VARIABLES
    open,
    \* TaxRollScreen
    current, imports, jobRuns, roll, spent, result, leaving, dialog, call, sent,
    rollFaults,
    \* PaymentOrdersScreen
    eligible, ordered, handedBack, orderJob, file, step, preview, issued, toGenerate,
    reviewing, reviews, list, issue, reads, orderFaults,
    \* TaxRollFile
    properties, owners, links, settled, entries, answer, accepted

rollVars == <<current, imports, jobRuns, roll, spent, result, leaving, dialog, call,
              sent, rollFaults>>
orderVars == <<eligible, ordered, handedBack, orderJob, file, step, preview, issued, toGenerate,
               reviewing, reviews, list, issue, reads, orderFaults>>
fileVars == <<properties, owners, links, settled, entries, answer, accepted>>
allVars == <<open, vars, rollVars, orderVars, fileVars>>

\* The same with a job of each type, and a request that fails.
Held == INSTANCE JobScreen WITH OwnJobs <- {j1}, OtherJobs <- {j2},
                               MaxVisits <- 1, MaxFaults <- 1

\* Two files that share a period and one that is refused.
Roll == INSTANCE TaxRollScreen WITH
            Files <- {f1, f2, bad}, Periods <- {p1, p2},
            Covers <- [f \in {f1, f2, bad} |-> IF f = f1 THEN {p1, p2} ELSE {p2}],
            NameOf <- [f \in {f1, f2, bad} |-> excel],
            BadFiles <- {bad}, MaxImports <- 4, MaxFaults <- 1,
            job <- jobRuns, file <- roll, faults <- rollFaults

Orders == INSTANCE PaymentOrdersScreen WITH
            Files <- {f1, f2, bad}, Properties <- {p1, p2},
            Lists <- [f \in {f1, f2, bad} |-> IF f = f1 THEN {p1, p2} ELSE {p2}],
            BadFiles <- {bad}, MaxReviews <- 2, MaxFaults <- 1,
            job <- orderJob, faults <- orderFaults

\* The rows of a file: sound, of its key, of another key, that state little,
\* each kind that is refused, and none.
Sound(c, year, amount) ==
    [code |-> c, period |-> year, amount |-> amount,
     document |-> [label |-> cc, number |-> d1], place |-> v1, use |-> v1,
     address |-> v1, name |-> v1]
Silent(row) ==
    [row EXCEPT !.amount = Null, !.document.label = Null, !.place = Null, !.use = Null,
                !.address = Null, !.name = Null]
Good == Sound(c1, 1, v1)
RowKinds ==
    <<Good, Silent(Good), Sound(c1, 2, v1),
      [Good EXCEPT !.document.label = "unknown", !.use = "unknown"],
      [Good EXCEPT !.code = Null], [Good EXCEPT !.period = Null],
      [Good EXCEPT !.period = 3], [Good EXCEPT !.document.number = Null],
      [Good EXCEPT !.amount = "text"], [Good EXCEPT !.place = "off the map"], Null>>

Book(headers, rows) == [state |-> "workbook", headers |-> headers, rows |-> rows]
Plain == <<code, total>>
Wide  == <<code, district, total>>

\* Every two rows, alone or before a sound one, with and without the optional
\* column; and the files whose headers, or whose content, are not a roll's.
Rolls ==
    [n \in 1 .. 484 |->
        Book(IF n % 2 = 0 THEN Plain ELSE Wide,
             <<RowKinds[((n \div 4) % 11) + 1], RowKinds[((n \div 44) % 11) + 1],
               IF (n \div 2) % 2 = 0 THEN Good ELSE Null>>)]
    \o <<Book(<<total, code>>, <<Good>>), Book(<<code>>, <<Good>>),
         Book(<<code, code, total>>, <<Good>>),
         [state |-> "no workbook", headers |-> <<>>, rows |-> <<>>],
         [state |-> "rejected", headers |-> <<>>, rows |-> <<>>]>>

Reading == INSTANCE TaxRollFile WITH
               Municipalities <- {home}, Codes <- {c1}, PrefixOf <- [c \in {c1} |-> home],
               Numbers <- {d1}, Types <- {cc}, Expected <- Plain, Optional <- district,
               Years <- {1, 2}, Values <- {v1}, Files <- DOMAIN Rolls, Sheet <- Rolls,
               NameOf <- [n \in DOMAIN Rolls |-> excel], Administrators <- {a1},
               MaxImports <- 1, current <- settled, imports <- entries

\* Three imports of a file that states all, one of the same name that states
\* less and brings more, one of another municipality and one of both.
Uploads ==
    <<Book(Wide, <<Good>>),
      Book(Wide, <<[Silent(Sound(c1, 1, v2)) EXCEPT !.use = v2], Silent(Sound(c1, 2, v2))>>),
      Book(Plain, <<Sound(c2, 1, v1),
                    [Silent(Sound(c2, 2, v1)) EXCEPT !.document.label = "unknown"]>>),
      Book(Plain, <<Good, Sound(c2, 1, v1)>>)>>

Importing == INSTANCE TaxRollFile WITH
                 Municipalities <- {home, away}, Codes <- {c1, c2},
                 PrefixOf <- [c \in {c1, c2} |-> IF c = c1 THEN home ELSE away],
                 Numbers <- {d1}, Types <- {cc}, Expected <- Plain, Optional <- district,
                 Years <- {1, 2}, Values <- {v1, v2}, Files <- DOMAIN Uploads,
                 Sheet <- Uploads,
                 NameOf <- [n \in DOMAIN Uploads |-> IF n = 3 THEN bad ELSE excel],
                 Administrators <- {a1, a2}, MaxImports <- 3,
                 current <- settled, imports <- entries

ASSUME Bounds ==
    /\ JobScreenAssumption /\ Held!JobScreenAssumption /\ Roll!TaxRollScreenAssumption
    /\ Orders!PaymentOrdersScreenAssumption
    /\ Reading!TaxRollFileAssumption /\ Importing!TaxRollFileAssumption

MCInit ==
    /\ open \in {"followed", "job", "tax roll", "payment orders", "reading", "importing"}
    /\ Init /\ Roll!Init /\ Orders!Init
    /\ CASE open = "reading"   -> Reading!Init
         [] open = "importing" -> Importing!Init
         [] OTHER -> /\ properties = Null /\ owners = Null /\ links = {} /\ settled = Null
                     /\ entries = <<>> /\ answer = Null /\ accepted = <<>>

MCNext ==
    \/ /\ open = "followed" /\ Next
       /\ UNCHANGED <<open, rollVars, orderVars, fileVars>>
    \/ /\ open = "job" /\ Held!Next
       /\ UNCHANGED <<open, rollVars, orderVars, fileVars>>
    \/ /\ open = "tax roll" /\ Roll!Next
       /\ UNCHANGED <<open, vars, orderVars, fileVars>>
    \/ /\ open = "payment orders" /\ Orders!Next
       /\ UNCHANGED <<open, vars, rollVars, fileVars>>
    \/ /\ open = "reading" /\ Reading!Next
       /\ UNCHANGED <<open, vars, rollVars, orderVars>>
    \/ /\ open = "importing" /\ Importing!Next
       /\ UNCHANGED <<open, vars, rollVars, orderVars>>

MCSpec ==
    /\ MCInit /\ [][MCNext]_allVars
    /\ Fairness

-----------------------------------------------------------------------------

\* The variables of the screens have their types; a replacement being
\* confirmed is modal, who waits for a review has a read on its way, and what
\* is marked as issued has its payment order.  TaxRollFile: every row of a file
\* is taken or told about; a row that states no place, land use, name or type
\* erases none; and what the answer and the list of imports say of the
\* settlements is so.
Inv ==
    /\ (open # "job" => TypeOK) /\ (open = "job" => Held!TypeOK)
    /\ Roll!TypeOK /\ Orders!TypeOK
    /\ Roll!ConfirmingIsModal
    /\ Orders!WaitingHasARead /\ Orders!IssuedHasOrder
    /\ open = "reading" => Reading!TypeOK /\ Reading!FileIsTrue
    /\ open = "importing" => Importing!TypeOK /\ Importing!FileIsTrue
=============================================================================
