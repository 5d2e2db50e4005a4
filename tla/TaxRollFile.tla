---------------------------- MODULE TaxRollFile ----------------------------
(***************************************************************************)
(* What an import makes of the tax roll's spreadsheet: which of its rows   *)
(* it takes, refuses or warns about, and what the rows it takes say from   *)
(* then on of the properties, their owners, their current settlements and  *)
(* the list of imports.                                                    *)
(*                                                                         *)
(* One import is one step here: it is one transaction, and those of a      *)
(* municipality wait for each other.  Module Settlements has its steps, and *)
(* what else changes a settlement; module Municipalities, the loads that   *)
(* cross with the edition of a municipality.                               *)
(***************************************************************************)
EXTENDS Integers, SequencesExt

CONSTANTS
    Municipalities,
    Codes,           \* cadastral codes
    PrefixOf,        \* the municipality whose DANE code each code starts with
    Numbers,         \* document numbers
    Types,           \* the classifications parseOwnerDocument knows
    Expected,        \* the required headers, in their order
    Optional,        \* the header of the optional column
    Years,           \* PROPERTY_TAX_START_YEAR to the current year
    Values,          \* what any other cell may state
    Files,           \* the files that may be uploaded
    Sheet,           \* the state, headers and rows of each
    NameOf,          \* the name of each file
    Administrators,
    MaxImports,      \* bound: imports that are accepted
    Null

TaxRollFileAssumption ==
    /\ \A f \in Files : Sheet[f].rows \in Seq([code : Codes \cup {Null},
                                        document : [label : Types \cup {Null, "unknown"},
                                                    number : Numbers \cup {Null}],
                                        period : Int \cup {Null},
                                        amount : Values \cup {Null, "text"},
                                        place : Values \cup {Null, "off the map"},
                                        use : Values \cup {Null, "unknown"},
                                        address : Values \cup {Null},
                                        name : Values \cup {Null}] \cup {Null})
    /\ {"text", "zero", "off the map", "unknown", "placeholder", Null} \cap Values = {}
    /\ MaxImports \in Nat

VARIABLES
    properties,  \* the row of each cadastral code, or Null
    owners,      \* <<municipality, document>> |-> its row
    links,       \* property_owners
    current,     \* <<code, period>> |-> its current settlement, or Null
    imports,     \* tax_roll_imports, by id
    answer,      \* what the last import answered
    accepted     \* history: the imports that were committed

vars == <<properties, owners, links, current, imports, answer, accepted>>

-----------------------------------------------------------------------------
(* Reading the file: parseTaxRollExcel *)

\* "CC 40587912" is a number with a type; text that is no known type stays in
\* front of the number, and is told.
OwnerDocument(cell) ==
    CASE cell.label = Null    -> [id |-> cell.number, type |-> Null, told |-> FALSE]
      [] cell.label \in Types -> [id |-> cell.number, type |-> cell.label, told |-> FALSE]
      [] OTHER                -> [id |-> <<cell.label, cell.number>>, type |-> Null, told |-> TRUE]

HeadersMatch(headers) == SelectSeq(headers, LAMBDA h : h \in Range(Expected)) = Expected

\* No file, another extension, or more than 10 MB.
Rejected(f) == Sheet[f].state = "rejected"

\* What is no workbook inside, and what has other columns or another order.
Unreadable(f) == Sheet[f].state = "no workbook" \/ ~HeadersMatch(Sheet[f].headers)

\* The optional column, where the file has it.
Place(f, row) == IF Optional \in Range(Sheet[f].headers) THEN row.place ELSE Null

\* A blank amount is a zero, and text in its place is no number.
Amount(cell) == IF cell = Null THEN "zero" ELSE cell

\* A destination that is not on the list is no land use.
LandUse(cell) == IF cell \in Values THEN cell ELSE Null

\* The first check a row fails, on its own.
Problem(f, row) ==
    CASE row.code = Null                       -> "MISSING_CADASTRAL_CODE"
      [] row.period = Null                     -> "INVALID_PERIOD"
      [] row.period \notin Years               -> "PERIOD_OUT_OF_RANGE"
      [] OwnerDocument(row.document).id = Null -> "MISSING_OWNER_DOCUMENT"
      [] Amount(row.amount) = "text"           -> "NON_NUMERIC_VALUE"
      [] Place(f, row) = "off the map"         -> "INVALID_COORDINATE"
      [] OTHER                                 -> Null

KeyOf(row) == <<row.code, row.period>>

\* What a valid row is told about.
Warnings(row) ==
    {w \in {"MISSING_OWNER", "UNRECOGNIZED_DOCUMENT_TYPE", "UNRECOGNIZED_LAND_USE"} :
        CASE w = "MISSING_OWNER"              -> row.name = Null
          [] w = "UNRECOGNIZED_DOCUMENT_TYPE" -> OwnerDocument(row.document).told
          [] w = "UNRECOGNIZED_LAND_USE"      -> LandUse(row.use) = Null}

\* The row as it is kept (TaxRollRowDto).
AsRead(f, row) ==
    [code |-> row.code, period |-> row.period, amount |-> Amount(row.amount),
     owner |-> OwnerDocument(row.document).id, type |-> OwnerDocument(row.document).type,
     name |-> row.name, use |-> LandUse(row.use), place |-> Place(f, row),
     address |-> row.address]

\* One turn of the loop over the rows.  An empty row is skipped; the key of a
\* row is only taken by one that is otherwise valid.
TakeRow(f, read, i) ==
    LET row   == Sheet[f].rows[i]
        issue == IF row = Null THEN Null ELSE Problem(f, row)
    IN  CASE row = Null   -> read
          [] issue # Null -> [read EXCEPT !.invalid = Append(@, [row |-> i, code |-> issue])]
          [] \E k \in DOMAIN read.rows : KeyOf(read.rows[k]) = KeyOf(row) ->
                [read EXCEPT !.invalid = Append(@, [row |-> i, code |-> "DUPLICATE_KEY"])]
          [] OTHER -> [read EXCEPT !.taken = Append(@, i),
                                   !.rows = Append(@, AsRead(f, row)),
                                   !.warnings = @ \cup ({i} \X Warnings(row))]

Parse(f) ==
    LET read[i \in 0 .. Len(Sheet[f].rows)] ==
            IF i = 0 THEN [taken |-> <<>>, rows |-> <<>>, invalid |-> <<>>, warnings |-> {}]
                     ELSE TakeRow(f, read[i - 1], i)
    IN  read[Len(Sheet[f].rows)]

NoDataRows(f) == \A i \in DOMAIN Sheet[f].rows : Sheet[f].rows[i] = Null

-----------------------------------------------------------------------------
(* Storing what was read: persistTaxRoll *)

\* What is stated wins; what states nothing leaves what was known.
Over(stated, known) == IF stated = Null THEN known ELSE stated

\* The file repeats a property across its periods: its last row, with what an
\* earlier one states and it does not.
PropertyRow(rows, c) ==
    LET mine == SelectSeq(rows, LAMBDA row : row.code = c)
    IN  FoldLeft(LAMBDA before, row : [row EXCEPT !.place = Over(@, before.place),
                                                  !.use = Over(@, before.use)],
                 Head(mine), Tail(mine))

\* Of an owner, its last row as it is.
OwnerRow(rows, d) == Last(SelectSeq(rows, LAMBDA row : row.owner = d))

CodesIn(rows) == {rows[i].code : i \in DOMAIN rows}
OwnersIn(rows) == {rows[i].owner : i \in DOMAIN rows}
KeysIn(rows) == {KeyOf(rows[i]) : i \in DOMAIN rows}

RowOf(rows, k) == rows[CHOOSE i \in DOMAIN rows : KeyOf(rows[i]) = k]

\* The upsert of a property: the address and the amount are those of the row, blank
\* or not.
Property(m, rows, c) ==
    LET row  == PropertyRow(rows, c)
        kept == IF properties[c] = Null THEN [place |-> Null, use |-> Null] ELSE properties[c]
    IN  [municipality |-> m, amount |-> row.amount, address |-> row.address,
         place |-> Over(row.place, kept.place), use |-> Over(row.use, kept.use)]

\* The upsert of an owner: a new one without a name gets the placeholder.
Owner(m, rows, d) ==
    LET row == OwnerRow(rows, d)
    IN  IF <<m, d>> \in DOMAIN owners
        THEN [name |-> Over(row.name, owners[<<m, d>>].name),
              type |-> Over(row.type, owners[<<m, d>>].type)]
        ELSE [name |-> Over(row.name, "placeholder"), type |-> row.type]

\* A code of the file is a property of another municipality.
Foreign(m, rows) ==
    \E c \in CodesIn(rows) : properties[c] # Null /\ properties[c].municipality # m

Locked(rows) == {k \in KeysIn(rows) : current[k] # Null /\ current[k].final}

Conflicts(rows) == {k \in KeysIn(rows) : current[k] # Null /\ ~current[k].final}

\* A confirmation goes on with the import it confirms: of the same file name
\* and administrator.
Continues(previous, m, f, administrator) ==
    /\ previous # Null
    /\ imports[previous].municipality = m
    /\ imports[previous].name = NameOf[f]
    /\ imports[previous].administrator = administrator

-----------------------------------------------------------------------------
(* The upload *)

Refused(code) == answer' = [code |-> code]

\* The file is not taken, cannot be read, has no data, or is of another
\* municipality.
RefuseFile(m, f) ==
    /\ Len(accepted) < MaxImports
    /\ \/ Rejected(f) /\ Refused("rejected")
       \/ ~Rejected(f) /\ Unreadable(f) /\ Refused("unreadable")
       \/ ~Rejected(f) /\ ~Unreadable(f) /\ NoDataRows(f) /\ Refused("no data rows")
       \/ /\ ~Rejected(f) /\ ~Unreadable(f)
          /\ \E c \in CodesIn(Parse(f).rows) : PrefixOf[c] # m
          /\ Refused("wrong municipality")
       \/ ~Rejected(f) /\ ~Unreadable(f) /\ Foreign(m, Parse(f).rows) /\ Refused("wrong municipality")
    /\ UNCHANGED <<properties, owners, links, current, imports, accepted>>

\* An import that commits.  With conflicts that nobody confirmed it writes no
\* settlement; the properties and the owners are written all the same.
Import(m, f, administrator, confirmed, previous) ==
    LET read      == Parse(f)
        rows      == read.rows
        conflicts == Conflicts(rows)
        writes    == confirmed \/ conflicts = {}
        written   == IF writes THEN KeysIn(rows) \ Locked(rows) ELSE {}
        id        == IF Continues(previous, m, f, administrator)
                     THEN previous ELSE Len(imports) + 1
        entry     == [municipality |-> m, name |-> NameOf[f], administrator |-> administrator,
                      valid |-> Len(rows), invalid |-> Len(read.invalid),
                      settlements |-> Cardinality(written),
                      conflicts |-> IF writes THEN 0 ELSE Cardinality(conflicts)]
        mine      == {<<m, d>> : d \in OwnersIn(rows)}
    IN  /\ Len(accepted) < MaxImports
        /\ ~Rejected(f) /\ ~Unreadable(f) /\ ~NoDataRows(f)
        /\ \A c \in CodesIn(rows) : PrefixOf[c] = m
        /\ ~Foreign(m, rows)
        /\ properties' = [c \in Codes |-> IF c \in CodesIn(rows) THEN Property(m, rows, c)
                                                                ELSE properties[c]]
        /\ owners' = [o \in DOMAIN owners \cup mine |->
                         IF o \in mine THEN Owner(m, rows, o[2]) ELSE owners[o]]
        /\ links' = links \cup {<<c, PropertyRow(rows, c).owner>> : c \in CodesIn(rows)}
        /\ current' = [k \in DOMAIN current |->
                          IF k \in written THEN [amount |-> RowOf(rows, k).amount, final |-> FALSE]
                                           ELSE current[k]]
        /\ imports' = IF id = previous THEN [imports EXCEPT ![id] = entry]
                                       ELSE Append(imports, entry)
        /\ answer' = [code |-> "ok", file |-> f, import |-> id, taken |-> read.taken,
                      invalid |-> read.invalid, warnings |-> read.warnings,
                      conflicts |-> IF writes THEN {} ELSE conflicts, locked |-> Locked(rows)]
        /\ accepted' = Append(accepted, [municipality |-> m, name |-> NameOf[f], rows |-> rows,
                                         administrator |-> administrator, import |-> id])

\* The hourly sweep marks a current settlement EN_FIRME.
BecomeFinal(k) ==
    /\ current[k] # Null /\ ~current[k].final
    /\ current' = [current EXCEPT ![k].final = TRUE]
    /\ UNCHANGED <<properties, owners, links, imports, answer, accepted>>

-----------------------------------------------------------------------------
\* A municipality starts with nothing, or with a property whose code starts
\* with the DANE code of another one.
Init ==
    /\ properties \in {[c \in Codes |-> Null]} \cup
          {[c \in Codes |-> IF c = legacy THEN [municipality |-> m, amount |-> Null,
                                               address |-> Null, place |-> Null, use |-> Null]
                                         ELSE Null] :
              <<legacy, m>> \in {l \in Codes \X Municipalities : l[2] # PrefixOf[l[1]]}}
    /\ owners = <<>> /\ links = {}
    /\ current = [k \in Codes \X Years |-> Null]
    /\ imports = <<>> /\ answer = Null /\ accepted = <<>>

Next ==
    \/ \E m \in Municipalities, f \in Files :
          \/ RefuseFile(m, f)
          \/ \E administrator \in Administrators, confirmed \in BOOLEAN,
                previous \in {Null} \cup DOMAIN imports :
                Import(m, f, administrator, confirmed, previous)
    \/ \E k \in DOMAIN current : BecomeFinal(k)

Spec == Init /\ [][Next]_vars

-----------------------------------------------------------------------------
(* Properties *)

TypeOK ==
    /\ DOMAIN properties = Codes
    /\ links \subseteq Codes \X {o[2] : o \in DOMAIN owners}
    /\ \A k \in DOMAIN current : current[k] = Null \/ current[k].final \in BOOLEAN
    /\ Len(accepted) <= MaxImports /\ Len(imports) <= Len(accepted)

Sound(f, i) == Sheet[f].rows[i] # Null /\ Problem(f, Sheet[f].rows[i]) = Null

\* Every row of the file that is not empty is either taken or told why not,
\* once; of the sound rows with one key the first is taken and the rest are
\* told (parse-tax-roll-excel.ts:163); warnings are of rows that are taken.
EveryRowToldOnce ==
    answer # Null /\ answer.code = "ok" =>
        LET f     == answer.file
            taken == Range(answer.taken)
            told  == {answer.invalid[n].row : n \in DOMAIN answer.invalid}
        IN  /\ taken \cup told = {i \in DOMAIN Sheet[f].rows : Sheet[f].rows[i] # Null}
            /\ taken \cap told = {} /\ Cardinality(told) = Len(answer.invalid)
            /\ taken = {i \in DOMAIN Sheet[f].rows :
                           /\ Sound(f, i)
                           /\ \A j \in 1 .. (i - 1) :
                                 Sound(f, j) => KeyOf(Sheet[f].rows[j]) # KeyOf(Sheet[f].rows[i])}
            /\ {w[1] : w \in answer.warnings} \subseteq taken

\* What a sequence of statements leaves known: the last that states something.
LastStated(said) ==
    LET stated == SelectSeq(said, LAMBDA v : v # Null)
    IN  IF stated = <<>> THEN Null ELSE Last(stated)

\* Every row accepted of a property, in the order the imports were.
Said(c) ==
    SelectSeq(FlattenSeq([n \in DOMAIN accepted |-> accepted[n].rows]),
              LAMBDA row : row.code = c)

\* The last row of an owner in each file accepted that has it.
SaidOf(m, d) ==
    LET files == SelectSeq(accepted, LAMBDA a : a.municipality = m /\ d \in OwnersIn(a.rows))
    IN  [n \in DOMAIN files |-> OwnerRow(files[n].rows, d)]

\* A row that states no place, land use, name or type erases none (SL-75):
\* through any number of files a property has the last place and land use that
\* any row stated, and an owner the last name and type of those its files end
\* with.  Its amount and its address are those of its last row, which erases the
\* address when it is blank (persist-tax-roll.ts:129).  Its owners are all on
\* record.
NothingErased ==
    /\ \A c \in Codes :
          LET said == Said(c)
          IN  said # <<>> =>
                 /\ properties[c].amount = Last(said).amount
                 /\ properties[c].address = Last(said).address
                 /\ properties[c].place = LastStated([n \in DOMAIN said |-> said[n].place])
                 /\ properties[c].use = LastStated([n \in DOMAIN said |-> said[n].use])
                 /\ \E l \in links :
                       l[1] = c /\ <<properties[c].municipality, l[2]>> \in DOMAIN owners
    /\ \A o \in DOMAIN owners :
          LET said == SaidOf(o[1], o[2])
          IN  /\ owners[o].type = LastStated([n \in DOMAIN said |-> said[n].type])
              /\ owners[o].name = Over(LastStated([n \in DOMAIN said |-> said[n].name]),
                                       "placeholder")

\* What the answer does not report as final or as waiting for a confirmation is
\* what the current settlements say, and the entry counts those it wrote.  Of a
\* file that waits for one it wrote no settlement (persist-tax-roll.ts:240): every
\* pair it does not report had none before, and has none now.  Its properties and
\* owners are written all the same.
AnswerIsTrue ==
    answer # Null /\ answer.code = "ok" =>
        LET rows    == Last(accepted).rows
            waits   == answer.conflicts # {}
            written == KeysIn(rows) \ (answer.locked \cup answer.conflicts)
        IN  /\ \A k \in written :
                  IF waits THEN current[k] = Null
                           ELSE current[k].amount = RowOf(rows, k).amount
            /\ imports[answer.import].settlements =
                  IF waits THEN 0 ELSE Cardinality(written)

\* An entry of the list of imports is always of one file name, administrator
\* and municipality: no confirmation is written over somebody else's.
EntriesStand ==
    \A n \in DOMAIN accepted :
        LET entry == imports[accepted[n].import]
        IN  /\ entry.municipality = accepted[n].municipality
            /\ entry.name = accepted[n].name
            /\ entry.administrator = accepted[n].administrator

\* A file is taken whole, row by row, or told why not, and what it leaves on record
\* is what its rows and those before it say.
FileIsTrue == EveryRowToldOnce /\ NothingErased /\ AnswerIsTrue /\ EntriesStand
=============================================================================
