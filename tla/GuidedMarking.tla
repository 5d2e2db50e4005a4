--------------------------- MODULE GuidedMarking ---------------------------
(***************************************************************************)
(* The guided marking of a Word template: what the lawyer may mark on the  *)
(* screen, and what the backend does with the marking.                     *)
(*                                                                         *)
(* Both sides read the same file and check the marking on their own: the   *)
(* screen (GuidedMarking.tsx, templateMarking.ts) as each piece of text is *)
(* marked and each row removed, the backend (guided-marking.ts, then the   *)
(* checks of an upload) when the whole marking arrives.  The state is the  *)
(* screen's; what the backend would answer to it is a function of it.      *)
(*                                                                         *)
(* A text is a sequence of characters, cut in the runs that Word saved: a  *)
(* word, a space, or a tag of the template, which counts as one character. *)
(* Word may cut a tag over several runs too: that is told of its block.    *)
(* The document is one part, the body.                                     *)
(***************************************************************************)
EXTENDS Integers, Sequences, FiniteSets, SequencesExt

CONSTANTS
    Files,     \* files that may be uploaded: the type, the runs of each block, and
               \* the blocks whose tags Word cut over several runs
    Blocks,    \* the blocks of the document, in its order
    Cell,      \* Cell[b]: [table, row, col] of the block, or Null
    Catalog,   \* Catalog[type]: [scalars, rows, list, required], sets of names
    MaxMarks,  \* bound: selections at the same time
    Null

VARIABLES
    file,        \* the file of the draft
    selections,  \* the lawyer's marks
    removed,     \* blocks that name the rows to leave out
    pending      \* the text selected while its marker is picked, or Null

vars == <<file, selections, removed, pending>>

Block == {Blocks[i] : i \in DOMAIN Blocks}

Word  == [is |-> "word", name |-> ""]
Space == [is |-> "space", name |-> ""]

Tag(kind, name) == [is |-> kind, name |-> name]

Opens(name)  == Tag("open", name)
Closes(name) == Tag("close", name)

\* A field of the catalog: of the document, or of the row of its table.
Plain(name)  == [loop |-> "", name |-> name]
InRow(name)  == [loop |-> "rows", name |-> name]

Mark(b, from, to, f) == [block |-> b, start |-> from, end |-> to, field |-> f]

-----------------------------------------------------------------------------
(* The catalog *)

Fields == Catalog[file.type]

HasTable == Fields.rows # {}
HasList  == Fields.list # <<>>

IsTableField(f) == f.loop # ""
IsTableLoop(f)  == HasTable /\ f = Plain("rows")
IsList(f)       == HasList /\ f = Plain("liquidations")

\* buildTemplateCatalog: the fields inside an inline list are not published.
Entries ==
    {Plain(n) : n \in Fields.scalars}
    \cup (IF HasTable THEN {Plain("rows")} \cup {InRow(n) : n \in Fields.rows}
                      ELSE {})
    \cup (IF HasList THEN {Plain("liquidations")} ELSE {})

\* The year is demanded once the table is used.
IsRequired(f) == IF IsTableField(f) THEN f.name = "year"
                                    ELSE f.name \in Fields.required

-----------------------------------------------------------------------------
(* The document *)

Runs(b) == file.runs[b]

Text(b) == FlattenSeq(Runs(b))

\* readDocxContent: the blocks with text.
Shown == {b \in Block : Text(b) # <<>>}

RowOf(b) == IF Cell[b] = Null THEN Null ELSE <<Cell[b].table, Cell[b].row>>

Rows == {RowOf(b) : b \in {c \in Block : Cell[c] # Null}}

BlocksOf(row) == {b \in Block : Cell[b] # Null /\ RowOf(b) = row}

FirstBlock(row) ==
    Blocks[CHOOSE i \in DOMAIN Blocks :
              /\ Blocks[i] \in BlocksOf(row) \cap Shown
              /\ \A j \in 1 .. i - 1 : Blocks[j] \notin BlocksOf(row) \cap Shown]

\* The characters of a document, in its order, with where they are.
Points(text) ==
    FlattenSeq([i \in DOMAIN Blocks |->
        [p \in DOMAIN text[Blocks[i]] |->
            [block |-> Blocks[i], start |-> p - 1, char |-> text[Blocks[i]][p]]]])

\* The innermost open section that is a loop of the catalog.
OpenLoop(open) ==
    LET loops == SelectSeq(open, LAMBDA n :
                     \/ n = "rows" /\ HasTable
                     \/ n = "liquidations" /\ HasList)
    IN IF loops = <<>> THEN "" ELSE Last(loops)

CloseLast(open, name) ==
    LET at == {i \in DOMAIN open : open[i] = name}
    IN IF at = {} THEN open
       ELSE RemoveAt(open, CHOOSE i \in at : \A j \in at : j <= i)

\* The field a tag stands for: the inner fields of a list are the list.
FieldOf(char, open) ==
    LET loop == OpenLoop(open)
    IN CASE char.is # "field" -> Plain(char.name)
         [] loop = "rows" /\ char.name \in Fields.rows -> InRow(char.name)
         [] loop = "liquidations" /\ char.name \in Range(Fields.list) ->
                Plain("liquidations")
         [] OTHER -> Plain(char.name)

\* existingMarkers: the open sections are followed through the whole part.
ExistingMarkers(text) ==
    LET step(acc, point) ==
            LET c == point.char
            IN IF c.is \in {"word", "space"} THEN acc
               ELSE [marks |-> acc.marks \cup
                        {Mark(point.block, point.start, point.start + 1,
                              FieldOf(c, acc.open))},
                     open |-> CASE c.is = "open"  -> Append(acc.open, c.name)
                                [] c.is = "close" -> CloseLast(acc.open, c.name)
                                [] OTHER          -> acc.open]
    IN FoldLeft(step, [marks |-> {}, open |-> <<>>], Points(text)).marks

Applied == ExistingMarkers([b \in Block |-> Text(b)])

-----------------------------------------------------------------------------
(* The rules of the screen *)

AllMarks == Applied \cup selections

\* usedFields: a field of the table counts as the table too.
Used(marks) ==
    {m.field : m \in marks} \cup
    {Plain(m.field.loop) : m \in {n \in marks : IsTableField(n.field)}}

\* requiredProgress.
MissingFields == {f \in Entries : IsRequired(f) /\ f \notin Used(AllMarks)}

MarkedRows(marks) == {RowOf(m.block) : m \in marks} \ {Null}

RemovedRows == {RowOf(b) : b \in removed}

\* tableRowInUse.
RepeatingRow(marks) ==
    LET inRow == {m \in marks : /\ IsTableLoop(m.field) \/ IsTableField(m.field)
                                /\ Cell[m.block] # Null}
    IN IF inRow = {} THEN Null ELSE RowOf((CHOOSE m \in inRow : TRUE).block)

FilledColumns(row) ==
    {Cell[b].col : b \in {c \in BlocksOf(row) :
                            \E i \in DOMAIN Text(c) : Text(c)[i] # Space}}

\* surplusRows: the other rows filled as the example row, the titles and those
\* with a marker apart.
SurplusRows(example, marks) ==
    {row \in Rows : /\ row[1] = example[1] /\ row # example /\ row[2] # 0
                    /\ row \notin MarkedRows(marks)
                    /\ BlocksOf(row) \cap Shown # {}
                    /\ FilledColumns(row) = FilledColumns(example)}

Overlap(a, b) == a.block = b.block /\ a.start < b.end /\ b.start < a.end

\* trimRange: the spaces at either end are left out.
Trim(text, from, to) ==
    LET words == {i \in from .. to - 1 : text[i + 1] # Space}
    IN IF words = {} THEN Null
       ELSE [start |-> CHOOSE i \in words : \A j \in words : i <= j,
             end   |-> 1 + CHOOSE i \in words : \A j \in words : j <= i]

\* entryProblem: the fields of the table all go in one row.
Fits(f, b) ==
    IsTableField(f) =>
        /\ RowOf(b) # Null
        /\ RepeatingRow(AllMarks) \in {Null, RowOf(b)}

\* sortSelections, in one block.
Ascending(marks) == SetToSortSeq(marks, LAMBDA m, n : m.start < n.start)

-----------------------------------------------------------------------------
(* What the backend makes of a marking *)

\* markerFor: choosing the table itself writes nothing.
MarkerFor(f) ==
    CASE IsTableLoop(f)  -> <<>>
      [] IsList(f)       -> <<Opens(f.name)>>
                            \o [i \in DOMAIN Fields.list |->
                                   Tag("field", Fields.list[i])]
                            \o <<Closes(f.name)>>
      [] OTHER           -> <<Tag("field", f.name)>>

\* replaceRange: the marker goes in the run that holds the first character,
\* and the runs after it only lose their part of the selection.
ReplaceRange(runs, m, marker) ==
    LET step(acc, run) ==
            LET from == acc.offset
                to   == from + Len(run)
                cut  == IF m.start > from THEN m.start - from ELSE 0
                keep == IF m.end < to THEN m.end - from ELSE Len(run)
            IN IF to <= m.start \/ from >= m.end
               THEN [acc EXCEPT !.runs = Append(@, run), !.offset = to]
               ELSE [runs |-> Append(acc.runs,
                                SubSeq(run, 1, cut)
                                \o (IF acc.written THEN <<>> ELSE marker)
                                \o SubSeq(run, keep + 1, Len(run))),
                     offset |-> to, written |-> TRUE]
    IN FoldLeft(step, [runs |-> <<>>, offset |-> 0, written |-> FALSE], runs).runs

MarksOf(b) == {m \in selections : m.block = b}

\* From the end backwards, so the offsets of the earlier ones still hold.
InOrder(b) == Reverse(Ascending(MarksOf(b)))

Replaced(b) ==
    FoldLeft(LAMBDA runs, m :
                 IF MarkerFor(m.field) = <<>> THEN runs
                 ELSE ReplaceRange(runs, m, MarkerFor(m.field)),
             Runs(b), InOrder(b))

\* The row the fields of the table were marked in.
TableRow ==
    LET inTable == {m \in selections : IsTableField(m.field) \/ IsTableLoop(m.field)}
    IN IF inTable = {} THEN Null ELSE RowOf((CHOOSE m \in inTable : TRUE).block)

FirstCell(row) ==
    CHOOSE b \in BlocksOf(row) : \A c \in BlocksOf(row) : Cell[b].col <= Cell[c].col

LastCell(row) ==
    CHOOSE b \in BlocksOf(row) : \A c \in BlocksOf(row) : Cell[b].col >= Cell[c].col

\* wrapRow: the row repeats, unless it already does.  It looks for the tag in each
\* run on its own, so it does not see one that is cut.
Wrapped(text, row) ==
    IF \E b \in BlocksOf(row) \ file.split : Opens("rows") \in Range(text[b]) THEN text
    ELSE [b \in Block |->
            (IF b = FirstCell(row) THEN <<Opens("rows")>> ELSE <<>>)
            \o text[b]
            \o (IF b = LastCell(row) THEN <<Closes("rows")>> ELSE <<>>)]

\* applySelections, its effect: the marked copy.
MarkedCopy ==
    LET replaced == [b \in Block |-> FlattenSeq(Replaced(b))]
        wrapped  == IF TableRow = Null THEN replaced
                                       ELSE Wrapped(replaced, TableRow)
    IN [b \in Block |-> IF RowOf(b) \in RemovedRows \ {Null} THEN <<>>
                                                             ELSE wrapped[b]]

If(condition, reason) == IF condition THEN {reason} ELSE {}

\* rowsToRemove.
RowRefusals ==
    If(Null \in RemovedRows, "REMOVED_ROW_OUTSIDE_TABLE")
    \cup If(RemovedRows \cap MarkedRows(AllMarks) # {}, "REMOVED_ROW_HAS_MARKER")
    \cup If(\E row \in RemovedRows \ {Null} :
               {r \in Rows : r[1] = row[1]} \subseteq RemovedRows,
            "REMOVED_ROW_LAST")

\* applySelections, its checks: the reasons for which it may refuse.
Refusals ==
    If(\E m \in selections : m.field \notin Entries, "FIELD_UNKNOWN")
    \cup If(\E m \in selections : m.start >= m.end, "EMPTY")
    \cup If(\E m \in selections : m.start < 0 \/ m.end > Len(Text(m.block)),
            "OUT_OF_RANGE")
    \cup If(\E m \in selections : IsTableField(m.field) /\ RowOf(m.block) = Null,
            "ROW_FIELD_OUTSIDE_TABLE")
    \cup If(\E m, n \in selections : /\ IsTableField(m.field) /\ IsTableField(n.field)
                                     /\ RowOf(m.block) # RowOf(n.block),
            "ROWS_IN_SEVERAL_ROWS")
    \cup If(\E m \in selections : \E n \in (selections \cup Applied) \ {m} : Overlap(m, n),
            "OVERLAP")
    \cup RowRefusals

\* extractTemplateFields: the fields inside a loop of the catalog are its own.
\* Sections that do not match are malformed.
Detected(text) ==
    LET step(acc, point) ==
            LET c == point.char
                here == [loop |-> OpenLoop(acc.open), name |-> c.name]
            IN CASE c.is \in {"word", "space"} -> acc
                 [] c.is = "field" -> [acc EXCEPT !.found = @ \cup {here}]
                 [] c.is = "open"  -> [acc EXCEPT !.found = @ \cup {here},
                                                  !.open = Append(@, c.name)]
                 [] c.is = "close" ->
                      IF acc.open # <<>> /\ Last(acc.open) = c.name
                      THEN [acc EXCEPT !.open = Front(@)]
                      ELSE [acc EXCEPT !.bad = TRUE]
        all == FoldLeft(step, [found |-> {}, open |-> <<>>, bad |-> FALSE],
                        Points(text))
    IN [found |-> all.found, bad |-> all.bad \/ all.open # <<>>]

\* validateTemplateFields.
Allowed ==
    {Plain(n) : n \in Fields.scalars} \cup (Entries \ {Plain("rows")})
    \cup (IF HasTable THEN {Plain("rows")} ELSE {})
    \cup {[loop |-> "liquidations", name |-> n] : n \in Range(Fields.list)}

Unknown(found) == found \ Allowed

Lacking(found) == {n \in Fields.required : Plain(n) \notin found}

\* createDraft refuses a file with tags that are malformed or unknown.
Accepted == LET d == Detected([b \in Block |-> Text(b)])
            IN ~d.bad /\ Unknown(d.found) = {}

\* saveDraft, up to the version: applySelections and checkedFields.
SaveRefusals ==
    IF Refusals # {} THEN Refusals
    ELSE LET d == Detected(MarkedCopy)
         IN If(d.bad, "MARKERS_MALFORMED")
            \cup If(Unknown(d.found) # {}, "FIELDS_UNKNOWN")
            \cup If(Lacking(d.found) # {}, "FIELDS_MISSING")

-----------------------------------------------------------------------------
(* The screen *)

TypeOK ==
    /\ file \in Files
    /\ \A m \in selections :
          /\ m.block \in Block /\ m.field \in Entries
          /\ 0 <= m.start /\ m.start < m.end /\ m.end <= Len(Text(m.block))
    /\ removed \subseteq Block
    /\ pending # Null => pending.block \in Shown

Init ==
    /\ file \in Files /\ Accepted
    /\ selections = {} /\ removed = {} /\ pending = Null

RowStays(b) == RowOf(b) = Null \/ RowOf(b) \notin RemovedRows

\* handleSelect: spaces apart, and never over another mark.
SelectText(b, from, to) ==
    /\ pending = Null
    /\ b \in Shown /\ to <= Len(Text(b))
    /\ RowStays(b)
    /\ LET range == Trim(Text(b), from, to)
       IN /\ range # Null
          /\ \A m \in AllMarks : ~Overlap(m, Mark(b, range.start, range.end, Null))
          /\ pending' = [block |-> b, start |-> range.start, end |-> range.end]
    /\ UNCHANGED <<file, selections, removed>>

CloseMenu ==
    /\ pending # Null
    /\ pending' = Null
    /\ UNCHANGED <<file, selections, removed>>

\* menuGroups: the table itself is never picked.
Offered(f) == ~IsTableLoop(f) /\ Fits(f, pending.block)

\* pick: the first field of the table makes its row the example row, and the
\* other rows of example values go at once.
Pick(f) ==
    /\ pending # Null
    /\ Offered(f)
    /\ Cardinality(selections) < MaxMarks
    /\ LET m == Mark(pending.block, pending.start, pending.end, f)
           first == /\ IsTableField(f) /\ RepeatingRow(AllMarks) = Null
                    /\ RowOf(pending.block) # Null
           surplus == IF first
                      THEN SurplusRows(RowOf(pending.block), AllMarks \cup {m})
                           \ RemovedRows
                      ELSE {}
       IN /\ selections' = selections \cup {m}
          /\ removed' = removed \cup {FirstBlock(row) : row \in surplus}
    /\ pending' = Null
    /\ UNCHANGED file

Unmark(m) ==
    /\ pending = Null
    /\ selections' = selections \ {m}
    /\ UNCHANGED <<file, removed, pending>>

\* The button of a row: in the table that repeats, or where a row was left out
\* already, on the rows without a marker.
HasTools(row) ==
    LET example == RepeatingRow(AllMarks)
    IN \/ example # Null /\ example[1] = row[1]
       \/ \E r \in RemovedRows : r[1] = row[1]

ToggleRow(row) ==
    /\ pending = Null
    /\ BlocksOf(row) \cap Shown # {}
    /\ HasTools(row) /\ row # RepeatingRow(AllMarks)
    /\ row \notin MarkedRows(AllMarks)
    /\ removed' = IF row \in RemovedRows
                  THEN {b \in removed : RowOf(b) # row}
                  ELSE removed \cup {FirstBlock(row)}
    /\ UNCHANGED <<file, selections, pending>>

\* The button under the table: every row of example values it still has.
RemoveSurplus ==
    /\ pending = Null
    /\ LET example == RepeatingRow(AllMarks)
           surplus == IF example = Null THEN {}
                      ELSE SurplusRows(example, AllMarks) \ RemovedRows
       IN /\ surplus # {}
          /\ removed' = removed \cup {FirstBlock(row) : row \in surplus}
    /\ UNCHANGED <<file, selections, pending>>

Next ==
    \/ \E b \in Block : \E from, to \in 0 .. Len(Text(b)) : SelectText(b, from, to)
    \/ CloseMenu
    \/ \E f \in Entries : Pick(f)
    \/ \E m \in selections : Unmark(m)
    \/ \E row \in Rows : ToggleRow(row)
    \/ RemoveSurplus

Spec == Init /\ [][Next]_vars

-----------------------------------------------------------------------------
(* Properties *)

\* Of what the screen lets the lawyer compose, whatever was marked, unmarked,
\* left out and restored, in any order, applySelections refuses only a table
\* with no row left.
OnlyLastRowRefused == Refusals \subseteq {"REMOVED_ROW_LAST"}

\* A block as the screen shows it, its marks as their markers.
Pieces(b) ==
    LET step(acc, m) ==
            [text |-> acc.text \o SubSeq(Text(b), acc.cursor + 1, m.start)
                               \o MarkerFor(m.field),
             cursor |-> m.end]
        all == FoldLeft(step, [text |-> <<>>, cursor |-> 0],
                        Ascending(MarksOf(b)))
    IN all.text \o SubSeq(Text(b), all.cursor + 1, Len(Text(b)))

\* What the backend writes, run by run and backwards, is what the screen shows
\* in reading order: no marker is cut, moved or lost, in whatever runs Word
\* left the text.
ShownIsWritten == \A b \in Block : FlattenSeq(Replaced(b)) = Pieces(b)

\* Reading the marked copy again gives the fields the lawyer saw assigned: a
\* saved version shows the markers the screen counted.
SavedReadsBack ==
    Refusals = {} => Used(ExistingMarkers(MarkedCopy)) = Used(AllMarks)

\* A marker of the document in the row that repeats, which extractTemplateFields
\* reads as a field of the table that the catalog does not have.
StrayInExample ==
    \E m \in selections : ~IsTableField(m.field)
                          /\ RowOf(m.block) # Null
                          /\ RowOf(m.block) = RepeatingRow(AllMarks)

\* The tag that makes the example row repeat, cut: the row is wrapped again.
CutExample ==
    \E b \in file.split : /\ Opens("rows") \in Range(Text(b))
                          /\ RowOf(b) # Null /\ RowOf(b) = TableRow

\* A marking with nothing missing is refused only for a marker of the document
\* in the example row, for a table with no row left, or because Word had cut
\* the tag that opens the example row (guided-marking.ts:336).
ReadyIsSaved ==
    MissingFields = {} =>
        \/ SaveRefusals = {}
        \/ CutExample /\ SaveRefusals = {"FIELDS_UNKNOWN"}
        \/ StrayInExample /\ SaveRefusals \subseteq {"FIELDS_UNKNOWN", "FIELDS_MISSING"}
        \/ SaveRefusals = {"REMOVED_ROW_LAST"}

\* "listo para guardar" (MarkerChecklist.tsx:156): with nothing missing the
\* backend saves the marking.
ReadyToSave == pending = Null /\ MissingFields = {} => SaveRefusals = {}
=============================================================================
