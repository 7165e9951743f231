------------------------------- MODULE TablePlan -------------------------------
(***************************************************************************)
(* Spreadsheet preparation as values (executors/excel.py and the validator  *)
(* of dispatch.py): what a reader of each file type makes of a workbook,    *)
(* which declared plans are accepted, what the steps of a plan do to the    *)
(* rows, and when the checks a recipe declares hold of an output.  Nothing  *)
(* here changes state; the processes that call it are in Preparation.       *)
(*                                                                         *)
(* A table is a sequence of rows, the header first; a row is a sequence of  *)
(* cells.  A cell is one of a few texts: Number says what float() makes of  *)
(* it, TextRank how Python orders it, Spaces what strip() leaves nothing    *)
(* of, XmlText what an XML parser gives back of it.  A result is a record   *)
(* [ok, rows], the exceptions of the code being Failed.                     *)
(***************************************************************************)
EXTENDS Integers, Sequences, SequencesExt, Orders

CONSTANTS
  Cells,      \* the texts of cells
  Blank,      \* the empty text
  Spaces,     \* the texts of nothing but white space, the empty one among them
  Number,     \* a function from the numeric texts to their values
  TextRank,   \* the place of each text in the order of texts
  XmlText,    \* a function from the texts that XML can hold to what its parser makes of them: a
              \* carriage return comes back as a line feed, a control character breaks the document
  LongTexts,  \* the texts longer than csv.reader takes
  MaxRows,    \* MAX_WORKBOOK_ROWS
  MaxColumns, \* MAX_WORKBOOK_COLUMNS
  MaxCells,   \* MAX_WORKBOOK_CELLS
  Heavy       \* the <<type, rows>> whose file, packed or unpacked, is over MAX_WORKBOOK_BYTES

ASSUME CellAssumption ==
  /\ Blank \in Spaces /\ Spaces \subseteq Cells \ DOMAIN Number
  /\ DOMAIN Number \subseteq Cells /\ Number \in [DOMAIN Number -> Int]
  /\ TextRank \in [Cells -> Int] /\ IsInjective(TextRank)
  /\ DOMAIN XmlText \subseteq Cells /\ XmlText \in [DOMAIN XmlText -> Cells]
  /\ MaxRows \in Nat /\ MaxColumns \in Nat /\ MaxCells \in Nat

Failed == [ok |-> FALSE, rows |-> <<>>]
Rows(rows) == [ok |-> TRUE, rows |-> rows]

At(row, j) == IF j \in DOMAIN row THEN row[j] ELSE Blank
Position(header, name) == CHOOSE j \in DOMAIN header : header[j] = name
Named(names) == names # <<>> /\ IsInjective(names) /\ Blank \notin ToSet(names)

-----------------------------------------------------------------------------
(* Files.  A written workbook keeps each text once, in an order that nothing   *)
(* depends on (the code's is that of first use), and its cells hold indexes    *)
(* into that list; xlwt stores no empty cells.                                 *)

Padded(rows, width) == [i \in DOMAIN rows |-> [j \in 1..width |-> At(rows[i], j)]]
Width(rows) == Max({0} \cup {Len(rows[i]) : i \in DOMAIN rows})

WriteXlsx(rows) ==
  LET shared == SetToSeq(UNION {ToSet(rows[i]) : i \in DOMAIN rows}) IN
  [shared |-> shared,
   sheet |-> [i \in DOMAIN rows |-> [j \in DOMAIN rows[i] |-> Position(shared, rows[i][j]) - 1]]]

\* The limits on the sheet of a workbook.
SheetFits(rows) ==
  Len(rows) <= MaxRows /\ Width(rows) <= MaxColumns /\ Len(rows) * Width(rows) <= MaxCells

\* mutant: the cells are inline strings, of which a reader of <v> sees nothing
ReadXlsxInline(file) ==
  Rows(Padded([i \in DOMAIN file.sheet |-> <<>>], Width(file.sheet)))

ReadXlsx(file) ==
  IF ToSet(file.shared) \subseteq DOMAIN XmlText /\ SheetFits(file.sheet)
  THEN Rows(Padded([i \in DOMAIN file.sheet |->
                      [j \in DOMAIN file.sheet[i] |->
                         XmlText[file.shared[file.sheet[i][j] + 1]]]],
                   Width(file.sheet)))
  ELSE Failed

ReadXls(rows) ==
  LET used == {p \in (DOMAIN rows) \X (1..Width(rows)) : At(rows[p[1]], p[2]) # Blank}
      height == Max({0} \cup {p[1] : p \in used})
      sheet  == Padded(SubSeq(rows, 1, height), Max({0} \cup {p[2] : p \in used}))
  IN  IF SheetFits(sheet) THEN Rows(sheet) ELSE Failed

\* What csv.reader makes of rows that csv.writer wrote.
ReadCsv(rows) ==
  IF \A i \in DOMAIN rows : ToSet(rows[i]) \cap LongTexts = {} THEN Rows(rows) ELSE Failed

CsvFits(rows) ==
  /\ Len(rows) <= MaxRows /\ Width(rows) <= MaxColumns
  /\ FoldLeft(LAMBDA cells, row : cells + Len(row), 0, rows) <= MaxCells

\* _rows, of a file that holds the given rows.
Read(type, rows) ==
  IF <<type, rows>> \in Heavy THEN Failed
  ELSE CASE type = "csv"  -> IF CsvFits(rows) THEN ReadCsv(rows) ELSE Failed
         [] type = "xlsx" -> ReadXlsx(WriteXlsx(rows))
         [] type = "xls"  -> ReadXls(rows)

\* _read_artifact_rows: what is read as text is read without limits.
ReadArtifact(type, rows) ==
  CASE type = "csv"  -> ReadCsv(rows)
    [] type = "json" -> Rows(rows)
    [] type \in {"xlsx", "xls"} -> Read(type, rows)

\* What _source_rows accepts: a header of distinct names, none of them white space, that has every
\* required one.
SourceRows(recipe, file) ==
  LET read == Read(recipe.input, file.rows)
      header == read.rows[1]
  IN  IF /\ file.readable /\ read.ok
         /\ read.rows # <<>> /\ Named(header) /\ ToSet(header) \cap Spaces = {}
         /\ recipe.required \subseteq ToSet(header)
      THEN read ELSE Failed

-----------------------------------------------------------------------------
(* Steps. *)

NewName(step, name) == IF name \in DOMAIN step.rename THEN step.rename[name] ELSE name
NewHeader(step) == [k \in DOMAIN step.columns |-> NewName(step, step.columns[k])]

\* The header, and the data rows at the given places.
Arranged(rows, order) == <<rows[1]>> \o [k \in DOMAIN order |-> rows[order[k] + 1]]

MapColumns(rows, step) ==
  LET from == [k \in DOMAIN step.columns |-> Position(rows[1], step.columns[k])] IN
  IF ToSet(step.columns) \subseteq ToSet(rows[1])
  THEN Rows([i \in DOMAIN rows |->
               IF i = 1 THEN NewHeader(step)
               ELSE [k \in DOMAIN from |-> At(rows[i], from[k])]])
  ELSE Failed

FilterRows(rows, step) ==
  LET by   == CHOOSE c \in DOMAIN step.compare : TRUE
      with == step.compare[by]
      j    == Position(rows[1], step.column)
      Long(row) == j \in DOMAIN row
      Matches(row) == /\ Long(row)
                      /\ CASE by = "equals" -> row[j] = with
                           [] by = "gt" -> Number[row[j]] > Number[with]
                           [] by = "lt" -> Number[row[j]] < Number[with]
  IN  IF /\ Contains(rows[1], step.column)
         /\ by # "equals" => \A i \in DOMAIN Tail(rows) :
                               Long(rows[i + 1]) => rows[i + 1][j] \in DOMAIN Number
      THEN Rows(Arranged(rows, Ordered({i \in DOMAIN Tail(rows) : Matches(rows[i + 1])},
                                       LAMBDA a, b : a < b)))
      ELSE Failed

\* Python's sort is stable in both directions.
SortRows(rows, step) ==
  LET data == DOMAIN Tail(rows)
      j    == Position(rows[1], step.column)
      Key(i) == At(rows[i + 1], j)
      Less(a, b) == IF step.numeric THEN Number[Key(a)] < Number[Key(b)]
                                    ELSE TextRank[Key(a)] < TextRank[Key(b)]
      Before(a, b) ==
        \/ IF step.descending THEN Less(b, a) ELSE Less(a, b)
        \/ ~Less(a, b) /\ ~Less(b, a) /\ a < b
  IN  IF /\ Contains(rows[1], step.column)
         /\ step.numeric => \A i \in data : Key(i) \in DOMAIN Number
      THEN Rows(Arranged(rows, Ordered(data, Before)))
      ELSE Failed

ApplyStep(result, step) ==
  IF ~result.ok THEN Failed
  ELSE
    CASE step.operation = "map_columns" -> MapColumns(result.rows, step)
    [] step.operation = "filter_rows" -> FilterRows(result.rows, step)
    [] step.operation = "sort_rows"   -> SortRows(result.rows, step)
    [] OTHER -> result

Applied(recipe, file) ==
  LET after[k \in 0..Len(recipe.steps)] ==
        IF k = 0 THEN SourceRows(recipe, file) ELSE ApplyStep(after[k - 1], recipe.steps[k])
  IN  after[Len(recipe.steps)]

-----------------------------------------------------------------------------
(* Declared checks: [name, given, count, columns], given if the rule has a value. *)

Valued    == {"columns", "min_rows", "max_rows", "required_values"}
Valueless == {"artifact_exists", "sha256", "content_matches_source", "cell_values"}

RuleFits(rule) ==
  /\ rule.name \in Valued \cup Valueless \cup {"row_count"}
  /\ rule.name \in Valued => rule.given
  /\ rule.name \in Valueless => ~rule.given
  /\ rule.name \in {"row_count", "min_rows", "max_rows"} /\ rule.given => rule.count >= 0
  /\ rule.name \in {"columns", "required_values"} => Named(rule.columns)

\* A check that raises fails the verification like one that does not hold.
RuleHolds(rule, rows, expected) ==
  LET data == Len(rows) - 1 IN
  CASE rule.name \in Valueless  -> rows = expected
    [] rule.name = "row_count"  ->
         data = IF rule.given THEN rule.count ELSE Len(expected) - 1
    [] rule.name = "min_rows"   -> data >= rule.count
    [] rule.name = "max_rows"   -> data <= rule.count
    [] rule.name = "columns"    -> rows # <<>> /\ rows[1] = rule.columns
    [] rule.name = "required_values" ->
         /\ rows # <<>> /\ ToSet(rule.columns) \subseteq ToSet(rows[1])
         /\ \A i \in 2..Len(rows), k \in DOMAIN rule.columns :
              At(rows[i], Position(rows[1], rule.columns[k])) \notin Spaces

\* verify_excel_output, for an artifact that is there and holds "held".
Verified(recipe, held, file) ==
  LET actual == ReadArtifact(recipe.output, held)
      wanted == Applied(recipe, file)
  IN  /\ actual.ok /\ wanted.ok /\ actual = wanted
      /\ \A k \in DOMAIN recipe.checks : RuleHolds(recipe.checks[k], actual.rows, wanted.rows)

-----------------------------------------------------------------------------
(* Plans. *)

AIAllowed(ai) == ~ai.enabled /\ 0 <= ai.expected /\ ai.expected <= ai.max /\ ai.expected = 0

StepFits(recipe, step) ==
  CASE step.operation = "select_attachment" -> step.type = recipe.input /\ step.count = 1
    [] step.operation = "map_columns" ->
         /\ Named(step.columns)
         /\ DOMAIN step.rename \subseteq ToSet(step.columns)
         /\ Named(NewHeader(step))
    [] step.operation = "filter_rows" ->
         /\ step.column # Blank /\ Cardinality(DOMAIN step.compare) = 1
         /\ \A by \in DOMAIN step.compare : by # "equals" => step.compare[by] \in DOMAIN Number
    [] step.operation = "sort_rows" -> step.column # Blank
    [] step.operation = "write_workbook" -> step.type = recipe.output
    [] OTHER -> TRUE

\* Each operation is allowed in one phase and leads to the next; the last is "verified".
Phases ==
  [select_attachment |-> <<"input", "selected">>, parse_table |-> <<"selected", "table">>,
   map_columns |-> <<"table", "table">>, filter_rows |-> <<"table", "table">>,
   sort_rows |-> <<"table", "table">>, write_workbook |-> <<"table", "written">>,
   verify_output |-> <<"written", "verified">>]

FinalPhase(steps) ==
  LET next(phase, step) ==
        IF step.operation \in DOMAIN Phases /\ phase = Phases[step.operation][1]
        THEN Phases[step.operation][2] ELSE "refused"
  IN  FoldLeft(next, "input", steps)

ValidTablePlan(recipe) ==
  /\ AIAllowed(recipe.ai)
  /\ recipe.input \in {"csv", "xls", "xlsx"} /\ recipe.output \in {"csv", "json", "xls", "xlsx"}
  /\ \A k \in DOMAIN recipe.steps : StepFits(recipe, recipe.steps[k])
  /\ FinalPhase(recipe.steps) = "verified"
  /\ \A k \in DOMAIN recipe.checks : RuleFits(recipe.checks[k])
=============================================================================
