---------------------------- MODULE MCPreparation ----------------------------
(* Instances of Preparation for TLC. *)
EXTENDS Preparation

CONSTANTS r1, r2

\* "cr" and "lf" stand for texts that differ in a carriage return, "ctl" for one with a control
\* character, "long" for one that csv.reader refuses.
MCCells == {"", " ", "7", "12", "n", "v", "cr", "lf", "ctl", "long"}
MCSpaces == {"", " "}
MCXmlText == [c \in MCCells \ {"ctl"} |-> IF c = "cr" THEN "lf" ELSE c]
MCNumber == [c \in {"7", "12"} |-> IF c = "7" THEN 7 ELSE 12]
MCTextRank == [c \in MCCells |-> CASE c = "" -> 1 [] c = "12" -> 2 [] c = "7" -> 3 [] c = "n" -> 4
                                   [] c = "v" -> 5 [] c = " " -> 6 [] c = "cr" -> 7
                                   [] c = "lf" -> 8 [] c = "ctl" -> 9 [] c = "long" -> 10]

\* Attachments: whole rows, a row that is too short and one that is blank, a file nobody can read,
\* white space, and texts that one type or another does not give back.
Table(rows) == [readable |-> TRUE, rows |-> <<<<"n", "v">>>> \o rows]
Full   == Table(<<<<"12", "7">>, <<"7", "7">>>>)
Ragged == Table(<<<<"7">>, <<"", "">>, <<"12", "7">>>>)
Broken == [readable |-> FALSE, rows |-> <<>>]
Lines  == Table(<<<<"12", " ">>, <<"7", "cr">>>>)
Raw    == Table(<<<<"7", "ctl">>, <<"7", "long">>>>)
MCSheets == {Full, Ragged, Broken, Lines, Raw}

\* The result of one recipe for one attachment is too large a workbook.
MCHeavy == {<<"xlsx", <<<<"7", "n">>, <<"7", "12">>, <<"7", "7">>>>>>}

NoRename == [c \in {} |-> ""]
Pick(type) == [operation |-> "select_attachment", type |-> type, count |-> 1]
Parse == [operation |-> "parse_table"]
Swap == [operation |-> "map_columns", columns |-> <<"v", "n">>, rename |-> [c \in {"v"} |-> "7"]]
Above == [operation |-> "filter_rows", column |-> "n", compare |-> [c \in {"gt"} |-> "7"]]
Blanks == [operation |-> "filter_rows", column |-> "v", compare |-> [c \in {"equals"} |-> "7"]]
Down == [operation |-> "sort_rows", column |-> "n", descending |-> TRUE, numeric |-> FALSE]
Up == [operation |-> "sort_rows", column |-> "n", descending |-> FALSE, numeric |-> TRUE]
Write(type) == [operation |-> "write_workbook", type |-> type]
Check == [operation |-> "verify_output"]

NoAI == [enabled |-> FALSE, max |-> 0, expected |-> 0]
Rule(name, given, count, columns) ==
  [name |-> name, given |-> given, count |-> count, columns |-> columns]
Recipe(in, out, steps, checks) ==
  [input |-> in, output |-> out, required |-> {"n"}, checks |-> checks, ai |-> NoAI,
   steps |-> <<Pick(in), Parse>> \o steps \o <<Write(out), Check>>]

Good ==
  {Recipe("csv", "xlsx", <<Down>>, <<Rule("cell_values", FALSE, 0, <<>>)>>),
   Recipe("csv", "xls", <<Blanks, Down>>, <<Rule("row_count", FALSE, 0, <<>>)>>),
   Recipe("csv", "json", <<Up, Swap>>, <<Rule("columns", TRUE, 0, <<"7", "n">>)>>),
   Recipe("csv", "xlsx", <<Swap>>, <<>>),
   Recipe("xlsx", "csv", <<Above>>, <<Rule("required_values", TRUE, 0, <<"v">>)>>),
   Recipe("xls", "csv", <<>>, <<Rule("max_rows", TRUE, 2, <<>>)>>),
   Recipe("xls", "xlsx", <<>>, <<>>)}
Refused ==
  {[Recipe("csv", "csv", <<>>, <<>>) EXCEPT !.steps = <<Pick("csv"), Write("csv"), Check>>],
   [Recipe("csv", "csv", <<>>, <<>>) EXCEPT !.ai.enabled = TRUE]}
MCRecipes == Good \cup Refused

\* A project of two files, a key, and one file outside its directories; the term is cut by the boundary of two chunks.
MCLetters == {"a", "b", "c", "d", "m"}
Text(body) == [kind |-> "text", body |-> body]
Other(kind) == [kind |-> kind, body |-> <<>>]
With == Text(<<"a", "b", "c">>)
Without == Text(<<"b", "a">>)
MCFound == {With, Without} \cup {Other(k) : k \in {"absent", "large", "locked"}}
MCPaths == <<"key", "main", "out", "util">>
MCPathText == [p \in ToSet(MCPaths) |-> IF p = "util" THEN <<"a", "b", "c">> ELSE <<"m">>]
MCDatabaseTerms == {<<"d", "b">>}
MCQueries == {{}, {<<"a", "b", "c">>, <<"d", "b">>}}

Declared(full, databases) ==
  [fields |-> "exact", version |-> 1, safeId |-> TRUE, switches |-> TRUE, atRoot |-> TRUE,
   inside |-> TRUE, full |-> full, databases |-> databases]
MCProfiles == {Declared(TRUE, {"db"}), Declared(FALSE, {}),
               [Declared(TRUE, {}) EXCEPT !.inside = FALSE]}

\* The name in one of the declarations is the line of a Markdown report that says "ready".
MCQuoting == {Declared(FALSE, {})} \X MCQueries \X SUBSET ToSet(MCPaths)

Project(main, util) ==
  [p \in ToSet(MCPaths) |-> CASE p = "main" -> main [] p = "util" -> util [] OTHER -> With]
World(s, f, b) == [sheet |-> s, found |-> f, bases |-> [d \in {"db"} |-> b]]
MCWorlds ==
  {World(Full, Project(With, Without), "readable"),
   World(Ragged, Project(Other("absent"), Without), "missing")}

\* The first process does anything, the second shares files with it.
MCMayDo == [r \in Runs |-> IF r = r1 THEN Jobs ELSE {"prepare", "register"}]
=============================================================================
