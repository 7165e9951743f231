------------------------------- MODULE CodePlan -------------------------------
(***************************************************************************)
(* Static analysis of a registered project as values (project_profile.py    *)
(* and preparation_plan.py): which files a profile may read, how a file is  *)
(* searched in chunks and then read in detail, and the plan that follows.   *)
(* Nothing here changes state; the processes are in Preparation.            *)
(*                                                                         *)
(* A text, a path and a term are sequences of letters.  What is found at a  *)
(* path is a record [kind, body]: a text, or something whose body does not  *)
(* matter because it is absent, too large, not UTF-8, or cannot be opened.  *)
(* A profile is a record of what its declaration says, reduced to what is   *)
(* checked of it.                                                           *)
(***************************************************************************)
EXTENDS Integers, Sequences, SequencesExt, Orders

CONSTANTS
  Letters,        \* what texts, paths and terms are written with
  Paths,          \* the paths below the project's root, in the order of their names
  PathText,       \* how each of them is written
  Excluded,       \* those that are never read: secrets, binaries, .git and the like
  Managed,        \* those below the managed_directories
  Selected,       \* those that managed_patterns select
  Databases,      \* the paths a profile may name as SQLite files
  DatabaseTerms,  \* the terms that speak of a database (_DATABASE_TERMS)
  ChunkSize,      \* _SAFE_SEARCH_CHUNK_BYTES
  DetailLimit,    \* how many of the best hits are read in detail: 50
  FileLimit       \* MAX_DISCOVERED_FILES

ASSUME PathAssumption ==
  /\ Paths \in Seq(DOMAIN PathText) /\ IsInjective(Paths)
  /\ PathText \in [ToSet(Paths) -> Seq(Letters)]
  /\ Excluded \cup Managed \cup Selected \subseteq ToSet(Paths)
  /\ ChunkSize \in Nat \ {0} /\ FileLimit \in Nat

\* A plan could call a match the only one if no more than one were read.
ASSUME LimitAssumption == DetailLimit \in Nat \ {0, 1}

-----------------------------------------------------------------------------
(* Profiles. *)

\* from_dict and __post_init__: exactly the known fields, of their types, with safe names and an
\* explicit choice of both access switches, and all paths relative and inside an existing root.
WellFormed(profile) ==
  /\ profile.fields = "exact" /\ profile.version = 1
  /\ profile.safeId /\ profile.switches
  /\ profile.atRoot /\ profile.inside

-----------------------------------------------------------------------------
(* Discovery: a walk of the managed directories.  The switch for the full      *)
(* codebase lifts the patterns, not the directories or what is excluded.       *)

Discovered(profile, found) ==
  LET ToRead(p) == /\ p \in Managed \ Excluded /\ (profile.full \/ p \in Selected)
                   /\ found[p].kind # "absent"
      order == Ordered({i \in DOMAIN Paths : ToRead(Paths[i])}, LAMBDA i, j : i < j)
  IN  [k \in DOMAIN order |-> Paths[order[k]]]

\* project_content_digest reads every discovered file and every database as bytes; a database that
\* is missing is noted as such.
Digestible(profile, found, bases) ==
  LET paths == ToSet(Discovered(profile, found)) IN
  /\ Cardinality(paths) <= FileLimit
  /\ \A p \in paths : found[p].kind # "locked"
  /\ \A d \in profile.databases : bases[d] # "locked"

-----------------------------------------------------------------------------
(* Search. *)

Here(term, text, i) == i + Len(term) - 1 <= Len(text) /\ SubSeq(text, i, i + Len(term) - 1) = term

\* str.count: occurrences from left to right that do not overlap.
Counted(term, text, acc, i) ==
  IF i >= acc.free /\ Here(term, text, i) THEN [seen |-> acc.seen + 1, free |-> i + Len(term)]
                                          ELSE acc
Count(term, text) ==
  LET upTo[i \in 0..Len(text)] ==
        IF i = 0 THEN [seen |-> 0, free |-> 1] ELSE Counted(term, text, upTo[i - 1], i)
  IN  upTo[Len(text)].seen

CountAll(terms, text) == MapThenSumSet(LAMBDA term : Count(term, text), terms)

Chunks(text) ==
  [k \in 1..((Len(text) + ChunkSize - 1) \div ChunkSize) |->
     SubSeq(text, (k - 1) * ChunkSize + 1, Min({k * ChunkSize, Len(text)}))]

\* mutant: a term that a chunk boundary cuts is missed
OverlapShort(terms) == Max({2} \cup {Len(term) : term \in terms}) - 2
Overlap(terms) == Max({1} \cup {Len(term) : term \in terms}) - 1

Ending(text, n) == SubSeq(text, Max({1, Len(text) - n + 1}), Len(text))

\* _safe_search: each chunk is searched together with the end of what came before it.
Advanced(terms, acc, chunk) ==
  LET window == acc.tail \o chunk IN
  [score |-> acc.score + CountAll(terms, window) - CountAll(terms, acc.tail),
   tail  |-> Ending(window, Overlap(terms))]

StreamScore(terms, text) ==
  LET chunks == Chunks(text)
      after[k \in 0..Len(chunks)] ==
        IF k = 0 THEN [score |-> 0, tail |-> <<>>] ELSE Advanced(terms, after[k - 1], chunks[k])
  IN  after[Len(chunks)].score

PathScore(terms, p) == 5 * CountAll(terms, PathText[p])

\* The score of a path in the search, 0 if it is skipped or has no match.
SearchScore(terms, p, at) ==
  IF at.kind = "text" THEN PathScore(terms, p) + StreamScore(terms, at.body) ELSE 0

\* The best hits, by score and then by path.
Best(hits) ==
  LET rank(p) == CHOOSE i \in DOMAIN Paths : Paths[i] = p
      better(p, q) == \/ hits[p] > hits[q]
                      \/ hits[p] = hits[q] /\ rank(p) < rank(q)
      order == Ordered(DOMAIN hits, better)
  IN  SubSeq(order, 1, Min({DetailLimit, Len(order)}))

-----------------------------------------------------------------------------
(* The plan. *)

\* What _database_schemas misses: files that are not there, or that SQLite cannot open or read.
SchemasMissing(profile, bases) ==
  {IF bases[d] = "missing" THEN "schema_missing" ELSE "schema_unreadable" :
     d \in {d \in profile.databases : bases[d] # "readable"}}

MissingInformation(profile, terms, candidates, bases) ==
  (IF candidates = {} THEN {"location_unknown"} ELSE {})
    \cup (IF Cardinality(candidates) > 1 THEN {"multiple_candidates"} ELSE {})
    \cup SchemasMissing(profile, bases)
    \cup (IF terms \cap DatabaseTerms # {} /\ profile.databases = {} THEN {"schema_missing"} ELSE {})

Plan(profile, terms, candidates, bases) ==
  LET missing == MissingInformation(profile, terms, candidates, bases) IN
  [state |-> IF missing = {} THEN "ready" ELSE "information_needed",
   candidates |-> candidates, missing |-> missing]
=============================================================================
