-------------------------------- MODULE Orders --------------------------------
(***************************************************************************)
(* sorted() of Python, for the plans of tables and of projects.  SortSeq of *)
(* TLC does the same, but says nothing that could be reasoned about.        *)
(***************************************************************************)
EXTENDS Integers, FiniteSets

\* The elements of S, each once, in the order of "before", a strict total order on S.
Ordered(S, before(_, _)) ==
  CHOOSE e \in [1..Cardinality(S) -> S] :
    \A i, j \in 1..Cardinality(S) : i < j => before(e[i], e[j])
=============================================================================
