--------------------------- MODULE MCBoardMonitor ---------------------------
(* Two posts, the title of the first being the start of the second's, and the *)
(* lists of the board on which they come, are answered and slide to the end.  *)
EXTENDS BoardMonitor

CONSTANTS a1, a2

MCPosts == {1, 2}
MCMenu  == 0
MCTitles == {"report", "report two", "other"}
MCStartsWith == {<<t, t>> : t \in MCTitles} \cup {<<"report", "report two">>}

Row(l, t, r, d) == [link |-> l, title |-> t, reply |-> r, done |-> d]
One   == Row(1, "report", FALSE, FALSE)
Two   == Row(2, "report two", FALSE, FALSE)
Done  == Row(1, "report", FALSE, TRUE)
Query  == Row(0, "other", TRUE, FALSE)
Notice == Row(None, None, FALSE, FALSE)
Answer == Row(0, "report", TRUE, TRUE)

MCPages ==
  {<<Two, One>>, <<Notice, Two, One, Query>>, <<Two, Done, Answer>>}

\* One content with an attachment, at two values of the view counter.
MCHtmls == {a1, a2}
MCKeyOf == [h \in MCHtmls |-> "text"]
MCAttachmentsOf == [h \in MCHtmls |-> {"file"}]

Views == Permutations(MCHtmls)
=============================================================================
