----------------------------- MODULE MCPipeline -----------------------------
(* Instances of Pipeline for TLC: captures of one post in two contents, one of them   *)
(* partial first; the rules know the first content, a pattern or Hermes the second.  *)
EXTENDS Pipeline, TLC

CONSTANTS x, y, c1, c2, c3, c4, rec

Capture(r, c, w, d, q) == [raw |-> r, content |-> c, whole |-> w, closed |-> d, asked |-> q]
Post == {Capture(c1, x, TRUE, FALSE, TRUE), Capture(c2, y, FALSE, FALSE, TRUE), Capture(c3, y, TRUE, TRUE, TRUE)}

Words == [c \in Contents |-> IF c = x THEN {"popup"} ELSE {"table"}]

Then(says, risk, recipe) == [NoAdvice EXCEPT !.says = says, !.risk = risk, !.recipe = recipe]
When(words, then, sure)  == [when |-> words, then |-> then, sure |-> sure]

PopupRule   == {When({{"popup"}}, Then("popup", None, None), 8)}
TablePattern == {When({{"table"}, {"table", "xls"}}, Then("refresh", None, None), 9)}
Levels == {When({{"refresh"}}, Then("ready", "local_artifact_only", rec), 9),
           When({{"unclear"}}, Then("manual", "read_only", None), 7)}

Reply(sound, says, risk, sure, recipe) ==
  [sound |-> sound, says |-> says, risk |-> risk, sure |-> sure, recipe |-> recipe]
Answers ==
  [classification |-> {Reply(TRUE, "unclear", None, 8, None), Reply(TRUE, "edit", None, 3, None), Reply(FALSE, None, None, 0, None)},
   assessment |-> {Reply(TRUE, "manual", "read_only", 8, None), Reply(TRUE, "ready", "read_only", 9, rec)}]

Everywhere == {<<x, rec>>, <<y, rec>>}
=============================================================================
