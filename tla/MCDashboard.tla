----------------------------- MODULE MCDashboard -----------------------------
(* Two contents of a task, and three attempts at up to three result versions. *)
EXTENDS Dashboard, TLC

CONSTANTS c1, c2

MCContents == {c1, c2}
MCOutcomes == {"review_required"}
MCActions == {"approve"}
MCMoved == {TRUE}
MCRejections == {"unverifiable"}

ContentSymmetry == Permutations(MCContents)
==============================================================================
