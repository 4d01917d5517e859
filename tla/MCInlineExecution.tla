--------------------------- MODULE MCInlineExecution ---------------------------
(* Two jobs and two submitters for model checking InlineExecution. *)
EXTENDS InlineExecution

TwoJobs == 1..2
=============================================================================
