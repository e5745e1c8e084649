---------------------------- MODULE MCExecution ----------------------------
(* A course of three assignments, the notebooks its students hand in, and   *)
(* what the graders' machine makes of them.                                 *)
EXTENDS Execution

CONSTANTS scans, masks, table, lab, essay, quiz

Req(name, version) == [name |-> name, version |-> version]
MCPinned == {Req("client", "the worker's"), Req("mograder", "the worker's")}

\* The lab's solution reads a table; its masks are spelled nowhere, but declared. The essay
\* has no PEP 723 block; the quiz's instructor notebook is not stored.
Lab ==
  [given |-> {scans, masks}, solution |-> {table}, spelled |-> {scans, table}, declared |-> {masks},
   stored |-> TRUE, block |-> TRUE, requires |-> <<Req("numpy", "1"), Req("client", "any")>>]
MCCourse ==
  [s \in {lab, essay, quiz} |->
     CASE s = lab -> Lab [] s = quiz -> [Lab EXCEPT !.stored = FALSE]
       [] s = essay -> [Lab EXCEPT !.declared = {}, !.block = FALSE]]

Done == [of |-> lab, auto |-> TRUE, answer |-> [c \in Check |-> "right"],
         reads |-> [mine |-> {scans}, other |-> {table}],
         flagged |-> "nothing", code |-> "fine", requires |-> Lab.requires]
Reading(d) == [Done EXCEPT !.reads = [c \in Check |-> d]]
MCNotebook ==
  {Reading({scans}),
   [Reading({table}) EXCEPT !.of = essay],
   [Reading({scans}) EXCEPT !.auto = FALSE],
   [Reading({scans}) EXCEPT !.answer.mine = "raises"],
   [Reading({masks}) EXCEPT !.code = "slow", !.requires = <<Req("numpy", "2"), Req("numpy", "1")>>],
   [Done EXCEPT !.flagged = "a released line"],
   [Done EXCEPT !.flagged = "the student's line"],
   [Done EXCEPT !.answer = [c \in Check |-> "blank"], !.reads = [c \in Check |-> {}]],
   [Done EXCEPT !.code = "stuck"],
   [Done EXCEPT !.code = "redefined"]}
=============================================================================
