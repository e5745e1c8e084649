----------------------------- MODULE MCPipeline ------------------------------
(* The settings the runs of Pipeline start from.                           *)
EXTENDS PipelineQueue

Base == [mode |-> "auto", policy |-> "latest", autograde |-> TRUE, render |-> FALSE,
         whole |-> FALSE, auto_max |-> 1, manual_max |-> 0]

\* An autograded question, under each policy that can differ.
AutoSettings == {[Base EXCEPT !.policy = policy] : policy \in {"latest", "highest", "first"}}
\* Under the default policy.
LatestSettings == {Base}
\* Under one policy, every automatic score alike.
PlainSettings == {[Base EXCEPT !.auto_max = 0]}
HighestSettings == {[Base EXCEPT !.policy = "highest"]}
\* The same question, re-run for display as well.
RerunSettings == {[Base EXCEPT !.render = TRUE, !.auto_max = 0]}
\* A question with an automatic part and one the graders enter.
HybridSettings == {[Base EXCEPT !.mode = "hybrid", !.manual_max = 1]}
=============================================================================
