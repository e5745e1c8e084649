------------------------------ MODULE MCGrading ------------------------------
(***************************************************************************)
(* Five small classrooms of the pipeline in one instance: a behaviour is   *)
(* one of them, chosen when it begins.  `Within` keeps the others' people  *)
(* and events out of it.                                                   *)
(*   "auto"    two attempts on an autograded question, retries, a crash    *)
(*   "hybrid"  one attempt graded by the worker and by a person: two       *)
(*             hand scores, or one and a death of the worker               *)
(*   "test"    a student's and an instructor's attempt, the policy changes *)
(*   "two"     one attempt, two workers, a person who scores it, a death   *)
(*   "race"    two attempts, two workers, one retry, the best one counts   *)
(***************************************************************************)
EXTENDS MCPipeline, GradeRaces

VARIABLE scene

MCvars == <<watched, scene>>

CONSTANTS amy, prof, w1, w2

MCSettings == AutoSettings \cup HybridSettings \cup PlainSettings \cup HighestSettings

MCInit ==
  /\ WatchedInit
  /\ scene \in {"auto", "hybrid", "test", "two", "race"}
  /\ settings \in CASE scene = "auto" -> AutoSettings
                    [] scene \in {"hybrid", "test"} -> HybridSettings
                    [] scene = "two" -> PlainSettings
                    [] scene = "race" -> HighestSettings

RunRows == Cardinality(DOMAIN runs')

Within ==
  CASE scene = "auto" ->
         used'.scores = 0 /\ used'.patches = 0 /\ attempts'[prof] = 0 /\ proc'[w2] = Idle
    [] scene = "hybrid" ->
         used'.patches = 0 /\ attempts'[prof] = 0 /\ attempts'[amy] <= 1 /\ RunRows <= 4
         /\ used'.crashes + used'.scores <= 2 /\ proc'[w2] = Idle
    [] scene = "test" ->
         used'.crashes = 0 /\ used'.scores <= 1 /\ attempts'[prof] <= 1 /\ attempts'[amy] <= 1
         /\ RunRows = 2 * (attempts'[amy] + attempts'[prof])
         /\ proc'[w2] = Idle
    [] scene = "two" ->
         used'.scores <= 1 /\ used'.patches = 0 /\ attempts'[prof] = 0 /\ attempts'[amy] <= 1
         /\ RunRows <= 4
    [] scene = "race" ->
         used'.scores = 0 /\ used'.patches = 0 /\ used'.crashes = 0 /\ attempts'[prof] = 0

MCNext == Next /\ Watch /\ Within /\ UNCHANGED scene

MCSpec == MCInit /\ [][MCNext]_MCvars
=============================================================================
