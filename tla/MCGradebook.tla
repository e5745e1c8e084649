----------------------------- MODULE MCGradebook -----------------------------
(***************************************************************************)
(* The rules of the gradebook over one history, and what the pages of a    *)
(* whole class make of them.  They share no state, so a behaviour of this  *)
(* instance exercises one of the two while the other does nothing.         *)
(***************************************************************************)
EXTENDS Gradebook, Classroom, TLC

VARIABLE scene

MCvars == <<history, count, classVars, scene>>

\* An exercise graded automatically, the other partly by hand.
CONSTANTS code, essay
MCSetup ==
  {[autograde |-> on, policy |-> policy, mode |-> (code :> "auto" @@ essay :> "hybrid")]
     : on \in BOOLEAN, policy \in {"latest", "highest"}}

\* The students are alike.
Alike == Permutations(Student)

MCInit ==
  /\ Init /\ ClassInit /\ scene \in {"rules", "class"}
  /\ scene = "rules" => setup = CHOOSE s \in MCSetup : TRUE

MCNext ==
  \/ scene = "rules" /\ Next /\ UNCHANGED <<classVars, scene>>
  \/ scene = "class" /\ ClassNext /\ UNCHANGED <<history, count, scene>>

MCSpec == MCInit /\ [][MCNext]_MCvars
=============================================================================
