----------------------------- MODULE MCSignIn -----------------------------
(***************************************************************************)
(* Both ways of signing in.  They share no state, so a behaviour of this   *)
(* instance exercises one of them, chosen when it begins, while the other  *)
(* does nothing: the sum of the two state spaces, not their product.  The  *)
(* devices come in two scenes: two sign-ins of a page whose cells stay as  *)
(* they are, and one whose polls break and whose cells are re-run.         *)
(***************************************************************************)
EXTENDS DeviceSignIn, LoginLinks

CONSTANTS f1, f2, alice

VARIABLE scene

MCvars == <<vars, linkVars, scene>>

\* Sign-ins and persons are alike: a token left in localStorage is alice's.
MCInit ==
  /\ Init /\ LinksInit
  /\ scene \in {"two", "one", "links"}
  /\ browser.token \in {None, alice}
  /\ scene = "two" => browser.token = None /\ \A f \in Flow : owner[f] \in Widget

\* Two sign-ins in widgets that may overlap, f1's begun first; nothing breaks, is re-run or
\* expires.
Overlapping ==
  /\ used' = used
  /\ flow'[f1].pc = "idle" => flow'[f2].pc = "idle"
  /\ \A f \in Flow : ~code'[f].expired

\* One sign-in, with all that may happen to it.
Alone == \A f \in Flow \ {f1} : flow'[f].pc = "idle"

MCNext ==
  \/ scene = "two" /\ Next /\ Overlapping /\ UNCHANGED <<linkVars, scene>>
  \/ scene = "one" /\ Next /\ Alone /\ UNCHANGED <<linkVars, scene>>
  \/ /\ scene = "links" /\ owner = [f \in Flow |-> "storage"] /\ browser.token = None
     /\ LinksNext /\ UNCHANGED <<vars, scene>>

MCSpec == MCInit /\ [][MCNext]_MCvars

\* The fairness of the device handshake; nobody need ask for a link.
MCFairSpec == MCSpec /\ (scene # "links" => Fairness)
=============================================================================
