------------------------------ MODULE MCAccess ------------------------------
(***************************************************************************)
(* The roster, the gates with the storage they guard, the files on a       *)
(* notebook's disk, copies and memoised results apart, and the notebook a  *)
(* click hands in: its page, of one click, and two clicks with one run     *)
(* cell.  They share no state, so a behaviour of this instance exercises   *)
(* one of them while the others do nothing.                                *)
(***************************************************************************)
EXTENDS Roster, KernelSession, CourseFiles, Payload

VARIABLE scene

MCvars == <<rosterVars, kernelVars, fileVars, payloadVars, scene>>

-----------------------------------------------------------------------------
(* Constants.                                                              *)

\* Two class lists: one with a person who has only an address and a test student; one with
\* the other person, in a section.
MCLine(login, email, section) ==
  [login |-> login, email |-> email, section |-> section, named |-> TRUE, test |-> FALSE]
CONSTANTS ann, ben, cat, s1
MCFile ==
  { {MCLine(None, ben, None), [MCLine(ann, None, None) EXCEPT !.test = TRUE]},
    {MCLine(ann, None, s1)} }

\* A public homework, an exam, one without dates, and one whose deadline is after its
\* close; the clock ticks every 30 seconds.
CONSTANTS exam, homework
MCSetting(visibility, release, due, close) ==
  [visibility |-> visibility, release_at |-> release, due_at |-> due, close_at |-> close,
   late_policy |-> "accept", attempts_allowed |-> None]
MCOffered ==
  { MCSetting("public", None, None, None),
    MCSetting("enrolled", None, None, None),
    MCSetting("enrolled", 2, 5, 6),
    MCSetting("public", None, 6, 7),
    MCSetting("public", None, 6, 5) }

\* Two contents have the same size.
CONSTANTS c1, c2, c3
MCSize(v) == IF v = c3 THEN 2 ELSE 1

-----------------------------------------------------------------------------

MCInit ==
  /\ RosterInit /\ KernelInit /\ FilesInit /\ PayloadInit
  /\ scene \in {"roster", "opening", "paths", "memos", "page", "clicks"}
  /\ object = c1
  /\ setting[homework] = MCSetting("public", None, 6, 7)
  /\ scene # "opening" =>
       /\ member = [role |-> "student", preview |-> FALSE]
       /\ setting[exam] = MCSetting("enrolled", None, None, None)
  /\ disk.text[1] = c1
  /\ scene # "page" => disk.text[2] = c1
  /\ scene # "clicks" => seen = disk

MCNext ==
  \/ /\ scene = "roster" /\ RosterNext
     /\ UNCHANGED <<kernelVars, fileVars, payloadVars, scene>>
  \/ /\ scene = "opening" /\ KernelNext
     /\ UNCHANGED <<rosterVars, fileVars, payloadVars, scene>>
  \/ /\ scene = "paths" /\ UNCHANGED <<memo, call>> /\ FilesNext
     /\ UNCHANGED <<rosterVars, kernelVars, payloadVars, scene>>
  \/ /\ scene = "memos" /\ UNCHANGED <<object, path>> /\ FilesNext
     /\ UNCHANGED <<rosterVars, kernelVars, payloadVars, scene>>
  \/ /\ scene = "page" /\ PayloadNext /\ widget'.submits <= 1
     /\ UNCHANGED <<rosterVars, kernelVars, fileVars, scene>>
  \/ /\ scene = "clicks" /\ PayloadNext /\ runtime'.runs <= 1 /\ snapshot'.writes <= 1
     /\ UNCHANGED <<rosterVars, kernelVars, fileVars, scene>>

MCSpec == MCInit /\ [][MCNext]_MCvars

\* The page's timer, idle in the other scenes.
MCFairSpec == MCSpec /\ PayloadFairness
=============================================================================
