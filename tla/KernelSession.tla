--------------------------- MODULE KernelSession ---------------------------
(***************************************************************************)
(* The storage session of one notebook's kernel (client storage/_state.py, *)
(* _session.py, _broker.py), beside the broker of module Opening: opened   *)
(* once, then used for as long as the kernel runs.  Its mount table is the *)
(* one it was opened with; its credential is renewed when it nears its end.*)
(***************************************************************************)
EXTENDS Opening

CONSTANT Margin         \* how near its end a credential is renewed (120 seconds)

\* What the kernel keeps of open_session's answer.
Session == [specs : SUBSET Assignment, credential : Credentials, disturbed : BOOLEAN]

ASSUME SessionAssumption == Margin \in Nat \ {0} /\ None \notin Session

VARIABLES
  token,          \* the notebook token the kernel has: "none", "valid", "expired"
  session,        \* the mount table, the credential; None when there is none
  outcome         \* what the last use of an assignment's mount came to

sessionVars == <<token, session, outcome>>
kernelVars == <<openVars, sessionVars>>

NoOutcome == [of |-> None, is |-> "none"]

KernelInit == OpeningInit /\ token = "none" /\ session = None /\ outcome = NoOutcome

\* The student signs in, with a token the kernel did not have: adopt drops the session.
Adopt ==
  /\ token # "valid"
  /\ token' = "valid" /\ session' = None /\ outcome' = NoOutcome
  /\ UNCHANGED openVars

TokenExpires ==
  /\ token = "valid"
  /\ token' = "expired"
  /\ UNCHANGED <<openVars, session, outcome>>

\* A token that is missing or has expired opens nothing.
TokenWillDo == token = "valid"

\* connect, session: a session that is open is kept; one that cannot be opened is no error.
Connect ==
  /\ session = None /\ TokenWillDo
  /\ OpenSession
  /\ session' = [specs |-> Granted, credential |-> Credential(Granted, Lasting(CredentialTTL)),
                 disturbed |-> FALSE]
  /\ UNCHANGED <<token, outcome>>

\* Mistake: the credential is used as long as the session.
NeverRenewed == session.credential

NearEnd == session.credential.ends < now + Margin

\* _provider: near its end the credential is replaced by what the broker grants now.
Provided ==
  IF NearEnd THEN Credential(Granted, Lasting(CredentialTTL)) ELSE session.credential

\* The broker has to be asked, and refuses: the call raises, the session stays.
Refused == NearEnd /\ (token # "valid" \/ member = None)

\* What R2 answers a request under a credential.
Honoured(c, a) == IF a \in c.covers /\ c.ends > now THEN "read" ELSE "denied"

\* storage.assignment(a), and a read through the mount.
UseMount(a) ==
  /\ session # None
  /\ IF a \notin session.specs THEN
       /\ outcome' = [of |-> a, is |-> "not_released"]
       /\ UNCHANGED <<session, held>>
     ELSE IF Refused THEN
       /\ outcome' = [of |-> a, is |-> "refused"]
       /\ UNCHANGED <<session, held>>
     ELSE
       /\ session' = [session EXCEPT !.credential = Provided]
       /\ held' = IF NearEnd THEN held \cup {Provided} ELSE held
       /\ outcome' = [of |-> a, is |-> Honoured(Provided, a)]
  /\ UNCHANGED <<now, setting, published, member, changes, token>>

\* The kernel is restarted; the token is on the disk.
KernelRestart ==
  /\ session # None
  /\ session' = None /\ outcome' = NoOutcome
  /\ UNCHANGED <<openVars, token>>

\* The server moves on; `disturbed`: the grants changed otherwise than by time.
Server ==
  /\ OpeningNext
  /\ session' = IF session = None THEN None
                ELSE [session EXCEPT !.disturbed = @ \/ setting' # setting \/ member' # member]
  /\ outcome' = NoOutcome
  /\ UNCHANGED token

KernelNext == Adopt \/ TokenExpires \/ Connect \/ KernelRestart \/ Server \/ \E a \in Assignment : UseMount(a)

KernelSpec == KernelInit /\ [][KernelNext]_kernelVars

-----------------------------------------------------------------------------
(* Properties.                                                             *)

KernelTypeOK ==
  /\ OpeningTypeOK
  /\ token \in {"none", "valid", "expired"}
  /\ session \in {None} \cup Session /\ (session # None => token # "none")
  /\ outcome.is \in {"none", "read", "denied", "not_released", "refused"}

\* "So an hour-long credential renews itself for as long as the grader token lasts"
\* (client storage/_session.py:6): a mount the session has is denied only when the server
\* no longer grants it, unless a window or the enrollment was changed meanwhile.
RenewsItself ==
  outcome.is = "denied" /\ ~session.disturbed => outcome.of \notin Granted

\* Nothing is read through a session after the close, by a student whose window stayed.
NothingReadAfterClose ==
  outcome.is = "read" /\ ~session.disturbed /\ ~IsStaff(member) =>
    ~Closed(setting[outcome.of], now)

\* Neither the broker's credentials nor the sessions that renew them outlive a close.
NothingOutlivesTheClose == KernelTypeOK /\ CredentialEndsByClose /\ NothingReadAfterClose
=============================================================================
