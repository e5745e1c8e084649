------------------------------ MODULE Opening ------------------------------
(***************************************************************************)
(* Who may open an assignment, and until when: the portal's list, the      *)
(* notebook's download (api/offerings.py, api/public.py), the submission   *)
(* gate and the storage broker's credentials (services/storage.py,         *)
(* api/storage.py).                                                        *)
(*                                                                         *)
(* All gates but the last are answers, computed afresh by each request:    *)
(* operators here.  A credential outlives the request that made it: R2     *)
(* honours it until it ends, whatever the server has learned since.  A     *)
(* tick of the clock is finer than the least credential.                   *)
(***************************************************************************)
EXTENDS Availability, FiniteSets

CONSTANTS
  Assignment,
  Offered,            \* settings an instructor may give an assignment
  Missing,            \* a slug that names no assignment
  MaxNow,             \* bound: the clock
  MaxChanges,         \* bound: what instructors and staff change
  MaxHeld,            \* bound: credentials held when another is asked for
  CredentialTTL,      \* storage_credential_ttl_seconds
  MinCredential,      \* MIN_CREDENTIAL_SECONDS
  PresignMax          \* storage_presign_max_seconds

ASSUME OpeningAssumption ==
  /\ Missing \notin Assignment /\ Offered \subseteq Setting
  /\ MaxNow \in Nat /\ MaxHeld \in Nat /\ MaxChanges \in Nat
  /\ None \notin {"upcoming", "open", "closed", "not_released", "past_due", "sign_in", "not_found"}
  /\ MinCredential \in Nat \ {0} /\ CredentialTTL \in Nat /\ PresignMax \in Nat
  /\ MinCredential <= CredentialTTL /\ MinCredential <= PresignMax

\* A credential: what it covers, when it ends, whether it was lent to staff, and which of
\* the assignments it covers have had their window changed since.
Credentials == [covers : SUBSET Assignment, ends : Nat, staff : BOOLEAN, moved : SUBSET Assignment]

VARIABLES
  now,
  setting,        \* of each assignment
  published,      \* assignments with a version
  member,         \* an enrollment: [role, preview]; None once it is dropped
  held,           \* credentials that have not ended
  changes

openVars == <<now, setting, published, member, held, changes>>

\* _validate_settings: nothing may run backwards; a deadline may coincide with the close.
ValidWindow(s) ==
  /\ s.release_at # None /\ s.due_at # None => s.release_at < s.due_at
  /\ s.release_at # None /\ s.close_at # None => s.release_at < s.close_at
  /\ s.due_at # None /\ s.close_at # None => s.due_at <= s.close_at

OpeningInit ==
  /\ now = 0
  /\ setting \in [Assignment -> {s \in Offered : ValidWindow(s)}]
  /\ published = {} /\ held = {} /\ changes = 0
  /\ member \in [role : Role, preview : {FALSE}]

-----------------------------------------------------------------------------
(* The gates.                                                              *)

\* Mistake: preview does not lift the release date in the list.
ListedWithoutPreview(a) ==
  IsStaff(member) \/ ~(IsPrivate(setting[a]) /\ Unreleased(setting[a], now))

\* list_assignments.
Listed(a) ==
  \/ IsStaff(member)
  \/ ~(IsPrivate(setting[a]) /\ WindowState(setting[a], now, Previewing(member)) = "upcoming")

\* student_notebook, by version id, for a member.
Fetchable(a) == FetchRefusal(setting[a], TRUE, member, now) = None

\* The submission gate of api/submissions.py.
TakesAttempt(a) ==
  IsStaff(member) \/ SubmissionRefusal(setting[a], now, Previewing(member)) \in {None, "past_due"}

\* list_public_assignments.
PubliclyListed == {a \in published : ~IsPrivate(setting[a])}

\* _gate: being signed out answers as a missing assignment does.
Gate(a, caller) ==
  LET reason == FetchRefusal(setting[a], caller # "signed_out",
                             IF caller = "member" THEN member ELSE None, now)
  IN  IF reason = "sign_in" THEN "not_found" ELSE reason

\* public_student_notebook and molab_redirect: a slug without a version is missing.
PublicAnswer(slug, caller) ==
  IF slug \notin published THEN "not_found"
  ELSE IF Gate(slug, caller) # None THEN Gate(slug, caller) ELSE "notebook"

\* launch: the signed-out are sent to sign in before the slug is looked up.
LaunchAnswer(slug, caller) ==
  IF caller = "signed_out" THEN "sign_in"
  ELSE IF slug \notin published THEN "not_found"
  ELSE IF FetchRefusal(setting[slug], TRUE, IF caller = "member" THEN member ELSE None, now)
            = "not_found"
       THEN "not_found" ELSE "portal"

-----------------------------------------------------------------------------
(* The storage broker.                                                     *)

\* Mistake: an assignment may be granted up to the moment it closes.
ReleasedToTheEnd(a) == WindowState(setting[a], now, Previewing(member)) = "open"

\* assignment_released: not in the last MIN_CREDENTIAL_SECONDS.
Released(a) ==
  /\ WindowState(setting[a], now, Previewing(member)) = "open"
  /\ setting[a].close_at # None => setting[a].close_at - now >= MinCredential

\* grants_for, as far as it depends on the clock; the other mounts are always there.
Granted == {a \in Assignment : IsStaff(member) \/ Released(a)}

\* grant_horizon.
Closes == {setting[a].close_at : a \in {b \in Assignment : Released(b) /\ setting[b].close_at # None}}

Least(S) == CHOOSE x \in S : \A y \in S : x <= y
Greater(x, y) == IF x >= y THEN x ELSE y
Lesser(x, y) == IF x <= y THEN x ELSE y

\* open_session and storage_presign: how long a credential asked for `wanted` lasts.
Lasting(wanted) ==
  IF IsStaff(member) \/ Closes = {} THEN wanted
  ELSE Greater(MinCredential, Lesser(wanted, Least(Closes) - now))

Credential(covers, lasting) ==
  [covers |-> covers, ends |-> now + lasting, staff |-> IsStaff(member), moved |-> {}]

-----------------------------------------------------------------------------
(* Actions.                                                                *)

\* Time passes; credentials end.
Tick ==
  /\ now < MaxNow
  /\ now' = now + 1
  /\ held' = {c \in held : c.ends > now + 1}
  /\ UNCHANGED <<setting, published, member, changes>>

Change == changes < MaxChanges /\ changes' = changes + 1

PublishOne(a) ==
  /\ Change /\ a \notin published
  /\ published' = published \cup {a}
  /\ UNCHANGED <<now, setting, member, held>>

\* PATCH of an assignment's window: what was granted before stays granted.
PatchWindow(a, s) ==
  /\ Change /\ ValidWindow(s) /\ s # setting[a]
  /\ setting' = [setting EXCEPT ![a] = s]
  /\ held' = {[c EXCEPT !.moved = @ \cup {a}] : c \in held}
  /\ UNCHANGED <<now, published, member>>

\* PUT preview; and DELETE of the enrollment.
TogglePreview ==
  /\ Change /\ member # None /\ member.role # "student"
  /\ member' = [member EXCEPT !.preview = ~@]
  /\ UNCHANGED <<now, setting, published, held>>

DropMember ==
  /\ Change /\ member # None
  /\ member' = None
  /\ UNCHANGED <<now, setting, published, held>>

\* POST storage/session.
OpenSession ==
  /\ member # None /\ Cardinality(held) < MaxHeld
  /\ held' = held \cup {Credential(Granted, Lasting(CredentialTTL))}
  /\ UNCHANGED <<now, setting, published, member, changes>>

\* POST storage/presign, for an object of an assignment.
Presign(a, wanted) ==
  /\ member # None /\ a \in Granted /\ Cardinality(held) < MaxHeld
  /\ held' = held \cup {Credential({a}, Lasting(Lesser(wanted, PresignMax)))}
  /\ UNCHANGED <<now, setting, published, member, changes>>

OpeningNext ==
  \/ Tick \/ TogglePreview \/ DropMember \/ OpenSession
  \/ \E a \in Assignment :
       \/ PublishOne(a)
       \/ \E s \in Offered : PatchWindow(a, s)
       \/ \E wanted \in {MinCredential, PresignMax + 1} : Presign(a, wanted)

OpeningSpec == OpeningInit /\ [][OpeningNext]_openVars

-----------------------------------------------------------------------------
(* Properties.                                                             *)

OpeningTypeOK ==
  /\ now \in 0..MaxNow /\ changes \in 0..MaxChanges
  /\ setting \in [Assignment -> Offered]
  /\ published \subseteq Assignment
  /\ member \in {None} \cup [role : Role, preview : BOOLEAN]
  /\ held \subseteq Credentials /\ \A c \in held : c.ends > now

\* "A credential never outlives the earliest close among the windowed assignments it
\* covers" (services/storage.py:107), for students and for staff in student preview, while
\* the window stays what it was.
CredentialEndsByClose ==
  \A c \in held : \A a \in c.covers \ c.moved :
    ~c.staff /\ setting[a].close_at # None => c.ends <= setting[a].close_at

\* The gates agree on a private assignment: what storage grants can be downloaded, what can
\* be downloaded is listed and takes attempts.
GatesAgree ==
  member # None =>
    \A a \in Assignment : IsPrivate(setting[a]) =>
      /\ a \in Granted => Fetchable(a)
      /\ Fetchable(a) => Listed(a) /\ TakesAttempt(a)

\* "A signed-out caller must not be able to tell a private slug from a missing one"
\* (api/public.py:66), nor may a person who is not enrolled, by any public door.
PrivateLooksMissing ==
  \A a \in Assignment : IsPrivate(setting[a]) =>
    /\ a \notin PubliclyListed
    /\ \A caller \in {"signed_out", "outsider"} \cup (IF member = None THEN {"member"} ELSE {}) :
         /\ PublicAnswer(a, caller) = PublicAnswer(Missing, caller)
         /\ LaunchAnswer(a, caller) = LaunchAnswer(Missing, caller)

\* The doors to an assignment agree with each other, for those who may open it and for
\* those who may not know of it.
DoorsAgree == GatesAgree /\ PrivateLooksMissing
=============================================================================
