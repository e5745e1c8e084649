----------------------------- MODULE Availability -----------------------------
(***************************************************************************)
(* When an assignment may be opened and handed in (services/availability.py)*)
(* and which role a permission check sees (auth/deps.py).  Only operators: *)
(* an assignment's settings, an enrollment and an instant are arguments.   *)
(***************************************************************************)
EXTENDS Naturals

CONSTANT None         \* NULL

Instant == Nat
Visibility == {"public", "enrolled"}
LatePolicy == {"accept", "reject"}
Role == {"student", "ta", "instructor"}

\* The keys of Assignment.settings that decide whether an attempt is taken.
Setting == [release_at : Instant \cup {None}, due_at : Instant \cup {None},
            close_at : Instant \cup {None}, visibility : Visibility,
            late_policy : LatePolicy, attempts_allowed : Nat \cup {None}]

IsPrivate(s) == s.visibility = "enrolled"

\* Window.state: a private assignment without a release date never opens by itself;
\* the release date does not apply to a staff member in student preview.
Unreleased(s, now) ==
  \/ IsPrivate(s) /\ s.release_at = None
  \/ s.release_at # None /\ now < s.release_at

Closed(s, now) == s.close_at # None /\ now >= s.close_at

WindowState(s, now, preview) ==
  IF ~preview /\ Unreleased(s, now) THEN "upcoming"
  ELSE IF Closed(s, now) THEN "closed" ELSE "open"

IsLate(s, at) == s.due_at # None /\ at > s.due_at

\* submission_refusal: why a student may not hand in now.
SubmissionRefusal(s, now, preview) ==
  LET state == WindowState(s, now, preview)
  IN  IF state = "upcoming" THEN "not_released"
      ELSE IF state = "closed" THEN "closed"
      ELSE IF s.late_policy = "reject" /\ IsLate(s, now) THEN "past_due" ELSE None

\* The window as the portal and a notebook show it.
WindowShown(s, now, preview) ==
  [state |-> WindowState(s, now, preview), past_due |-> IsLate(s, now)]

\* An enrollment, as far as permissions read it.
Previewing(e) == e.preview /\ e.role # "student"
EffectiveRole(e) == IF Previewing(e) THEN "student" ELSE e.role
IsStaff(e) == EffectiveRole(e) \in {"ta", "instructor"}

\* fetch_refusal: why the student notebook of an assignment may not be downloaded.
\* `signed_in` and `e`: the user and the active enrollment, None when there is none.
FetchRefusal(s, signed_in, e, now) ==
  IF ~IsPrivate(s) THEN None
  ELSE IF ~signed_in THEN "sign_in"
  ELSE IF e = None THEN "not_found"
  ELSE IF IsStaff(e) \/ WindowState(s, now, Previewing(e)) = "open" THEN None
  ELSE WindowState(s, now, Previewing(e))
=============================================================================
