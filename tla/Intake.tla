-------------------------------- MODULE Intake --------------------------------
(***************************************************************************)
(* How a notebook becomes an attempt: the submit widget of one student on  *)
(* one question (widget.py), the network, the POST /submissions handlers   *)
(* that serve its clicks side by side (api/submissions.py), the file the   *)
(* notebook is stored in (services/artifacts.py) and the grading page that *)
(* is told of it (services/events.py).                                     *)
(*                                                                         *)
(* A handler is one database transaction, READ COMMITTED, split at every   *)
(* statement another transaction can come between.  Its rows are visible   *)
(* to others from its commit on; a unique constraint makes an insert wait  *)
(* for the open transaction that holds the same key.  get_db commits after *)
(* the handler has returned, and whether the answer leaves before or after *)
(* the commit depends on the FastAPI version: both orders are modelled.    *)
(***************************************************************************)
EXTENDS Availability, FiniteSets, FiniteSetsExt

CONSTANTS
  Settings,       \* the settings the assignment may have
  Submitter,      \* the enrollments that may be the submitter's
  MaxClicks,      \* bound: times submit() runs
  MaxPosts,       \* bound: requests sent, the ones the browser sends again included
  MaxRerenders,   \* bound: times the widget's cell is re-run
  MaxKills,       \* bound: times the API process dies
  MaxDrops,       \* bound: times the page's connection is lost or its fetch fails
  MaxTime,        \* bound: the last instant
  MaxInbox        \* maxsize of a subscriber's queue (256 in the code)

Click == 1..MaxClicks               \* a click's client_submission_id is its number
Request == Click \X {1, 2}          \* the first sending of a click and its resend
Inode == 1..(2 * MaxClicks + 1)
View == 0..MaxRerenders             \* renderings of the widget
Attempt == [no : 1..(2 * MaxClicks), id : Click]
Code == {"created", "duplicate", "unauthorized", "refused", "error"}

PageOver(attempts) == [linked : BOOLEAN, inbox : 0..MaxInbox, shows : SUBSET attempts,
                       announced : SUBSET attempts, behind : BOOLEAN]

ASSUME SettingsAssumption == Settings \subseteq Setting
ASSUME SubmitterAssumption == Submitter \subseteq [role : Role, preview : BOOLEAN]
ASSUME BoundAssumption ==
  /\ MaxClicks \in Nat \ {0} /\ MaxPosts \in Nat /\ MaxRerenders \in Nat
  /\ MaxKills \in Nat /\ MaxDrops \in Nat /\ MaxTime \in Nat /\ MaxInbox \in Nat \ {0}
ASSUME NoneIsNoAttempt == None \notin Attempt /\ None \notin Nat

VARIABLES
  settings, submitter,
  clock,        \* the time
  token,        \* what currentToken() finds: "none", "live" or "expired"
  widget,       \* the rendering on the page, its button, its sign-in flows
  click,        \* each run of submit()
  request,      \* each sending of a click's POST and the handler that serves it
  stored,       \* the committed submissions
  disk,         \* the store: the inodes behind the .tmp name and the final name
  page,         \* the open grading queue of the question: whether it is connected, its queued
                \* events, what it shows, what was stored when an event was last published,
                \* and whether an event was lost since it last fetched
  used          \* how much of each bound has been used

vars == <<settings, submitter, clock, token, widget, click, request, stored, disk, page, used>>
world == <<settings, submitter, clock>>

Unsent == [pc |-> "none", n |-> 0, fd |-> 0, code |-> "error", left |-> {}]

Init ==
  /\ settings \in Settings /\ submitter \in Submitter
  /\ clock = 0
  /\ token \in {"none", "live"}
  /\ widget = [view |-> 0, disabled |-> FALSE, flows |-> 0]
  /\ click = [c \in Click |-> [pc |-> "unused", view |-> 0, cred |-> "none", copy |-> 1, shown |-> None]]
  /\ request = [r \in Request |-> Unsent]
  /\ stored = {}
  /\ disk = [tmp |-> 0, final |-> 0, whole |-> {}]
  /\ page = [linked |-> FALSE, inbox |-> 0, shows |-> {}, announced |-> {}, behind |-> FALSE]
  /\ used = [posts |-> 0, kills |-> 0, drops |-> 0]

-----------------------------------------------------------------------------
(* The widget.                                                             *)

\* The next run of submit(), in order.
Fresh(c) == click[c].pc = "unused" /\ \A d \in 1..(c - 1) : click[d].pc # "unused"

\* submit() with a token: the button of this rendering is disabled.
Submit(c) ==
  /\ Fresh(c)
  /\ click' = [click EXCEPT ![c] =
       [pc |-> "collecting", view |-> widget.view, cred |-> token', copy |-> 1, shown |-> None]]

\* The button, pressed while the browser has a token.
PressSubmit(c) ==
  /\ ~widget.disabled /\ token # "none"
  /\ UNCHANGED token
  /\ Submit(c)
  /\ widget' = [widget EXCEPT !.disabled = TRUE]
  /\ UNCHANGED <<world, request, stored, disk, page, used>>

\* Pressed without one: submit() offers a sign-in button, and each time that is
\* pressed a sign-in begins that will call submit() again. Submit stays enabled.
PressSignIn ==
  /\ ~widget.disabled /\ token = "none" /\ widget.flows < 2
  /\ widget' = [widget EXCEPT !.flows = @ + 1]
  /\ UNCHANGED <<world, token, click, request, stored, disk, page, used>>

\* A sign-in is approved: the token is kept and submit() called, whatever the
\* button's state is by then.
SignedIn(c) ==
  /\ widget.flows > 0
  /\ token' = "live"
  /\ Submit(c)
  /\ widget' = [widget EXCEPT !.flows = @ - 1, !.disabled = TRUE]
  /\ UNCHANGED <<world, request, stored, disk, page, used>>

\* The kernel re-runs the cell: a new rendering with an enabled button. The old one's
\* sign-ins stop at their next poll; its submit() goes on.
Rerender ==
  /\ widget.view < MaxRerenders
  /\ widget' = [view |-> widget.view + 1, disabled |-> FALSE, flows |-> 0]
  /\ UNCHANGED <<world, token, click, request, stored, disk, page, used>>

\* The token's eight hours are over. The copy in memory is not checked against them.
TokenExpires ==
  /\ token = "live" /\ token' = "expired"
  /\ click' = [c \in Click |-> [click[c] EXCEPT !.cred = IF @ = "live" THEN "expired" ELSE @]]
  /\ UNCHANGED <<world, widget, request, stored, disk, page, used>>

\* Mistake: a run of submit() that fails leaves the button as it is.
EnableAfterPolling(c) ==
  widget' = IF click[c].pc = "polling" THEN [widget EXCEPT !.disabled = FALSE] ELSE widget

\* btn.disabled = false, on the button this run of submit() was started from.
Enable(c) ==
  widget' = IF click[c].view = widget.view THEN [widget EXCEPT !.disabled = FALSE] ELSE widget

End(c) == click' = [click EXCEPT ![c].pc = "ended", ![c].cred = "none"]

\* submissions are not enabled, or the kernel has no readable notebook.
CannotCollect(c) ==
  /\ click[c].pc = "collecting"
  /\ End(c) /\ Enable(c)
  /\ UNCHANGED <<world, token, request, stored, disk, page, used>>

\* The kernel's payload has arrived, or 12 seconds have passed and the last one is
\* used: POST /submissions with a new client_submission_id.
Post(c) ==
  /\ click[c].pc = "collecting" /\ used.posts < MaxPosts
  /\ click' = [click EXCEPT ![c].pc = "posting"]
  /\ request' = [request EXCEPT ![<<c, 1>>].pc = "sent"]
  /\ used' = [used EXCEPT !.posts = @ + 1]
  /\ UNCHANGED <<world, token, widget, stored, disk, page>>

\* The status is polled until the attempt is graded or failed, two minutes have
\* passed, the answer is an error, or the rendering is gone.
StopPolling(c) ==
  /\ click[c].pc = "polling"
  /\ End(c) /\ Enable(c)
  /\ UNCHANGED <<world, token, request, stored, disk, page, used>>

\* The connection of a click's request breaks, before the request has arrived or while
\* it is served. The browser may send it again (the same body, so the same id);
\* otherwise fetch() fails and the widget says "Submission failed".
Break(c) ==
  LET r == <<c, click[c].copy>>
  IN  /\ click[c].pc = "posting"
      /\ \/ /\ click[c].copy = 1 /\ used.posts < MaxPosts
            /\ click' = [click EXCEPT ![c].copy = 2]
            /\ used' = [used EXCEPT !.posts = @ + 1]
            /\ request' = [request EXCEPT ![r].pc = IF @ = "sent" THEN "gone" ELSE @,
                                         ![<<c, 2>>].pc = "sent"]
            /\ UNCHANGED widget
         \/ /\ End(c) /\ Enable(c)
            /\ request' = [request EXCEPT ![r].pc = IF @ = "sent" THEN "gone" ELSE @]
            /\ UNCHANGED used
      /\ UNCHANGED <<world, token, stored, disk, page>>

-----------------------------------------------------------------------------
(* The handlers of POST /submissions.                                      *)

At(r, pc) == request[r].pc = pc
Move(r, pc) == request' = [request EXCEPT ![r].pc = pc]

\* The handler is done but for what is left: its commit, its answer.
Left(r, what) ==
  LET rest == request[r].left \ {what}
  IN  request' = [request EXCEPT ![r] =
        IF rest = {} THEN [Unsent EXCEPT !.pc = "done"] ELSE [@ EXCEPT !.left = rest]]

Close(r, code, left) ==
  request' = [request EXCEPT ![r] = [@ EXCEPT !.pc = "closing", !.code = code, !.left = left]]

\* The bearer token is checked, the enrollment and the question resolved, and the
\* attempt with the same client id looked for: found, it is the answer.
Look(r) ==
  /\ At(r, "sent")
  /\ IF click[r[1]].cred # "live" THEN Close(r, "unauthorized", {"answer"})
     ELSE IF \E a \in stored : a.id = r[1]
     THEN request' = [request EXCEPT ![r] =
            [@ EXCEPT !.pc = "closing", !.code = "duplicate", !.left = {"answer"},
                      !.n = (CHOOSE a \in stored : a.id = r[1]).no]]
     ELSE Move(r, "admitting")
  /\ UNCHANGED <<world, token, widget, click, stored, disk, page, used>>

\* Students, and staff in student preview, are held to the window.
RefusedByWindow ==
  /\ EffectiveRole(submitter) = "student"
  /\ SubmissionRefusal(settings, clock, Previewing(submitter)) # None

\* The attempts so far use up the limit.
Exhausted(n) == settings.attempts_allowed # None /\ n >= settings.attempts_allowed

\* The window, then the count of the attempts so far, then the limit.
Admit(r) ==
  LET n == Cardinality(stored)
  IN  /\ At(r, "admitting")
      /\ IF RefusedByWindow \/ Exhausted(n) THEN Close(r, "refused", {"answer"})
         ELSE request' = [request EXCEPT ![r] = [@ EXCEPT !.pc = "storing", !.n = n + 1]]
      /\ UNCHANGED <<world, token, widget, click, stored, disk, page, used>>

\* Mistake: a file that is being written counts as there.
PresentOrComing == disk.final # 0 \/ disk.tmp # 0

Present == disk.final # 0

\* store().put(): nothing is written when the file is there. (Every click of the
\* model hands in the same bytes: other bytes go to another file.)
PutCheck(r) ==
  /\ At(r, "storing")
  /\ Move(r, IF Present THEN "inserting" ELSE "opening")
  /\ UNCHANGED <<world, token, widget, click, stored, disk, page, used>>

\* tmp.write_bytes() opens the .tmp file: a new one, or the one another handler has
\* open, cut to nothing.
PutOpen(r) ==
  LET free == Inode \ ({disk.tmp, disk.final} \cup {request[q].fd : q \in Request})
      fd == IF disk.tmp # 0 THEN disk.tmp ELSE Min(free)
  IN  /\ At(r, "opening")
      /\ request' = [request EXCEPT ![r] = [@ EXCEPT !.pc = "writing", !.fd = fd]]
      /\ disk' = [disk EXCEPT !.tmp = fd, !.whole = @ \ {fd}]
      /\ UNCHANGED <<world, token, widget, click, stored, page, used>>

PutWrite(r) ==
  /\ At(r, "writing")
  /\ disk' = [disk EXCEPT !.whole = @ \cup {request[r].fd}]
  /\ request' = [request EXCEPT ![r] = [@ EXCEPT !.pc = "renaming", !.fd = 0]]
  /\ UNCHANGED <<world, token, widget, click, stored, page, used>>

\* tmp.replace(p) renames whatever the .tmp name stands for by now; another handler
\* may have taken it away, and then the request fails.
PutReplace(r) ==
  /\ At(r, "renaming")
  /\ IF disk.tmp = 0 THEN Close(r, "error", {"answer"}) /\ UNCHANGED disk
     ELSE Move(r, "inserting") /\ disk' = [disk EXCEPT !.final = disk.tmp, !.tmp = 0,
                                                             !.whole = @ \ ({disk.final} \ {disk.tmp})]
  /\ UNCHANGED <<world, token, widget, click, stored, page, used>>

New(r) == [no |-> request[r].n, id |-> r[1]]

\* Mistake: uq_attempt is missing.
SameId(a, b) == a.id = b.id

\* uq_attempt and uq_client_submission.
SameKey(a, b) == a.no = b.no \/ a.id = b.id

Uncommitted == {q \in Request : At(q, "closing") /\ "commit" \in request[q].left}

\* Mistake: a full queue is emptied.
PublishedAfresh ==
  [page EXCEPT !.inbox = IF ~page.linked THEN 0 ELSE IF @ < MaxInbox THEN @ + 1 ELSE 0,
               !.announced = stored, !.behind = @ \/ ~page.linked]

\* bus.publish: a full queue drops the event; a page that is not subscribed is not told.
Published ==
  [page EXCEPT !.inbox = IF page.linked /\ @ < MaxInbox THEN @ + 1 ELSE @,
               !.announced = stored, !.behind = @ \/ ~page.linked]

\* The page's connection is gone, and its queue with it.
Unlinked == [page EXCEPT !.linked = FALSE, !.inbox = 0, !.behind = @ \/ page.inbox > 0]

\* IntegrityError: a 500, and the transaction is rolled back.
Rejected(r) == Close(r, "error", {"answer"})

\* The submission and its runs are inserted and the event published. An open
\* transaction with the same key is waited for; a committed one is a 500.
Insert(r) ==
  /\ At(r, "inserting")
  /\ \A q \in Uncommitted : ~SameKey(New(q), New(r))
  /\ IF \E a \in stored : SameKey(a, New(r))
     THEN Rejected(r) /\ UNCHANGED page
     ELSE Close(r, "created", {"commit", "answer"}) /\ page' = Published
  /\ UNCHANGED <<world, token, widget, click, stored, disk, used>>

Commit(r) ==
  /\ At(r, "closing") /\ "commit" \in request[r].left
  /\ stored' = stored \cup {New(r)}
  /\ Left(r, "commit")
  /\ UNCHANGED <<world, token, widget, click, disk, page, used>>

\* The answer of the sending the browser waits for, as submit() takes it. A 401
\* forgets the token.
Heard(r) ==
  LET c == r[1]
  IN  IF request[r].code \in {"created", "duplicate"}
      THEN /\ click' = [click EXCEPT ![c].pc = "polling", ![c].cred = "none",
                                           ![c].shown = New(r)]
           /\ UNCHANGED <<token, widget>>
      ELSE /\ End(c) /\ Enable(c)
           /\ token' = IF request[r].code = "unauthorized" THEN "none" ELSE token

Answer(r) ==
  /\ At(r, "closing") /\ "answer" \in request[r].left
  /\ Left(r, "answer")
  /\ IF click[r[1]].pc = "posting" /\ click[r[1]].copy = r[2] THEN Heard(r)
     ELSE UNCHANGED <<token, widget, click>>
  /\ UNCHANGED <<world, stored, disk, page, used>>

\* The API process dies: open transactions are rolled back, files stay as they are,
\* queued events are gone. The clicks it served find their connection broken.
Kill ==
  LET dead == {r \in Request : request[r].pc \notin {"none", "sent", "gone", "done"}}
  IN  /\ used.kills < MaxKills /\ dead # {}
      /\ request' = [r \in Request |->
           IF r \in dead THEN [Unsent EXCEPT !.pc = "gone"] ELSE request[r]]
      /\ page' = Unlinked
      /\ used' = [used EXCEPT !.kills = @ + 1]
      /\ UNCHANGED <<world, token, widget, click, stored, disk>>

-----------------------------------------------------------------------------
(* The grading page.                                                       *)

\* The page subscribes when it has loaded, and again when its connection was lost; it does
\* not fetch for that.
Connect ==
  /\ ~page.linked /\ page' = [page EXCEPT !.linked = TRUE]
  /\ UNCHANGED <<world, token, widget, click, request, stored, disk, used>>

Drop ==
  /\ page.linked /\ used.drops < MaxDrops
  /\ page' = Unlinked /\ used' = [used EXCEPT !.drops = @ + 1]
  /\ UNCHANGED <<world, token, widget, click, request, stored, disk>>

\* mergeQueue on an event: what is new is added to what the page has.  (Of the events that
\* are queued each leads to a fetch; here the last of them.)
Refetch ==
  /\ page.inbox > 0
  /\ page' = [page EXCEPT !.inbox = 0, !.shows = @ \cup stored, !.behind = FALSE]
  /\ UNCHANGED <<world, token, widget, click, request, stored, disk, used>>

\* A fetch that fails is not repeated: "keep working with what we have".
RefetchFails ==
  /\ page.inbox > 0 /\ used.drops < MaxDrops
  /\ page' = [page EXCEPT !.inbox = 0, !.behind = TRUE]
  /\ used' = [used EXCEPT !.drops = @ + 1]
  /\ UNCHANGED <<world, token, widget, click, request, stored, disk>>

Tick ==
  /\ clock < MaxTime /\ clock' = clock + 1
  /\ UNCHANGED <<settings, submitter, token, widget, click, request, stored, disk, page, used>>

Serve(r) ==
  \/ Look(r) \/ Admit(r) \/ PutCheck(r) \/ PutOpen(r) \/ PutWrite(r) \/ PutReplace(r)
  \/ Insert(r) \/ Commit(r) \/ Answer(r)

Next ==
  \/ \E c \in Click : PressSubmit(c) \/ SignedIn(c) \/ CannotCollect(c) \/ Post(c)
                      \/ StopPolling(c) \/ Break(c)
  \/ PressSignIn \/ Rerender \/ TokenExpires
  \/ \E r \in Request : Serve(r)
  \/ Kill \/ Connect \/ Drop \/ Refetch \/ RefetchFails \/ Tick

Spec == Init /\ [][Next]_vars

\* The browser's and the server's steps are taken, a dead connection is noticed. Nobody
\* has to press a button, a connection need not break, time may stand still.
Fairness ==
  /\ \A c \in Click : /\ WF_vars(Post(c) \/ CannotCollect(c)) /\ WF_vars(StopPolling(c))
                      /\ WF_vars(Break(c) /\ At(<<c, click[c].copy>>, "gone"))
  /\ \A r \in Request : WF_vars(Serve(r))
  /\ WF_vars(Refetch)

FairSpec == Spec /\ Fairness

-----------------------------------------------------------------------------
(* Properties.                                                             *)

TypeOK ==
  /\ settings \in Settings /\ submitter \in Submitter /\ clock \in 0..MaxTime
  /\ token \in {"none", "live", "expired"}
  /\ widget \in [view : View, disabled : BOOLEAN, flows : 0..2]
  /\ click \in [Click -> [pc : {"unused", "collecting", "posting", "polling", "ended"},
                          view : View, cred : {"none", "live", "expired"}, copy : {1, 2},
                          shown : Attempt \cup {None}]]
  /\ request \in [Request -> [pc : {"none", "sent", "admitting", "storing", "opening", "writing",
                                    "renaming", "inserting", "closing", "done", "gone"},
                              n : 0..(2 * MaxClicks), fd : Inode \cup {0}, code : Code,
                              left : SUBSET {"commit", "answer"}]]
  /\ stored \subseteq Attempt
  /\ disk \in [tmp : Inode \cup {0}, final : Inode \cup {0}, whole : SUBSET Inode]
  /\ page \in PageOver(stored)
  /\ used \in [posts : 0..MaxPosts, kills : 0..MaxKills, drops : 0..MaxDrops]

\* The attempts of a student on a question are numbered 1, 2, 3, ... although two
\* requests may count the same attempts before either inserts its own.
NumberedWithoutGaps == {a.no : a \in stored} = 1..Cardinality(stored)

\* Requests that count side by side cannot make more attempts than are allowed.
LimitHolds == settings.attempts_allowed # None => Cardinality(stored) <= settings.attempts_allowed

\* A request sent twice makes one attempt, whether the second sending arrives after
\* the first, or between any two statements of the handler that serves it.
OneAttemptPerId == \A a, b \in stored : a.id = b.id => a = b

\* The attempts are counted right, though nothing locks what is counted.
AttemptsAreCounted == TypeOK /\ NumberedWithoutGaps /\ LimitHolds /\ OneAttemptPerId

\* While no process is killed the file of a stored attempt has all its bytes, or a
\* handler that opened the same file is about to write them: two handlers that store
\* the same notebook share one .tmp file.
BytesWhole ==
  used.kills = 0 /\ stored # {} =>
    /\ disk.final # 0
    /\ disk.final \in disk.whole
       \/ \E r \in Request : At(r, "writing") /\ request[r].fd = disk.final

\* While no process is killed, an attempt the widget shows is stored or is about to be.
ShownIsStored ==
  used.kills = 0 =>
    \A c \in Click : click[c].shown # None =>
      click[c].shown \in stored \/ \E q \in Uncommitted : New(q) = click[c].shown

\* What the student is shown as handed in is kept, with its notebook.
ShownIsKept == BytesWhole /\ ShownIsStored

\* A page without queued events shows every attempt committed before an event was last
\* published, unless an event was lost since its last fetch: one published while the page was
\* not connected, one queued when its connection or the process ended, or one whose fetch
\* failed.  An event dropped by a full queue ("client will refetch") is none of these, and the
\* next event that arrives heals the others.
PageShowsTheAnnounced ==
  page.inbox = 0 /\ ~page.behind => page.announced \subseteq page.shows

\* The Submit button comes back after every press, whatever happens to the request.
ButtonReturns == widget.disabled ~> ~widget.disabled

\* life-of-a-submission.md, At the API: a retry or a double-click returns the original
\* attempt rather than making a second. Here: not both a click whose answer was lost
\* and the click that repeats it make an attempt.
RetryMakesNoSecond ==
  \A c, d \in Click :
    c < d /\ click[c].pc = "ended" /\ click[c].shown = None =>
      ~({c, d} \subseteq {a.id : a \in stored})

\* life-of-a-submission.md, At the API: the event makes open grading pages update
\* themselves. Here: an open page comes to show every stored attempt.
PageUpdatesItself ==
  \A c \in Click : (\E a \in stored : a.id = c) ~> (\E a \in page.shows : a.id = c)
=============================================================================
