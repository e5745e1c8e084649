--------------------------- MODULE DeviceSignIn ---------------------------
(***************************************************************************)
(* How a notebook gets to act for a person: the device codes it polls      *)
(* (api/auth.py, auth/device.py), the widgets of one page with the kernel  *)
(* object behind each (widget.py), and the storage package's own loop      *)
(* (storage/_auth.py).  A person may at any time be signed in to a browser *)
(* (module LoginLinks) and open the page that approves a code.             *)
(*                                                                         *)
(* The widgets of a page share one token; each has a channel to a kernel   *)
(* object of its own, which keeps the token it was sent itself.  Storage   *)
(* acts for the person whose token the sign-in button's object has.        *)
(*                                                                         *)
(* A poll's handler is split where another can come between its read and   *)
(* its commit.  A code's lifetime ends at any moment after it began.  The  *)
(* row of a code nobody polls any more is dropped from the model.          *)
(***************************************************************************)
EXTENDS Naturals, Sequences, FiniteSets

CONSTANTS
  None,
  Person,
  Widget,         \* the widgets of one page
  Button,         \* the sign-in button; the others submit or show feedback
  Flow,           \* sign-ins
  MaxBreaks,      \* bound: polls whose connection breaks
  MaxReruns       \* bound: cells re-run

Poll == Flow \X {1, 2}            \* one poll may still be served while the next is sent
Token(p) == [type |-> "token", value |-> p]
Status(s) == [type |-> "status", value |-> s]
Message == {Token(p) : p \in Person} \cup {Status(s) : s \in {"idle", "approved"}}

ASSUME NoneAssumption == None \notin Person \cup {"sent", "pending", "approved", "expired"}
ASSUME WidgetAssumption == Button \in Widget /\ Widget \cap {"storage", "gone"} = {}
ASSUME BoundAssumption == MaxBreaks \in Nat /\ MaxReruns \in Nat

VARIABLES
  owner,        \* where each sign-in is made: in a widget, by the storage package, or in
                \* a widget whose cell was re-run since
  code,         \* the device code of each flow
  poll,         \* each request to /auth/device/token
  flow,         \* what each sign-in is doing
  browser,      \* the token the widgets share, and the widgets that handed it over
  synced,       \* each widget's synced status; "idle" stands for all but "approved"
  channel,      \* each widget's messages on their way to its kernel object, in order
  kernel,       \* each widget's GraderWidget in the kernel: its token, its status
  restoring,    \* the widgets that hand over a token they found when they were drawn
  used          \* polls that broke, cells that were re-run; the sign-ins that were cut

page == <<browser, synced, channel, kernel, restoring>>
vars == <<owner, code, poll, flow, page, used>>

NoCode == [issued |-> FALSE, user |-> None, approved |-> FALSE, consumed |-> FALSE, expired |-> FALSE]
NoPoll == [status |-> None, user |-> None, left |-> {}]
NoToken == [token |-> None, told |-> {}]
NewKernel == [token |-> None, status |-> "idle"]

\* renderSignin: a token left in localStorage is handed to the button's kernel object.
\* The other widgets hand over nothing when they are drawn.
Drawn(w, p) == IF w = Button /\ p # None THEN <<Token(p)>> ELSE <<>>
Restoring(w, p) == IF w = Button /\ p # None THEN {w} ELSE {}

\* A notebook is opened, with or without a token left in localStorage.
Init ==
  /\ owner \in [Flow -> Widget \cup {"storage"}]
  /\ code = [f \in Flow |-> NoCode]
  /\ poll = [q \in Poll |-> NoPoll]
  /\ flow = [f \in Flow |-> [pc |-> "idle", at |-> 1]]
  /\ \E p \in Person \cup {None} :
       /\ browser = [token |-> p, told |-> Restoring(Button, p)]
       /\ channel = [w \in Widget |-> Drawn(w, p)]
       /\ restoring = Restoring(Button, p)
  /\ synced = [w \in Widget |-> "idle"]
  /\ kernel = [w \in Widget |-> NewKernel]
  /\ used = [breaks |-> 0, reruns |-> 0, cut |-> {}]

-----------------------------------------------------------------------------
(* The device handshake, server side.                                      *)

\* POST /auth/device, for a sign-in that begins.
Issue(f) == code' = [code EXCEPT ![f] = [NoCode EXCEPT !.issued = TRUE]]

CodeExpires(f) ==
  /\ code[f].issued /\ ~code[f].expired
  /\ code' = [code EXCEPT ![f].expired = TRUE]
  /\ UNCHANGED <<owner, poll, flow, page, used>>

Approvable(f) == code[f].issued /\ ~code[f].approved /\ ~code[f].expired

\* GET /auth/device/verify, opened in a browser p is signed in to: device.approve binds
\* the code to p.
Verify(p, f) ==
  /\ Approvable(f)
  /\ code' = [code EXCEPT ![f].user = p, ![f].approved = TRUE]
  /\ UNCHANGED <<owner, poll, flow, page, used>>

Result(s, p, left) == [status |-> s, user |-> p, left |-> left]

\* device.poll.
Outcome(f) ==
  IF code[f].consumed \/ code[f].expired THEN "expired"
  ELSE IF ~code[f].approved THEN "pending" ELSE "approved"

\* The connection of the poll is the one its sign-in waits on.
Heard(q) == flow[q[1]] = [pc |-> "waiting", at |-> q[2]]

\* POST /auth/device/token: an approved code mints a token for its user.
PollRead(q) ==
  LET f == q[1]
      answer == IF Heard(q) THEN {"answer"} ELSE {}
  IN  /\ poll[q].status = "sent"
      /\ IF Outcome(f) = "approved"
         THEN /\ poll' = [poll EXCEPT ![q] = Result("approved", code[f].user, answer \cup {"commit"})]
              /\ used' = [used EXCEPT !.cut = IF Heard(q) THEN @ ELSE @ \cup {f}]
         ELSE /\ poll' = [poll EXCEPT ![q] =
                   IF Heard(q) THEN Result(Outcome(f), None, answer) ELSE NoPoll]
              /\ UNCHANGED used
      /\ UNCHANGED <<owner, code, flow, page>>

\* The poll is over when nothing is left of it.
Left(q, what) ==
  LET rest == poll[q].left \ {what}
  IN  poll' = [poll EXCEPT ![q] = IF rest = {} THEN NoPoll ELSE [@ EXCEPT !.left = rest]]

\* consumed_at becomes visible.
PollCommit(q) ==
  /\ "commit" \in poll[q].left
  /\ Left(q, "commit")
  /\ code' = [code EXCEPT ![q[1]].consumed = code[q[1]].issued]
  /\ UNCHANGED <<owner, flow, page, used>>

-----------------------------------------------------------------------------
(* The sign-ins, and the widgets they are made in.                         *)

\* setStatus: only a changed value is sent to the kernel.
Says(w, s) ==
  IF synced[w] = s THEN UNCHANGED <<synced, channel>>
  ELSE /\ synced' = [synced EXCEPT ![w] = s]
       /\ channel' = [channel EXCEPT ![w] = Append(@, Status(s))]

\* Progress and errors: the sign-in button draws them and syncs none.
Progress(w) == IF w \in Widget \ {Button} THEN Says(w, "idle") ELSE UNCHANGED <<synced, channel>>

Begin(f) ==
  /\ flow[f].pc = "idle"
  /\ flow' = [flow EXCEPT ![f].pc = "polling"]
  /\ Issue(f)

\* "Sign in with Dartmouth" in any widget, also pressed while another sign-in is under way
\* or done elsewhere on the page, and the storage package's signin().
SignIn(f) ==
  /\ Begin(f)
  /\ Progress(owner[f])
  /\ UNCHANGED <<owner, poll, browser, kernel, restoring, used>>

\* "Sign in again", on the button's line of who is signed in: forgetToken(), and a new
\* sign-in.
SignInAgain(f) ==
  /\ owner[f] = Button
  /\ synced[Button] = "approved" \/ Button \in restoring
  /\ Begin(f)
  /\ browser' = NoToken
  /\ Says(Button, "idle")
  /\ UNCHANGED <<owner, poll, kernel, restoring, used>>

\* A sign-in is over; its code is not asked for again.
End(f, how) ==
  /\ flow' = [flow EXCEPT ![f] = [pc |-> how, at |-> 1]]
  /\ code' = [code EXCEPT ![f] = NoCode]

\* The loop goes on while its cell was not re-run (state.alive) and the code's deadline is
\* not reached. Past it: an error; re-run: nothing at all.
GiveUp(f) ==
  /\ flow[f].pc = "polling" /\ (code[f].expired \/ owner[f] = "gone")
  /\ End(f, "failed")
  /\ Progress(owner[f])
  /\ UNCHANGED <<owner, poll, browser, kernel, restoring, used>>

\* Every three seconds; the one before may still be served when its connection broke. A
\* loop that sleeps while its cell is re-run polls once more.
SendPoll(f) ==
  /\ flow[f].pc = "polling"
  /\ \E k \in {1, 2} :
       /\ poll[<<f, k>>] = NoPoll
       /\ poll' = [poll EXCEPT ![<<f, k>>].status = "sent"]
       /\ flow' = [flow EXCEPT ![f] = [pc |-> "waiting", at |-> k]]
  /\ UNCHANGED <<owner, code, page, used>>

\* What a poll leaves when its connection is closed: it had not arrived, or its handler
\* runs on to the commit.
Closed(q) ==
  \/ poll[q].status = "sent" /\ UNCHANGED poll
  \/ poll' = [poll EXCEPT ![q] = IF "commit" \in @.left THEN [@ EXCEPT !.left = {"commit"}]
                                 ELSE NoPoll]

\* The loop is at its condition again.
Loop(f) ==
  IF owner[f] = "gone" THEN End(f, "failed")
  ELSE flow' = [flow EXCEPT ![f].pc = "polling"] /\ UNCHANGED code

\* Mistake: the loop of the widget does not survive a request that failed.
BreakEnds(f) == End(f, "failed")

AfterBreak(f) == IF owner[f] = "storage" THEN End(f, "failed") ELSE Loop(f)

\* A poll's connection breaks, before the request has arrived or while it is served.
\* Status 0: the widget polls on, the storage package gives up.
BreakPoll(f) ==
  LET q == <<f, flow[f].at>>
  IN  /\ flow[f].pc = "waiting" /\ used.breaks < MaxBreaks
      /\ AfterBreak(f)
      /\ Closed(q)
      /\ used' = [used EXCEPT !.breaks = @ + 1,
           !.cut = IF poll[q].status = "approved" \/ owner[f] = "storage" THEN @ \cup {f} ELSE @]
      /\ UNCHANGED <<owner, page>>

\* Any other error, the server's or of something before it, ends the sign-in: the widget
\* shows it and offers no button.
PollError(f) ==
  /\ flow[f].pc = "waiting"
  /\ End(f, "failed")
  /\ Closed(<<f, flow[f].at>>)
  /\ Progress(owner[f])
  /\ used' = [used EXCEPT !.cut = @ \cup {f}]
  /\ UNCHANGED <<owner, browser, kernel, restoring>>

\* rememberToken(), and the first half of handToKernel().
HandOver(w, p) ==
  /\ browser' = [token |-> p, told |-> {w}]
  /\ channel' = [channel EXCEPT ![w] = Append(@, Token(p))]

\* The poll's answer. The storage package keeps the token in its own file; a widget that
\* is gone still shares it with the others, and hands it to a kernel object that is gone.
PollAnswer(q) ==
  LET f == q[1]
  IN  /\ Heard(q) /\ "answer" \in poll[q].left
      /\ Left(q, "answer")
      /\ \/ poll[q].status = "pending" /\ Loop(f) /\ UNCHANGED <<browser, synced, channel>>
         \/ /\ poll[q].status = "expired"
            /\ End(f, "failed") /\ Progress(owner[f]) /\ UNCHANGED browser
         \/ /\ poll[q].status = "approved" /\ owner[f] \in Widget
            /\ End(f, "handing") /\ HandOver(owner[f], poll[q].user) /\ UNCHANGED synced
         \/ /\ poll[q].status = "approved" /\ owner[f] = "gone"
            /\ End(f, "signed_in")
            /\ browser' = [token |-> poll[q].user, told |-> {}] /\ UNCHANGED <<synced, channel>>
         \/ /\ poll[q].status = "approved" /\ owner[f] = "storage"
            /\ End(f, "signed_in") /\ UNCHANGED <<browser, synced, channel>>
      /\ UNCHANGED <<owner, kernel, restoring, used>>

\* The second half: a token-ok from the kernel, whichever token it was for, or three
\* seconds without one.
Approved(f) ==
  /\ flow[f].pc = "handing"
  /\ flow' = [flow EXCEPT ![f].pc = "signed_in"]
  /\ IF owner[f] \in Widget THEN Says(owner[f], "approved") ELSE UNCHANGED <<synced, channel>>
  /\ UNCHANGED <<owner, code, poll, browser, kernel, restoring, used>>

\* The same for a token that was there when the widget was drawn.
Restored(w) ==
  /\ w \in restoring
  /\ restoring' = restoring \ {w}
  /\ Says(w, "approved")
  /\ UNCHANGED <<owner, code, poll, flow, browser, kernel, used>>

\* A submit or feedback widget asks the server for something; answered 401 it forgets the
\* page's token, also one that is newer than the one it asked with. The sign-in button is
\* not told.
Uses(w) ==
  /\ w # Button /\ browser.token # None
  /\ browser' \in {browser, NoToken}
  /\ Says(w, "idle")
  /\ UNCHANGED <<owner, code, poll, flow, kernel, restoring, used>>

\* The widget's cell is re-run: a new kernel object, and a new widget in the page. What
\* the old one was waiting for finds it gone.
Rerun(w) ==
  LET of == {f \in Flow : owner[f] = w /\ flow[f].pc # "idle"}
  IN  /\ used.reruns < MaxReruns
      /\ owner' = [f \in Flow |-> IF f \in of THEN "gone" ELSE owner[f]]
      /\ browser' = [browser EXCEPT !.told = (@ \ {w}) \cup Restoring(w, browser.token)]
      /\ synced' = [synced EXCEPT ![w] = "idle"]
      /\ channel' = [channel EXCEPT ![w] = Drawn(w, browser.token)]
      /\ kernel' = [kernel EXCEPT ![w] = NewKernel]
      /\ restoring' = (restoring \ {w}) \cup Restoring(w, browser.token)
      /\ used' = [used EXCEPT !.reruns = @ + 1,
                              !.cut = @ \cup {f \in of : flow[f].pc \in {"polling", "waiting"}}]
      /\ UNCHANGED <<code, poll, flow>>

\* Mistake: the kernel keeps the first token it was given.
KeptFirst(w, t) == IF kernel[w].token = None THEN t ELSE kernel[w].token

TokenOf(w, t) == t

\* A kernel object takes the next message of its widget.
KernelStep(w) ==
  LET m == Head(channel[w])
  IN  /\ channel[w] # <<>>
      /\ channel' = [channel EXCEPT ![w] = Tail(@)]
      /\ kernel' = IF m.type = "token" THEN [kernel EXCEPT ![w].token = TokenOf(w, m.value)]
                   ELSE [kernel EXCEPT ![w].status = m.value]
      /\ UNCHANGED <<owner, code, poll, flow, browser, synced, restoring, used>>

-----------------------------------------------------------------------------
Next ==
  \/ \E f \in Flow : \/ SignIn(f) \/ SignInAgain(f) \/ GiveUp(f) \/ Approved(f)
                     \/ SendPoll(f) \/ BreakPoll(f) \/ PollError(f)
                     \/ CodeExpires(f) \/ \E p \in Person : Verify(p, f)
  \/ \E q \in Poll : PollRead(q) \/ PollCommit(q) \/ PollAnswer(q)
  \/ \E w \in Widget : Restored(w) \/ Uses(w) \/ Rerun(w) \/ KernelStep(w)

Spec == Init /\ [][Next]_vars

\* The loops poll, handlers that were begun end, the kernel takes its messages. Nobody
\* need press or approve anything.
Fairness ==
  /\ \A f \in Flow : WF_vars(SendPoll(f)) /\ WF_vars(GiveUp(f)) /\ WF_vars(Approved(f))
  /\ \A q \in Poll : WF_vars(PollRead(q)) /\ WF_vars(PollCommit(q)) /\ WF_vars(PollAnswer(q))
  /\ \A w \in Widget : WF_vars(Restored(w)) /\ WF_vars(KernelStep(w))

FairSpec == Spec /\ Fairness

-----------------------------------------------------------------------------
(* Properties.                                                             *)

TypeOK ==
  /\ owner \in [Flow -> Widget \cup {"storage", "gone"}]
  /\ code \in [Flow -> [issued : BOOLEAN, user : Person \cup {None}, approved : BOOLEAN,
                        consumed : BOOLEAN, expired : BOOLEAN]]
  /\ poll \in [Poll -> [status : {None, "sent", "pending", "approved", "expired"},
                        user : Person \cup {None}, left : SUBSET {"commit", "answer"}]]
  /\ flow \in [Flow -> [pc : {"idle", "polling", "waiting", "handing", "signed_in", "failed"},
                        at : {1, 2}]]
  /\ browser \in [token : Person \cup {None}, told : SUBSET Widget]
  /\ synced \in [Widget -> {"idle", "approved"}]
  /\ channel \in [Widget -> Seq(Message)]
  /\ kernel \in [Widget -> [token : Person \cup {None}, status : {"idle", "approved"}]]
  /\ restoring \subseteq Widget
  /\ used \in [breaks : 0..MaxBreaks, reruns : 0..MaxReruns, cut : SUBSET Flow]

\* The reason widget.py gives for the order of handToKernel: when the kernel learns that
\* a widget is approved, its object there has a token.
KernelFindsToken == \A w \in Widget : kernel[w].status = "approved" => kernel[w].token # None

\* The widget that the page's token was obtained in, and the button drawn after that, have
\* told the kernel: once its messages are read, its object there acts for the person the
\* page acts for, also after several sign-ins here and elsewhere on the page. (The button
\* is not told of a sign-in made in another widget: storage goes on for the person before.)
KernelAgrees ==
  \A w \in browser.told : channel[w] = <<>> => kernel[w].token = browser.token

\* The kernel acts for the person the page acts for.
KernelFollowsPage == TypeOK /\ KernelFindsToken /\ KernelAgrees

\* A code that was approved signs its notebook in, unless its lifetime ends or the sign-in
\* is cut: an answer was lost on the way (a poll spends the code before its answer has
\* arrived), a poll was answered with an error, the widget's cell was re-run meanwhile or,
\* in the storage package, any poll broke.
ApprovalArrives ==
  \A f \in Flow :
    code[f].approved ~> (flow[f].pc = "signed_in" \/ code[f].expired \/ f \in used.cut)
=============================================================================
