--------------------------- MODULE ServiceProofs ---------------------------
(***************************************************************************)
(* Results on the services the grading rests on, for any number of         *)
(* persons, sign-ins, links, notebooks, attempts and data.                 *)
(*                                                                         *)
(* Links: a person who does not ask twice at once is sent at most the      *)
(* day's allowance of mails, and one more for each request that died after *)
(* its mail; a link that is not opened twice at once signs in once.  What  *)
(* that rests on: between the count and the commit of a request no other   *)
(* request of the person counts, and a link that signed somebody in is     *)
(* never live again.                                                       *)
(*                                                                         *)
(* Devices: once it has read its messages, the kernel object of a widget   *)
(* that handed over the page's token acts for the person the page acts     *)
(* for.  What that rests on: the last token on its way to that object, or  *)
(* the object's when none is, is the page's; and no word of an approval    *)
(* overtakes the token it is about.                                        *)
(*                                                                         *)
(* The graders' machine: a notebook runs in a whole environment, an outage *)
(* is no score, staff are told the truth of a failure, and data that can   *)
(* be had is had.  What that rests on: a failed attempt's error is the     *)
(* verdict of the run that graded it last (Verdict), a run that began in a *)
(* warm cache reaches all that was warmed, a rendered page has downloaded  *)
(* its datasets, and a process builds an environment no other one uses.    *)
(***************************************************************************)
EXTENDS DeviceSignIn, LoginLinks, Execution, TLAPS, FiniteSetTheorems, SequenceTheorems

-----------------------------------------------------------------------------
(* The links: the inductive invariant.                                     *)

Outstanding(p) == {l \in MailLinks(p) : Stored(l) \/ InFlight(l)}

\* The count a request decides by, with those not yet committed.
AllowanceKept == \A p \in User \ overlap : Cardinality(Outstanding(p)) <= MaxPerDay

MailLinksAreFinite == \A p \in User : IsFiniteSet(MailLinks(p))

\* Requests of one person are served one after the other.
OneInFlight ==
  \A p \in User \ overlap : \A k, l \in MailLinks(p) : InFlight(k) /\ InFlight(l) => k = l

\* A link is minted for somebody enrolled; before that it is nobody's.
MintedForAUser ==
  \A l \in Link : /\ InFlight(l) => link[l].for \in User
                  /\ link[l].status = "none" => link[l].for = NoOne

\* A mail that has left is in "sent", also before its row is committed.
MailedAreSent ==
  \A l \in Link : link[l].kind = "mail" /\ (Stored(l) \/ link[l].status = "mailed") => l \in sent

\* The row a visit has read is there; the link of one that signed in is spent.
VisitsFindTheirLink ==
  \A v \in Visit : /\ visit[v] = "read" => Stored(v[1])
                   /\ visit[v] = "signed_in" => link[v[1]].status = "used"

\* Two visits that both found the link live overlapped.
TwoVisitsOverlap ==
  \A v, w \in Visit : v[1] = w[1] /\ v # w /\ visit[v] # "none" /\ visit[w] # "none"
                        => v[1] \in overlap

LinksInv ==
  /\ LinksTypeOK /\ MintedForAUser /\ MailLinksAreFinite /\ OneInFlight /\ AllowanceKept
  /\ MailedAreSent /\ VisitsFindTheirLink /\ TwoVisitsOverlap

-----------------------------------------------------------------------------
(* The devices: the inductive invariant.                                   *)

KernelState == [token : Person \cup {None}, status : {"idle", "approved"}]

\* The places in a channel a token travels at.
TokenAt(ch) == {i \in 1..Len(ch) : ch[i].type = "token"}

\* The last token the kernel object was sent is p's.
LastTokenIs(p, ch, k) ==
  IF TokenAt(ch) = {} THEN k.token = p
  ELSE \E i \in TokenAt(ch) : ch[i].value = p /\ \A j \in TokenAt(ch) : j <= i

\* The kernel object has a token, or one is on its way.
HasToken(ch, k) == k.token # None \/ TokenAt(ch) # {}

\* A token precedes every approval in the channel.
TokenComesFirst(ch, k) ==
  k.token = None =>
    /\ k.status = "idle"
    /\ \A i \in 1..Len(ch) :
         ch[i].type = "status" /\ ch[i].value = "approved" => \E j \in TokenAt(ch) : j < i

\* An approval of the widget is still to come.
Handing(w) == w \in restoring \/ \E f \in Flow : owner[f] = w /\ flow[f].pc = "handing"

\* What a widget has told its kernel object.
WidgetInv(w) ==
  /\ w \in browser.told =>
       browser.token # None /\ LastTokenIs(browser.token, channel[w], kernel[w])
  /\ TokenComesFirst(channel[w], kernel[w])
  /\ Handing(w) => HasToken(channel[w], kernel[w])

\* An approved code, and a poll that minted a token for it, name a person.
ApprovalsNameAPerson ==
  /\ \A f \in Flow : code[f].approved => code[f].user \in Person
  /\ \A q \in Poll : poll[q].status = "approved" => poll[q].user \in Person

DeviceInv == TypeOK /\ ApprovalsNameAPerson /\ \A w \in Widget : WidgetInv(w)
-----------------------------------------------------------------------------
(* The links: the proofs.                                                  *)

USE DEF Visit, NoLink, Spent, RolledBack, Stored, InFlight

\* Nothing counts before the first request.
LEMMA LinksInvStarts == LinksInit => LinksInv
<1> SUFFICES ASSUME LinksInit PROVE LinksInv
  OBVIOUS
<1>1. \A p \in User : MailLinks(p) = {}
  BY NoOneAssumption DEF LinksInit, MailLinks
<1>2. MailLinksAreFinite
  BY <1>1, FS_EmptySet DEF MailLinksAreFinite
<1>3. AllowanceKept
  <2> SUFFICES ASSUME NEW p \in User PROVE Cardinality(Outstanding(p)) <= MaxPerDay
    BY DEF AllowanceKept
  <2>1. Outstanding(p) = {}
    BY <1>1 DEF Outstanding
  <2> QED BY <2>1, FS_EmptySet, DayAssumption
<1>4. LinksTypeOK /\ MintedForAUser /\ OneInFlight /\ MailedAreSent /\ VisitsFindTheirLink /\ TwoVisitsOverlap
  BY <1>1 DEF LinksInit, LinksTypeOK, MintedForAUser, OneInFlight, MailedAreSent, VisitsFindTheirLink, TwoVisitsOverlap
<1> QED BY <1>2, <1>3, <1>4 DEF LinksInv

\* Links stay links, and one that is being minted is for somebody enrolled.
LEMMA LinksTypeOKStep ==
  ASSUME LinksInv, [LinksNext]_linkVars
  PROVE  LinksTypeOK' /\ MintedForAUser'
<1> USE DEF LinksInv, LinksTypeOK, MintedForAUser
<1>1. ASSUME NEW l \in Link, NEW p \in User, EmailLogin(p, l) \/ MintLoginLink(p, l)
      PROVE  LinksTypeOK' /\ MintedForAUser'
  BY <1>1 DEF EmailLogin, MintLoginLink
<1>2. ASSUME NEW l \in Link,
             SendMail(l) \/ MailFails(l) \/ EmailCommit(l) \/ EmailDies(l) \/ LinkExpires(l)
      PROVE  LinksTypeOK' /\ MintedForAUser'
  <2>1. CASE SendMail(l)
    BY <2>1 DEF SendMail
  <2>2. CASE MailFails(l)
    BY <2>2 DEF MailFails
  <2>3. CASE EmailCommit(l)
    BY <2>3 DEF EmailCommit
  <2>4. CASE EmailDies(l)
    BY <2>4 DEF EmailDies
  <2>5. CASE LinkExpires(l)
    BY <2>5 DEF LinkExpires
  <2> QED BY <1>2, <2>1, <2>2, <2>3, <2>4, <2>5
<1>3. ASSUME NEW v \in Visit, ExchangeRead(v) PROVE LinksTypeOK' /\ MintedForAUser'
  BY <1>3 DEF ExchangeRead
<1>4. ASSUME NEW v \in Visit, ExchangeCommit(v) PROVE LinksTypeOK' /\ MintedForAUser'
  BY <1>4 DEF ExchangeCommit, VisitsFindTheirLink
<1>5. CASE UNCHANGED linkVars
  BY <1>5 DEF linkVars
<1> QED BY <1>1, <1>2, <1>3, <1>4, <1>5 DEF LinksNext

\* Apart from a request that begins, a step leaves a person no link that did not count
\* or was not in flight before; no person is taken out of "overlap".
LEMMA OnlyRequestsCount ==
  ASSUME LinksInv, NEW p \in User,
         \/ \E l \in Link, q \in User : MintLoginLink(q, l) \/ (EmailLogin(q, l) /\ q # p)
         \/ \E l \in Link : SendMail(l) \/ MailFails(l) \/ EmailCommit(l) \/ EmailDies(l) \/ LinkExpires(l)
         \/ \E v \in Visit : ExchangeRead(v) \/ ExchangeCommit(v)
         \/ UNCHANGED linkVars
  PROVE  /\ MailLinks(p)' \subseteq MailLinks(p)
         /\ Outstanding(p)' \subseteq Outstanding(p)
         /\ \A l \in MailLinks(p)' : InFlight(l)' => InFlight(l)
         /\ overlap \subseteq overlap'
<1> DEFINE Kept(k) ==
             link'[k].for = p /\ link'[k].kind = "mail" =>
               /\ link[k].for = p /\ link[k].kind = "mail"
               /\ InFlight(k)' => InFlight(k)
               /\ Stored(k)' => Stored(k) \/ InFlight(k)
<1>0. LinksTypeOK
  BY DEF LinksInv
<1>1. ASSUME NEW l \in Link, NEW q \in User, MintLoginLink(q, l) \/ (EmailLogin(q, l) /\ q # p)
      PROVE  (\A k \in Link : Kept(k)) /\ overlap \subseteq overlap'
  <2>1. CASE MintLoginLink(q, l)
    BY <1>0, <2>1 DEF LinksTypeOK, MintLoginLink
  <2>2. CASE EmailLogin(q, l) /\ q # p
    <3>1. link' = [link EXCEPT ![l] = [for |-> q, kind |-> "mail", status |-> "counted"]]
      BY <2>2 DEF EmailLogin
    <3>2. \A k \in Link : Kept(k)
      BY <1>0, <2>2, <3>1 DEF LinksTypeOK
    <3>3. overlap \subseteq overlap'
      BY <2>2 DEF EmailLogin
    <3> QED BY <3>2, <3>3
  <2> QED BY <1>1, <2>1, <2>2
<1>2. ASSUME NEW l \in Link,
             SendMail(l) \/ MailFails(l) \/ EmailCommit(l) \/ EmailDies(l) \/ LinkExpires(l)
      PROVE  (\A k \in Link : Kept(k)) /\ overlap \subseteq overlap'
  <2>1. CASE MailFails(l)
    <3>1. link'[l].for = NoOne /\ \A k \in Link \ {l} : link'[k] = link[k]
      BY <1>0, <2>1 DEF LinksTypeOK, MailFails
    <3> QED BY <2>1, <3>1, NoOneAssumption DEF MailFails
  <2>2. CASE SendMail(l) \/ EmailCommit(l) \/ EmailDies(l) \/ LinkExpires(l)
    BY <1>0, <2>2 DEF LinksTypeOK, SendMail, EmailCommit, EmailDies, LinkExpires
  <2> QED BY <1>2, <2>1, <2>2
<1>3. ASSUME NEW v \in Visit, ExchangeRead(v)
      PROVE  (\A k \in Link : Kept(k)) /\ overlap \subseteq overlap'
  BY <1>0, <1>3 DEF ExchangeRead
<1>4. ASSUME NEW v \in Visit, ExchangeCommit(v)
      PROVE  (\A k \in Link : Kept(k)) /\ overlap \subseteq overlap'
  <2>1. Stored(v[1]) /\ v[1] \in Link
    BY <1>4 DEF LinksInv, ExchangeCommit, VisitsFindTheirLink
  <2> QED BY <1>0, <1>4, <2>1 DEF LinksTypeOK, ExchangeCommit
<1>5. ASSUME UNCHANGED linkVars
      PROVE  (\A k \in Link : Kept(k)) /\ overlap \subseteq overlap'
  BY <1>5 DEF linkVars
<1>6. (\A k \in Link : Kept(k)) /\ overlap \subseteq overlap'
  BY <1>1, <1>2, <1>3, <1>4, <1>5
<1> QED BY <1>6 DEF MailLinks, Outstanding

\* A request that begins adds one link, in flight; where another of its person is in
\* flight, the person is in "overlap".
LEMMA ARequestCounts ==
  ASSUME LinksInv, NEW p \in User, NEW l \in Link, EmailLogin(p, l)
  PROVE  /\ MailLinks(p)' = MailLinks(p) \cup {l}
         /\ Outstanding(p)' = Outstanding(p) \cup {l}
         /\ \A k \in Link \ {l} : InFlight(k)' => InFlight(k)
         /\ overlap \subseteq overlap'
         /\ p \notin overlap' => \A k \in MailLinks(p) : ~InFlight(k)
         /\ Cardinality(Recent(p)) < MaxPerDay
BY DEF LinksInv, LinksTypeOK, MailLinks, Outstanding, EmailLogin

\* Either a request of p begins, or OnlyRequestsCount's cases.
LEMMA RequestOrNot ==
  ASSUME [LinksNext]_linkVars, NEW p \in User
  PROVE  \/ \E l \in Link : EmailLogin(p, l)
         \/ \E l \in Link, q \in User : MintLoginLink(q, l) \/ (EmailLogin(q, l) /\ q # p)
         \/ \E l \in Link : SendMail(l) \/ MailFails(l) \/ EmailCommit(l) \/ EmailDies(l) \/ LinkExpires(l)
         \/ \E v \in Visit : ExchangeRead(v) \/ ExchangeCommit(v)
         \/ UNCHANGED linkVars
BY DEF LinksNext

\* One more element makes a finite set larger by one at most.
LEMMA OneMore ==
  ASSUME NEW S, NEW x, IsFiniteSet(S)
  PROVE  /\ IsFiniteSet(S \cup {x})
         /\ Cardinality(S) \in Nat /\ Cardinality(S \cup {x}) \in Nat
         /\ Cardinality(S \cup {x}) <= Cardinality(S) + 1
<1>1. /\ IsFiniteSet(S \cup {x})
      /\ Cardinality(S \cup {x}) = IF x \in S THEN Cardinality(S) ELSE Cardinality(S) + 1
  BY FS_AddElement, Zenon
<1>2. Cardinality(S) \in Nat
  BY FS_CardinalityType
<1> QED BY <1>1, <1>2

\* The allowance, with what it rests on: the links are finitely many, and the count a
\* request decides by misses none but those of an overlapping request.
LEMMA AllowanceStep ==
  ASSUME LinksInv, [LinksNext]_linkVars
  PROVE  MailLinksAreFinite' /\ OneInFlight' /\ AllowanceKept'
<1> SUFFICES ASSUME NEW p \in User
    PROVE  /\ IsFiniteSet(MailLinks(p)')
           /\ p \notin overlap' =>
                /\ \A k, l \in MailLinks(p)' : InFlight(k)' /\ InFlight(l)' => k = l
                /\ Cardinality(Outstanding(p)') <= MaxPerDay
  BY DEF MailLinksAreFinite, OneInFlight, AllowanceKept, Outstanding
<1>1. IsFiniteSet(MailLinks(p))
  BY DEF LinksInv, MailLinksAreFinite
<1>2. IsFiniteSet(Outstanding(p))
  BY <1>1, FS_Subset DEF Outstanding
<1>3. CASE \E l \in Link : EmailLogin(p, l)
  <2>1. PICK l \in Link : EmailLogin(p, l)
    BY <1>3
  <2>2. /\ MailLinks(p)' = MailLinks(p) \cup {l}
        /\ Outstanding(p)' = Outstanding(p) \cup {l}
        /\ \A k \in Link \ {l} : InFlight(k)' => InFlight(k)
        /\ overlap \subseteq overlap'
        /\ p \notin overlap' => \A k \in MailLinks(p) : ~InFlight(k)
        /\ Cardinality(Recent(p)) < MaxPerDay
    BY <2>1, ARequestCounts
  <2>3. IsFiniteSet(MailLinks(p)')
    BY <1>1, <2>2, FS_AddElement
  <2>4. ASSUME p \notin overlap'
        PROVE  Cardinality(Outstanding(p)') <= MaxPerDay
    <3>1. Outstanding(p) = Recent(p)
      BY <2>2, <2>4 DEF Outstanding, Recent
    <3>2. /\ Cardinality(Outstanding(p)') <= Cardinality(Outstanding(p)) + 1
          /\ IsFiniteSet(Outstanding(p)')
      <4>1. /\ Cardinality(Outstanding(p) \cup {l}) <= Cardinality(Outstanding(p)) + 1
            /\ IsFiniteSet(Outstanding(p) \cup {l})
        BY <1>2, OneMore
      <4> QED BY <2>2, <4>1, Zenon
    <3> QED BY <1>2, <2>2, <3>1, <3>2, FS_CardinalityType, DayAssumption
  <2>5. ASSUME p \notin overlap'
        PROVE  \A k, m \in MailLinks(p)' : InFlight(k)' /\ InFlight(m)' => k = m
    <3>1. MailLinks(p) \subseteq Link
      BY DEF MailLinks
    <3> QED BY <2>2, <2>5, <3>1
  <2> QED BY <2>3, <2>4, <2>5
<1>4. CASE ~\E l \in Link : EmailLogin(p, l)
  <2>1. /\ MailLinks(p)' \subseteq MailLinks(p)
        /\ Outstanding(p)' \subseteq Outstanding(p)
        /\ \A l \in MailLinks(p)' : InFlight(l)' => InFlight(l)
        /\ overlap \subseteq overlap'
    BY <1>4, RequestOrNot, OnlyRequestsCount
  <2>2. IsFiniteSet(MailLinks(p)')
    BY <1>1, <2>1, FS_Subset
  <2>3. ASSUME p \notin overlap'
        PROVE  Cardinality(Outstanding(p)') <= MaxPerDay
    <3>1. Cardinality(Outstanding(p)) <= MaxPerDay
      BY <2>1, <2>3 DEF LinksInv, AllowanceKept, Outstanding
    <3>2. /\ Cardinality(Outstanding(p)') <= Cardinality(Outstanding(p))
          /\ IsFiniteSet(Outstanding(p)')
      BY <1>2, <2>1, FS_Subset
    <3> QED BY <1>2, <3>1, <3>2, FS_CardinalityType, DayAssumption
  <2>4. ASSUME p \notin overlap'
        PROVE  \A k, l \in MailLinks(p)' : InFlight(k)' /\ InFlight(l)' => k = l
    BY <2>1, <2>4 DEF LinksInv, OneInFlight
  <2> QED BY <2>2, <2>3, <2>4
<1> QED BY <1>3, <1>4

\* A mail that left stays among those sent.
LEMMA MailedAreSentStep ==
  ASSUME LinksInv, [LinksNext]_linkVars
  PROVE  MailedAreSent'
<1> USE DEF LinksInv, LinksTypeOK, MailedAreSent
<1>1. ASSUME NEW l \in Link, NEW p \in User, EmailLogin(p, l) \/ MintLoginLink(p, l)
      PROVE  MailedAreSent'
  BY <1>1 DEF EmailLogin, MintLoginLink
<1>2. ASSUME NEW l \in Link,
             SendMail(l) \/ MailFails(l) \/ EmailCommit(l) \/ EmailDies(l) \/ LinkExpires(l)
      PROVE  MailedAreSent'
  BY <1>2 DEF SendMail, MailFails, EmailCommit, EmailDies, LinkExpires
<1>3. ASSUME NEW v \in Visit, ExchangeRead(v) PROVE MailedAreSent'
  BY <1>3 DEF ExchangeRead
<1>4. ASSUME NEW v \in Visit, ExchangeCommit(v) PROVE MailedAreSent'
  <2>1. Stored(v[1]) /\ v[1] \in Link
    BY <1>4 DEF ExchangeCommit, VisitsFindTheirLink
  <2> QED BY <1>4, <2>1 DEF ExchangeCommit
<1>5. CASE UNCHANGED linkVars
  BY <1>5 DEF linkVars
<1> QED BY <1>1, <1>2, <1>3, <1>4, <1>5 DEF LinksNext

\* A row that can be visited is never rolled back, and one that is spent stays so.
LEMMA VisitsFindTheirLinkStep ==
  ASSUME LinksInv, [LinksNext]_linkVars
  PROVE  VisitsFindTheirLink'
<1> USE DEF LinksInv, LinksTypeOK, VisitsFindTheirLink
<1>1. ASSUME NEW l \in Link, NEW p \in User, EmailLogin(p, l) \/ MintLoginLink(p, l)
      PROVE  VisitsFindTheirLink'
  BY <1>1 DEF EmailLogin, MintLoginLink
<1>2. ASSUME NEW l \in Link,
             SendMail(l) \/ MailFails(l) \/ EmailCommit(l) \/ EmailDies(l) \/ LinkExpires(l)
      PROVE  VisitsFindTheirLink'
  BY <1>2 DEF SendMail, MailFails, EmailCommit, EmailDies, LinkExpires
<1>3. ASSUME NEW v \in Visit, ExchangeRead(v) PROVE VisitsFindTheirLink'
  BY <1>3 DEF ExchangeRead
<1>4. ASSUME NEW v \in Visit, ExchangeCommit(v) PROVE VisitsFindTheirLink'
  BY <1>4 DEF ExchangeCommit
<1>5. CASE UNCHANGED linkVars
  BY <1>5 DEF linkVars
<1> QED BY <1>1, <1>2, <1>3, <1>4, <1>5 DEF LinksNext

\* A visit that finds its link live comes before any other has spent it.
LEMMA TwoVisitsOverlapStep ==
  ASSUME LinksInv, [LinksNext]_linkVars
  PROVE  TwoVisitsOverlap'
<1> USE DEF LinksInv, LinksTypeOK, TwoVisitsOverlap
<1>1. ASSUME NEW l \in Link, NEW p \in User, EmailLogin(p, l) \/ MintLoginLink(p, l)
      PROVE  TwoVisitsOverlap'
  BY <1>1 DEF EmailLogin, MintLoginLink
<1>2. ASSUME NEW l \in Link,
             SendMail(l) \/ MailFails(l) \/ EmailCommit(l) \/ EmailDies(l) \/ LinkExpires(l)
      PROVE  TwoVisitsOverlap'
  BY <1>2 DEF SendMail, MailFails, EmailCommit, EmailDies, LinkExpires
<1>3. ASSUME NEW v \in Visit, ExchangeRead(v) PROVE TwoVisitsOverlap'
  <2>1. \A w \in Visit : w[1] = v[1] => visit[w] # "signed_in"
    BY <1>3 DEF ExchangeRead, VisitsFindTheirLink
  <2>2. (\E w \in Visit \ {v} : w[1] = v[1] /\ visit[w] # "none") => v[1] \in overlap'
    BY <1>3, <2>1 DEF ExchangeRead
  <2>3. overlap \subseteq overlap' /\ visit' = [visit EXCEPT ![v] = "read"]
    BY <1>3 DEF ExchangeRead
  <2> QED BY <2>2, <2>3
<1>4. ASSUME NEW v \in Visit, ExchangeCommit(v) PROVE TwoVisitsOverlap'
  BY <1>4 DEF ExchangeCommit
<1>5. CASE UNCHANGED linkVars
  BY <1>5 DEF linkVars
<1> QED BY <1>1, <1>2, <1>3, <1>4, <1>5 DEF LinksNext

\* The mails a person was sent are the links counted, or wasted on a request that died.
LEMMA MailsAreCounted ==
  ASSUME LinksInv
  PROVE  AllowanceHolds
<1> SUFFICES ASSUME NEW p \in User, p \notin overlap
    PROVE  Cardinality(MailsTo(p)) <= MaxPerDay + Cardinality(Wasted(p))
  BY DEF AllowanceHolds
<1>1. IsFiniteSet(MailsTo(p)) /\ IsFiniteSet(Wasted(p)) /\ IsFiniteSet(Outstanding(p))
  <2>1. IsFiniteSet(MailLinks(p))
    BY DEF LinksInv, MailLinksAreFinite
  <2> QED BY <2>1, FS_Subset DEF MailsTo, Wasted, Outstanding
<1>2. MailsTo(p) \subseteq Outstanding(p) \cup Wasted(p)
  <2> SUFFICES ASSUME NEW l \in MailsTo(p), l \notin Wasted(p) PROVE l \in Outstanding(p)
    OBVIOUS
  <2>1. l \in MailLinks(p) /\ l \in Link /\ link[l].for = p /\ link[l].status # "lost"
    BY DEF MailsTo, Wasted, MailLinks
  <2>2. link[l].status # "none"
    BY <2>1, NoOneAssumption DEF LinksInv, MintedForAUser
  <2>3. link[l].status \in {"none", "counted", "mailed", "live", "used", "expired", "lost"}
    BY <2>1 DEF LinksInv, LinksTypeOK
  <2> QED BY <2>1, <2>2, <2>3 DEF Outstanding
<1>3. /\ IsFiniteSet(Outstanding(p) \cup Wasted(p))
      /\ Cardinality(Outstanding(p) \cup Wasted(p))
           = Cardinality(Outstanding(p)) + Cardinality(Wasted(p)) - Cardinality(Outstanding(p) \cap Wasted(p))
  BY <1>1, FS_Union
<1>4. Cardinality(MailsTo(p)) <= Cardinality(Outstanding(p) \cup Wasted(p))
  BY <1>2, <1>3, FS_Subset
<1>5. IsFiniteSet(Outstanding(p) \cap Wasted(p))
  BY <1>1, FS_Subset
<1>6. Cardinality(Outstanding(p)) <= MaxPerDay
  BY DEF LinksInv, AllowanceKept
<1>7. /\ Cardinality(MailsTo(p)) \in Nat /\ Cardinality(Outstanding(p)) \in Nat
      /\ Cardinality(Wasted(p)) \in Nat /\ Cardinality(Outstanding(p) \cap Wasted(p)) \in Nat
  BY <1>1, <1>5, FS_CardinalityType
<1> HIDE DEF LinksInv
<1> QED BY <1>3, <1>4, <1>6, <1>7, DayAssumption

\* LoginLinks: a person who does not ask twice at once is sent no more mails than allowed
\* but for those whose request died, no link counts whose mail never left, and a link that
\* is not opened twice at once is used once.
THEOREM LinksAreKept == LinksSpec => []LinksHold
<1>1. LinksInit => LinksInv
  BY LinksInvStarts
<1>2. LinksInv /\ [LinksNext]_linkVars => LinksInv'
  BY LinksTypeOKStep, AllowanceStep, MailedAreSentStep, VisitsFindTheirLinkStep, TwoVisitsOverlapStep
  DEF LinksInv
<1>3. LinksInv => LinksHold
  BY MailsAreCounted DEF LinksInv, LinksHold, MailedAreSent, OnlySentLinksCount, TwoVisitsOverlap, SingleUse
<1> QED BY <1>1, <1>2, <1>3, PTL DEF LinksSpec

HIDE DEF Visit, NoLink, Spent, RolledBack, Stored, InFlight

-----------------------------------------------------------------------------
(* The devices: the channels.                                              *)

\* A message that is sent comes last.
LEMMA MessageSent ==
  ASSUME NEW ch \in Seq(Message), NEW m \in Message, NEW c2, c2 = Append(ch, m)
  PROVE  /\ c2 \in Seq(Message)
         /\ Len(ch) \in Nat /\ Len(c2) = Len(ch) + 1
         /\ \A i \in 1..Len(ch) : c2[i] = ch[i]
         /\ c2[Len(ch) + 1] = m
BY AppendProperties, LenProperties

\* A message that is taken was the first; the others move up by one place.
LEMMA MessageTaken ==
  ASSUME NEW ch \in Seq(Message), ch # <<>>, NEW c2, c2 = Tail(ch)
  PROVE  /\ c2 \in Seq(Message)
         /\ Len(c2) \in Nat /\ Len(ch) = Len(c2) + 1
         /\ \A i \in 1..Len(c2) : c2[i] = ch[i + 1]
         /\ Head(ch) = ch[1] /\ ch[1] \in Message
<1>1. /\ c2 \in Seq(Message) /\ Len(c2) = Len(ch) - 1
      /\ \A i \in 1..Len(c2) : c2[i] = ch[i + 1]
  BY HeadTailProperties
<1>2. Len(ch) \in Nat /\ Len(c2) \in Nat
  BY <1>1, LenProperties
<1>3. Head(ch) = ch[1] /\ Head(ch) \in Message
  BY HeadTailProperties
<1> QED BY <1>1, <1>2, <1>3

\* A widget tells its kernel object of its status; of an approval only after the token.
LEMMA StatusSent ==
  ASSUME NEW ch \in Seq(Message), NEW k \in KernelState, NEW s \in {"idle", "approved"},
         TokenComesFirst(ch, k), s = "approved" => HasToken(ch, k),
         NEW c2, c2 = Append(ch, Status(s))
  PROVE  /\ c2 \in Seq(Message)
         /\ TokenComesFirst(c2, k)
         /\ HasToken(ch, k) => HasToken(c2, k)
         /\ \A p \in Person : LastTokenIs(p, ch, k) => LastTokenIs(p, c2, k)
<1>1. Status(s) \in Message
  BY DEF Message
<1>2. /\ c2 \in Seq(Message) /\ Len(ch) \in Nat /\ Len(c2) = Len(ch) + 1
      /\ \A i \in 1..Len(ch) : c2[i] = ch[i]
      /\ c2[Len(ch) + 1] = Status(s)
  BY <1>1, MessageSent
<1>3. TokenAt(c2) = TokenAt(ch)
  BY <1>2 DEF TokenAt, Status
<1>4. \A p \in Person : LastTokenIs(p, ch, k) => LastTokenIs(p, c2, k)
  BY <1>2, <1>3 DEF LastTokenIs, TokenAt
<1>5. TokenComesFirst(c2, k)
  <2>1. ASSUME k.token = None, NEW i \in 1..Len(c2), c2[i].type = "status", c2[i].value = "approved"
        PROVE  \E j \in TokenAt(c2) : j < i
    <3>1. CASE i \in 1..Len(ch)
      BY <1>2, <1>3, <2>1, <3>1 DEF TokenComesFirst
    <3>2. CASE i = Len(ch) + 1
      <4>1. PICK j \in TokenAt(ch) : TRUE
        BY <1>2, <2>1, <3>2 DEF HasToken, Status
      <4> QED BY <1>2, <1>3, <3>2, <4>1 DEF TokenAt
    <3> QED BY <1>2, <3>1, <3>2
  <2> QED BY <2>1 DEF TokenComesFirst
<1> QED BY <1>2, <1>3, <1>4, <1>5 DEF HasToken

\* A token is handed over.
LEMMA TokenSent ==
  ASSUME NEW ch \in Seq(Message), NEW k \in KernelState, NEW p \in Person,
         TokenComesFirst(ch, k), NEW c2, c2 = Append(ch, Token(p))
  PROVE  /\ c2 \in Seq(Message)
         /\ TokenComesFirst(c2, k) /\ HasToken(c2, k) /\ LastTokenIs(p, c2, k)
<1>1. Token(p) \in Message
  BY DEF Message
<1>2. /\ c2 \in Seq(Message) /\ Len(ch) \in Nat /\ Len(c2) = Len(ch) + 1
      /\ \A i \in 1..Len(ch) : c2[i] = ch[i]
      /\ c2[Len(ch) + 1] = Token(p)
  BY <1>1, MessageSent
<1>3. TokenAt(c2) = TokenAt(ch) \cup {Len(ch) + 1}
  BY <1>2 DEF TokenAt, Token
<1>4. LastTokenIs(p, c2, k)
  <2>1. \A j \in TokenAt(c2) : j <= Len(ch) + 1
    BY <1>2, <1>3 DEF TokenAt
  <2> QED BY <1>2, <1>3, <2>1 DEF LastTokenIs, Token
<1>5. TokenComesFirst(c2, k)
  <2>1. ASSUME k.token = None, NEW i \in 1..Len(c2), c2[i].type = "status", c2[i].value = "approved"
        PROVE  \E j \in TokenAt(c2) : j < i
    BY <1>2, <1>3, <2>1 DEF TokenComesFirst, Token
  <2> QED BY <2>1 DEF TokenComesFirst
<1> QED BY <1>2, <1>3, <1>4, <1>5 DEF HasToken

\* What a kernel object is after it has read a message.
AfterReading(k, m) ==
  IF m.type = "token" THEN [k EXCEPT !.token = m.value] ELSE [k EXCEPT !.status = m.value]

\* A kernel object reads a message; what is left to come is what was to come after it.
LEMMA MessageRead ==
  ASSUME NEW ch \in Seq(Message), NEW k \in KernelState, ch # <<>>, TokenComesFirst(ch, k),
         NEW c2, c2 = Tail(ch), NEW k2, k2 = AfterReading(k, Head(ch))
  PROVE  /\ c2 \in Seq(Message) /\ k2 \in KernelState
         /\ TokenComesFirst(c2, k2)
         /\ HasToken(ch, k) => HasToken(c2, k2)
         /\ \A p \in Person : LastTokenIs(p, ch, k) => LastTokenIs(p, c2, k2)
<1>1. /\ c2 \in Seq(Message) /\ Len(c2) \in Nat /\ Len(ch) = Len(c2) + 1
      /\ \A i \in 1..Len(c2) : c2[i] = ch[i + 1]
      /\ Head(ch) = ch[1] /\ ch[1] \in Message
  BY MessageTaken
<1>2. \A i \in 1..Len(c2) : i \in TokenAt(c2) <=> i + 1 \in TokenAt(ch)
  BY <1>1 DEF TokenAt
<1>3. CASE ch[1].type = "token"
  <2>1. /\ ch[1].value \in Person /\ k2 = [k EXCEPT !.token = ch[1].value]
        /\ 1 \in TokenAt(ch)
    BY <1>1, <1>3 DEF Message, Token, Status, AfterReading, TokenAt
  <2>2. k2 \in KernelState /\ k2.token = ch[1].value /\ k2.token # None
    BY <2>1, NoneAssumption DEF KernelState
  <2>3. ASSUME NEW p \in Person, LastTokenIs(p, ch, k) PROVE LastTokenIs(p, c2, k2)
    <3>1. PICK i \in TokenAt(ch) : ch[i].value = p /\ \A j \in TokenAt(ch) : j <= i
      BY <2>1, <2>3 DEF LastTokenIs
    <3>2. CASE i = 1
      <4>1. TokenAt(c2) = {}
        BY <1>1, <1>2, <3>1, <3>2 DEF TokenAt
      <4> QED BY <2>2, <3>1, <3>2, <4>1 DEF LastTokenIs
    <3>3. CASE i # 1
      <4>1. i - 1 \in TokenAt(c2) /\ c2[i - 1] = ch[i]
        BY <1>1, <1>2, <3>3 DEF TokenAt
      <4>2. \A j \in TokenAt(c2) : j <= i - 1
        BY <1>1, <1>2, <3>1 DEF TokenAt
      <4> QED BY <3>1, <4>1, <4>2 DEF LastTokenIs
    <3> QED BY <3>2, <3>3
  <2>4. TokenComesFirst(c2, k2) /\ HasToken(c2, k2)
    BY <2>2 DEF TokenComesFirst, HasToken
  <2> QED BY <1>1, <2>2, <2>3, <2>4
<1>4. CASE ch[1].type = "status"
  <2>1. /\ ch[1].value \in {"idle", "approved"} /\ k2 = [k EXCEPT !.status = ch[1].value]
        /\ 1 \notin TokenAt(ch)
    BY <1>1, <1>4 DEF Message, Token, Status, AfterReading, TokenAt
  <2>2. k2 \in KernelState /\ k2.token = k.token /\ k2.status = ch[1].value
    BY <2>1 DEF KernelState
  <2>3. ASSUME NEW i \in TokenAt(ch) PROVE i - 1 \in TokenAt(c2) /\ c2[i - 1] = ch[i]
    BY <1>1, <1>2, <2>1 DEF TokenAt
  <2>4. ASSUME NEW p \in Person, LastTokenIs(p, ch, k) PROVE LastTokenIs(p, c2, k2)
    <3>1. CASE TokenAt(ch) = {}
      <4>1. TokenAt(c2) = {}
        BY <1>1, <1>2, <3>1 DEF TokenAt
      <4> QED BY <2>2, <2>4, <3>1, <4>1 DEF LastTokenIs
    <3>2. CASE TokenAt(ch) # {}
      <4>1. PICK i \in TokenAt(ch) : ch[i].value = p /\ \A j \in TokenAt(ch) : j <= i
        BY <2>4, <3>2 DEF LastTokenIs
      <4>2. i - 1 \in TokenAt(c2) /\ c2[i - 1] = ch[i]
        BY <2>3
      <4>3. \A j \in TokenAt(c2) : j <= i - 1
        BY <1>1, <1>2, <4>1 DEF TokenAt
      <4> QED BY <4>1, <4>2, <4>3 DEF LastTokenIs
    <3> QED BY <3>1, <3>2
  <2>5. HasToken(ch, k) => HasToken(c2, k2)
    BY <2>2, <2>3 DEF HasToken
  <2>6. TokenComesFirst(c2, k2)
    <3>1. ASSUME k2.token = None PROVE k2.status = "idle"
      <4>1. 1 \in 1..Len(ch) /\ \A j \in TokenAt(ch) : ~(j < 1)
        BY <1>1 DEF TokenAt
      <4> QED BY <1>4, <2>1, <2>2, <3>1, <4>1 DEF TokenComesFirst
    <3>2. ASSUME k2.token = None, NEW i \in 1..Len(c2), c2[i].type = "status", c2[i].value = "approved"
          PROVE  \E j \in TokenAt(c2) : j < i
      <4>1. PICK j \in TokenAt(ch) : j < i + 1
        BY <1>1, <2>2, <3>2 DEF TokenComesFirst
      <4>2. j - 1 \in TokenAt(c2) /\ j - 1 < i
        BY <1>1, <2>3, <4>1 DEF TokenAt
      <4> QED BY <4>2
    <3> QED BY <3>1, <3>2 DEF TokenComesFirst
  <2> QED BY <1>1, <2>2, <2>4, <2>5, <2>6
<1> QED BY <1>1, <1>3, <1>4 DEF Message, Token, Status

\* A widget that has just been drawn hands over the token it finds, or none.
LEMMA DrawnIsFine ==
  ASSUME NEW w \in Widget, NEW p \in Person \cup {None}, NEW ch, ch = Drawn(w, p)
  PROVE  /\ ch \in Seq(Message) /\ NewKernel \in KernelState
         /\ TokenComesFirst(ch, NewKernel)
         /\ w \in Restoring(w, p) => /\ p # None
                                    /\ HasToken(ch, NewKernel)
                                    /\ LastTokenIs(p, ch, NewKernel)
<1>1. NewKernel \in KernelState
  BY DEF NewKernel, KernelState
<1>2. /\ <<>> \in Seq(Message)
      /\ TokenComesFirst(<<>>, NewKernel)
  BY DEF TokenComesFirst, NewKernel
<1>3. CASE w = Button /\ p # None
  <2>1. ch = Append(<<>>, Token(p))
    BY <1>3 DEF Drawn
  <2> QED BY <1>1, <1>2, <1>3, <2>1, TokenSent DEF Restoring
<1>4. CASE ~(w = Button /\ p # None)
  BY <1>1, <1>2, <1>4 DEF Drawn, Restoring
<1> QED BY <1>3, <1>4

-----------------------------------------------------------------------------
(* The devices: the steps.                                                 *)

\* What a device code, a poll and a sign-in are.
CodeState == [issued : BOOLEAN, user : Person \cup {None}, approved : BOOLEAN,
              consumed : BOOLEAN, expired : BOOLEAN]
PollState == [status : {None, "sent", "pending", "approved", "expired"},
              user : Person \cup {None}, left : SUBSET {"commit", "answer"}]
FlowState == [pc : {"idle", "polling", "waiting", "handing", "signed_in", "failed"}, at : {1, 2}]
UsedState == [breaks : 0..MaxBreaks, reruns : 0..MaxReruns, cut : SUBSET Flow]

\* The types and persons of the codes, the polls and the sign-ins.
CodesOK == code \in [Flow -> CodeState] /\ \A f \in Flow : code[f].approved => code[f].user \in Person
PollsOK ==
  /\ poll \in [Poll -> PollState]
  /\ \A q \in Poll : poll[q].status = "approved" => poll[q].user \in Person

\* The types of the page.
PageOK ==
  /\ browser \in [token : Person \cup {None}, told : SUBSET Widget]
  /\ synced \in [Widget -> {"idle", "approved"}]
  /\ channel \in [Widget -> Seq(Message)]
  /\ kernel \in [Widget -> KernelState]
  /\ restoring \subseteq Widget

\* No sign-in comes to hand a token over.
NoneHands == \A g \in Flow : flow'[g].pc = "handing" => flow[g].pc = "handing"

\* The invariant part by part, before a step and after it.
LEMMA PartsOfDeviceInv ==
  DeviceInv <=>
    /\ CodesOK /\ PollsOK /\ PageOK
    /\ owner \in [Flow -> Widget \cup {"storage", "gone"}]
    /\ flow \in [Flow -> FlowState]
    /\ used \in UsedState
    /\ \A w \in Widget : WidgetInv(w)
BY DEF DeviceInv, TypeOK, CodesOK, PollsOK, PageOK, ApprovalsNameAPerson, CodeState,
       PollState, FlowState, KernelState, UsedState

\* The invariant after a step, from what can be wrong with it.
LEMMA DeviceInvAgain ==
  ASSUME CodesOK', PollsOK', PageOK', owner' \in [Flow -> Widget \cup {"storage", "gone"}],
         flow' \in [Flow -> FlowState], used' \in UsedState, \A w \in Widget : WidgetInv(w)'
  PROVE  DeviceInv'
BY DEF DeviceInv, TypeOK, CodesOK, PollsOK, PageOK, ApprovalsNameAPerson, CodeState,
       PollState, FlowState, KernelState, UsedState

\* Nobody has asked for a code; a token that was left is on its way to the button's object.
LEMMA DeviceInvStarts == Init => DeviceInv
<1> SUFFICES ASSUME Init PROVE DeviceInv
  OBVIOUS
<1>1. CodesOK
  BY DEF Init, CodesOK, CodeState, NoCode
<1>2. PollsOK
  BY NoneAssumption DEF Init, PollsOK, PollState, NoPoll
<1>3. /\ owner \in [Flow -> Widget \cup {"storage", "gone"}]
      /\ flow \in [Flow -> FlowState] /\ used \in UsedState
      /\ \A f \in Flow : flow[f].pc # "handing"
  BY BoundAssumption DEF Init, FlowState, UsedState
<1>4. PICK p \in Person \cup {None} :
        /\ browser = [token |-> p, told |-> Restoring(Button, p)]
        /\ channel = [w \in Widget |-> Drawn(w, p)]
        /\ restoring = Restoring(Button, p)
  BY DEF Init
<1>5. kernel = [w \in Widget |-> NewKernel] /\ synced = [w \in Widget |-> "idle"]
  BY DEF Init
<1>6. ASSUME NEW w \in Widget
      PROVE  channel[w] \in Seq(Message) /\ kernel[w] \in KernelState /\ WidgetInv(w)
  <2>1. /\ channel[w] \in Seq(Message) /\ NewKernel \in KernelState
        /\ TokenComesFirst(channel[w], NewKernel)
        /\ w \in Restoring(w, p) => /\ p # None
                                   /\ HasToken(channel[w], NewKernel)
                                   /\ LastTokenIs(p, channel[w], NewKernel)
    BY <1>4, DrawnIsFine
  <2>2. w \in Restoring(Button, p) => w \in Restoring(w, p)
    BY DEF Restoring
  <2> QED BY <1>3, <1>4, <1>5, <2>1, <2>2 DEF WidgetInv, Handing
<1>7. PageOK
  <2>1. Restoring(Button, p) \subseteq Widget
    BY WidgetAssumption DEF Restoring
  <2> QED BY <1>4, <1>5, <1>6, <2>1 DEF PageOK
<1> QED BY <1>1, <1>2, <1>3, <1>6, <1>7, PartsOfDeviceInv

\* A code that changes stays one, if it names who approved it.
LEMMA CodeChanges ==
  ASSUME CodesOK, NEW f \in Flow, NEW c \in CodeState, c.approved => c.user \in Person,
         code' = [code EXCEPT ![f] = c]
  PROVE  CodesOK'
BY DEF CodesOK

\* A poll that changes stays one, if it names whom an approval was for.
LEMMA PollChanges ==
  ASSUME PollsOK, NEW q \in Poll, NEW r \in PollState, r.status = "approved" => r.user \in Person,
         poll' = [poll EXCEPT ![q] = r]
  PROVE  PollsOK'
BY DEF PollsOK

\* A sign-in goes on; it only comes to hand over a token where the step says so.
LEMMA FlowChanges ==
  ASSUME flow \in [Flow -> FlowState], NEW f \in Flow, NEW x \in FlowState,
         flow' = [flow EXCEPT ![f] = x]
  PROVE  /\ flow' \in [Flow -> FlowState]
         /\ x.pc # "handing" => \A g \in Flow : flow'[g].pc = "handing" => flow[g].pc = "handing"
BY DEF FlowState

\* A sign-in without a code has one that is not approved.
LEMMA NoCodeOK == NoCode \in CodeState /\ ~NoCode.approved
BY DEF NoCode, CodeState

\* A poll that is not under way says nothing of an approval.
LEMMA NoPollOK == NoPoll \in PollState /\ NoPoll.status # "approved"
BY NoneAssumption DEF NoPoll, PollState

\* A widget that says nothing is told nothing and hands nothing over.
LEMMA WidgetRests ==
  ASSUME DeviceInv, NEW u \in Widget, channel'[u] = channel[u], kernel'[u] = kernel[u],
         u \in browser'.told => u \in browser.told /\ browser'.token = browser.token,
         Handing(u)' => Handing(u)
  PROVE  WidgetInv(u)'
BY DEF DeviceInv, WidgetInv

\* No widget comes to hand over a token.
LEMMA HandingRests ==
  ASSUME owner' = owner, restoring' \subseteq restoring, NoneHands, NEW u
  PROVE  Handing(u)' => Handing(u)
BY DEF Handing, NoneHands

\* The steps that leave the page as it is.
LEMMA ServedAside ==
  ASSUME DeviceInv, UNCHANGED <<owner, page>>, CodesOK', PollsOK', flow' \in [Flow -> FlowState],
         used' \in UsedState, NoneHands
  PROVE  DeviceInv'
<1>1. UNCHANGED <<owner, browser, synced, channel, kernel, restoring>>
  BY DEF page
<1>2. ASSUME NEW u \in Widget PROVE WidgetInv(u)'
  <2>1. Handing(u)' => Handing(u)
    BY <1>1, HandingRests
  <2> QED BY <1>1, <2>1, WidgetRests
<1>3. PageOK' /\ owner' \in [Flow -> Widget \cup {"storage", "gone"}]
  BY <1>1, PartsOfDeviceInv DEF PageOK
<1> QED BY <1>2, <1>3, DeviceInvAgain

\* The steps in which a widget tells its kernel object of its status.
LEMMA SaidAside ==
  ASSUME DeviceInv, NEW w \in Widget, NEW s \in {"idle", "approved"}, Says(w, s),
         s = "approved" => Handing(w),
         owner' = owner, kernel' = kernel, restoring' \subseteq restoring,
         browser' \in {browser, NoToken},
         CodesOK', PollsOK', flow' \in [Flow -> FlowState], used' \in UsedState, NoneHands
  PROVE  DeviceInv'
<1> DEFINE c2 == Append(channel[w], Status(s))
<1>1. PageOK /\ WidgetInv(w)
  BY PartsOfDeviceInv
<1>2. channel[w] \in Seq(Message) /\ kernel[w] \in KernelState
  BY <1>1 DEF PageOK
<1>3. TokenComesFirst(channel[w], kernel[w]) /\ (s = "approved" => HasToken(channel[w], kernel[w]))
  BY <1>1 DEF WidgetInv
<1>4. /\ c2 \in Seq(Message)
      /\ TokenComesFirst(c2, kernel[w])
      /\ HasToken(channel[w], kernel[w]) => HasToken(c2, kernel[w])
      /\ \A p \in Person : LastTokenIs(p, channel[w], kernel[w]) => LastTokenIs(p, c2, kernel[w])
  BY <1>2, <1>3, StatusSent
<1> HIDE DEF c2
<1>5. \/ UNCHANGED <<synced, channel>>
      \/ /\ synced' = [synced EXCEPT ![w] = s]
         /\ channel' = [channel EXCEPT ![w] = c2]
  BY DEF Says, c2
<1>6. /\ PageOK' /\ owner' \in [Flow -> Widget \cup {"storage", "gone"}]
      /\ browser.token \in Person \cup {None}
      /\ \A u \in Widget \ {w} : channel'[u] = channel[u]
      /\ channel'[w] \in {channel[w], c2}
  <2>1. /\ channel' \in [Widget -> Seq(Message)] /\ synced' \in [Widget -> {"idle", "approved"}]
        /\ \A u \in Widget \ {w} : channel'[u] = channel[u]
        /\ channel'[w] \in {channel[w], c2}
    BY <1>1, <1>4, <1>5 DEF PageOK
  <2>2. browser' \in [token : Person \cup {None}, told : SUBSET Widget]
    BY <1>1 DEF PageOK, NoToken
  <2>3. owner' \in [Flow -> Widget \cup {"storage", "gone"}]
    BY PartsOfDeviceInv
  <2> QED BY <1>1, <2>1, <2>2, <2>3 DEF PageOK
<1>7. ASSUME NEW u \in Widget PROVE WidgetInv(u)'
  <2>1. Handing(u)' => Handing(u)
    BY HandingRests
  <2>2. u \in browser'.told => u \in browser.told /\ browser'.token = browser.token
    BY DEF NoToken
  <2>3. CASE channel'[u] = channel[u]
    BY <2>1, <2>2, <2>3, WidgetRests
  <2>4. CASE channel'[u] # channel[u]
    <3>1. u = w /\ channel'[w] = c2
      BY <1>6, <2>4
    <3> QED BY <1>1, <1>4, <1>6, <2>1, <2>2, <3>1 DEF WidgetInv
  <2> QED BY <2>3, <2>4
<1> QED BY <1>6, <1>7, DeviceInvAgain

\* The steps in which progress is shown.
LEMMA ProgressAside ==
  ASSUME DeviceInv, NEW o, Progress(o),
         UNCHANGED <<owner, browser, kernel, restoring>>,
         CodesOK', PollsOK', flow' \in [Flow -> FlowState], used' \in UsedState, NoneHands
  PROVE  DeviceInv'
<1>1. CASE o \in Widget \ {Button}
  BY <1>1, SaidAside DEF Progress
<1>2. CASE o \notin Widget \ {Button}
  BY <1>2, ServedAside DEF Progress, page
<1> QED BY <1>1, <1>2

\* A code that expires keeps who approved it.
LEMMA CodeExpiresStep ==
  ASSUME DeviceInv, NEW f \in Flow, CodeExpires(f)
  PROVE  DeviceInv'
<1>1. /\ code[f] \in CodeState /\ [code[f] EXCEPT !.expired = TRUE] \in CodeState
      /\ code[f].approved => code[f].user \in Person
  BY PartsOfDeviceInv DEF CodesOK, CodeState
<1>2. CodesOK'
  BY <1>1, CodeChanges, PartsOfDeviceInv DEF CodeExpires, CodeState
<1> QED BY <1>2, ServedAside, PartsOfDeviceInv DEF CodeExpires, PollsOK, NoneHands

\* Whoever confirms a code is the person it is approved for.
LEMMA VerifyStep ==
  ASSUME DeviceInv, NEW p \in Person, NEW f \in Flow, Verify(p, f)
  PROVE  DeviceInv'
<1> DEFINE c == [code[f] EXCEPT !.user = p, !.approved = TRUE]
<1>1. code[f] \in CodeState
  BY PartsOfDeviceInv DEF CodesOK
<1>2. c \in CodeState /\ c.user = p /\ code' = [code EXCEPT ![f] = c]
  BY <1>1 DEF Verify, CodeState
<1>3. CodesOK'
  BY <1>2, CodeChanges, PartsOfDeviceInv
<1> QED BY <1>3, ServedAside, PartsOfDeviceInv DEF Verify, PollsOK, NoneHands

\* A sign-in that ends does so without another beginning to hand over.
LEMMA EndStep ==
  ASSUME DeviceInv, NEW f \in Flow, NEW how \in {"failed", "signed_in", "handing"}, End(f, how)
  PROVE  /\ CodesOK' /\ flow' \in [Flow -> FlowState]
         /\ how # "handing" => NoneHands
<1>1. [pc |-> how, at |-> 1] \in FlowState
  BY DEF FlowState
<1> QED BY <1>1, NoCodeOK, CodeChanges, FlowChanges, PartsOfDeviceInv DEF End, NoneHands

\* A sign-in that begins has a fresh code, and hands nothing over.
LEMMA BeginStep ==
  ASSUME DeviceInv, NEW f \in Flow, Begin(f)
  PROVE  /\ CodesOK' /\ flow' \in [Flow -> FlowState]
         /\ NoneHands
<1>1. [NoCode EXCEPT !.issued = TRUE] \in CodeState /\ ~[NoCode EXCEPT !.issued = TRUE].approved
  BY DEF NoCode, CodeState
<1>2. [flow[f] EXCEPT !.pc = "polling"] \in FlowState /\ [flow[f] EXCEPT !.pc = "polling"].pc # "handing"
  BY PartsOfDeviceInv DEF FlowState
<1> QED BY <1>1, <1>2, CodeChanges, FlowChanges, PartsOfDeviceInv DEF Begin, Issue, NoneHands

\* A sign-in begins, or is given up.
LEMMA SignInStep ==
  ASSUME DeviceInv, NEW f \in Flow, SignIn(f) \/ GiveUp(f)
  PROVE  DeviceInv'
<1>1. PollsOK' /\ used' \in UsedState /\ UNCHANGED <<owner, browser, kernel, restoring>> /\ Progress(owner[f])
  BY PartsOfDeviceInv DEF SignIn, GiveUp, PollsOK
<1>2. CodesOK' /\ flow' \in [Flow -> FlowState] /\ NoneHands
  BY BeginStep, EndStep DEF SignIn, GiveUp
<1> QED BY <1>1, <1>2, ProgressAside

\* "Sign in again": the page forgets its token; the kernel, told nothing, keeps its own.
LEMMA SignInAgainStep ==
  ASSUME DeviceInv, NEW f \in Flow, SignInAgain(f)
  PROVE  DeviceInv'
<1>1. /\ PollsOK' /\ used' \in UsedState /\ UNCHANGED <<owner, kernel, restoring>>
      /\ Says(Button, "idle") /\ browser' = NoToken
  BY PartsOfDeviceInv DEF SignInAgain, PollsOK
<1>2. CodesOK' /\ flow' \in [Flow -> FlowState] /\ NoneHands
  BY BeginStep DEF SignInAgain
<1> QED BY <1>1, <1>2, SaidAside, WidgetAssumption

\* A sign-in sends its next poll.
LEMMA SendPollStep ==
  ASSUME DeviceInv, NEW f \in Flow, SendPoll(f)
  PROVE  DeviceInv'
<1>1. PICK k \in {1, 2} :
        /\ poll' = [poll EXCEPT ![<<f, k>>].status = "sent"]
        /\ flow' = [flow EXCEPT ![f] = [pc |-> "waiting", at |-> k]]
  BY DEF SendPoll
<1>2. <<f, k>> \in Poll /\ poll[<<f, k>>] \in PollState
  BY PartsOfDeviceInv DEF PollsOK, Poll
<1>3. PollsOK'
  <2>1. [poll[<<f, k>>] EXCEPT !.status = "sent"] \in PollState
    BY <1>2 DEF PollState
  <2>2. [poll[<<f, k>>] EXCEPT !.status = "sent"].status = "sent"
    BY <1>2 DEF PollState
  <2> QED BY <1>1, <1>2, <2>1, <2>2, PollChanges, PartsOfDeviceInv
<1>4. [pc |-> "waiting", at |-> k] \in FlowState
  BY DEF FlowState
<1>5. /\ flow' \in [Flow -> FlowState]
      /\ NoneHands
  BY <1>1, <1>4, FlowChanges, PartsOfDeviceInv DEF NoneHands
<1>6. CodesOK' /\ UNCHANGED <<owner, page, used>>
  BY PartsOfDeviceInv DEF SendPoll, CodesOK
<1> QED BY <1>3, <1>5, <1>6, ServedAside, PartsOfDeviceInv

\* Whatever is struck out of a poll.
LEMMA PollShrinks ==
  ASSUME PollsOK, NEW q \in Poll, NEW rest \in SUBSET {"commit", "answer"},
         \/ poll' = [poll EXCEPT ![q] = NoPoll]
         \/ poll' = [poll EXCEPT ![q] = [poll[q] EXCEPT !.left = rest]]
  PROVE  PollsOK'
<1>1. CASE poll' = [poll EXCEPT ![q] = NoPoll]
  BY <1>1, NoPollOK, PollChanges
<1>2. CASE poll' = [poll EXCEPT ![q] = [poll[q] EXCEPT !.left = rest]]
  <2>1. poll[q] \in PollState /\ (poll[q].status = "approved" => poll[q].user \in Person)
    BY DEF PollsOK
  <2>2. [poll[q] EXCEPT !.left = rest] \in PollState
    BY <2>1 DEF PollState
  <2>3. /\ [poll[q] EXCEPT !.left = rest].status = poll[q].status
        /\ [poll[q] EXCEPT !.left = rest].user = poll[q].user
    BY <2>1 DEF PollState
  <2> QED BY <1>2, <2>1, <2>2, <2>3, PollChanges
<1> QED BY <1>1, <1>2

\* What is left of a poll whose connection is closed.
LEMMA ClosedOK ==
  ASSUME DeviceInv, NEW q \in Poll, Closed(q)
  PROVE  PollsOK'
<1>1. \/ UNCHANGED poll
      \/ poll' = [poll EXCEPT ![q] = NoPoll]
      \/ poll' = [poll EXCEPT ![q] = [poll[q] EXCEPT !.left = {"commit"}]]
  BY DEF Closed
<1>2. PollsOK
  BY PartsOfDeviceInv
<1>3. CASE UNCHANGED poll
  BY <1>2, <1>3 DEF PollsOK
<1>4. CASE poll' = [poll EXCEPT ![q] = NoPoll]
  BY <1>2, <1>4, PollShrinks
<1>5. CASE poll' = [poll EXCEPT ![q] = [poll[q] EXCEPT !.left = {"commit"}]]
  BY <1>2, <1>5, PollShrinks
<1> QED BY <1>1, <1>3, <1>4, <1>5

\* A loop that is at its condition polls on or is over.
LEMMA LoopStep ==
  ASSUME DeviceInv, NEW f \in Flow, Loop(f)
  PROVE  CodesOK' /\ flow' \in [Flow -> FlowState] /\ NoneHands
<1>1. CASE End(f, "failed")
  BY <1>1, EndStep
<1>2. CASE flow' = [flow EXCEPT ![f].pc = "polling"] /\ UNCHANGED code
  <2>1. [flow[f] EXCEPT !.pc = "polling"] \in FlowState /\ [flow[f] EXCEPT !.pc = "polling"].pc # "handing"
    BY PartsOfDeviceInv DEF FlowState
  <2>2. CodesOK'
    BY <1>2, PartsOfDeviceInv DEF CodesOK
  <2> QED BY <1>2, <2>1, <2>2, FlowChanges, PartsOfDeviceInv DEF NoneHands
<1> QED BY <1>1, <1>2 DEF Loop

\* The connection of a poll breaks, or it is answered with an error: what it would have
\* said is lost.
LEMMA CutPollStep ==
  ASSUME DeviceInv, NEW f \in Flow, BreakPoll(f) \/ PollError(f)
  PROVE  DeviceInv'
<1> DEFINE q == <<f, flow[f].at>>
<1>1. q \in Poll
  BY PartsOfDeviceInv DEF FlowState, Poll
<1>2. PollsOK'
  <2>1. Closed(q)
    BY DEF BreakPoll, PollError
  <2> HIDE DEF q
  <2> QED BY <1>1, <2>1, ClosedOK
<1>3. CodesOK' /\ flow' \in [Flow -> FlowState] /\ NoneHands
  BY EndStep, LoopStep DEF BreakPoll, PollError, AfterBreak
<1>4. used' \in UsedState
  <2>1. used \in UsedState
    BY PartsOfDeviceInv
  <2>2. CASE BreakPoll(f)
    <3>1. PICK c \in SUBSET Flow : used' = [used EXCEPT !.breaks = used.breaks + 1, !.cut = c]
      <4>1. used.cut \in SUBSET Flow /\ used.cut \cup {f} \in SUBSET Flow
        BY <2>1 DEF UsedState
      <4> QED BY <2>2, <4>1 DEF BreakPoll
    <3>2. used.breaks + 1 \in 0..MaxBreaks
      BY <2>1, <2>2, BoundAssumption DEF BreakPoll, UsedState
    <3> QED BY <2>1, <3>1, <3>2 DEF UsedState
  <2>3. CASE PollError(f)
    <3>1. used' = [used EXCEPT !.cut = used.cut \cup {f}]
      BY <2>3 DEF PollError
    <3> QED BY <2>1, <3>1 DEF UsedState
  <2> QED BY <2>2, <2>3
<1>5. CASE BreakPoll(f)
  <2>1. UNCHANGED <<owner, page>>
    BY <1>5 DEF BreakPoll
  <2> QED BY <1>2, <1>3, <1>4, <2>1, ServedAside
<1>6. CASE PollError(f)
  <2>1. Progress(owner[f]) /\ UNCHANGED <<owner, browser, kernel, restoring>>
    BY <1>6 DEF PollError
  <2> QED BY <1>2, <1>3, <1>4, <2>1, ProgressAside
<1> QED BY <1>5, <1>6

\* An approved code mints its token for the person who approved it.
LEMMA PollReadStep ==
  ASSUME DeviceInv, NEW q \in Poll, PollRead(q)
  PROVE  DeviceInv'
<1> DEFINE f == q[1]
           answer == IF Heard(q) THEN {"answer"} ELSE {}
<1>1. f \in Flow /\ poll[q] \in PollState
  BY PartsOfDeviceInv DEF PollsOK, Poll
<1>2. PollsOK' /\ used' \in UsedState
  <2>1. CASE Outcome(f) = "approved"
    <3> DEFINE r == Result("approved", code[f].user, answer \cup {"commit"})
    <3>1. code[f].approved
      BY <2>1 DEF Outcome
    <3>2. code[f].user \in Person
      BY <1>1, <3>1, PartsOfDeviceInv DEF CodesOK
    <3>3. r \in PollState /\ r.user \in Person
      BY <3>2 DEF Result, PollState
    <3>4. poll' = [poll EXCEPT ![q] = r]
      BY <2>1 DEF PollRead
    <3>5. used' = [used EXCEPT !.cut = IF Heard(q) THEN @ ELSE @ \cup {f}]
      BY <2>1 DEF PollRead
    <3>6. used' \in UsedState
      BY <1>1, <3>5, PartsOfDeviceInv DEF UsedState
    <3> HIDE DEF r
    <3> QED BY <1>1, <3>3, <3>4, <3>6, PollChanges, PartsOfDeviceInv
  <2>2. CASE Outcome(f) # "approved"
    <3> DEFINE r == IF Heard(q) THEN Result(Outcome(f), None, answer) ELSE NoPoll
    <3>1. Outcome(f) \in {"expired", "pending"}
      BY <2>2 DEF Outcome
    <3>2. Result(Outcome(f), None, answer) \in PollState /\ Result(Outcome(f), None, answer).status # "approved"
      BY <3>1 DEF Result, PollState
    <3>3. r \in PollState /\ r.status # "approved"
      BY <3>2, NoPollOK
    <3>4. poll' = [poll EXCEPT ![q] = r] /\ UNCHANGED used
      BY <2>2 DEF PollRead
    <3> QED BY <1>1, <3>3, <3>4, PollChanges, PartsOfDeviceInv
  <2> QED BY <2>1, <2>2
<1>3. UNCHANGED <<owner, code, flow, page>>
  BY DEF PollRead
<1> QED BY <1>2, <1>3, ServedAside, PartsOfDeviceInv DEF CodesOK, NoneHands

\* The answer to a poll commits, and its code is spent.
LEMMA PollCommitStep ==
  ASSUME DeviceInv, NEW q \in Poll, PollCommit(q)
  PROVE  DeviceInv'
<1>1. q[1] \in Flow
  BY DEF Poll
<1>2. PollsOK'
  <2>1. \/ poll' = [poll EXCEPT ![q] = NoPoll]
        \/ poll' = [poll EXCEPT ![q] = [poll[q] EXCEPT !.left = poll[q].left \ {"commit"}]]
    BY DEF PollCommit, Left
  <2>2. poll[q].left \ {"commit"} \in SUBSET {"commit", "answer"}
    BY PartsOfDeviceInv DEF PollsOK, PollState
  <2> QED BY <2>1, <2>2, PollShrinks, PartsOfDeviceInv
<1>3. CodesOK'
  <2> DEFINE c == [code[q[1]] EXCEPT !.consumed = code[q[1]].issued]
  <2>1. code[q[1]] \in CodeState /\ (code[q[1]].approved => code[q[1]].user \in Person)
    BY <1>1, PartsOfDeviceInv DEF CodesOK
  <2>2. c \in CodeState /\ c.user = code[q[1]].user /\ (c.approved <=> code[q[1]].approved)
    BY <2>1 DEF CodeState
  <2>3. code' = [code EXCEPT ![q[1]] = c]
    BY DEF PollCommit
  <2>4. c.approved => c.user \in Person
    BY <2>1, <2>2
  <2> HIDE DEF c
  <2> QED BY <1>1, <2>2, <2>3, <2>4, CodeChanges, PartsOfDeviceInv
<1>4. UNCHANGED <<owner, flow, page, used>>
  BY DEF PollCommit
<1> QED BY <1>2, <1>3, <1>4, ServedAside, PartsOfDeviceInv DEF NoneHands

\* A sign-in that has handed its token over says it is approved.
LEMMA ApprovedStep ==
  ASSUME DeviceInv, NEW f \in Flow, Approved(f)
  PROVE  DeviceInv'
<1>1. [flow[f] EXCEPT !.pc = "signed_in"] \in FlowState /\ [flow[f] EXCEPT !.pc = "signed_in"].pc # "handing"
  BY PartsOfDeviceInv DEF FlowState
<1>2. flow' \in [Flow -> FlowState] /\ NoneHands
  BY <1>1, FlowChanges, PartsOfDeviceInv DEF Approved, NoneHands
<1>3. CodesOK' /\ PollsOK' /\ used' \in UsedState /\ UNCHANGED <<owner, browser, kernel, restoring>>
  BY PartsOfDeviceInv DEF Approved, CodesOK, PollsOK
<1>4. CASE owner[f] \in Widget
  <2>1. Says(owner[f], "approved") /\ Handing(owner[f])
    BY <1>4 DEF Approved, Handing
  <2> QED BY <1>2, <1>3, <1>4, <2>1, SaidAside
<1>5. CASE owner[f] \notin Widget
  <2>1. UNCHANGED page
    BY <1>5 DEF Approved, page
  <2> QED BY <1>2, <1>3, <2>1, ServedAside
<1> QED BY <1>4, <1>5

\* A widget says it is approved by the token it found.
LEMMA RestoredStep ==
  ASSUME DeviceInv, NEW w \in Widget, Restored(w)
  PROVE  DeviceInv'
<1>1. /\ CodesOK' /\ PollsOK' /\ flow' \in [Flow -> FlowState] /\ used' \in UsedState
      /\ UNCHANGED <<owner, browser, kernel>> /\ NoneHands
  BY PartsOfDeviceInv DEF Restored, CodesOK, PollsOK, NoneHands
<1>2. Says(w, "approved") /\ Handing(w) /\ restoring' \subseteq restoring
  BY DEF Restored, Handing
<1> QED BY <1>1, <1>2, SaidAside

\* A submit or feedback widget asks the server, and may be answered that it may not.
LEMMA UsesStep ==
  ASSUME DeviceInv, NEW w \in Widget, Uses(w)
  PROVE  DeviceInv'
<1>1. /\ CodesOK' /\ PollsOK' /\ flow' \in [Flow -> FlowState] /\ used' \in UsedState
      /\ UNCHANGED <<owner, kernel, restoring>> /\ NoneHands
  BY PartsOfDeviceInv DEF Uses, CodesOK, PollsOK, NoneHands
<1>2. Says(w, "idle") /\ browser' \in {browser, NoToken}
  BY DEF Uses
<1> QED BY <1>1, <1>2, SaidAside

\* A cell is re-run: its widget begins anew, and the others keep what they have.
LEMMA RerunStep ==
  ASSUME DeviceInv, NEW w \in Widget, Rerun(w)
  PROVE  DeviceInv'
<1> DEFINE p == browser.token
           c2 == Drawn(w, p)
<1>1. PageOK /\ p \in Person \cup {None}
  BY PartsOfDeviceInv DEF PageOK
<1>2. /\ c2 \in Seq(Message) /\ NewKernel \in KernelState
      /\ TokenComesFirst(c2, NewKernel)
      /\ w \in Restoring(w, p) => /\ p # None
                                 /\ HasToken(c2, NewKernel)
                                 /\ LastTokenIs(p, c2, NewKernel)
  BY <1>1, DrawnIsFine
<1>3. /\ browser' = [browser EXCEPT !.told = (browser.told \ {w}) \cup Restoring(w, p)]
      /\ synced' = [synced EXCEPT ![w] = "idle"]
      /\ channel' = [channel EXCEPT ![w] = c2]
      /\ kernel' = [kernel EXCEPT ![w] = NewKernel]
      /\ restoring' = (restoring \ {w}) \cup Restoring(w, p)
      /\ UNCHANGED <<code, poll, flow>>
  BY DEF Rerun
<1>4. Restoring(w, p) \subseteq {w}
  BY DEF Restoring
<1> HIDE DEF c2, p
<1>5. PageOK'
  <2>1. browser' \in [token : Person \cup {None}, told : SUBSET Widget]
    <3>1. (browser.told \ {w}) \cup Restoring(w, p) \in SUBSET Widget
      BY <1>1, <1>4 DEF PageOK
    <3> QED BY <1>1, <1>3, <3>1 DEF PageOK
  <2>2. restoring' \subseteq Widget
    BY <1>1, <1>3, <1>4 DEF PageOK
  <2>3. /\ synced' \in [Widget -> {"idle", "approved"}] /\ channel' \in [Widget -> Seq(Message)]
        /\ kernel' \in [Widget -> KernelState]
    BY <1>1, <1>2, <1>3 DEF PageOK
  <2> QED BY <2>1, <2>2, <2>3 DEF PageOK
<1>6. /\ owner' \in [Flow -> Widget \cup {"storage", "gone"}]
      /\ \A f \in Flow : owner'[f] \in Widget => owner'[f] = owner[f]
      /\ \A f \in Flow : owner'[f] = w => flow[f].pc = "idle"
  BY PartsOfDeviceInv, WidgetAssumption DEF Rerun
<1>7. used' \in UsedState
  <2>1. used \in UsedState
    BY PartsOfDeviceInv
  <2>2. PICK c \in SUBSET Flow : used' = [used EXCEPT !.reruns = used.reruns + 1, !.cut = used.cut \cup c]
    BY DEF Rerun
  <2>3. used.reruns + 1 \in 0..MaxReruns /\ used.cut \cup c \in SUBSET Flow
    BY <2>1, BoundAssumption DEF Rerun, UsedState
  <2> QED BY <2>1, <2>2, <2>3 DEF UsedState
<1>8. CodesOK' /\ PollsOK' /\ flow' \in [Flow -> FlowState]
  BY <1>3, PartsOfDeviceInv DEF CodesOK, PollsOK
<1>9. /\ browser'.token = p /\ browser'.told = (browser.told \ {w}) \cup Restoring(w, p)
      /\ channel'[w] = c2 /\ kernel'[w] = NewKernel
      /\ \A u \in Widget \ {w} : channel'[u] = channel[u] /\ kernel'[u] = kernel[u]
  BY <1>1, <1>3 DEF PageOK, p
<1>10. WidgetInv(w)'
  <2>1. Handing(w)' => w \in Restoring(w, p)
    BY <1>3, <1>6 DEF Handing
  <2> QED BY <1>2, <1>9, <2>1 DEF WidgetInv
<1>11. ASSUME NEW u \in Widget \ {w} PROVE WidgetInv(u)'
  <2>1. Handing(u)' => Handing(u)
    BY <1>3, <1>4, <1>6 DEF Handing
  <2>2. u \in browser'.told => u \in browser.told /\ browser'.token = browser.token
    BY <1>4, <1>9 DEF p
  <2> QED BY <1>9, <2>1, <2>2, WidgetRests
<1> QED BY <1>5, <1>6, <1>7, <1>8, <1>10, <1>11, DeviceInvAgain

\* A widget hands over the token of whoever was approved; the others keep what they have
\* told, which is not the page's token any more.
LEMMA HandOverStep ==
  ASSUME DeviceInv, NEW w \in Widget, NEW p \in Person, HandOver(w, p),
         UNCHANGED <<owner, synced, kernel, restoring>>,
         NEW f \in Flow, owner[f] = w,
         \A g \in Flow \ {f} : flow'[g].pc = "handing" => flow[g].pc = "handing"
  PROVE  PageOK' /\ \A u \in Widget : WidgetInv(u)'
<1> DEFINE c2 == Append(channel[w], Token(p))
<1>1. PageOK /\ WidgetInv(w) /\ channel[w] \in Seq(Message) /\ kernel[w] \in KernelState
  BY PartsOfDeviceInv DEF PageOK
<1>2. /\ c2 \in Seq(Message)
      /\ TokenComesFirst(c2, kernel[w]) /\ HasToken(c2, kernel[w]) /\ LastTokenIs(p, c2, kernel[w])
  BY <1>1, TokenSent DEF WidgetInv
<1>3. browser' = [token |-> p, told |-> {w}] /\ channel' = [channel EXCEPT ![w] = c2]
  BY DEF HandOver
<1> HIDE DEF c2
<1>4. PageOK'
  BY <1>1, <1>2, <1>3 DEF PageOK
<1>5. channel'[w] = c2 /\ \A u \in Widget \ {w} : channel'[u] = channel[u]
  BY <1>1, <1>3 DEF PageOK
<1>6. WidgetInv(w)'
  BY <1>2, <1>3, <1>5, NoneAssumption DEF WidgetInv
<1>7. ASSUME NEW u \in Widget \ {w} PROVE WidgetInv(u)'
  <2>1. Handing(u)' => Handing(u)
    BY DEF Handing
  <2> QED BY <1>3, <1>5, <2>1, WidgetRests
<1> QED BY <1>4, <1>6, <1>7

\* The answer to an approved poll hands over the token of the person who approved.
LEMMA PollAnswerStep ==
  ASSUME DeviceInv, NEW q \in Poll, PollAnswer(q)
  PROVE  DeviceInv'
<1> DEFINE f == q[1]
           p == poll[q].user
<1>1. f \in Flow
  BY DEF Poll
<1>2. PollsOK'
  <2>1. \/ poll' = [poll EXCEPT ![q] = NoPoll]
        \/ poll' = [poll EXCEPT ![q] = [poll[q] EXCEPT !.left = poll[q].left \ {"answer"}]]
    BY DEF PollAnswer, Left
  <2>2. poll[q].left \ {"answer"} \in SUBSET {"commit", "answer"}
    BY PartsOfDeviceInv DEF PollsOK, PollState
  <2> QED BY <2>1, <2>2, PollShrinks, PartsOfDeviceInv
<1>3. UNCHANGED <<owner, kernel, restoring>> /\ used' \in UsedState
  BY PartsOfDeviceInv DEF PollAnswer
<1>4. CASE Loop(f) /\ UNCHANGED <<browser, synced, channel>>
  <2>1. UNCHANGED page
    BY <1>3, <1>4 DEF page
  <2> QED BY <1>1, <1>2, <1>3, <1>4, <2>1, LoopStep, ServedAside
<1>5. CASE End(f, "failed") /\ Progress(owner[f]) /\ UNCHANGED browser
  BY <1>1, <1>2, <1>3, <1>5, EndStep, ProgressAside
<1>6. CASE /\ poll[q].status = "approved" /\ owner[f] \in Widget
           /\ End(f, "handing") /\ HandOver(owner[f], p) /\ UNCHANGED synced
  <2>1. p \in Person
    BY <1>6, PartsOfDeviceInv DEF PollsOK
  <2>2. CodesOK' /\ flow' \in [Flow -> FlowState]
    BY <1>1, <1>6, EndStep
  <2>3. \A g \in Flow \ {f} : flow'[g].pc = "handing" => flow[g].pc = "handing"
    BY <1>1, <1>6, PartsOfDeviceInv DEF End
  <2>4. PageOK' /\ \A u \in Widget : WidgetInv(u)'
    BY <1>1, <1>3, <1>6, <2>1, <2>3, HandOverStep
  <2>5. owner' \in [Flow -> Widget \cup {"storage", "gone"}]
    BY <1>3, PartsOfDeviceInv
  <2> QED BY <1>2, <1>3, <2>2, <2>4, <2>5, DeviceInvAgain
<1>7. CASE /\ poll[q].status = "approved" /\ End(f, "signed_in")
           /\ browser' = [token |-> p, told |-> {}] /\ UNCHANGED <<synced, channel>>
  <2>1. p \in Person
    BY <1>7, PartsOfDeviceInv DEF PollsOK
  <2>2. CodesOK' /\ flow' \in [Flow -> FlowState] /\ NoneHands
    BY <1>1, <1>7, EndStep
  <2>3. PageOK'
    BY <1>3, <1>7, <2>1, PartsOfDeviceInv DEF PageOK
  <2>4. ASSUME NEW u \in Widget PROVE WidgetInv(u)'
    <3>1. Handing(u)' => Handing(u)
      BY <1>3, <2>2, HandingRests
    <3> QED BY <1>3, <1>7, <3>1, WidgetRests
  <2>5. owner' \in [Flow -> Widget \cup {"storage", "gone"}]
    BY <1>3, PartsOfDeviceInv
  <2> QED BY <1>2, <1>3, <2>2, <2>3, <2>4, <2>5, DeviceInvAgain
<1>8. CASE End(f, "signed_in") /\ UNCHANGED <<browser, synced, channel>>
  <2>1. UNCHANGED page
    BY <1>3, <1>8 DEF page
  <2> QED BY <1>1, <1>2, <1>3, <1>8, <2>1, EndStep, ServedAside
<1> QED BY <1>4, <1>5, <1>6, <1>7, <1>8 DEF PollAnswer

\* A kernel object reads its next message.
LEMMA KernelReadsStep ==
  ASSUME DeviceInv, NEW w \in Widget, KernelStep(w)
  PROVE  DeviceInv'
<1> DEFINE c2 == Tail(channel[w])
           k2 == AfterReading(kernel[w], Head(channel[w]))
<1>1. PageOK /\ WidgetInv(w) /\ channel[w] \in Seq(Message) /\ kernel[w] \in KernelState
  BY PartsOfDeviceInv DEF PageOK
<1>2. channel[w] # <<>> /\ TokenComesFirst(channel[w], kernel[w])
  BY <1>1 DEF KernelStep, WidgetInv
<1>3. /\ c2 \in Seq(Message) /\ k2 \in KernelState
      /\ TokenComesFirst(c2, k2)
      /\ HasToken(channel[w], kernel[w]) => HasToken(c2, k2)
      /\ \A p \in Person : LastTokenIs(p, channel[w], kernel[w]) => LastTokenIs(p, c2, k2)
  <2>1. c2 = Tail(channel[w]) /\ k2 = AfterReading(kernel[w], Head(channel[w]))
    OBVIOUS
  <2> HIDE DEF c2, k2
  <2> DEFINE ch == channel[w]
             k == kernel[w]
  <2>2. ch \in Seq(Message) /\ k \in KernelState /\ ch # <<>> /\ TokenComesFirst(ch, k)
    BY <1>1, <1>2
  <2>3. c2 = Tail(ch) /\ k2 = AfterReading(k, Head(ch))
    BY <2>1
  <2> HIDE DEF ch, k
  <2>4. /\ c2 \in Seq(Message) /\ k2 \in KernelState
        /\ TokenComesFirst(c2, k2)
        /\ HasToken(ch, k) => HasToken(c2, k2)
        /\ \A p \in Person : LastTokenIs(p, ch, k) => LastTokenIs(p, c2, k2)
    BY <2>2, <2>3, MessageRead
  <2> QED BY <2>4 DEF ch, k
<1>4. /\ channel' = [channel EXCEPT ![w] = c2] /\ kernel' = [kernel EXCEPT ![w] = k2]
      /\ UNCHANGED <<owner, code, poll, flow, browser, synced, restoring, used>>
  BY <1>1 DEF KernelStep, AfterReading, TokenOf, PageOK
<1> HIDE DEF c2, k2
<1>5. PageOK'
  BY <1>1, <1>3, <1>4 DEF PageOK
<1>6. /\ channel'[w] = c2 /\ kernel'[w] = k2
      /\ \A u \in Widget \ {w} : channel'[u] = channel[u] /\ kernel'[u] = kernel[u]
  BY <1>1, <1>4 DEF PageOK
<1>7. ASSUME NEW u \in Widget PROVE WidgetInv(u)'
  <2>1. Handing(u)' => Handing(u)
    BY <1>4 DEF Handing
  <2>2. CASE u = w
    <3>1. browser.token \in Person \cup {None}
      BY <1>1 DEF PageOK
    <3> QED BY <1>1, <1>3, <1>4, <1>6, <2>1, <2>2, <3>1 DEF WidgetInv
  <2>3. CASE u # w
    BY <1>4, <1>6, <2>1, <2>3, WidgetRests
  <2> QED BY <2>2, <2>3
<1>8. /\ CodesOK' /\ PollsOK' /\ flow' \in [Flow -> FlowState] /\ used' \in UsedState
      /\ owner' \in [Flow -> Widget \cup {"storage", "gone"}]
  BY <1>4, PartsOfDeviceInv DEF CodesOK, PollsOK
<1> QED BY <1>5, <1>7, <1>8, DeviceInvAgain

\* Every step keeps the invariant.
LEMMA DeviceInvStep ==
  ASSUME DeviceInv, [Next]_vars
  PROVE  DeviceInv'
<1>1. CASE UNCHANGED vars
  <2>1. UNCHANGED <<owner, code, poll, flow, page, used>>
    BY <1>1 DEF vars, page
  <2> QED BY <2>1, ServedAside, PartsOfDeviceInv DEF PollsOK, CodesOK, NoneHands
<1>2. ASSUME NEW f \in Flow,
             \/ SignIn(f) \/ SignInAgain(f) \/ GiveUp(f) \/ Approved(f)
             \/ SendPoll(f) \/ BreakPoll(f) \/ PollError(f)
             \/ CodeExpires(f) \/ \E p \in Person : Verify(p, f)
      PROVE  DeviceInv'
  BY <1>2, SignInStep, SignInAgainStep, ApprovedStep, SendPollStep, CutPollStep, CodeExpiresStep, VerifyStep
<1>3. ASSUME NEW q \in Poll, PollRead(q) \/ PollCommit(q) \/ PollAnswer(q) PROVE DeviceInv'
  BY <1>3, PollReadStep, PollCommitStep, PollAnswerStep
<1>4. ASSUME NEW w \in Widget, Restored(w) \/ Uses(w) \/ Rerun(w) \/ KernelStep(w) PROVE DeviceInv'
  BY <1>4, RestoredStep, UsesStep, RerunStep, KernelReadsStep
<1> QED BY <1>1, <1>2, <1>3, <1>4 DEF Next

\* DeviceSignIn: when the kernel learns that a widget is approved, the widget's object there
\* has a token; and once it has read its messages, the object of a widget that handed over
\* the page's token acts for the person the page acts for, for any widgets and whichever of
\* several overlapping sign-ins was answered last.
THEOREM KernelFollows == Spec => []KernelFollowsPage
<1>1. Init => DeviceInv
  BY DeviceInvStarts
<1>2. DeviceInv /\ [Next]_vars => DeviceInv'
  BY DeviceInvStep
<1>3. DeviceInv => KernelFollowsPage
  <2> SUFFICES ASSUME DeviceInv PROVE KernelFollowsPage
    OBVIOUS
  <2>1. KernelFindsToken
    BY DEF DeviceInv, WidgetInv, TokenComesFirst, KernelFindsToken
  <2>2. KernelAgrees
    <3> SUFFICES ASSUME NEW w \in browser.told, channel[w] = <<>> PROVE kernel[w].token = browser.token
      BY DEF KernelAgrees
    <3>1. w \in Widget
      BY PartsOfDeviceInv DEF PageOK
    <3>2. LastTokenIs(browser.token, channel[w], kernel[w])
      BY <3>1 DEF DeviceInv, WidgetInv
    <3>3. TokenAt(channel[w]) = {}
      BY DEF TokenAt
    <3> QED BY <3>2, <3>3 DEF LastTokenIs
  <2> QED BY <2>1, <2>2 DEF DeviceInv, KernelFollowsPage
<1> QED BY <1>1, <1>2, <1>3, PTL DEF Spec

-----------------------------------------------------------------------------
(* The graders' machine: the inductive invariant.                          *)

Kind == {"render", "autograde"}
Phrase == {Phrases[i] : i \in 1..6}

AttemptType ==
  [nb : Notebook \cup {<<>>}, status : {"none", "received", "graded", "failed"}, todo : Seq(Kind),
   page : BOOLEAN, error : SUBSET Phrase, points : {0, 1}, trusted : BOOLEAN, last : {"none"} \cup Kind]

Copies == {Course[s] : s \in Assignment}

ProcessType ==
  [pc : {"idle", "scan", "next", "urls", "prepare", "build", "mark", "execute"},
   of : Attempt \cup Assignment \cup {0}, nb : Notebook \cup {<<>>} \cup Copies,
   mapped : SUBSET Url, warm : BOOLEAN, asked : SUBSET Assignment, todo : SUBSET Assignment,
   left : SUBSET Data, missing : BOOLEAN, check : BOOLEAN]

\* A notebook that reads what a warm cache has.
Readable(nb) == nb.reads["mine"] \cup nb.reads["other"] \subseteq Provided(nb.of)

\* A right answer may go without points: another check ran and had less to read.
Excused(nb) ==
  \E c \in Check \ {"mine"} : nb.answer[c] \in {"right", "wrong"} /\ ~(nb.reads["mine"] \subseteq nb.reads[c])

\* Why an attempt is shown as failed, unless the render of its page spoke last.
Verdict(t) ==
  \/ t.error = {"could not build"}
  \/ t.error = {"safety check failed"} /\ Unsafe(t.nb)
  \/ t.error = {"timed out after"} /\ TimesOut(t.nb)
  \/ t.error = {"MultipleDefinitionError"} /\ t.nb.code = "redefined"
  \/ /\ t.error = {"no check cell ran", "some cells failed"}
     /\ t.trusted => ~(t.nb.answer["mine"] = "right" /\ Readable(t.nb))
     /\ t.last = "autograde" /\ t.page => (t.nb.reads["mine"] \cup t.nb.reads["other"]) \cap Url # {}

Spoke(t) == t.last = "render" /\ t.error = {"some cells failed"}

\* An attempt, with the datasets there are: it was handed in before anything runs, its page
\* has downloaded what it reads, its points are its answer's, and a run that grades it comes
\* last unless the clock ticked.
AttemptOK(t, there) ==
  /\ t \in AttemptType
  /\ t.status = "none" => t.todo = <<>>
  /\ t.status # "none" => t.nb \in Notebook
  /\ t.page => \A c \in Check : t.nb.answer[c] # "raises" /\ t.nb.reads[c] \cap Dataset \subseteq there
  /\ t.status = "graded" /\ t.nb.auto /\ t.nb.answer["mine"] = "right" =>
       /\ t.points = 0 => Excused(t.nb)
       /\ t.trusted /\ Readable(t.nb) => t.points = 1
  /\ t.status = "failed" => Verdict(t) \/ Spoke(t)
  /\ ~Skew => /\ t.todo # <<>> => t.todo[Len(t.todo)] = "autograde"
              /\ t.status # "none" /\ t.todo = <<>> => t.last = "autograde"

\* A run is the next one of its attempt, of the attempt's notebook; one that began in a warm
\* cache has what the caches were filled with.
WorkerOK(w) ==
  /\ w.of \in Attempt \cup {0} /\ (w.of = 0 <=> w.pc = "idle")
  /\ w.of # 0 => /\ attempt[w.of].todo # <<>> /\ attempt[w.of].status # "none"
                 /\ w.nb = attempt[w.of].nb
  /\ w.pc = "scan" => Head(attempt[w.of].todo) = "autograde"
  /\ w.pc \notin {"next", "urls"}
  /\ w.warm => Provided(w.nb.of) \cap Dataset \subseteq hf /\ Provided(w.nb.of) \cap Url \subseteq w.mapped

Have(d) == d \in hf \/ d \in urls

\* The warmer has dealt with what it provides of the assignments it went through, but for
\* what is left of the one it is at.
WarmerOK(w) ==
  /\ w.pc # "scan"
  /\ w.pc = "next" => w.left = {}
  /\ w.pc \notin {"idle", "next"} => w.of \in Assignment /\ w.nb = Course[w.of]
  /\ w.pc # "idle" /\ ~w.missing =>
       \A s \in w.asked \ w.todo : \A d \in Provided(s) : Have(d) \/ (s = w.of /\ d \in w.left)

CachesOK ==
  /\ hf \subseteq Dataset /\ urls \subseteq Url /\ said \subseteq Assignment
  /\ \A s \in said : \A d \in Provided(s) : Have(d)

\* While no two processes built one environment at once: one marked ready is whole and is
\* what its key says, a process executes in a ready one, builds one that is not, and has
\* finished building a whole one.
WholeEnv(key) == Env(key).state = "whole" /\ Env(key).packages = key
Executes(p) == process[p].pc = "execute"

EnvRecord(e) == e \in [packages : {e.packages}, state : {"partial", "whole"}, ready : BOOLEAN]

EnvOK ==
  /\ \A key \in DOMAIN env : EnvRecord(env[key])
  /\ \A p \in Process : Building(p) => Key(p) \in DOMAIN env
  /\ ~overlapped =>
       /\ \A key \in DOMAIN env : env[key].ready => WholeEnv(key)
       /\ \A p \in Process :
            /\ process[p].pc = "mark" => WholeEnv(Key(p))
            /\ Building(p) => ~env[Key(p)].ready
            /\ Executes(p) => Key(p) \in DOMAIN env /\ env[Key(p)].ready
       /\ \A p, q \in Process : Building(p) /\ Building(q) /\ Key(p) = Key(q) => p = q

ExecInv ==
  /\ process \in [Process -> ProcessType] /\ attempt \in [Attempt -> AttemptType]
  /\ \A a \in Attempt : AttemptOK(attempt[a], hf)
  /\ WorkerOK(process["worker"]) /\ WarmerOK(process["warmer"])
  /\ CachesOK /\ EnvOK /\ happened \in 0..MaxEvents

-----------------------------------------------------------------------------
(* The graders' machine: what a step leaves alone.                         *)

\* The texts there are.
LEMMA PhrasesAre ==
  /\ Phrases[1] = "safety check failed" /\ Phrases[2] = "MultipleDefinitionError"
  /\ Phrases[3] = "timed out after" /\ Phrases[4] = "no check cell ran"
  /\ Phrases[5] = "could not build" /\ Phrases[6] = "some cells failed"
  /\ {"safety check failed", "MultipleDefinitionError", "timed out after", "no check cell ran",
      "could not build", "some cells failed"} \subseteq Phrase
<1>1. /\ Phrases[1] = "safety check failed" /\ Phrases[2] = "MultipleDefinitionError"
      /\ Phrases[3] = "timed out after" /\ Phrases[4] = "no check cell ran"
      /\ Phrases[5] = "could not build" /\ Phrases[6] = "some cells failed"
  BY DEF Phrases
<1>2. \A i \in 1..6 : Phrases[i] \in Phrase
  BY DEF Phrase
<1>3. /\ Phrases[1] \in Phrase /\ Phrases[2] \in Phrase /\ Phrases[3] \in Phrase
      /\ Phrases[4] \in Phrase /\ Phrases[5] \in Phrase /\ Phrases[6] \in Phrase
  BY <1>2
<1> HIDE DEF Phrases, Phrase
<1>4. \A q \in {"safety check failed", "MultipleDefinitionError", "timed out after", "no check cell ran",
      "could not build", "some cells failed"} : q \in Phrase
  BY <1>1, <1>3
<1> QED BY <1>1, <1>4

\* One process moves.
LEMMA ProcessGoes ==
  ASSUME process \in [Process -> ProcessType], NEW p \in Process, NEW w \in ProcessType,
         process' = [process EXCEPT ![p] = w]
  PROVE  /\ process' \in [Process -> ProcessType] /\ process'[p] = w
         /\ \A q \in Process : q # p => process'[q] = process[q]
OBVIOUS

\* Who idles is no trouble.
LEMMA IdleIsFine ==
  /\ NoProcess \in ProcessType /\ NoProcess.pc = "idle" /\ NoProcess.of = 0
  /\ WorkerOK(NoProcess) /\ WorkerOK(NoProcess)' /\ WarmerOK(NoProcess) /\ WarmerOK(NoProcess)'
BY DEF NoProcess, ProcessType, WorkerOK, WarmerOK

\* The environments are as good as before when none is touched and no process gets to one.
LEMMA EnvStays ==
  ASSUME EnvOK, UNCHANGED <<env, overlapped>>,
         \A p \in Process : Building(p)' => process'[p].pc = process[p].pc /\ process'[p].nb = process[p].nb,
         \A p \in Process : Executes(p)' => Executes(p) /\ process'[p].nb = process[p].nb
  PROVE  EnvOK'
<1>1. \A p \in Process : Building(p)' => /\ Building(p) /\ Key(p)' = Key(p)
                                         /\ process'[p].pc = "mark" => process[p].pc = "mark"
  BY DEF Building, Key
<1>2. \A p \in Process : Executes(p)' => Executes(p) /\ Key(p)' = Key(p)
  BY DEF Key
<1>3. \A key : Env(key)' = Env(key)
  BY DEF Env
<1>4. \A p \in Process : process'[p].pc = "mark" => Building(p)'
  BY DEF Building
<1>5. \A key : WholeEnv(key)' <=> WholeEnv(key)
  BY <1>3 DEF WholeEnv
<1>6. \A p \in Process : process'[p].pc = "mark" => process[p].pc = "mark" /\ Key(p)' = Key(p)
  BY <1>1, <1>4
<1> QED BY <1>1, <1>2, <1>5, <1>6 DEF EnvOK

\* What was there still is when the caches only grow.
LEMMA CachesGrow ==
  ASSUME CachesOK, hf \subseteq hf', hf' \subseteq Dataset, urls \subseteq urls', urls' \subseteq Url
  PROVE  /\ said' = said => CachesOK'
         /\ \A d : Have(d) => Have(d)'
         /\ \A t : AttemptOK(t, hf) => AttemptOK(t, hf')
         /\ \A w : WarmerOK(w) => WarmerOK(w)'
         /\ attempt' = attempt => \A w : WorkerOK(w) => WorkerOK(w)'
<1>1. \A d : Have(d) => Have(d)'
  BY DEF Have
<1>2. said' = said => CachesOK'
  BY <1>1 DEF CachesOK
<1>3. \A t : AttemptOK(t, hf) => AttemptOK(t, hf')
  BY DEF AttemptOK
<1>4. \A w : WarmerOK(w) => WarmerOK(w)'
  BY <1>1 DEF WarmerOK
<1>5. attempt' = attempt => \A w : WorkerOK(w) => WorkerOK(w)'
  BY DEF WorkerOK
<1> QED BY <1>1, <1>2, <1>3, <1>4, <1>5

\* A run that is over leaves the rest of its attempt's runs.
LEMMA RestOfRuns ==
  ASSUME NEW todo \in Seq(Kind), todo # <<>>
  PROVE  /\ Tail(todo) \in Seq(Kind) /\ Head(todo) \in Kind
         /\ Tail(todo) # <<>> => Tail(todo)[Len(Tail(todo))] = todo[Len(todo)]
         /\ Tail(todo) = <<>> => Head(todo) = todo[Len(todo)]
<1>1. /\ Head(todo) = todo[1] /\ Tail(todo) \in Seq(Kind) /\ Len(Tail(todo)) = Len(todo) - 1
      /\ \A i \in 1..Len(Tail(todo)) : Tail(todo)[i] = todo[i + 1]
  BY HeadTailProperties
<1>2. /\ Len(todo) \in Nat /\ Len(todo) # 0 /\ Len(Tail(todo)) \in Nat
      /\ Tail(todo) = <<>> <=> Len(Tail(todo)) = 0
  BY <1>1, LenProperties, EmptySeq
<1>3. todo[1] \in Kind
  BY <1>2, ElementOfSeq
<1>4. Tail(todo) # <<>> => Len(Tail(todo)) \in 1..Len(Tail(todo)) /\ Len(Tail(todo)) + 1 = Len(todo)
  BY <1>1, <1>2
<1>5. Tail(todo) # <<>> => Tail(todo)[Len(Tail(todo))] = todo[Len(todo)]
  BY <1>1, <1>4
<1>6. Tail(todo) = <<>> => Len(todo) = 1
  BY <1>1, <1>2
<1> QED BY <1>1, <1>3, <1>5, <1>6

\* The run in progress, and its attempt.
LEMMA CurrentIs ==
  ASSUME ExecInv, Current # 0
  PROVE  /\ Current \in Attempt /\ process["worker"] \in ProcessType
         /\ attempt[Current] \in AttemptType /\ AttemptOK(attempt[Current], hf)
         /\ attempt[Current].todo \in Seq(Kind) /\ attempt[Current].todo # <<>>
         /\ attempt[Current].status # "none" /\ attempt[Current].nb \in Notebook
         /\ process["worker"].nb = attempt[Current].nb /\ process["worker"].pc # "idle"
         /\ Head(attempt[Current].todo) \in Kind
<1>1. "worker" \in Process /\ process["worker"] \in ProcessType /\ WorkerOK(process["worker"])
  BY DEF ExecInv, Process
<1>2. Current \in Attempt
  BY <1>1 DEF Current, WorkerOK
<1>3. /\ attempt[Current] \in AttemptType /\ AttemptOK(attempt[Current], hf)
      /\ attempt[Current].todo # <<>> /\ attempt[Current].status # "none"
      /\ process["worker"].nb = attempt[Current].nb /\ process["worker"].pc # "idle"
  BY <1>1, <1>2 DEF ExecInv, WorkerOK, Current
<1>4. attempt[Current].todo \in Seq(Kind) /\ attempt[Current].nb \in Notebook
  BY <1>3 DEF AttemptType, AttemptOK
<1> QED BY <1>1, <1>2, <1>3, <1>4, RestOfRuns

\* The worker has done a run.
LEMMA RunEnds ==
  ASSUME ExecInv, Current # 0, NEW t \in AttemptType, attempt' = [attempt EXCEPT ![Current] = t],
         AttemptOK(t, hf'), process' = [process EXCEPT !["worker"] = NoProcess],
         hf \subseteq hf', hf' \subseteq Dataset, UNCHANGED <<urls, said, env, happened, overlapped>>
  PROVE  ExecInv'
<1>1. "worker" \in Process /\ "warmer" \in Process /\ "worker" # "warmer" /\ Current \in Attempt
  BY CurrentIs DEF Process
<1>2. /\ process' \in [Process -> ProcessType] /\ process'["worker"] = NoProcess
      /\ process'["warmer"] = process["warmer"]
  BY <1>1, IdleIsFine, ProcessGoes DEF ExecInv
<1>3. /\ attempt' \in [Attempt -> AttemptType]
      /\ \A a \in Attempt : attempt'[a] = IF a = Current THEN t ELSE attempt[a]
  BY <1>1 DEF ExecInv
<1>4. /\ CachesOK' /\ \A a \in Attempt : AttemptOK(attempt[a], hf')
      /\ WarmerOK(process["warmer"])'
  BY CachesGrow DEF ExecInv, CachesOK
<1>5. \A a \in Attempt : AttemptOK(attempt'[a], hf')
  BY <1>3, <1>4
<1>6. WorkerOK(process["worker"])' /\ WarmerOK(process["warmer"])'
  BY <1>2, <1>4, IdleIsFine DEF WarmerOK
<1>7. EnvOK'
  <2>1. \A p \in Process : p = "worker" \/ p = "warmer"
    BY DEF Process
  <2>2. ~Building("worker")' /\ ~Executes("worker")'
    BY <1>2, IdleIsFine DEF Building, Executes
  <2>3. (Building("warmer")' <=> Building("warmer")) /\ (Executes("warmer")' <=> Executes("warmer"))
    BY <1>2 DEF Building, Executes
  <2> QED BY <1>2, <2>1, <2>2, <2>3, EnvStays DEF ExecInv
<1> QED BY <1>2, <1>3, <1>4, <1>5, <1>6, <1>7 DEF ExecInv

\* The attempt a run leaves.
LEMMA EndsAs ==
  ASSUME ExecInv, Current # 0, NEW changed \in AttemptType, Ended(Current, changed)
  PROVE  \E t \in AttemptType :
           /\ attempt' = [attempt EXCEPT ![Current] = t]
           /\ process' = [process EXCEPT !["worker"] = NoProcess]
           /\ t.nb = changed.nb /\ t.status = changed.status /\ t.page = changed.page
           /\ t.error = changed.error /\ t.points = changed.points
           /\ t.last = Head(attempt[Current].todo) /\ t.todo = Tail(attempt[Current].todo)
           /\ Running("autograde") => t.trusted = process["worker"].warm
           /\ ~Running("autograde") => t.trusted = changed.trusted
<1> DEFINE sure == IF Running("autograde") THEN process["worker"].warm ELSE changed.trusted
           t == [changed EXCEPT !.todo = Tail(attempt[Current].todo), !.last = Head(attempt[Current].todo),
                                !.trusted = sure]
<1>1. /\ Tail(attempt[Current].todo) \in Seq(Kind) /\ process["worker"].warm \in BOOLEAN
      /\ Head(attempt[Current].todo) \in {"none"} \cup Kind
  BY CurrentIs, RestOfRuns DEF ProcessType
<1>2. changed.trusted \in BOOLEAN
  BY DEF AttemptType
<1>3. sure \in BOOLEAN
  BY <1>1, <1>2
<1>4. attempt' = [attempt EXCEPT ![Current] = t] /\ process' = [process EXCEPT !["worker"] = NoProcess]
  BY DEF Ended
<1> HIDE DEF sure
<1>5. /\ t \in AttemptType /\ t.trusted = sure
      /\ t.nb = changed.nb /\ t.status = changed.status /\ t.page = changed.page
      /\ t.error = changed.error /\ t.points = changed.points
      /\ t.last = Head(attempt[Current].todo) /\ t.todo = Tail(attempt[Current].todo)
  BY <1>1, <1>3 DEF AttemptType
<1> HIDE DEF t
<1> QED BY <1>4, <1>5 DEF sure

\* A run has failed for one of the reasons there are.
LEMMA RunFails ==
  ASSUME ExecInv, Current # 0, NEW text \in SUBSET Phrase, Failed(Current, text),
         \A t : /\ t.nb = attempt[Current].nb /\ t.error = text /\ t.page = attempt[Current].page
                /\ t.last = Head(attempt[Current].todo)
                /\ Running("autograde") => t.trusted = process["worker"].warm
                => Verdict(t) \/ Spoke(t),
         hf \subseteq hf', hf' \subseteq Dataset, UNCHANGED <<urls, said, env, happened, overlapped>>
  PROVE  ExecInv'
<1> DEFINE old == attempt[Current]
           status == IF Running("autograde") THEN "failed" ELSE old.status
           changed == [old EXCEPT !.error = text, !.status = status]
<1>1. old \in AttemptType /\ AttemptOK(old, hf) /\ old.todo \in Seq(Kind) /\ old.todo # <<>> /\ old.status # "none"
  BY CurrentIs
<1>2. status \in {"received", "graded", "failed"}
  BY <1>1 DEF AttemptType
<1>3. Ended(Current, changed)
  BY DEF Failed
<1> HIDE DEF status
<1>4. /\ changed \in AttemptType /\ changed.status = status /\ changed.error = text
      /\ changed.nb = old.nb /\ changed.page = old.page /\ changed.points = old.points
      /\ changed.trusted = old.trusted
  BY <1>1, <1>2 DEF AttemptType
<1> HIDE DEF changed
<1>5. PICK t \in AttemptType :
           /\ attempt' = [attempt EXCEPT ![Current] = t]
           /\ process' = [process EXCEPT !["worker"] = NoProcess]
           /\ t.nb = changed.nb /\ t.status = changed.status /\ t.page = changed.page
           /\ t.error = changed.error /\ t.points = changed.points
           /\ t.last = Head(old.todo) /\ t.todo = Tail(old.todo)
           /\ Running("autograde") => t.trusted = process["worker"].warm
           /\ ~Running("autograde") => t.trusted = changed.trusted
  BY <1>3, <1>4, EndsAs
<1>6. ~Skew /\ t.todo # <<>> => t.todo[Len(t.todo)] = "autograde"
  BY <1>1, <1>5, RestOfRuns DEF AttemptOK
<1>7. /\ Verdict(t) \/ Spoke(t)
      /\ ~Skew /\ t.todo = <<>> => t.last = "autograde"
  <2>1. Verdict(t) \/ Spoke(t)
    BY <1>4, <1>5
  <2> QED BY <1>1, <1>5, <2>1, RestOfRuns DEF AttemptOK
<1>8. t.status = "graded" => t.status = old.status /\ t.trusted = old.trusted
  BY <1>4, <1>5 DEF status
<1>9. AttemptOK(t, hf')
  BY <1>1, <1>2, <1>4, <1>5, <1>6, <1>7, <1>8 DEF AttemptOK, Readable
<1> QED BY <1>5, <1>9, RunEnds

\* What a flush leaves to run: the run that grades is its last, unless the clock ticked.
LEMMA FlushEnds ==
  ASSUME NEW kinds \in Seq(Kind), NEW order \in ClaimOrder(kinds), NEW before \in Seq(Kind)
  PROVE  /\ before \o order \in Seq(Kind) /\ before \o order # <<>>
         /\ ~Skew => (before \o order)[Len(before \o order)] = "autograde"
<1>1. <<"autograde">> \in Seq(Kind) /\ Len(<<"autograde">>) = 1 /\ <<"autograde">>[1] = "autograde"
  BY DEF Kind
<1>2. order = kinds \o <<"autograde">> \/ (Skew /\ order = <<"autograde">> \o kinds)
  BY Zenon DEF ClaimOrder
<1>3. /\ order \in Seq(Kind) /\ Len(order) = Len(kinds) + 1 /\ Len(kinds) \in Nat
      /\ ~Skew => order[Len(order)] = "autograde"
  <2>1. CASE order = kinds \o <<"autograde">>
    BY <1>1, <2>1, ConcatProperties, LenProperties
  <2>2. CASE Skew /\ order = <<"autograde">> \o kinds
    BY <1>1, <2>2, ConcatProperties, LenProperties
  <2> QED BY <1>2, <2>1, <2>2
<1>4. /\ before \o order \in Seq(Kind) /\ Len(before \o order) = Len(before) + Len(order)
      /\ Len(before) \in Nat
      /\ (before \o order)[Len(before) + Len(order)] = order[Len(order)]
  <2>1. /\ before \o order \in Seq(Kind) /\ Len(before \o order) = Len(before) + Len(order)
        /\ \A i \in 1..(Len(before) + Len(order)) :
             (before \o order)[i] = IF i <= Len(before) THEN before[i] ELSE order[i - Len(before)]
    BY <1>3, ConcatProperties
  <2>0. Len(before) \in Nat /\ Len(order) \in Nat /\ Len(order) > 0
    BY <1>3, LenProperties
  <2>2. /\ Len(before) + Len(order) \in 1..(Len(before) + Len(order))
        /\ ~(Len(before) + Len(order) <= Len(before))
        /\ (Len(before) + Len(order)) - Len(before) = Len(order)
    BY <2>0
  <2>3. (before \o order)[Len(before) + Len(order)] = order[(Len(before) + Len(order)) - Len(before)]
    BY <2>1, <2>2
  <2> QED BY <2>0, <2>1, <2>2, <2>3
<1> QED BY <1>3, <1>4, EmptySeq

\* Retries, kills and warm-cache runs are counted up to their bound.
LEMMA Counts ==
  ASSUME happened \in 0..MaxEvents, Happens
  PROVE  happened' \in 0..MaxEvents
<1>1. MaxEvents \in Nat /\ happened < MaxEvents /\ happened' = happened + 1
  BY ExecutionAssumption DEF Happens
<1> QED BY <1>1

\* An attempt gets runs to do and nothing else moves.
LEMMA GetsRuns ==
  ASSUME ExecInv, NEW a \in Attempt, NEW t \in AttemptType, attempt' = [attempt EXCEPT ![a] = t],
         AttemptOK(t, hf), t.status # "none",
         attempt[a].status # "none" => t.nb = attempt[a].nb,
         attempt[a].todo # <<>> => t.todo # <<>> /\ Head(t.todo) = Head(attempt[a].todo),
         UNCHANGED <<caches, env, process, overlapped>>, happened' \in 0..MaxEvents
  PROVE  ExecInv'
<1>0. UNCHANGED <<hf, urls, said, env, process, overlapped>>
  BY DEF caches
<1>1. /\ attempt' \in [Attempt -> AttemptType]
      /\ \A b \in Attempt : attempt'[b] = IF b = a THEN t ELSE attempt[b]
  BY DEF ExecInv
<1>2. \A b \in Attempt : AttemptOK(attempt'[b], hf')
  BY <1>0, <1>1 DEF ExecInv
<1>3. "worker" \in Process /\ process["worker"] \in ProcessType /\ WorkerOK(process["worker"])
  BY DEF ExecInv, Process
<1>4. WorkerOK(process["worker"])'
  <2>1. process["worker"].of # 0 => process["worker"].of \in Attempt
    BY <1>3 DEF WorkerOK
  <2>2. (process["worker"].pc = "scan") => process["worker"].of # 0
    BY <1>3 DEF WorkerOK
  <2> QED BY <1>0, <1>1, <1>3, <2>1, <2>2 DEF WorkerOK
<1>5. WarmerOK(process["warmer"])' /\ CachesOK'
  BY <1>0, CachesGrow DEF ExecInv, CachesOK, WarmerOK
<1>6. EnvOK'
  BY <1>0, EnvStays DEF ExecInv, Executes, Building
<1> QED BY <1>0, <1>1, <1>2, <1>4, <1>5, <1>6 DEF ExecInv

\* HandIn.
LEMMA HandInStep ==
  ASSUME ExecInv, NEW a \in Attempt, NEW nb \in Notebook, HandIn(a, nb)
  PROVE  ExecInv'
<1>1. PICK order \in ClaimOrder(<<"render">>) :
        attempt' = [attempt EXCEPT ![a] = [NoAttempt EXCEPT !.nb = nb, !.status = "received", !.todo = order]]
  BY DEF HandIn
<1>2. <<"render">> \in Seq(Kind) /\ <<>> \in Seq(Kind)
  BY DEF Kind
<1>3. <<>> \o order = order /\ order \in Seq(Kind)
  <2>1. order \in Seq(Kind)
    <3>1. <<"autograde">> \in Seq(Kind)
      BY DEF Kind
    <3> QED BY <1>2, <3>1, ConcatProperties DEF ClaimOrder
  <2> QED BY <2>1, ConcatEmptySeq
<1>4. order # <<>> /\ (~Skew => order[Len(order)] = "autograde")
  BY <1>2, <1>3, FlushEnds
<1> DEFINE t == [NoAttempt EXCEPT !.nb = nb, !.status = "received", !.todo = order]
<1>5. /\ t \in AttemptType /\ t.status = "received" /\ t.nb = nb /\ t.todo = order
      /\ ~t.page
  BY <1>3 DEF NoAttempt, AttemptType
<1>6. attempt[a].status = "none" /\ AttemptOK(attempt[a], hf)
  BY DEF HandIn, ExecInv
<1>7. attempt' = [attempt EXCEPT ![a] = t] /\ UNCHANGED <<caches, env, process, happened, overlapped>>
  BY <1>1 DEF HandIn
<1> HIDE DEF t
<1>8. AttemptOK(t, hf) /\ attempt[a].todo = <<>>
  BY <1>4, <1>5, <1>6 DEF AttemptOK
<1> QED BY <1>5, <1>6, <1>7, <1>8, GetsRuns DEF ExecInv

\* Retried.
LEMMA RetriedStep ==
  ASSUME ExecInv, NEW a \in Attempt, Retried(a)
  PROVE  ExecInv'
<1> DEFINE old == attempt[a]
<1>1. PICK order \in ClaimOrder(IF old.page THEN <<>> ELSE <<"render">>) :
        attempt' = [attempt EXCEPT ![a].status = "received", ![a].todo = @ \o order]
  BY DEF Retried
<1>2. (IF old.page THEN <<>> ELSE <<"render">>) \in Seq(Kind)
  <2>1. <<>> \in Seq(Kind) /\ <<"render">> \in Seq(Kind)
    BY DEF Kind
  <2> QED BY <2>1, Zenon
<1>3. old \in AttemptType /\ AttemptOK(old, hf) /\ old.status # "none" /\ old.todo \in Seq(Kind)
  BY DEF Retried, ExecInv, AttemptType
<1>4. /\ old.todo \o order \in Seq(Kind) /\ old.todo \o order # <<>>
      /\ ~Skew => (old.todo \o order)[Len(old.todo \o order)] = "autograde"
  BY <1>2, <1>3, FlushEnds
<1>5. old.todo # <<>> => Head(old.todo \o order) = Head(old.todo)
  <2>1. <<"autograde">> \in Seq(Kind) /\ <<>> \in Seq(Kind) /\ <<"render">> \in Seq(Kind)
    BY DEF Kind
  <2>2. order \in Seq(Kind)
    BY <1>2, <2>1, ConcatProperties DEF ClaimOrder
  <2>3. /\ Len(old.todo) \in Nat /\ Len(order) \in Nat
        /\ Len(old.todo \o order) = Len(old.todo) + Len(order)
        /\ \A i \in 1..(Len(old.todo) + Len(order)) :
             (old.todo \o order)[i] = IF i <= Len(old.todo) THEN old.todo[i] ELSE order[i - Len(old.todo)]
    BY <1>3, <2>2, ConcatProperties, LenProperties
  <2>4. old.todo # <<>> => Len(old.todo) # 0
    BY <1>3, EmptySeq
  <2>5. old.todo # <<>> => (old.todo \o order)[1] = old.todo[1]
    BY <2>3, <2>4
  <2> QED BY <1>3, <1>4, <2>5, HeadTailProperties
<1> DEFINE t == [old EXCEPT !.status = "received", !.todo = old.todo \o order]
<1>6. /\ t \in AttemptType /\ t.status = "received" /\ t.nb = old.nb /\ t.todo = old.todo \o order
      /\ t.page = old.page
  BY <1>3, <1>4 DEF AttemptType
<1>7. attempt' = [attempt EXCEPT ![a] = t]
  BY <1>1
<1>8. UNCHANGED <<caches, env, process, overlapped>> /\ happened' \in 0..MaxEvents
  BY Counts DEF Retried, ExecInv
<1> HIDE DEF t
<1>9. AttemptOK(t, hf)
  BY <1>3, <1>4, <1>6 DEF AttemptOK
<1> QED BY <1>3, <1>4, <1>5, <1>6, <1>7, <1>8, <1>9, GetsRuns

\* The worker moves, and nothing outside it and the environments.
LEMMA WorkerMoves ==
  ASSUME ExecInv, NEW w \in ProcessType, process' = [process EXCEPT !["worker"] = w], WorkerOK(w),
         UNCHANGED <<caches, attempt>>, happened' \in 0..MaxEvents, EnvOK'
  PROVE  ExecInv'
<1>0. UNCHANGED <<hf, urls, said, attempt>>
  BY DEF caches
<1>1. "worker" \in Process /\ "warmer" \in Process /\ "worker" # "warmer"
  BY DEF Process
<1>2. /\ process' \in [Process -> ProcessType] /\ process'["worker"] = w
      /\ process'["warmer"] = process["warmer"]
  BY <1>1, ProcessGoes DEF ExecInv
<1>3. CachesOK' /\ WarmerOK(process["warmer"])' /\ WorkerOK(process["worker"])'
  BY <1>0, <1>2 DEF ExecInv, CachesOK, WarmerOK, WorkerOK, Have
<1> QED BY <1>0, <1>2, <1>3 DEF ExecInv

\* The warmer moves, and nothing outside it, the caches and the environments.
LEMMA WarmerMoves ==
  ASSUME ExecInv, NEW w \in ProcessType, process' = [process EXCEPT !["warmer"] = w], WarmerOK(w)',
         hf \subseteq hf', urls \subseteq urls', CachesOK', UNCHANGED attempt,
         happened' \in 0..MaxEvents, EnvOK'
  PROVE  ExecInv'
<1>1. "worker" \in Process /\ "warmer" \in Process /\ "worker" # "warmer"
  BY DEF Process
<1>2. /\ process' \in [Process -> ProcessType] /\ process'["warmer"] = w
      /\ process'["worker"] = process["worker"]
  BY <1>1, ProcessGoes DEF ExecInv
<1>3. /\ \A a \in Attempt : AttemptOK(attempt[a], hf')
      /\ WorkerOK(process["worker"])'
  BY <1>2, CachesGrow DEF ExecInv, CachesOK
<1>4. WarmerOK(process["warmer"])'
  BY <1>2 DEF WarmerOK
<1> QED BY <1>2, <1>3, <1>4 DEF ExecInv

\* A process that does not get to an environment is no trouble to the environments.
LEMMA GoesElsewhere ==
  ASSUME ExecInv, NEW p \in Process, NEW w \in ProcessType, process' = [process EXCEPT ![p] = w],
         UNCHANGED <<env, overlapped>>, w.pc \notin {"build", "mark"},
         w.pc = "execute" => Executes(p) /\ w.nb = process[p].nb
  PROVE  EnvOK'
<1>1. process'[p] = w /\ \A q \in Process : q # p => process'[q] = process[q]
  BY ProcessGoes DEF ExecInv
<1>2. \A q \in Process : Building(q)' => process'[q].pc = process[q].pc /\ process'[q].nb = process[q].nb
  BY <1>1 DEF Building
<1>3. \A q \in Process : Executes(q)' => Executes(q) /\ process'[q].nb = process[q].nb
  BY <1>1 DEF Executes
<1> QED BY <1>2, <1>3, EnvStays DEF ExecInv

\* StartRun.
LEMMA StartRunStep ==
  ASSUME ExecInv, NEW a \in Attempt, StartRun(a)
  PROVE  ExecInv'
<1> DEFINE old == attempt[a]
           grades == Head(old.todo) = "autograde"
           run == [NoProcess EXCEPT !.of = a, !.nb = old.nb]
           warm == old.nb.of \in said
           graded == [run EXCEPT !.pc = "scan", !.mapped = urls, !.warm = warm]
           rendered == [run EXCEPT !.pc = "prepare"]
<1>1. /\ process' = [process EXCEPT !["worker"] = IF grades THEN graded ELSE rendered] /\ old.todo # <<>>
      /\ UNCHANGED <<caches, env, attempt, happened, overlapped>>
  BY DEF StartRun
<1>2. /\ old \in AttemptType /\ AttemptOK(old, hf) /\ old.status # "none" /\ CachesOK
      /\ a # 0 /\ happened \in 0..MaxEvents
  BY <1>1, ExecutionAssumption DEF ExecInv, AttemptOK
<1>3. old.nb \in Notebook /\ urls \subseteq Url /\ warm \in BOOLEAN
  BY <1>2 DEF AttemptOK, CachesOK
<1>4. warm => /\ Provided(old.nb.of) \cap Dataset \subseteq hf
              /\ Provided(old.nb.of) \cap Url \subseteq urls
  BY <1>2, ExecutionAssumption DEF CachesOK, Have
<1> HIDE DEF warm
<1>5. /\ graded \in ProcessType /\ graded.pc = "scan" /\ graded.of = a /\ graded.nb = old.nb
      /\ graded.mapped = urls /\ graded.warm = warm
      /\ rendered \in ProcessType /\ rendered.pc = "prepare" /\ rendered.of = a /\ rendered.nb = old.nb
      /\ ~rendered.warm
  BY <1>3 DEF NoProcess, ProcessType
<1> HIDE DEF graded, rendered
<1>6. WorkerOK(graded) \/ ~grades
  BY <1>1, <1>2, <1>4, <1>5 DEF WorkerOK
<1>7. WorkerOK(rendered)
  BY <1>1, <1>2, <1>5 DEF WorkerOK
<1>8. PICK w \in ProcessType : /\ process' = [process EXCEPT !["worker"] = w] /\ WorkerOK(w)
                               /\ w.pc \in {"scan", "prepare"}
  BY <1>1, <1>5, <1>6, <1>7
<1>9. EnvOK'
  BY <1>1, <1>8, GoesElsewhere DEF Process
<1> QED BY <1>1, <1>2, <1>8, <1>9, WorkerMoves

\* Scan.
LEMMA ScanStep ==
  ASSUME ExecInv, Scan
  PROVE  ExecInv'
<1> DEFINE old == process["worker"]
<1>1. /\ old \in ProcessType /\ WorkerOK(old) /\ "worker" \in Process /\ old.pc = "scan"
      /\ UNCHANGED <<caches, env, happened, overlapped>> /\ CachesOK /\ happened \in 0..MaxEvents
  BY DEF ExecInv, Scan, Process
<1>2. Current # 0 /\ old.nb = attempt[Current].nb
  BY <1>1 DEF WorkerOK, Current
<1>3. CASE Unsafe(old.nb)
  <2>1. Failed(Current, {"safety check failed"})
    BY <1>3 DEF Scan
  <2>2. {"safety check failed"} \in SUBSET Phrase
    BY PhrasesAre
  <2>3. \A t : t.nb = attempt[Current].nb /\ t.error = {"safety check failed"} => Verdict(t)
    BY <1>2, <1>3 DEF Verdict
  <2>4. hf \subseteq hf' /\ hf' \subseteq Dataset /\ UNCHANGED <<urls, said, env, happened, overlapped>>
    BY <1>1 DEF caches, CachesOK
  <2> QED BY <1>2, <2>1, <2>2, <2>3, <2>4, RunFails
<1>4. CASE ~Unsafe(old.nb)
  <2> DEFINE w == [old EXCEPT !.pc = "prepare"]
  <2>1. process' = [process EXCEPT !["worker"] = w] /\ UNCHANGED attempt
    BY <1>4 DEF Scan, Goto
  <2>2. /\ w \in ProcessType /\ w.pc = "prepare" /\ w.of = old.of /\ w.nb = old.nb
        /\ w.mapped = old.mapped /\ w.warm = old.warm
    BY <1>1 DEF ProcessType
  <2> HIDE DEF w
  <2>3. WorkerOK(w)
    BY <1>1, <2>2 DEF WorkerOK
  <2>4. EnvOK'
    BY <1>1, <2>1, <2>2, GoesElsewhere
  <2> QED BY <1>1, <2>1, <2>2, <2>3, <2>4, WorkerMoves
<1> QED BY <1>3, <1>4

\* CannotBuild.
LEMMA CannotBuildStep ==
  ASSUME ExecInv, CannotBuild
  PROVE  ExecInv'
<1>1. /\ WorkerOK(process["worker"]) /\ process["worker"].pc = "build" /\ CachesOK
      /\ Failed(Current, {"could not build"}) /\ UNCHANGED <<caches, env, happened, overlapped>>
  BY DEF ExecInv, CannotBuild
<1>2. Current # 0
  BY <1>1 DEF WorkerOK, Current
<1>3. {"could not build"} \in SUBSET Phrase
  BY PhrasesAre
<1>4. \A t : t.error = {"could not build"} => Verdict(t)
  BY DEF Verdict
<1>5. hf \subseteq hf' /\ hf' \subseteq Dataset /\ UNCHANGED <<urls, said, env, happened, overlapped>>
  BY <1>1 DEF caches, CachesOK
<1> QED BY <1>1, <1>2, <1>3, <1>4, <1>5, RunFails

\* Killed.
LEMMA KilledStep ==
  ASSUME ExecInv, Killed
  PROVE  ExecInv'
<1>1. /\ process' = [process EXCEPT !["worker"] = NoProcess]
      /\ UNCHANGED <<caches, env, attempt, overlapped>> /\ happened' \in 0..MaxEvents
  BY Counts DEF Killed, ExecInv
<1>2. EnvOK'
  BY <1>1, IdleIsFine, GoesElsewhere DEF Process
<1> QED BY <1>1, <1>2, IdleIsFine, WorkerMoves

\* The warmer as it is.
LEMMA TheWarmer ==
  ASSUME ExecInv
  PROVE  /\ "warmer" \in Process /\ process["warmer"] \in ProcessType /\ WarmerOK(process["warmer"])
         /\ CachesOK /\ happened \in 0..MaxEvents /\ EnvOK
BY DEF ExecInv, Process

\* What is provided of an assignment is found in its notebook.
LEMMA ProvidedIs ==
  ASSUME NEW s \in Assignment
  PROVE  /\ Provided(s) \subseteq References(s) /\ References(s) \subseteq Data
         /\ Provided(s) # {} => Course[s].stored
         /\ ~Course[s].block => Provided(s) \subseteq Url
<1>1. /\ Course[s].given \cup Course[s].solution \subseteq Data /\ Course[s].declared \subseteq Data
      /\ Data = Dataset \cup Url
  BY ExecutionAssumption DEF Data
<1> QED BY <1>1 DEF Provided, References, InstructorCopy

\* Warm.
LEMMA WarmStep ==
  ASSUME ExecInv, NEW check \in BOOLEAN, NEW asked \in SUBSET Assignment, Warm(check, asked)
  PROVE  ExecInv'
<1> DEFINE todo == {s \in asked : Course[s].stored}
           w == [NoProcess EXCEPT !.pc = "next", !.asked = asked, !.check = check, !.todo = todo]
<1>1. /\ process' = [process EXCEPT !["warmer"] = w] /\ UNCHANGED <<hf, urls, said, env, attempt, overlapped>>
      /\ happened' \in 0..MaxEvents
  BY TheWarmer, Counts DEF Warm, caches
<1>2. todo \subseteq Assignment /\ \A s \in asked \ todo : Provided(s) = {}
  BY ProvidedIs
<1> HIDE DEF todo
<1>3. /\ w \in ProcessType /\ w.pc = "next" /\ w.asked = asked /\ w.todo = todo /\ w.left = {}
  BY <1>2 DEF NoProcess, ProcessType
<1> HIDE DEF w
<1>4. WarmerOK(w)'
  BY <1>2, <1>3 DEF WarmerOK
<1>5. CachesOK'
  BY <1>1, TheWarmer DEF CachesOK, Have
<1>6. EnvOK'
  BY <1>1, <1>3, TheWarmer, GoesElsewhere
<1> QED BY <1>1, <1>3, <1>4, <1>5, <1>6, WarmerMoves

\* WarmNext.
LEMMA WarmNextStep ==
  ASSUME ExecInv, NEW s \in Assignment, WarmNext(s)
  PROVE  ExecInv'
<1> DEFINE old == process["warmer"]
           rest == old.todo \ {s}
           next == [old EXCEPT !.pc = "urls", !.of = s, !.nb = Course[s], !.todo = rest, !.left = References(s)]
<1>1. /\ process' = [process EXCEPT !["warmer"] = next] /\ UNCHANGED <<hf, urls, said, env, attempt, happened, overlapped>>
      /\ old.pc = "next"
  BY DEF WarmNext, caches
<1>2. rest \subseteq Assignment /\ References(s) \subseteq Data /\ Course[s] \in Copies
  BY ProvidedIs, TheWarmer DEF ProcessType, Copies
<1> HIDE DEF rest
<1>a. /\ next \in ProcessType /\ next.pc = "urls" /\ next.of = s /\ next.nb = Course[s] /\ next.todo = rest
      /\ next.asked = old.asked /\ next.missing = old.missing /\ next.left = References(s)
  BY <1>2, TheWarmer DEF ProcessType
<1> HIDE DEF next
<1>3. PICK w \in ProcessType :
        /\ process' = [process EXCEPT !["warmer"] = w] /\ w.pc = "urls" /\ w.of = s /\ w.nb = Course[s]
        /\ w.todo = rest /\ w.asked = old.asked /\ w.missing = old.missing /\ w.left = References(s)
  BY <1>1, <1>a
<1>4. \A d : Have(d)' <=> Have(d)
  BY <1>1 DEF Have
<1>5. ~w.missing => \A q \in w.asked \ w.todo : \A d \in Provided(q) : Have(d) \/ (q = s /\ d \in w.left)
  <2> SUFFICES ASSUME ~w.missing, NEW q \in w.asked \ w.todo, NEW d \in Provided(q), q # s PROVE Have(d)
    BY <1>3, ProvidedIs
  <2>1. q \in old.asked \ old.todo
    BY <1>3 DEF rest
  <2> QED BY <1>1, <1>3, <2>1, TheWarmer DEF WarmerOK
<1>6. WarmerOK(w)'
  BY <1>3, <1>4, <1>5 DEF WarmerOK
<1>7. CachesOK'
  BY <1>1, TheWarmer DEF CachesOK, Have
<1>8. EnvOK'
  BY <1>1, <1>3, TheWarmer, GoesElsewhere
<1> QED BY <1>1, <1>3, <1>6, <1>7, <1>8, TheWarmer, WarmerMoves

\* A datum is dealt with.
LEMMA FetchStep ==
  ASSUME ExecInv, NEW d \in Data, NEW cache \in {hf, urls}, Fetch(d, cache),
         process["warmer"].pc \in {"urls", "execute"}, d \in process["warmer"].left,
         UNCHANGED <<env, attempt, happened, overlapped>>
  PROVE  ExecInv'
<1> DEFINE old == process["warmer"]
<1>1. /\ hf \subseteq hf' /\ hf' \subseteq Dataset /\ urls \subseteq urls' /\ urls' \subseteq Url /\ said' = said
      /\ \E missing \in BOOLEAN : Dealt(d, missing) /\ (~missing => Have(d)')
  <2>1. d \in Dataset \/ d \in Url
    BY DEF Data
  <2>2. hf \subseteq Dataset /\ urls \subseteq Url
    BY TheWarmer DEF CachesOK
  <2> QED BY <2>1, <2>2 DEF Fetch, caches, Have
<1>2. PICK missing \in BOOLEAN : Dealt(d, missing) /\ (~missing => Have(d)')
  BY <1>1
<1> DEFINE any == old.missing \/ missing
           rest == [old EXCEPT !.left = @ \ {d}, !.missing = any]
<1>3. process' = [process EXCEPT !["warmer"] = rest]
  BY <1>2 DEF Dealt
<1>4. any \in BOOLEAN /\ (~any => ~old.missing /\ ~missing)
  BY <1>2, TheWarmer DEF ProcessType
<1> HIDE DEF any
<1>a. /\ rest \in ProcessType /\ rest.pc = old.pc /\ rest.nb = old.nb /\ rest.of = old.of
      /\ rest.left = old.left \ {d} /\ rest.missing = any /\ rest.asked = old.asked /\ rest.todo = old.todo
  BY <1>4, TheWarmer DEF ProcessType
<1> HIDE DEF rest
<1>5. PICK w \in ProcessType :
        /\ process' = [process EXCEPT !["warmer"] = w] /\ w.pc = old.pc /\ w.nb = old.nb /\ w.of = old.of
        /\ w.left = old.left \ {d} /\ w.missing = any /\ w.asked = old.asked /\ w.todo = old.todo
  BY <1>3, <1>a
<1>6. CachesOK' /\ \A e : Have(e) => Have(e)'
  BY <1>1, TheWarmer, CachesGrow
<1>7. WarmerOK(w)'
  BY <1>2, <1>4, <1>5, <1>6, TheWarmer DEF WarmerOK
<1>8. EnvOK'
  <2>1. w.pc \notin {"build", "mark"}
    BY <1>5
  <2>2. w.pc = "execute" => Executes("warmer") /\ w.nb = old.nb
    BY <1>5 DEF Executes
  <2> QED BY <1>5, <2>1, <2>2, TheWarmer, GoesElsewhere
<1> QED BY <1>1, <1>5, <1>6, <1>7, <1>8, TheWarmer, WarmerMoves

\* WarmUrl.
LEMMA WarmUrlStep ==
  ASSUME ExecInv, NEW u \in Url, WarmUrl(u)
  PROVE  ExecInv'
BY FetchStep DEF WarmUrl, Data

\* WarmDataset.
LEMMA WarmDatasetStep ==
  ASSUME ExecInv, NEW d \in Dataset, WarmDataset(d)
  PROVE  ExecInv'
BY FetchStep DEF WarmDataset, Data

\* An assignment is done with when nothing it provides is left.
LEMMA NextIsFine ==
  ASSUME ExecInv, process["warmer"].pc \in {"urls", "execute"}, NextAssignment,
         Provided(process["warmer"].of) \cap process["warmer"].left = {},
         UNCHANGED <<hf, urls, said, env, attempt, happened, overlapped>>
  PROVE  ExecInv'
<1> DEFINE old == process["warmer"]
           next == [old EXCEPT !.pc = "next", !.of = 0, !.nb = <<>>, !.left = {}]
<1>1. process' = [process EXCEPT !["warmer"] = next]
  BY DEF NextAssignment
<1>a. /\ next \in ProcessType /\ next.pc = "next" /\ next.left = {} /\ next.asked = old.asked
      /\ next.todo = old.todo /\ next.missing = old.missing
  BY TheWarmer DEF ProcessType
<1> HIDE DEF next
<1>2. PICK w \in ProcessType :
        /\ process' = [process EXCEPT !["warmer"] = w] /\ w.pc = "next" /\ w.left = {}
        /\ w.asked = old.asked /\ w.todo = old.todo /\ w.missing = old.missing
  BY <1>1, <1>a
<1>3. \A d : Have(d)' <=> Have(d)
  BY DEF Have
<1>4. \A s \in old.asked \ old.todo : \A d \in Provided(s) :
        Have(d) \/ (s = old.of /\ d \in old.left) \/ old.missing
  BY TheWarmer DEF WarmerOK
<1>b. WarmerOK(w)'
  BY <1>2, <1>3, <1>4 DEF WarmerOK
<1>5. CachesOK'
  BY TheWarmer DEF CachesOK, Have
<1>6. EnvOK'
  BY <1>1, <1>2, TheWarmer, GoesElsewhere
<1> QED BY <1>2, <1>b, <1>5, <1>6, TheWarmer, WarmerMoves

\* WarmPrepare.
LEMMA WarmPrepareStep ==
  ASSUME ExecInv, WarmPrepare
  PROVE  ExecInv'
<1> DEFINE old == process["warmer"]
<1>1. /\ UNCHANGED <<hf, urls, said, env, attempt, happened, overlapped>>
      /\ old.pc = "urls" /\ old.left \cap Url = {} /\ old.of \in Assignment /\ old.nb = Course[old.of]
  BY TheWarmer DEF WarmPrepare, caches, WarmerOK
<1>2. CASE old.left # {} /\ old.nb.block
  <2> DEFINE next == [old EXCEPT !.pc = "prepare"]
  <2>1. process' = [process EXCEPT !["warmer"] = next]
    BY <1>2 DEF WarmPrepare, Goto
  <2>a. /\ next \in ProcessType /\ next.pc = "prepare" /\ next.left = old.left /\ next.asked = old.asked
        /\ next.todo = old.todo /\ next.missing = old.missing /\ next.of = old.of /\ next.nb = old.nb
    BY TheWarmer DEF ProcessType
  <2> HIDE DEF next
  <2>2. PICK w \in ProcessType :
          /\ process' = [process EXCEPT !["warmer"] = w] /\ w.pc = "prepare" /\ w.left = old.left
          /\ w.asked = old.asked /\ w.todo = old.todo /\ w.missing = old.missing /\ w.of = old.of /\ w.nb = old.nb
    BY <2>1, <2>a
  <2>3. \A d : Have(d)' <=> Have(d)
    BY <1>1 DEF Have
  <2>4. WarmerOK(w)'
    BY <1>1, <2>2, <2>3, TheWarmer DEF WarmerOK
  <2>5. CachesOK'
    BY <1>1, TheWarmer DEF CachesOK, Have
  <2>6. EnvOK'
    BY <1>1, <2>1, <2>2, TheWarmer, GoesElsewhere
  <2> QED BY <1>1, <2>1, <2>2, <2>4, <2>5, <2>6, TheWarmer, WarmerMoves
<1>3. CASE ~(old.left # {} /\ old.nb.block)
  <2>1. NextAssignment
    BY <1>3 DEF WarmPrepare
  <2>2. Provided(old.of) \cap old.left = {}
    BY <1>1, <1>3, ProvidedIs
  <2> QED BY <1>1, <2>1, <2>2, NextIsFine
<1> QED BY <1>2, <1>3

\* WarmedAll.
LEMMA WarmedAllStep ==
  ASSUME ExecInv, WarmedAll
  PROVE  ExecInv'
<1>1. /\ UNCHANGED <<hf, urls, said, env, attempt, happened, overlapped>> /\ NextAssignment
      /\ process["warmer"].pc = "execute" /\ process["warmer"].left = {}
  BY DEF WarmedAll, caches
<1> QED BY <1>1, NextIsFine

\* WarmEnds.
LEMMA WarmEndsStep ==
  ASSUME ExecInv, WarmEnds
  PROVE  ExecInv'
<1> DEFINE old == process["warmer"]
<1>1. /\ process' = [process EXCEPT !["warmer"] = NoProcess] /\ UNCHANGED <<hf, urls, env, attempt, happened, overlapped>>
      /\ old.pc = "next" /\ old.todo = {} /\ said' = IF old.missing THEN said ELSE said \cup old.asked
  BY DEF WarmEnds
<1>2. old.left = {} /\ (~old.missing => \A s \in old.asked : \A d \in Provided(s) : Have(d))
  BY <1>1, TheWarmer DEF WarmerOK
<1>3. CachesOK'
  <2>1. said' \subseteq Assignment /\ \A s \in said' : s \in said \/ (~old.missing /\ s \in old.asked)
    BY <1>1, TheWarmer DEF CachesOK, ProcessType
  <2>2. \A s \in said' : \A d \in Provided(s) : Have(d)
    BY <1>2, <2>1, TheWarmer DEF CachesOK
  <2> QED BY <1>1, <2>1, <2>2, TheWarmer DEF CachesOK, Have
<1>4. EnvOK'
  BY <1>1, TheWarmer, IdleIsFine, GoesElsewhere
<1> QED BY <1>1, <1>3, <1>4, TheWarmer, IdleIsFine, WarmerMoves

\* WarmStops.
LEMMA WarmStopsStep ==
  ASSUME ExecInv, WarmStops
  PROVE  ExecInv'
<1>1. process' = [process EXCEPT !["warmer"] = NoProcess] /\ UNCHANGED <<hf, urls, said, env, attempt, happened, overlapped>>
  BY DEF WarmStops, caches
<1>2. CachesOK' /\ EnvOK'
  BY <1>1, TheWarmer, IdleIsFine, GoesElsewhere DEF CachesOK, Have
<1> QED BY <1>1, <1>2, TheWarmer, IdleIsFine, WarmerMoves

\* A check that is answered rightly runs when its data is there.
LEMMA RightRuns ==
  ASSUME NEW nb, nb.answer["mine"] = "right", NEW reach, nb.reads["mine"] \subseteq reach
  PROVE  "mine" \in Ran(nb, reach) /\ ~NothingRan(nb, reach)
<1>1. "mine" \in Check /\ "mine" \notin Raised(nb, reach)
  BY DEF Check, Raised
<1>2. "mine" \in Ran(nb, reach)
  BY <1>1 DEF Ran
<1> QED BY <1>2 DEF NothingRan

\* A run that began in a warm cache has what a notebook reads that reads what is warmed.
LEMMA WarmReaches ==
  ASSUME ExecInv, process["worker"].warm, NEW nb, nb = process["worker"].nb, nb.of \in Assignment, Readable(nb)
  PROVE  nb.reads["mine"] \cup nb.reads["other"] \subseteq hf \cup process["worker"].mapped
<1>1. Provided(nb.of) \subseteq Dataset \cup Url
  BY ProvidedIs DEF Data
<1>2. Provided(nb.of) \cap Dataset \subseteq hf /\ Provided(nb.of) \cap Url \subseteq process["worker"].mapped
  BY DEF ExecInv, WorkerOK
<1> QED BY <1>1, <1>2 DEF Readable

\* What no check ran of is not warm, and what has a page is short of a URL.
LEMMA NothingRanIsFair ==
  ASSUME ExecInv, Current # 0, NEW t, t.nb = attempt[Current].nb, t.page = attempt[Current].page,
         t.trusted = process["worker"].warm,
         NothingRan(t.nb, hf \cup process["worker"].mapped)
  PROVE  /\ t.trusted => ~(t.nb.answer["mine"] = "right" /\ Readable(t.nb))
         /\ t.page => (t.nb.reads["mine"] \cup t.nb.reads["other"]) \cap Url # {}
<1> DEFINE nb == attempt[Current].nb
           reach == hf \cup process["worker"].mapped
<1>1. process["worker"].warm => ~(nb.answer["mine"] = "right" /\ Readable(nb))
  <2> SUFFICES ASSUME process["worker"].warm, nb.answer["mine"] = "right", Readable(nb) PROVE FALSE
    OBVIOUS
  <2>1. nb.reads["mine"] \subseteq reach
    BY CurrentIs, ExecutionAssumption, WarmReaches
  <2> QED BY <2>1, RightRuns
<1>2. attempt[Current].page => (nb.reads["mine"] \cup nb.reads["other"]) \cap Url # {}
  <2> SUFFICES ASSUME attempt[Current].page PROVE (nb.reads["mine"] \cup nb.reads["other"]) \cap Url # {}
    OBVIOUS
  <2>1. \A c \in Check : nb.answer[c] # "raises" /\ nb.reads[c] \cap Dataset \subseteq hf
    BY CurrentIs DEF AttemptOK
  <2>2. PICK c \in Check : ~(nb.reads[c] \subseteq reach)
    BY <2>1 DEF NothingRan, Raised
  <2>3. nb.reads[c] \subseteq Dataset \cup Url
    BY CurrentIs, ExecutionAssumption DEF Data
  <2>4. PICK d \in nb.reads[c] : d \in Url
    BY <2>1, <2>2, <2>3
  <2>5. c = "mine" \/ c = "other"
    BY DEF Check
  <2> QED BY <2>4, <2>5
<1> QED BY <1>1, <1>2

\* Autograde.
LEMMA AutogradeStep ==
  ASSUME ExecInv, Autograde
  PROVE  ExecInv'
<1> DEFINE w == process["worker"]
           nb == w.nb
           reach == hf \cup w.mapped
           old == attempt[Current]
<1>1. /\ Running("autograde") /\ Current # 0 /\ UNCHANGED <<hf, urls, said, env, happened, overlapped>>
      /\ hf \subseteq hf' /\ hf' \subseteq Dataset
  BY DEF Autograde, Executing, Running, caches, ExecInv, CachesOK
<1>2. nb = old.nb /\ nb \in Notebook /\ AttemptOK(old, hf) /\ old \in AttemptType
  BY <1>1, CurrentIs
<1>3. CASE TimesOut(nb) /\ Failed(Current, {"timed out after"})
  <2>1. {"timed out after"} \in SUBSET Phrase
    BY PhrasesAre
  <2>2. \A t : t.nb = old.nb /\ t.error = {"timed out after"} => Verdict(t)
    BY <1>2, <1>3 DEF Verdict
  <2> QED BY <1>1, <1>3, <2>1, <2>2, RunFails
<1>4. CASE nb.code = "redefined" /\ Failed(Current, {"MultipleDefinitionError"})
  <2>1. {"MultipleDefinitionError"} \in SUBSET Phrase
    BY PhrasesAre
  <2>2. \A t : t.nb = old.nb /\ t.error = {"MultipleDefinitionError"} => Verdict(t)
    BY <1>2, <1>4 DEF Verdict
  <2> QED BY <1>1, <1>4, <2>1, <2>2, RunFails
<1>5. CASE NothingRan(nb, reach) /\ Failed(Current, {"no check cell ran", "some cells failed"})
  <2>1. {"no check cell ran", "some cells failed"} \in SUBSET Phrase
    BY PhrasesAre
  <2>2. \A t : /\ t.nb = old.nb /\ t.error = {"no check cell ran", "some cells failed"}
               /\ t.page = old.page /\ t.trusted = w.warm
               => Verdict(t)
    BY <1>1, <1>2, <1>5, NothingRanIsFair DEF Verdict
  <2> QED BY <1>1, <1>5, <2>1, <2>2, RunFails
<1> DEFINE points == IF nb.auto /\ "mine" \in Ran(nb, reach) /\ nb.answer["mine"] = "right" THEN 1 ELSE 0
           changed == [old EXCEPT !.status = "graded", !.points = points]
<1>6. CASE ~NothingRan(nb, reach) /\ Ended(Current, changed)
  <2>1. points \in {0, 1}
    OBVIOUS
  <2>2. nb.auto /\ nb.answer["mine"] = "right" /\ points = 0 => Excused(nb)
    <3> SUFFICES ASSUME nb.auto, nb.answer["mine"] = "right", "mine" \notin Ran(nb, reach) PROVE Excused(nb)
      OBVIOUS
    <3>1. "mine" \in Raised(nb, reach) /\ ~(nb.reads["mine"] \subseteq reach)
      BY DEF Ran, Raised, Check
    <3>2. PICK c \in Check : c \in Ran(nb, reach)
      BY <1>6, <3>1 DEF NothingRan, Ran
    <3>3. nb.answer[c] \in {"right", "wrong"} /\ nb.reads[c] \subseteq reach
      <4>1. nb.answer[c] \in {"right", "wrong", "raises", "blank"}
        BY <1>2, ExecutionAssumption
      <4> QED BY <3>2, <4>1 DEF Ran, Raised
    <3> QED BY <3>1, <3>2, <3>3 DEF Excused
  <2>3. w.warm /\ nb.auto /\ nb.answer["mine"] = "right" /\ Readable(nb) => points = 1
    <3> SUFFICES ASSUME w.warm, nb.auto, nb.answer["mine"] = "right", Readable(nb) PROVE points = 1
      OBVIOUS
    <3>1. nb.reads["mine"] \subseteq reach
      BY <1>2, ExecutionAssumption, WarmReaches
    <3>2. "mine" \in Ran(nb, reach)
      BY <3>1, RightRuns
    <3> QED BY <3>2
  <2>4. Ended(Current, changed)
    BY <1>6
  <2> HIDE DEF points
  <2>5. /\ changed \in AttemptType /\ changed.status = "graded" /\ changed.points = points
        /\ changed.nb = old.nb /\ changed.page = old.page
    BY <1>2, <2>1 DEF AttemptType
  <2> HIDE DEF changed
  <2>6. PICK t \in AttemptType :
           /\ attempt' = [attempt EXCEPT ![Current] = t]
           /\ process' = [process EXCEPT !["worker"] = NoProcess]
           /\ t.nb = old.nb /\ t.status = "graded" /\ t.page = old.page /\ t.points = points
           /\ t.last = Head(old.todo) /\ t.todo = Tail(old.todo) /\ t.trusted = w.warm
    BY <1>1, <2>4, <2>5, EndsAs
  <2>7. /\ ~Skew /\ t.todo # <<>> => t.todo[Len(t.todo)] = "autograde"
        /\ ~Skew /\ t.todo = <<>> => t.last = "autograde"
    BY <1>1, <1>2, <2>6, CurrentIs, RestOfRuns DEF AttemptOK
  <2>8. AttemptOK(t, hf')
    BY <1>1, <1>2, <2>2, <2>3, <2>6, <2>7 DEF AttemptOK
  <2> QED BY <1>1, <2>6, <2>8, RunEnds
<1> QED
  <2> HIDE DEF points, changed
  <2> QED BY <1>3, <1>4, <1>5, <1>6 DEF Autograde, points, changed

\* Render.
LEMMA RenderStep ==
  ASSUME ExecInv, Render
  PROVE  ExecInv'
<1> DEFINE nb == process["worker"].nb
           read == nb.reads["mine"] \cup nb.reads["other"]
           old == attempt[Current]
<1>1. /\ Running("render") /\ Current # 0 /\ UNCHANGED <<urls, said, env, happened, overlapped>>
      /\ hf \subseteq Dataset /\ ~Running("autograde") /\ Head(old.todo) = "render"
  BY DEF Render, Executing, Running, ExecInv, CachesOK
<1>2. nb = old.nb /\ nb \in Notebook /\ AttemptOK(old, hf) /\ old \in AttemptType
  BY <1>1, CurrentIs
<1>3. \A t : /\ t.nb = old.nb /\ t.last = "render"
             /\ \/ t.error = {"timed out after"} /\ TimesOut(nb)
                \/ t.error = {"MultipleDefinitionError"} /\ nb.code = "redefined"
                \/ t.error = {"some cells failed"}
             => Verdict(t) \/ Spoke(t)
  BY <1>2 DEF Verdict, Spoke
<1>4. {"timed out after"} \in SUBSET Phrase /\ {"MultipleDefinitionError"} \in SUBSET Phrase
      /\ {"some cells failed"} \in SUBSET Phrase
  BY PhrasesAre
<1>5. CASE /\ UNCHANGED hf
           /\ \/ TimesOut(nb) /\ Failed(Current, {"timed out after"})
              \/ nb.code = "redefined" /\ Failed(Current, {"MultipleDefinitionError"})
  <2>1. CASE TimesOut(nb) /\ Failed(Current, {"timed out after"})
    BY <1>1, <1>3, <1>4, <1>5, <2>1, RunFails
  <2>2. CASE nb.code = "redefined" /\ Failed(Current, {"MultipleDefinitionError"})
    BY <1>1, <1>3, <1>4, <1>5, <2>2, RunFails
  <2> QED BY <1>5, <2>1, <2>2
<1> DEFINE changed == [old EXCEPT !.page = TRUE]
<1>6. ASSUME NEW reach, hf' = hf \cup (reach \cap Dataset),
             IF Raised(nb, reach) # {} THEN Failed(Current, {"some cells failed"}) ELSE Ended(Current, changed)
      PROVE  ExecInv'
  <2>1. hf \subseteq hf' /\ hf' \subseteq Dataset
    BY <1>1, <1>6
  <2>2. CASE Raised(nb, reach) # {}
    <3>1. Failed(Current, {"some cells failed"})
      BY <1>6, <2>2
    <3> QED BY <1>1, <1>3, <1>4, <2>1, <3>1, RunFails
  <2>3. CASE Raised(nb, reach) = {}
    <3>1. Ended(Current, changed)
      BY <1>6, <2>3
    <3>2. /\ changed \in AttemptType /\ changed.page = TRUE /\ changed.nb = old.nb /\ changed.status = old.status
          /\ changed.points = old.points /\ changed.error = old.error /\ changed.trusted = old.trusted
      BY <1>2 DEF AttemptType
    <3> HIDE DEF changed
    <3>3. PICK t \in AttemptType :
           /\ attempt' = [attempt EXCEPT ![Current] = t]
           /\ process' = [process EXCEPT !["worker"] = NoProcess]
           /\ t.nb = old.nb /\ t.status = old.status /\ t.points = old.points
           /\ t.error = old.error /\ t.last = "render" /\ t.todo = Tail(old.todo) /\ t.trusted = old.trusted
      BY <1>1, <3>1, <3>2, EndsAs
    <3>4. \A c \in Check : nb.answer[c] # "raises" /\ nb.reads[c] \cap Dataset \subseteq hf'
      BY <1>6, <2>3 DEF Raised
    <3>5. ~Skew => t.todo # <<>> /\ t.todo[Len(t.todo)] = "autograde"
      BY <1>1, <1>2, <3>3, CurrentIs, RestOfRuns DEF AttemptOK
    <3>6. old.status # "none"
      BY <1>1, CurrentIs
    <3>7. t.status = "failed" => Verdict(t) \/ Spoke(t)
      BY <1>2, <3>3 DEF AttemptOK, Verdict, Spoke
    <3>8. AttemptOK(t, hf')
      BY <1>2, <3>3, <3>4, <3>5, <3>6, <3>7 DEF AttemptOK
    <3> QED BY <1>1, <2>1, <3>3, <3>8, RunEnds
  <2> QED BY <2>2, <2>3
<1> QED
  <2> HIDE DEF changed
  <2> QED BY <1>5, <1>6 DEF Render, changed

\* A process gets on with the environment it needs.
LEMMA GetsOn ==
  ASSUME ExecInv, NEW p \in Process, process[p].pc \in {"prepare", "build", "mark"},
         NEW pc \in {"build", "mark", "execute"}, Goto(p, pc),
         UNCHANGED <<caches, attempt, happened>>, EnvOK'
  PROVE  ExecInv'
<1> DEFINE old == process[p]
           next == [old EXCEPT !.pc = pc]
<1>1. process' = [process EXCEPT ![p] = next] /\ old \in ProcessType
  BY DEF Goto, ExecInv
<1>2. /\ next \in ProcessType /\ next.pc = pc /\ next.of = old.of /\ next.nb = old.nb /\ next.left = old.left
      /\ next.mapped = old.mapped /\ next.warm = old.warm /\ next.missing = old.missing
      /\ next.asked = old.asked /\ next.todo = old.todo
  BY <1>1 DEF ProcessType
<1> HIDE DEF next
<1>3. PICK w \in ProcessType :
        /\ process' = [process EXCEPT ![p] = w] /\ w.pc = pc /\ w.of = old.of /\ w.nb = old.nb
        /\ w.left = old.left /\ w.mapped = old.mapped /\ w.warm = old.warm /\ w.missing = old.missing
        /\ w.asked = old.asked /\ w.todo = old.todo
  BY <1>1, <1>2
<1>4. happened' \in 0..MaxEvents /\ UNCHANGED <<hf, urls, said, attempt>>
  BY DEF ExecInv, caches
<1>5. CASE p = "worker"
  <2>1. WorkerOK(process["worker"])
    BY DEF ExecInv
  <2>2. WorkerOK(w)
    BY <1>3, <1>5, <2>1 DEF WorkerOK
  <2> QED BY <1>3, <1>4, <1>5, <2>2, WorkerMoves
<1>6. CASE p = "warmer"
  <2>1. WarmerOK(w)' /\ CachesOK'
    BY <1>3, <1>4, <1>6, TheWarmer DEF WarmerOK, CachesOK, Have
  <2> QED BY <1>3, <1>4, <1>6, <2>1, WarmerMoves
<1> QED BY <1>5, <1>6 DEF Process

\* The process that gets on, and the others.
LEMMA GoesOn ==
  ASSUME ExecInv, NEW p \in Process, NEW pc, Goto(p, pc)
  PROVE  /\ process'[p].pc = pc /\ process'[p].nb = process[p].nb /\ process'[p].left = process[p].left
         /\ \A q \in Process \ {p} : process'[q] = process[q]
         /\ \A q \in Process : Key(q)' = Key(q)
         /\ \A q \in Process \ {p} : (Building(q)' <=> Building(q)) /\ (Executes(q)' <=> Executes(q))
<1>1. process[p] \in ProcessType /\ process' = [process EXCEPT ![p].pc = pc] /\ DOMAIN process = Process
  BY DEF Goto, ExecInv
<1>2. process'[p] = [process[p] EXCEPT !.pc = pc]
  BY <1>1
<1>3. process'[p].pc = pc /\ process'[p].nb = process[p].nb /\ process'[p].left = process[p].left
  BY <1>1, <1>2 DEF ProcessType
<1>4. \A q \in Process \ {p} : process'[q] = process[q]
  BY <1>1
<1>5. \A q \in Process : process'[q].nb = process[q].nb
  BY <1>3, <1>4
<1> QED BY <1>3, <1>4, <1>5 DEF Key, Building, Executes

\* An environment is set.
LEMMA EnvIsSet ==
  ASSUME NEW key, NEW e, SetEnv(key, e)
  PROVE  /\ DOMAIN env' = DOMAIN env \cup {key} /\ env'[key] = e /\ Env(key)' = e
         /\ \A k : k # key => (k \in DOMAIN env' <=> k \in DOMAIN env) /\ Env(k)' = Env(k)
         /\ \A k \in DOMAIN env : k # key => env'[k] = env[k]
BY DEF SetEnv, Env

\* What is whole.
LEMMA WholeIs ==
  ASSUME NEW key, key \in DOMAIN env
  PROVE  WholeEnv(key) <=> env[key].state = "whole" /\ env[key].packages = key
BY DEF WholeEnv, Env

\* While a process touches its environment, one that needs another keeps it.
LEMMA OthersKeepTheirs ==
  ASSUME ExecInv, ~overlapped, NEW p \in Process, NEW pc, Goto(p, pc), NEW e, SetEnv(Key(p), e),
         NEW q \in Process \ {p}, Building(q) \/ Executes(q) => Key(q) # Key(p)
  PROVE  /\ process'[q].pc = "mark" => WholeEnv(Key(q))'
         /\ Building(q)' => ~(env[Key(q)].ready)'
         /\ Executes(q)' => Key(q)' \in DOMAIN env' /\ (env[Key(q)].ready)'
<1>1. /\ Key(q)' = Key(q) /\ process'[q] = process[q] /\ (Building(q)' <=> Building(q))
      /\ (Executes(q)' <=> Executes(q))
  BY GoesOn
<1>2. (env[Key(q)].ready)' = env'[Key(q)].ready
  BY <1>1
<1>3. Key(q) # Key(p) => Env(Key(q))' = Env(Key(q))
  BY <1>1, EnvIsSet DEF Env
<1>4. /\ Building(q) => Key(q) \in DOMAIN env /\ ~env[Key(q)].ready
      /\ Executes(q) => Key(q) \in DOMAIN env /\ env[Key(q)].ready
      /\ process[q].pc = "mark" => Building(q) /\ WholeEnv(Key(q))
  BY DEF ExecInv, EnvOK, Building
<1>5. process'[q].pc = "mark" => WholeEnv(Key(q))'
  BY <1>1, <1>3, <1>4 DEF WholeEnv
<1>6. /\ DOMAIN env' = DOMAIN env \cup {Key(p)}
      /\ \A k \in DOMAIN env : k # Key(p) => env'[k] = env[k]
  BY EnvIsSet
<1> QED BY <1>1, <1>2, <1>4, <1>5, <1>6

\* The environments are good again when the process that touched one leaves it so.
LEMMA EnvGetsBetter ==
  ASSUME ExecInv, NEW p \in Process, Building(p), NEW pc \in {"mark", "execute"}, Goto(p, pc),
         NEW e, SetEnv(Key(p), e), EnvRecord(e), UNCHANGED overlapped,
         ~overlapped => /\ e.state = "whole" /\ e.packages = Key(p)
                        /\ e.ready <=> pc = "execute"
  PROVE  EnvOK'
<1>1. EnvOK /\ Key(p) \in DOMAIN env
  BY DEF ExecInv, EnvOK
<1>2. /\ DOMAIN env' = DOMAIN env \cup {Key(p)} /\ env'[Key(p)] = e
      /\ \A k \in DOMAIN env : k # Key(p) => env'[k] = env[k] /\ (WholeEnv(k)' <=> WholeEnv(k))
  BY EnvIsSet DEF WholeEnv
<1>3. /\ process'[p].pc = pc /\ \A q \in Process : Key(q)' = Key(q)
      /\ \A q \in Process \ {p} : Building(q)' <=> Building(q)
  BY GoesOn
<1>4. \A key \in DOMAIN env' : EnvRecord(env'[key])
  BY <1>1, <1>2 DEF EnvOK
<1>5. \A q \in Process : Building(q)' => Building(q) /\ Key(q)' \in DOMAIN env'
  BY <1>1, <1>2, <1>3 DEF EnvOK
<1> SUFFICES ASSUME ~overlapped'
             PROVE  /\ \A key \in DOMAIN env' : env'[key].ready => WholeEnv(key)'
                    /\ \A q \in Process :
                         /\ process'[q].pc = "mark" => WholeEnv(Key(q))'
                         /\ Building(q)' => ~(env[Key(q)].ready)'
                         /\ Executes(q)' => Key(q)' \in DOMAIN env' /\ (env[Key(q)].ready)'
                    /\ \A q, r \in Process : Building(q)' /\ Building(r)' /\ Key(q)' = Key(r)' => q = r
  BY <1>4, <1>5 DEF EnvOK
<1>6. ~overlapped
  OBVIOUS
<1>7. WholeEnv(Key(p))' /\ \A key : key = Key(p) => WholeEnv(key)'
  <2>1. \A key : key = Key(p) => WholeEnv(key)'
    BY <1>2, <1>6 DEF WholeEnv, Env
  <2>2. Key(p)' = Key(p)
    BY <1>3
  <2>3. WholeEnv(Key(p))' <=> (Env(Key(p))').state = "whole" /\ (Env(Key(p))').packages = Key(p)
    BY <2>2 DEF WholeEnv
  <2>4. Env(Key(p))' = e
    BY <1>2, <2>2 DEF Env
  <2> QED BY <1>6, <2>1, <2>3, <2>4
<1>8. \A key \in DOMAIN env' : env'[key].ready => WholeEnv(key)'
  BY <1>1, <1>2, <1>6, <1>7 DEF EnvOK
<1>9. \A q \in Process \ {p} : /\ process'[q].pc = "mark" => WholeEnv(Key(q))'
                               /\ Building(q)' => ~(env[Key(q)].ready)'
                               /\ Executes(q)' => Key(q)' \in DOMAIN env' /\ (env[Key(q)].ready)'
  <2>1. \A q \in Process \ {p} : Building(q) \/ Executes(q) => Key(q) # Key(p)
    BY <1>1, <1>6 DEF EnvOK
  <2> QED BY <1>6, <2>1, OthersKeepTheirs
<1>10. (env[Key(p)].ready)' = e.ready
  BY <1>2, <1>3
<1>11. (Building(p)' => pc = "mark") /\ (Executes(p)' => pc = "execute")
  BY <1>3 DEF Building, Executes
<1>12. \A q, r \in Process : Building(q)' /\ Building(r)' /\ Key(q)' = Key(r)' => q = r
  BY <1>1, <1>3, <1>5, <1>6 DEF EnvOK
<1> QED BY <1>2, <1>3, <1>6, <1>7, <1>8, <1>9, <1>10, <1>11, <1>12

\* Prepare.
LEMMA PrepareStep ==
  ASSUME ExecInv, NEW p \in Process, Prepare(p)
  PROVE  ExecInv'
<1>1. process[p].pc = "prepare" /\ UNCHANGED <<caches, attempt, happened>> /\ EnvOK
  BY DEF Prepare, ExecInv
<1>2. ~Building(p) /\ ~Executes(p)
  BY <1>1 DEF Building, Executes
<1>3. CASE IsReady(Env(Key(p)))
  <2>1. Goto(p, "execute") /\ UNCHANGED <<env, overlapped>>
    BY <1>3 DEF Prepare
  <2>2. Key(p) \in DOMAIN env /\ env[Key(p)].ready
    BY <1>3 DEF IsReady, Env, NoEnv
  <2>3. ~Building(p)' /\ process'[p].pc # "mark"
    BY <2>1, GoesOn DEF Building
  <2>4. \A key : WholeEnv(key)' <=> WholeEnv(key)
    BY <2>1 DEF WholeEnv, Env
  <2>5. EnvOK'
    BY <1>1, <2>1, <2>2, <2>3, <2>4, GoesOn DEF EnvOK
  <2> QED BY <1>1, <2>1, <2>5, GetsOn
<1>4. CASE ~IsReady(Env(Key(p)))
  <2>1. /\ SetEnv(Key(p), Begun) /\ Goto(p, "build")
        /\ overlapped' = (overlapped \/ \E q \in Process \ {p} : Building(q) /\ Key(q) = Key(p))
    BY <1>4 DEF Prepare
  <2>2. /\ DOMAIN env' = DOMAIN env \cup {Key(p)} /\ env'[Key(p)] = Begun
        /\ \A k \in DOMAIN env : k # Key(p) => env'[k] = env[k]
        /\ \A k : k # Key(p) => (WholeEnv(k)' <=> WholeEnv(k))
    BY <2>1, EnvIsSet DEF WholeEnv
  <2>3. EnvRecord(Begun) /\ ~Begun.ready
    BY DEF Begun, EnvRecord
  <2>4. Building(p)' /\ process'[p].pc # "mark" /\ ~Executes(p)'
    BY <2>1, GoesOn DEF Building, Executes
  <2>5. Key(p) \in DOMAIN env => ~env[Key(p)].ready
    BY <1>1, <1>4 DEF EnvOK, EnvRecord, IsReady, Env
  <2>6. EnvOK'
    <3>1. \A key \in DOMAIN env' : EnvRecord(env'[key])
      BY <1>1, <2>2, <2>3 DEF EnvOK
    <3>2. \A q \in Process : Building(q)' => Key(q)' \in DOMAIN env'
      BY <1>1, <2>1, <2>2, GoesOn DEF EnvOK
    <3> SUFFICES ASSUME ~overlapped'
                 PROVE  /\ \A key \in DOMAIN env' : env'[key].ready => WholeEnv(key)'
                        /\ \A q \in Process :
                             /\ process'[q].pc = "mark" => WholeEnv(Key(q))'
                             /\ Building(q)' => ~(env[Key(q)].ready)'
                             /\ Executes(q)' => Key(q)' \in DOMAIN env' /\ (env[Key(q)].ready)'
                        /\ \A q, r \in Process : Building(q)' /\ Building(r)' /\ Key(q)' = Key(r)' => q = r
      BY <3>1, <3>2 DEF EnvOK
    <3>3. ~overlapped /\ \A q \in Process \ {p} : Building(q) => Key(q) # Key(p)
      BY <2>1
    <3>4. \A key \in DOMAIN env' : env'[key].ready => WholeEnv(key)'
      BY <1>1, <2>2, <2>3, <3>3 DEF EnvOK
    <3>5. \A q \in Process \ {p} : Building(q)' => Building(q) /\ Key(q) # Key(p) /\ Key(q) \in DOMAIN env
      BY <1>1, <2>1, <3>3, GoesOn DEF EnvOK
    <3>6. \A q \in Process \ {p} : Executes(q)' => Executes(q) /\ Key(q) # Key(p) /\ Key(q) \in DOMAIN env
      BY <1>1, <2>1, <2>5, <3>3, GoesOn DEF EnvOK
    <3>7. \A q \in Process \ {p} : /\ process'[q].pc = "mark" => WholeEnv(Key(q))'
                                   /\ Building(q)' => ~(env[Key(q)].ready)'
                                   /\ Executes(q)' => Key(q)' \in DOMAIN env' /\ (env[Key(q)].ready)'
      <4>1. \A q \in Process \ {p} : Building(q) \/ Executes(q) => Key(q) # Key(p)
        BY <1>1, <2>5, <3>3 DEF EnvOK
      <4> QED BY <2>1, <3>3, <4>1, OthersKeepTheirs
    <3>8. ~(env[Key(p)].ready)'
      BY <2>1, <2>2, <2>3, GoesOn
    <3>9. \A q, r \in Process : Building(q)' /\ Building(r)' /\ Key(q)' = Key(r)' => q = r
      BY <1>1, <2>1, <3>3, <3>5, GoesOn DEF EnvOK
    <3> QED BY <2>4, <3>4, <3>7, <3>8, <3>9
  <2> QED BY <1>1, <2>1, <2>6, GetsOn
<1> QED BY <1>3, <1>4

\* Build.
LEMMA BuildStep ==
  ASSUME ExecInv, NEW p \in Process, Build(p)
  PROVE  ExecInv'
<1> DEFINE e == [packages |-> Rewritten(process[p].nb.requires), state |-> "whole", ready |-> FALSE]
<1>1. /\ process[p].pc = "build" /\ SetEnv(Key(p), e) /\ Goto(p, "mark")
      /\ UNCHANGED <<caches, attempt, happened, overlapped>>
  BY DEF Build
<1>2. e.state = "whole" /\ e.packages = Key(p) /\ ~e.ready /\ EnvRecord(e)
  BY DEF Key, EnvKey, EnvRecord
<1> HIDE DEF e
<1>3. Building(p)
  BY <1>1 DEF Building
<1>4. EnvOK'
  <2>1. PICK d : d = e
    OBVIOUS
  <2> QED BY <1>1, <1>2, <1>3, <2>1, EnvGetsBetter
<1> QED BY <1>1, <1>4, GetsOn

\* MarkReady.
LEMMA MarkReadyStep ==
  ASSUME ExecInv, NEW p \in Process, MarkReady(p)
  PROVE  ExecInv'
<1> DEFINE old == Env(Key(p))
           e == [old EXCEPT !.ready = TRUE]
<1>1. /\ process[p].pc = "mark" /\ SetEnv(Key(p), e) /\ Goto(p, "execute")
      /\ UNCHANGED <<caches, attempt, happened, overlapped>> /\ EnvOK
  BY DEF MarkReady, ExecInv
<1>2. Building(p)
  BY <1>1 DEF Building
<1>3. EnvRecord(old) /\ (~overlapped => old.state = "whole" /\ old.packages = Key(p))
  BY <1>1, <1>2 DEF EnvOK, Env, WholeEnv
<1>4. e \in [packages : {old.packages}, state : {"partial", "whole"}, ready : BOOLEAN] /\ e.state = old.state /\ e.ready
  BY <1>3 DEF EnvRecord
<1> HIDE DEF e
<1>5. e.packages = old.packages
  BY <1>4
<1>6. EnvRecord(e)
  BY <1>4, <1>5 DEF EnvRecord
<1>7. EnvOK'
  <2>1. PICK d : d = e
    OBVIOUS
  <2> QED BY <1>1, <1>2, <1>3, <1>4, <1>5, <1>6, <2>1, EnvGetsBetter
<1> QED BY <1>1, <1>7, GetsOn

-----------------------------------------------------------------------------
(* The graders' machine: the theorems.                                     *)

\* Nothing has been handed in, built or fetched yet.
LEMMA ExecStarts == ExecInit => ExecInv
<1> SUFFICES ASSUME ExecInit PROVE ExecInv
  OBVIOUS
<1>1. /\ process = [p \in Process |-> NoProcess] /\ attempt = [a \in Attempt |-> NoAttempt]
      /\ hf = {} /\ urls = {} /\ said = {} /\ happened = 0 /\ DOMAIN env = {}
  BY DEF ExecInit
<1>2. process \in [Process -> ProcessType]
  BY <1>1, IdleIsFine
<1>3. \A p \in Process : process[p] = NoProcess
  BY <1>1
<1>4. NoAttempt \in AttemptType /\ AttemptOK(NoAttempt, hf)
  <2>1. <<>> \in Seq(Kind)
    OBVIOUS
  <2>2. /\ NoAttempt \in AttemptType /\ NoAttempt.status = "none" /\ NoAttempt.todo = <<>>
        /\ ~NoAttempt.page
    BY <2>1 DEF NoAttempt, AttemptType
  <2> QED BY <2>2 DEF AttemptOK
<1>5. attempt \in [Attempt -> AttemptType] /\ \A a \in Attempt : AttemptOK(attempt[a], hf)
  BY <1>1, <1>4
<1>6. WorkerOK(process["worker"]) /\ WarmerOK(process["warmer"])
  BY <1>3, IdleIsFine DEF Process
<1>7. EnvOK
  BY <1>1, <1>3, IdleIsFine DEF EnvOK, Building, Executes
<1>8. CachesOK
  BY <1>1 DEF CachesOK
<1>9. happened \in 0..MaxEvents
  <2>1. MaxEvents \in Nat
    BY ExecutionAssumption
  <2> QED BY <1>1, <2>1
<1> QED BY <1>2, <1>5, <1>6, <1>7, <1>8, <1>9 DEF ExecInv

\* Every step keeps the invariant.
LEMMA ExecStep == ExecInv /\ [ExecNext]_execVars => ExecInv'
<1> SUFFICES ASSUME ExecInv, [ExecNext]_execVars PROVE ExecInv'
  OBVIOUS
<1>1. CASE UNCHANGED execVars
  <2>1. /\ UNCHANGED <<hf, urls, env, process, attempt, said, happened, overlapped>>
    BY <1>1 DEF execVars
  <2>2. EnvOK'
    BY <2>1, EnvStays DEF ExecInv, Building, Executes
  <2> QED BY <2>1, <2>2 DEF ExecInv, WorkerOK, WarmerOK, CachesOK, Have
<1>2. CASE \E a \in Attempt : (\E nb \in Notebook : HandIn(a, nb)) \/ Retried(a) \/ StartRun(a)
  BY <1>2, HandInStep, RetriedStep, StartRunStep
<1>3. CASE \E p \in Process : Prepare(p) \/ Build(p) \/ MarkReady(p)
  BY <1>3, PrepareStep, BuildStep, MarkReadyStep
<1>4. CASE Scan \/ CannotBuild \/ Autograde \/ Render \/ Killed
  BY <1>4, ScanStep, CannotBuildStep, AutogradeStep, RenderStep, KilledStep
<1>5. CASE \/ \E check \in BOOLEAN : \E asked \in SUBSET Assignment : Warm(check, asked)
           \/ \E s \in Assignment : WarmNext(s)
           \/ \E u \in Url : WarmUrl(u)
           \/ \E d \in Dataset : WarmDataset(d)
           \/ WarmPrepare \/ WarmedAll \/ WarmEnds \/ WarmStops
  BY <1>5, WarmStep, WarmNextStep, WarmUrlStep, WarmDatasetStep, WarmPrepareStep, WarmedAllStep, WarmEndsStep,
     WarmStopsStep
<1> QED BY <1>1, <1>2, <1>3, <1>4, <1>5 DEF ExecNext

\* The invariant holds of every behaviour of the machine.
LEMMA MachineInvariant == ExecSpec => []ExecInv
BY ExecStarts, ExecStep, PTL DEF ExecSpec

\* What a failed attempt's error is classified as is decided by the first text in it.
LEMMA FirstDecides ==
  ASSUME NEW text, NEW i \in 1..6, Phrases[i] \in text, \A j \in 1..(i - 1) : Phrases[j] \notin text
  PROVE  Classify(text) = KindOf[Phrases[i]]
<1> DEFINE First(k) == Phrases[k] \in text /\ \A j \in 1..(k - 1) : Phrases[j] \notin text
<1>1. \A k \in 1..6 : First(k) => k = i
  <2> SUFFICES ASSUME NEW k \in 1..6, First(k), k # i PROVE FALSE
    OBVIOUS
  <2>1. k \in 1..(i - 1) \/ i \in 1..(k - 1)
    OBVIOUS
  <2> QED BY <2>1
<1>2. (CHOOSE k \in 1..6 : First(k)) = i
  <2>1. First(i)
    OBVIOUS
  <2> HIDE DEF First
  <2> QED BY <1>1, <2>1
<1>3. text # {}
  OBVIOUS
<1> QED BY <1>2, <1>3 DEF Classify

\* The errors a run that grades can leave, and whether staff are told that a retry can help.
LEMMA ClassifyIs ==
  /\ Classify({"could not build"}) = "grader" /\ Classify({"safety check failed"}) = "safety"
  /\ Classify({"timed out after"}) = "timeout" /\ Classify({"MultipleDefinitionError"}) = "notebook"
  /\ Classify({"no check cell ran", "some cells failed"}) = "data"
<1>1. /\ KindOf["safety check failed"] = "safety" /\ KindOf["MultipleDefinitionError"] = "notebook"
      /\ KindOf["timed out after"] = "timeout" /\ KindOf["no check cell ran"] = "data"
      /\ KindOf["could not build"] = "grader"
  BY PhrasesAre DEF KindOf, Phrase
<1>2. Classify({"could not build"}) = KindOf[Phrases[5]]
  <2>1. \A j \in 1..(5 - 1) : j = 1 \/ j = 2 \/ j = 3 \/ j = 4
    OBVIOUS
  <2>2. \A j \in 1..(5 - 1) : Phrases[j] \notin {"could not build"}
    BY <2>1, PhrasesAre
  <2>3. Phrases[5] \in {"could not build"}
    BY PhrasesAre, Zenon
  <2>4. 5 \in 1..6
    OBVIOUS
  <2> QED BY <2>2, <2>3, <2>4, FirstDecides, Zenon
<1>3. Classify({"safety check failed"}) = KindOf[Phrases[1]]
  <2>1. \A j \in 1..(1 - 1) : FALSE
    OBVIOUS
  <2>2. \A j \in 1..(1 - 1) : Phrases[j] \notin {"safety check failed"}
    BY <2>1, PhrasesAre
  <2>3. Phrases[1] \in {"safety check failed"}
    BY PhrasesAre, Zenon
  <2>4. 1 \in 1..6
    OBVIOUS
  <2> QED BY <2>2, <2>3, <2>4, FirstDecides, Zenon
<1>4. Classify({"timed out after"}) = KindOf[Phrases[3]]
  <2>1. \A j \in 1..(3 - 1) : j = 1 \/ j = 2
    OBVIOUS
  <2>2. \A j \in 1..(3 - 1) : Phrases[j] \notin {"timed out after"}
    BY <2>1, PhrasesAre
  <2>3. Phrases[3] \in {"timed out after"}
    BY PhrasesAre, Zenon
  <2>4. 3 \in 1..6
    OBVIOUS
  <2> QED BY <2>2, <2>3, <2>4, FirstDecides, Zenon
<1>5. Classify({"MultipleDefinitionError"}) = KindOf[Phrases[2]]
  <2>1. \A j \in 1..(2 - 1) : j = 1
    OBVIOUS
  <2>2. \A j \in 1..(2 - 1) : Phrases[j] \notin {"MultipleDefinitionError"}
    BY <2>1, PhrasesAre
  <2>3. Phrases[2] \in {"MultipleDefinitionError"}
    BY PhrasesAre, Zenon
  <2>4. 2 \in 1..6
    OBVIOUS
  <2> QED BY <2>2, <2>3, <2>4, FirstDecides, Zenon
<1>6. Classify({"no check cell ran", "some cells failed"}) = KindOf[Phrases[4]]
  <2>1. \A j \in 1..(4 - 1) : j = 1 \/ j = 2 \/ j = 3
    OBVIOUS
  <2>2. \A j \in 1..(4 - 1) : Phrases[j] \notin {"no check cell ran", "some cells failed"}
    BY <2>1, PhrasesAre
  <2>3. Phrases[4] \in {"no check cell ran", "some cells failed"}
    BY PhrasesAre, Zenon
  <2>4. 4 \in 1..6
    OBVIOUS
  <2> QED BY <2>2, <2>3, <2>4, FirstDecides, Zenon
<1> QED BY <1>1, <1>2, <1>3, <1>4, <1>5, <1>6, PhrasesAre

\* prepare_env: a notebook executes in a whole environment that holds what it declares and
\* the worker's own, unless two processes built it at once.
THEOREM RunsWhereItShould == ExecSpec => []RunsInItsEnv
<1>1. ExecInv => RunsInItsEnv
  <2> SUFFICES ASSUME ExecInv PROVE RunsInItsEnv
    OBVIOUS
  <2>1. /\ hf \subseteq Dataset /\ urls \subseteq Url /\ happened \in 0..MaxEvents
        /\ \A p \in Process : process[p] \in ProcessType
        /\ \A a \in Attempt : attempt[a] \in AttemptType
    BY DEF ExecInv, CachesOK
  <2>2. \A p \in Process : process[p].pc \in {"idle", "scan", "next", "urls", "prepare", "build", "mark", "execute"}
    BY <2>1 DEF ProcessType
  <2>3. \A a \in Attempt : /\ attempt[a].status \in {"none", "received", "graded", "failed"}
                           /\ attempt[a].error \subseteq {Phrases[i] : i \in 1..6}
    BY <2>1 DEF AttemptType, Phrase
  <2>4. \A key \in DOMAIN env : /\ env[key].state \in {"partial", "whole"}
                                /\ env[key].ready => env[key].state = "whole" \/ overlapped
    BY WholeIs DEF ExecInv, EnvOK, EnvRecord
  <2>5. Current # 0 => attempt[Current].todo # <<>>
    BY CurrentIs
  <2>6. ASSUME NEW p \in Process, Executes(p), ~overlapped
        PROVE  /\ Env(Key(p)).state = "whole"
               /\ Rewritten(process[p].nb.requires) \subseteq Env(Key(p)).packages
    <3>1. WholeEnv(Key(p))
      BY <2>6 DEF ExecInv, EnvOK
    <3>2. Key(p) = Rewritten(process[p].nb.requires)
      BY DEF Key, EnvKey
    <3> QED BY <3>1, <3>2 DEF WholeEnv
  <2>7. ExecTypeOK
    BY <2>1, <2>2, <2>3, <2>4, <2>5 DEF ExecTypeOK
  <2> QED BY <2>6, <2>7 DEF RunsInItsEnv, Executes
<1> QED BY <1>1, MachineInvariant, PTL

\* mograder_runner: data that every question needs costs nobody a point; a right answer goes
\* without points only where another check ran and had less to read.
THEOREM AnOutageScoresNothing == ExecSpec => []OutageIsNoZero
<1>1. ExecInv => OutageIsNoZero
  BY DEF ExecInv, AttemptOK, OutageIsNoZero, Excused
<1> QED BY <1>1, MachineInvariant, PTL

\* An attempt staff are told no retry helps: its notebook is at fault, or the render spoke.
LEMMA NoRetryIsMeant ==
  ASSUME ExecInv, NEW a \in Attempt, ToldNoRetry(a)
  PROVE  ~CanSucceed(attempt[a].nb) \/ RenderSpoke(a)
<1>1. Verdict(attempt[a]) \/ Spoke(attempt[a])
  BY DEF ExecInv, AttemptOK, ToldNoRetry
<1>2. Helps["grader"] /\ Helps["timeout"] /\ Helps["data"]
  BY DEF Helps
<1>3. \/ attempt[a].error = {"safety check failed"} /\ Unsafe(attempt[a].nb)
      \/ attempt[a].error = {"MultipleDefinitionError"} /\ attempt[a].nb.code = "redefined"
      \/ Spoke(attempt[a])
  BY <1>1, <1>2, ClassifyIs DEF Verdict, ToldNoRetry
<1> QED BY <1>3 DEF CanSucceed, Unsafe, Spoke, RenderSpoke

\* services/failures: staff are told that no retry helps only when none could, whatever the
\* clock does, unless it is the render that spoke last.
THEOREM NoHelpMeansNoHope == ExecSpec => []NoRetryMeansNone
<1>1. ExecInv => NoRetryMeansNone
  BY NoRetryIsMeant DEF NoRetryMeansNone
<1> QED BY <1>1, MachineInvariant, PTL

\* worker/main.py: where the rows of one flush are of one time, the render never speaks last,
\* and what staff are told of a retry is true of every error.
THEOREM OneStampTellsTheTruth ==
  ASSUME Skew = FALSE
  PROVE  ExecSpec => []AdviceIsTrue
<1>1. ExecInv => AdviceIsTrue
  <2> SUFFICES ASSUME ExecInv, NEW a \in Attempt, ToldNoRetry(a) PROVE ~CanSucceed(attempt[a].nb)
    BY DEF AdviceIsTrue
  <2>1. attempt[a].last = "autograde"
    BY DEF ExecInv, AttemptOK, ToldNoRetry
  <2> QED BY <2>1, NoRetryIsMeant DEF RenderSpoke
<1> QED BY <1>1, MachineInvariant, PTL

\* warm-cache and the worker: data that can be had is had, after warm-cache at once, on a
\* cold machine from the run that may download, whatever the clock does.
THEOREM DataIsHad == ExecSpec => []DataIsReached
<1>1. ExecInv => DataIsReached
  <2> SUFFICES ASSUME ExecInv PROVE DataIsReached
    OBVIOUS
  <2>1. \A a \in Attempt : /\ AttemptOK(attempt[a], hf)
                           /\ attempt[a].status = "failed" => Verdict(attempt[a]) \/ Spoke(attempt[a])
    BY DEF ExecInv, AttemptOK
  <2>2. ASSUME NEW a \in Attempt, attempt[a].status \in {"graded", "failed"},
               attempt[a].trusted, ~RenderSpoke(a),
               attempt[a].nb.flagged # "the student's line", attempt[a].nb.code = "fine", attempt[a].nb.auto,
               attempt[a].nb.answer["mine"] = "right", Readable(attempt[a].nb)
        PROVE  IF attempt[a].status = "graded" THEN attempt[a].points = 1
               ELSE "could not build" \in attempt[a].error
    <3>1. CASE attempt[a].status = "graded"
      BY <2>1, <2>2, <3>1 DEF AttemptOK
    <3>2. CASE attempt[a].status = "failed"
      <4>1. attempt[a].error = {"could not build"}
        BY <2>1, <2>2, <3>2 DEF Verdict, Unsafe, TimesOut, Spoke, RenderSpoke
      <4> QED BY <3>2, <4>1
    <3> QED BY <2>2, <3>1, <3>2
  <2>3. WarmMeansGraded
    BY <2>2 DEF WarmMeansGraded, Readable
  <2>4. ASSUME NEW a \in Attempt, attempt[a].status = "failed", attempt[a].page,
               attempt[a].last = "autograde", Classify(attempt[a].error) = "data"
        PROVE  (attempt[a].nb.reads["mine"] \cup attempt[a].nb.reads["other"]) \cap Url # {}
    <3>1. Verdict(attempt[a])
      BY <2>1, <2>4 DEF Spoke
    <3> QED BY <2>4, <3>1, ClassifyIs DEF Verdict
  <2> QED BY <2>3, <2>4 DEF DataIsReached, ColdRecovers
<1> QED BY <1>1, MachineInvariant, PTL
=============================================================================
