---------------------------- MODULE LoginLinks ----------------------------
(***************************************************************************)
(* One-time login links, within one day: those a person asks for by mail   *)
(* (POST /auth/email-login), those an operator mints on the server         *)
(* (`grader login-link`), and the visits that exchange them for a session  *)
(* (auth/device.py, api/auth.py, services/mail.py).                        *)
(*                                                                         *)
(* A request is split between what it reads and its commit, and around the *)
(* mail it sends.  Sessions themselves, begun by SAML or by a link, are    *)
(* opened and closed freely and keep no state here.                        *)
(***************************************************************************)
EXTENDS Naturals, FiniteSets

CONSTANTS
  NoOne,
  User,         \* enrolled users; anyone else is answered the same and gets nothing
  Link,           \* bound: links
  MaxPerDay       \* email_login_max_per_day

ASSUME NoOneAssumption == NoOne \notin User
ASSUME DayAssumption == MaxPerDay \in Nat \ {0}

Visit == Link \X {1, 2}           \* a link is opened at most twice

VARIABLES
  link,        \* each link: for whom, by mail or by the operator, how far it is
  visit,       \* each visit of a link
  sent,        \* links whose mail has left
  overlap      \* persons two of whose requests, links two of whose visits overlapped

linkVars == <<link, visit, sent, overlap>>

NoLink == [for |-> NoOne, kind |-> "mail", status |-> "none"]

LinksInit ==
  /\ link = [l \in Link |-> NoLink]
  /\ visit = [v \in Visit |-> "none"]
  /\ sent = {}
  /\ overlap = {}

\* The row is visible to other requests.
Stored(l) == link[l].status \in {"live", "used", "expired"}
InFlight(l) == link[l].status \in {"counted", "mailed"}
MailLinks(p) == {l \in Link : link[l].for = p /\ link[l].kind = "mail"}

\* Mistake: a link that was used no longer counts.
RecentUnused(p) == {l \in MailLinks(p) : link[l].status \in {"live", "expired"}}

\* device.login_code_rate: the links of the day, used or not.
Recent(p) == {l \in MailLinks(p) : Stored(l)}

\* POST /auth/email-login: the links of the day are counted. Being refused, also for
\* asking again too soon, changes nothing.
EmailLogin(p, l) ==
  /\ link[l] = NoLink
  /\ Cardinality(Recent(p)) < MaxPerDay
  /\ link' = [link EXCEPT ![l] = [for |-> p, kind |-> "mail", status |-> "counted"]]
  /\ overlap' = IF \E k \in MailLinks(p) : InFlight(k) THEN overlap \cup {p} ELSE overlap
  /\ UNCHANGED <<visit, sent>>

\* The mail leaves before the row is committed.
SendMail(l) ==
  /\ link[l].status = "counted"
  /\ link' = [link EXCEPT ![l].status = "mailed"]
  /\ sent' = sent \cup {l}
  /\ UNCHANGED <<visit, overlap>>

RolledBack(l) == NoLink

\* MailError.
MailFails(l) ==
  /\ link[l].status = "counted"
  /\ link' = [link EXCEPT ![l] = RolledBack(l)]
  /\ UNCHANGED <<visit, sent, overlap>>

EmailCommit(l) ==
  /\ link[l].status = "mailed"
  /\ link' = [link EXCEPT ![l].status = "live"]
  /\ UNCHANGED <<visit, sent, overlap>>

\* The server is killed before the commit, or the relay fails after it took the mail: a mail
\* that has left names no code, and no row says that it was sent.
EmailDies(l) ==
  /\ InFlight(l)
  /\ link' = [link EXCEPT ![l].status = "lost"]
  /\ UNCHANGED <<visit, sent, overlap>>

\* `grader login-link`: no allowance, no mail.
MintLoginLink(p, l) ==
  /\ link[l] = NoLink
  /\ link' = [link EXCEPT ![l] = [for |-> p, kind |-> "operator", status |-> "live"]]
  /\ UNCHANGED <<visit, sent, overlap>>

LinkExpires(l) ==
  /\ link[l].status = "live"
  /\ link' = [link EXCEPT ![l].status = "expired"]
  /\ UNCHANGED <<visit, sent, overlap>>

\* GET /auth/exchange: consume_login_code reads the code ...
ExchangeRead(v) ==
  /\ visit[v] = "none" /\ link[v[1]].status = "live"
  /\ visit' = [visit EXCEPT ![v] = "read"]
  /\ overlap' = IF \E w \in Visit \ {v} : w[1] = v[1] /\ visit[w] = "read"
                THEN overlap \cup {v[1]} ELSE overlap
  /\ UNCHANGED <<link, sent>>

Spent(l) == [link[l] EXCEPT !.status = "used"]

\* ... and spends it; the browser has a session.
ExchangeCommit(v) ==
  /\ visit[v] = "read"
  /\ visit' = [visit EXCEPT ![v] = "signed_in"]
  /\ link' = [link EXCEPT ![v[1]] = Spent(v[1])]
  /\ UNCHANGED <<sent, overlap>>

LinksNext ==
  \/ \E l \in Link, p \in User : EmailLogin(p, l) \/ MintLoginLink(p, l)
  \/ \E l \in Link : SendMail(l) \/ MailFails(l) \/ EmailCommit(l) \/ EmailDies(l) \/ LinkExpires(l)
  \/ \E v \in Visit : ExchangeRead(v) \/ ExchangeCommit(v)

LinksSpec == LinksInit /\ [][LinksNext]_linkVars

-----------------------------------------------------------------------------
(* Properties.                                                             *)

LinksTypeOK ==
  /\ link \in [Link -> [for : User \cup {NoOne}, kind : {"mail", "operator"},
                        status : {"none", "counted", "mailed", "live", "used", "expired", "lost"}]]
  /\ visit \in [Visit -> {"none", "read", "signed_in"}]
  /\ sent \subseteq Link
  /\ overlap \subseteq User \cup Link
  /\ \A l \in Link : Stored(l) => link[l].for \in User

\* The mails a person was sent, and those of them that were wasted on a request that died.
MailsTo(p) == MailLinks(p) \cap sent
Wasted(p) == {l \in MailsTo(p) : link[l].status = "lost"}

\* A person who does not ask twice at once is sent no more mails than the day's allowance,
\* used and expired links counted, and one more for each request that died after its mail
\* had left: those name no code.
AllowanceHolds ==
  \A p \in User \ overlap : Cardinality(MailsTo(p)) <= MaxPerDay + Cardinality(Wasted(p))

\* email_login's rollback: no link counts against the allowance whose mail never left.
OnlySentLinksCount == \A l \in Link : link[l].kind = "mail" /\ Stored(l) => l \in sent

\* "Codes are single-use" (api/auth.py:202), unless the link is opened twice at once.
SingleUse ==
  \A v, w \in Visit :
    v[1] = w[1] /\ v # w /\ visit[v] = "signed_in" /\ visit[w] = "signed_in" => v[1] \in overlap

\* A person is mailed no more links than allowed that can be used; each was sent and signs
\* in once.
LinksHold == LinksTypeOK /\ AllowanceHolds /\ OnlySentLinksCount /\ SingleUse
=============================================================================
