----------------------------- MODULE EmailFlows -----------------------------
(***************************************************************************)
(* Links that are mailed: verification of an address, password reset and   *)
(* change of the address, and the outbox that delivers them                *)
(* (auth/service.go, auth/repository.go, platform/mail/dispatcher.go).     *)
(*                                                                         *)
(* A link (a row of email_verification_tokens or password_reset_tokens) is *)
(* inserted together with its mail (email_outbox), so one number names     *)
(* both.  A link that expired is as good as used.  What a reset does to    *)
(* sessions is Sessions.  Not here: the mail transport "log", which writes *)
(* mails to the log and reports them sent.                                 *)
(***************************************************************************)
EXTENDS Integers, FiniteSets

CONSTANTS Person, Address, NoAddress,
          Call,         \* API requests that may be open at once
          Dispatcher,   \* dispatchers: one of each API process
          MaxAttempts,  \* attempts before a mail is dead (8)
          MaxLinks,     \* bound: links ever mailed
          MaxClaims     \* bound: attempts altogether

FlowsAssumption ==
    /\ Person # {} /\ Address # {} /\ NoAddress \notin Address
    /\ MaxAttempts \in Nat /\ MaxLinks \in Nat /\ MaxClaims \in Nat

VARIABLES
    account,    \* users: email, pending_email, email_verified_at
    links,      \* links and mails so far
    link, mail,
    at, call,   \* API requests
    hand,       \* what a dispatcher has claimed
    delivered,  \* mails that reached their address
    acted       \* history: how often a link took effect

flowVars == <<account, links, link, mail, at, call, hand, delivered, acted>>
outboxVars == <<mail, hand, delivered>>

Link == 1..MaxLinks
Sent == 1..links
Purpose == {"verify", "reset", "change"}

UserRow == [email : Address \cup {NoAddress}, pending : Address \cup {NoAddress}, verified : BOOLEAN]
LinkRow == [owner : Person, purpose : Purpose, target : Address, used : BOOLEAN]
\* A mail is due when available_at has come or, while it is sent, its lock is old.
MailRow == [st : {"none", "pending", "sending", "sent", "failed", "dead"},
            attempts : 0..MaxClaims, due : BOOLEAN]
NoMail == 0

FlowCall == [owner : Person, purpose : Purpose, target : Address, seen : SUBSET Link,
            link : Link \cup {0}]
HandRow == [mail : Link \cup {NoMail}, attempt : 0..MaxClaims, st : {"idle", "send", "ok", "error"}]
Nowhere == [owner |-> CHOOSE p \in Person : TRUE, purpose |-> "verify",
            target |-> CHOOSE a \in Address : TRUE, seen |-> {}, link |-> 0]

AccountTypeOK ==
    /\ account \in [Person -> UserRow]
    /\ links \in 0..MaxLinks /\ link \in [Link -> LinkRow]
    /\ acted \in [Link -> {0, 1}] /\ delivered \subseteq Sent
CallTypeOK ==
    /\ at \in [Call -> {"idle", "store", "stored", "consume"}] /\ call \in [Call -> FlowCall]
    /\ \A c \in Call : call[c].seen \subseteq Sent /\ (at[c] = "consume" => call[c].link \in Sent)
OutboxTypeOK ==
    /\ mail \in [Link -> MailRow] /\ hand \in [Dispatcher -> HandRow]
    /\ \A l \in Link : mail[l].st # "none" => l \in Sent
    /\ \A d \in Dispatcher : hand[d].mail \in Sent \cup {NoMail}
FlowsTypeOK == AccountTypeOK /\ CallTypeOK /\ OutboxTypeOK

FlowsInit ==
    /\ account = [p \in Person |-> [email |-> NoAddress, pending |-> NoAddress, verified |-> FALSE]]
    /\ links = 0
    /\ link = [l \in Link |-> [owner |-> CHOOSE p \in Person : TRUE, purpose |-> "verify",
                               target |-> CHOOSE a \in Address : TRUE, used |-> TRUE]]
    /\ mail = [l \in Link |-> [st |-> "none", attempts |-> 0, due |-> FALSE]]
    /\ at = [c \in Call |-> "idle"] /\ call = [c \in Call |-> Nowhere]
    /\ hand = [d \in Dispatcher |-> [mail |-> NoMail, attempt |-> 0, st |-> "idle"]]
    /\ delivered = {} /\ acted = [l \in Link |-> 0]

-----------------------------------------------------------------------------
(* Asking for a link.                                                      *)

TakenByOther(p, a) == \E q \in Person \ {p} : account[q].email = a
PendingOfOther(p, a) == \E q \in Person \ {p} : account[q].pending = a
Live(p, u) == {l \in Sent : link[l].owner = p /\ link[l].purpose = u /\ ~link[l].used}

\* Locks: the link that is consumed, the links a new one replaces, and the user
\* whose address changes.
HasLink(c, l) ==
    \/ at[c] = "consume" /\ call[c].link = l
    \/ at[c] = "stored" /\ l \in call[c].seen
ChangesUser(c, p) ==
    /\ call[c].owner = p
    /\ \/ at[c] = "stored" /\ call[c].purpose = "change"
       \/ at[c] = "consume" /\ call[c].purpose = "change"
LinkFree(c, l) == \A b \in Call \ {c} : ~HasLink(b, l)
PersonFree(c, p) == \A b \in Call \ {c} : ~ChangesUser(b, p)

Done(c) == at' = [at EXCEPT ![c] = "idle"] /\ call' = [call EXCEPT ![c] = Nowhere]

\* The link and its mail; the links in old are used.
Insert(p, u, a, old) ==
    /\ links < MaxLinks /\ links' = links + 1
    /\ link' = [l \in Link |->
                  IF l = links + 1
                  THEN [owner |-> p, purpose |-> u, target |-> a, used |-> FALSE]
                  ELSE [link[l] EXCEPT !.used = @ \/ l \in old]]
    /\ mail' = [mail EXCEPT ![links + 1] = [st |-> "pending", attempts |-> 0, due |-> TRUE]]

\* Register: the address must be free, the first link is mailed to it.
Register(p, a) ==
    /\ account[p].email = NoAddress /\ ~TakenByOther(p, a)
    /\ account' = [account EXCEPT ![p].email = a]
    /\ Insert(p, "verify", a, {})
    /\ UNCHANGED <<at, call, hand, delivered, acted>>

\* ResendVerification and RequestPasswordReset mail to the address the user has,
\* RequestEmailChange to the new one.
Ask(c, p, u, a) ==
    /\ at[c] = "idle" /\ account[p].email # NoAddress
    /\ CASE u = "verify" -> ~account[p].verified /\ a = account[p].email
         [] u = "reset" -> a = account[p].email
         [] u = "change" -> a # account[p].email
    /\ at' = [at EXCEPT ![c] = "store"]
    /\ call' = [call EXCEPT ![c] = [Nowhere EXCEPT !.owner = p, !.purpose = u, !.target = a]]
    /\ UNCHANGED <<account, links, link, outboxVars, acted>>

\* An address that is being entered as the next one of its user (the index on the
\* pending address makes another transaction wait for this one).
Entered(c, a) ==
    \E b \in Call \ {c} : at[b] = "stored" /\ call[b].purpose = "change" /\ call[b].target = a

\* storeMailToken, StoreEmailChange: the links of before are looked up; a change
\* has entered the address by then, after it saw that nobody else has it.
StoreAtOnce(c) ==   \* mutant: the change does not wait for another one
    /\ at[c] = "store"
    /\ \A l \in Live(call[c].owner, call[c].purpose) : LinkFree(c, l)
    /\ call' = [call EXCEPT ![c].seen = Live(call[c].owner, call[c].purpose)]
    /\ at' = [at EXCEPT ![c] = "stored"]
    /\ UNCHANGED <<account, links, link, outboxVars, acted>>
Store(c) ==
    LET p == call[c].owner
        old == Live(p, call[c].purpose)
    IN  /\ at[c] = "store"
        /\ call[c].purpose = "change" =>
             /\ ~TakenByOther(p, call[c].target) /\ PersonFree(c, p)
             /\ ~PendingOfOther(p, call[c].target) /\ ~Entered(c, call[c].target)
        /\ \A l \in old : LinkFree(c, l)
        /\ call' = [call EXCEPT ![c].seen = old]
        /\ at' = [at EXCEPT ![c] = "stored"]
        /\ UNCHANGED <<account, links, link, outboxVars, acted>>

Stored(c) ==
    LET p == call[c].owner
    IN  /\ at[c] = "stored"
        /\ Insert(p, call[c].purpose, call[c].target, call[c].seen)
        /\ account' = IF call[c].purpose = "change"
                      THEN [account EXCEPT ![p].pending = call[c].target] ELSE account
        /\ Done(c)
        /\ UNCHANGED <<hand, delivered, acted>>

-----------------------------------------------------------------------------
(* Following a link.                                                       *)

\* ConsumeVerification, ConsumePasswordReset, ConsumeEmailChange: the row of the link
\* is locked if it was not used, a change locks the user too.
Follow(c, l) ==
    /\ at[c] = "idle" /\ l \in delivered /\ LinkFree(c, l)
    /\ ~link[l].used
    /\ link[l].purpose = "change" => PersonFree(c, link[l].owner)
    /\ at' = [at EXCEPT ![c] = "consume"]
    /\ call' = [call EXCEPT ![c] = [Nowhere EXCEPT !.owner = link[l].owner,
                                                   !.purpose = link[l].purpose, !.link = l]]
    /\ UNCHANGED <<account, links, link, outboxVars, acted>>

Refused(c) ==
    LET l == call[c].link
    IN  /\ call[c].purpose = "change"
        /\ \/ account[call[c].owner].pending # link[l].target
           \/ TakenByOther(call[c].owner, link[l].target)

Confirmed(c) ==
    LET p == call[c].owner
    IN  CASE call[c].purpose = "verify" -> [account EXCEPT ![p].verified = TRUE]
          [] call[c].purpose = "reset" -> account
          [] call[c].purpose = "change" ->
                 [account EXCEPT ![p] = [email |-> link[call[c].link].target,
                                         pending |-> NoAddress, verified |-> TRUE]]

\* The index on the address may refuse a change, which then did not happen.
Consume(c) ==
    LET l == call[c].link
    IN  /\ at[c] = "consume"
        /\ IF Refused(c) THEN UNCHANGED <<account, link, acted>>
           ELSE /\ account' = Confirmed(c)
                /\ link' = [link EXCEPT ![l].used = TRUE]
                /\ acted' = [acted EXCEPT ![l] = @ + 1]
        /\ Done(c)
        /\ UNCHANGED <<links, outboxVars>>

FailCall(c) ==
    /\ at[c] # "idle"
    /\ Done(c)
    /\ UNCHANGED <<account, links, link, outboxVars, acted>>

ExpireLink(l) ==
    /\ l \in Sent /\ ~link[l].used /\ \A c \in Call : ~HasLink(c, l)
    /\ link' = [link EXCEPT ![l].used = TRUE]
    /\ UNCHANGED <<account, links, outboxVars, at, call, acted>>

-----------------------------------------------------------------------------
(* dispatchOne.                                                            *)

apiVars == <<account, links, link, at, call, acted>>

Due == {l \in Sent : mail[l].st \in {"pending", "failed", "sending"} /\ mail[l].due}

\* The oldest mail that is due; its lock makes it due again after five minutes.
ClaimMail(d, l) ==
    /\ hand[d].mail = NoMail /\ \A m \in Due : l <= m
    /\ mail[l].attempts < MaxClaims    \* bound
    /\ mail' = [mail EXCEPT ![l] = [st |-> "sending", attempts |-> @.attempts + 1, due |-> FALSE]]
    /\ hand' = [hand EXCEPT ![d] = [mail |-> l, attempt |-> mail[l].attempts + 1, st |-> "send"]]
    /\ UNCHANGED <<apiVars, delivered>>
Claim(d) == \E l \in Due : ClaimMail(d, l)

\* SMTP has no timeout; a mail whose sending fails may have been delivered.
Send(d) ==
    /\ hand[d].st = "send"
    /\ \/ /\ delivered' = delivered \cup {hand[d].mail}
          /\ \E st \in {"ok", "error"} : hand' = [hand EXCEPT ![d].st = st]
       \/ hand' = [hand EXCEPT ![d].st = "error"] /\ UNCHANGED delivered
    /\ UNCHANGED <<apiVars, mail>>

Drop(d) == hand' = [hand EXCEPT ![d] = [mail |-> NoMail, attempt |-> 0, st |-> "idle"]]

ReportEarly(d) ==   \* mutant: the last attempt is not made
    /\ hand[d].st \in {"ok", "error"}
    /\ mail' = [mail EXCEPT ![hand[d].mail].due = FALSE,
                   ![hand[d].mail].st = IF hand[d].st = "ok" THEN "sent"
                       ELSE IF hand[d].attempt + 1 >= MaxAttempts THEN "dead" ELSE "failed"]
    /\ Drop(d)
    /\ UNCHANGED <<apiVars, delivered>>
\* The outcome is written whoever has claimed the mail since.
Report(d) ==
    LET l == hand[d].mail
    IN  /\ hand[d].st \in {"ok", "error"}
        /\ mail' = [mail EXCEPT ![l].due = FALSE,
                       ![l].st = IF hand[d].st = "ok" THEN "sent"
                                 ELSE IF hand[d].attempt >= MaxAttempts THEN "dead" ELSE "failed"]
        /\ Drop(d)
        /\ UNCHANGED <<apiVars, delivered>>

\* The process dies, or cannot write the outcome.
Lose(d) ==
    /\ hand[d].mail # NoMail
    /\ Drop(d)
    /\ UNCHANGED <<apiVars, mail, delivered>>

ComesDue(l) ==
    /\ l \in Sent /\ mail[l].st \in {"failed", "sending"} /\ ~mail[l].due
    /\ mail' = [mail EXCEPT ![l].due = TRUE]
    /\ UNCHANGED <<apiVars, hand, delivered>>

FlowsNext ==
    \/ \E p \in Person, a \in Address : Register(p, a) \/
          \E c \in Call, u \in Purpose : Ask(c, p, u, a)
    \/ \E c \in Call : Store(c) \/ Stored(c) \/ Consume(c) \/ FailCall(c)
    \/ \E l \in Link : ExpireLink(l) \/ ComesDue(l) \/ \E c \in Call : Follow(c, l)
    \/ \E d \in Dispatcher : Claim(d) \/ Send(d) \/ Report(d) \/ Lose(d)

FlowsSpec == FlowsInit /\ [][FlowsNext]_flowVars

-----------------------------------------------------------------------------
(* Properties.                                                             *)

\* A link takes effect once, whoever follows it at the same time; at most one link
\* can change the address of a user; no address comes to be of two users, though it
\* may be taken between the request of a change and its confirmation; and a verified
\* address is one whose owner followed a link that was mailed there, through changes
\* and late verifications.
LinksSound ==
    /\ \A l \in Sent : acted[l] <= 1
    /\ \A p, q \in Person : p # q /\ account[p].email = account[q].email => account[p].email = NoAddress
    /\ \A p \in Person : Cardinality(Live(p, "change")) <= 1
    /\ \A p \in Person : account[p].verified =>
         \E l \in delivered : /\ link[l].owner = p /\ link[l].target = account[p].email
                              /\ acted[l] > 0

\* The outbox says sent only of a mail that reached its address and gives up one
\* only after MaxAttempts attempts, though the outcome of an attempt is written
\* over that of another dispatcher.
MailHonest ==
    \A l \in Sent : /\ mail[l].st = "sent" => l \in delivered
                    /\ mail[l].st = "dead" => mail[l].attempts >= MaxAttempts
=============================================================================
