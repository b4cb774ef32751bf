-------------------------- MODULE EmailFlows_proofs --------------------------
(***************************************************************************)
(* LinksSound and MailHonest hold of EmailFlows for any number of people,   *)
(* requests, dispatchers and links.                                         *)
(*                                                                          *)
(* Outbox: a dispatcher never remembers an attempt that was not counted,    *)
(* and it remembers a success only of a mail that was delivered.            *)
(* Links: what a request holds (the link it consumes, the links it will     *)
(* use up, the user whose address it changes) is held by no other, and      *)
(* until a user is verified every verification link shows her address.      *)
(* Addresses: who gets one is the only one to have it.                      *)
(***************************************************************************)
EXTENDS EmailFlows, FiniteSetTheorems, TLAPS

-----------------------------------------------------------------------------
(* The inductive invariant.                                                *)

Remembers(d) ==
    /\ hand[d].mail = NoMail <=> hand[d].st = "idle"
    /\ hand[d].mail # NoMail => hand[d].attempt <= mail[hand[d].mail].attempts
    /\ hand[d].st = "ok" => hand[d].mail \in delivered
MailInv == OutboxTypeOK /\ (\A d \in Dispatcher : Remembers(d)) /\ MailHonest

\* What a request in state s with the data v holds and knows.
Holds(s, v, l) ==
    \/ s = "consume" /\ v.link = l
    \/ s = "stored" /\ l \in v.seen
Changes(s, v, p) == v.owner = p /\ v.purpose = "change" /\ s \in {"stored", "consume"}
KnowsLink(s, v) ==
    s = "consume" => /\ v.link \in delivered /\ ~link[v.link].used
                     /\ link[v.link].owner = v.owner /\ link[v.link].purpose = v.purpose
KnowsOld(s, v) == s = "stored" /\ v.purpose = "change" => Live(v.owner, "change") \subseteq v.seen
Shows(p, a) == a = account[p].email \/ account[p].verified
KnowsAddress(s, v) == s \in {"store", "stored"} /\ v.purpose = "verify" => Shows(v.owner, v.target)
Knows(s, v) == KnowsLink(s, v) /\ KnowsOld(s, v) /\ KnowsAddress(s, v)
Apart(s, v, t, w) ==
    /\ \A l \in Link : ~(Holds(s, v, l) /\ Holds(t, w, l))
    /\ \A p \in Person : ~(Changes(s, v, p) /\ Changes(t, w, p))

OnceUsed(l) == (acted[l] = 1 => link[l].used) /\ (l \notin Sent => acted[l] = 0)
OneChange(p) == \A l, m \in Live(p, "change") : l = m
FollowedBy(p, l) == link[l].owner = p /\ link[l].target = account[p].email /\ acted[l] = 1
Followed(p) == account[p].verified => \E l \in delivered : FollowedBy(p, l)
Addressed(l) == link[l].purpose = "verify" => Shows(link[l].owner, link[l].target)

RowsInv ==
    /\ \A l \in Link : OnceUsed(l)
    /\ \A l \in Sent : Addressed(l)
    /\ \A p \in Person : OneChange(p) /\ Followed(p)
CallsInv ==
    /\ \A c \in Call : Knows(at[c], call[c])
    /\ \A b, c \in Call : b # c => Apart(at[b], call[b], at[c], call[c])
Inv == AccountTypeOK /\ CallTypeOK /\ MailInv /\ RowsInv /\ CallsInv

LEMMA NowhereType == ASSUME FlowsAssumption PROVE Nowhere \in FlowCall /\ Nowhere.seen = {} /\ Nowhere.link = 0
  BY DEF FlowsAssumption, Nowhere, FlowCall, Purpose

\* A request that does nothing knows nothing and is apart from all.
LEMMA IdleKnows == ASSUME NEW v PROVE Knows("idle", v)
  BY DEF Knows, KnowsLink, KnowsOld, KnowsAddress
LEMMA IdleApart == ASSUME NEW v, NEW t, NEW w PROVE Apart("idle", v, t, w) /\ Apart(t, w, "idle", v)
  BY DEF Apart, Holds, Changes

-----------------------------------------------------------------------------
(* The outbox.                                                             *)

LEMMA MailKept ==
    ASSUME FlowsAssumption, MailInv, links \in 0..MaxLinks, UNCHANGED <<links, outboxVars>>
    PROVE  MailInv'
  BY DEF MailInv, OutboxTypeOK, Remembers, MailHonest, outboxVars, Sent

LEMMA InsertMail ==
    ASSUME FlowsAssumption, MailInv, links \in 0..MaxLinks, links < MaxLinks, links' = links + 1,
           delivered \subseteq Sent,
           mail' = [mail EXCEPT ![links + 1] = [st |-> "pending", attempts |-> 0, due |-> TRUE]],
           UNCHANGED <<hand, delivered>>
    PROVE  MailInv'
<1>1. links + 1 \in Link /\ links + 1 \notin Sent /\ Sent \subseteq Sent' /\ links + 1 \in Sent' /\ Sent \subseteq Link
  BY DEF FlowsAssumption, Link, Sent
<1>2. \A l \in Sent' : l \in Sent \/ l = links + 1
  BY DEF Sent
<1>3. mail \in [Link -> MailRow] /\ hand \in [Dispatcher -> HandRow]
  BY DEF MailInv, OutboxTypeOK
<1>4. /\ [st |-> "pending", attempts |-> 0, due |-> TRUE] \in MailRow
      /\ mail'[links + 1] = [st |-> "pending", attempts |-> 0, due |-> TRUE]
  BY <1>1, <1>3 DEF MailRow, FlowsAssumption
<1>5. \A l \in Link : l # links + 1 => mail'[l] = mail[l]
  BY <1>3
<1>6. mail' \in [Link -> MailRow]
  BY <1>3, <1>4
<1>7. OutboxTypeOK'
  BY <1>1, <1>3, <1>5, <1>6 DEF MailInv, OutboxTypeOK
<1>8. ASSUME NEW d \in Dispatcher PROVE Remembers(d)'
  <2>1. Remembers(d) /\ hand'[d] = hand[d] /\ hand[d].mail \in Sent \cup {NoMail}
    BY DEF MailInv, OutboxTypeOK
  <2>2. hand[d].mail # NoMail => mail'[hand[d].mail] = mail[hand[d].mail]
    BY <1>1, <1>5, <2>1
  <2> QED BY <2>1, <2>2 DEF Remembers
<1>9. MailHonest'
  BY <1>1, <1>2, <1>4, <1>5 DEF MailInv, MailHonest
<1> QED BY <1>7, <1>8, <1>9 DEF MailInv

\* A mail is claimed, and the attempt counted, in one transaction.
LEMMA ClaimKeeps ==
    ASSUME FlowsAssumption, MailInv, links \in 0..MaxLinks, NEW d \in Dispatcher, NEW l \in Due, ClaimMail(d, l)
    PROVE  MailInv'
<1>1. l \in Sent /\ l \in Link /\ l # NoMail
  BY DEF Due, Sent, Link, FlowsAssumption, NoMail
<1>2. mail \in [Link -> MailRow] /\ hand \in [Dispatcher -> HandRow]
  BY DEF MailInv, OutboxTypeOK
<1>3. PICK n \in 0..MaxClaims : n = mail[l].attempts
  BY <1>1, <1>2 DEF MailRow
<1>4. n + 1 \in 0..MaxClaims
  BY <1>3 DEF ClaimMail, FlowsAssumption
<1>5. mail' = [mail EXCEPT ![l] = [st |-> "sending", attempts |-> n + 1, due |-> FALSE]]
  BY <1>1, <1>2, <1>3 DEF ClaimMail
<1>6. mail'[l].st = "sending" /\ mail'[l].attempts = n + 1 /\ \A m \in Link : m # l => mail'[m] = mail[m]
  BY <1>1, <1>2, <1>5
<1>7. hand' = [hand EXCEPT ![d] = [mail |-> l, attempt |-> n + 1, st |-> "send"]]
  BY <1>3 DEF ClaimMail
<1>8. mail' \in [Link -> MailRow] /\ hand' \in [Dispatcher -> HandRow]
  BY <1>1, <1>2, <1>4, <1>5, <1>7 DEF MailRow, HandRow
<1>9. UNCHANGED <<links, delivered>> /\ Sent' = Sent /\ Sent \subseteq Link
  BY DEF ClaimMail, apiVars, Sent, Link, FlowsAssumption
<1>10. ASSUME NEW e \in Dispatcher PROVE Remembers(e)' /\ hand'[e].mail \in Sent \cup {NoMail}
  <2>1. CASE e = d
    <3>1. hand'[e] = [mail |-> l, attempt |-> n + 1, st |-> "send"]
      BY <1>2, <1>7, <2>1
    <3>2. hand'[e].mail = l /\ hand'[e].attempt = mail'[l].attempts /\ hand'[e].st = "send" /\ n + 1 <= n + 1
      BY <1>3, <1>6, <3>1
    <3> QED BY <1>1, <1>3, <1>6, <3>1, <3>2 DEF Remembers, NoMail
  <2>2. CASE e # d
    <3>1. hand'[e] = hand[e] /\ Remembers(e) /\ hand[e].mail \in Sent \cup {NoMail}
      BY <1>2, <1>7, <2>2 DEF MailInv, OutboxTypeOK
    <3>2. hand[e].mail # NoMail => hand[e].attempt <= mail'[hand[e].mail].attempts
      <4>1. CASE hand[e].mail = l
        <5>1. hand[e].attempt \in Nat /\ hand[e].attempt <= n
          BY <1>1, <1>2, <1>3, <3>1, <4>1 DEF Remembers, HandRow, FlowsAssumption
        <5> QED BY <1>3, <1>6, <4>1, <5>1
      <4>2. CASE hand[e].mail # l
        BY <1>6, <1>9, <3>1, <4>2 DEF Remembers
      <4> QED BY <4>1, <4>2
    <3> QED BY <1>9, <3>1, <3>2 DEF Remembers
  <2> QED BY <2>1, <2>2
<1>11. OutboxTypeOK'
  BY <1>1, <1>6, <1>8, <1>9, <1>10 DEF MailInv, OutboxTypeOK
<1>12. MailHonest'
  BY <1>1, <1>6, <1>9 DEF MailInv, MailHonest
<1> QED BY <1>10, <1>11, <1>12 DEF MailInv

LEMMA DropKeeps ==
    ASSUME FlowsAssumption, NEW d \in Dispatcher, MailInv, Drop(d)
    PROVE  /\ hand' \in [Dispatcher -> HandRow]
           /\ hand'[d].mail = NoMail /\ hand'[d].st = "idle"
           /\ \A e \in Dispatcher : e # d => hand'[e] = hand[e]
<1>1. hand \in [Dispatcher -> HandRow]
  BY DEF MailInv, OutboxTypeOK
<1>2. [mail |-> NoMail, attempt |-> 0, st |-> "idle"] \in HandRow
  BY DEF HandRow, NoMail, FlowsAssumption
<1> QED BY <1>1, <1>2 DEF Drop

LEMMA SendKeeps ==
    ASSUME FlowsAssumption, MailInv, links \in 0..MaxLinks, delivered \subseteq Sent, NEW d \in Dispatcher, Send(d)
    PROVE  MailInv' /\ delivered \subseteq delivered' /\ delivered' \subseteq Sent /\ UNCHANGED apiVars
<1>1. hand \in [Dispatcher -> HandRow] /\ hand[d].mail \in Sent /\ Remembers(d)
  BY DEF MailInv, OutboxTypeOK, Send, Remembers
<1>2. PICK s \in {"ok", "error"} : /\ hand' = [hand EXCEPT ![d].st = s]
                                   /\ delivered' \in {delivered, delivered \cup {hand[d].mail}}
                                   /\ s = "ok" => hand[d].mail \in delivered'
  BY DEF Send
<1>3. UNCHANGED <<apiVars, mail, links>> /\ Sent' = Sent
  BY DEF Send, apiVars, Sent
<1>4. delivered \subseteq delivered' /\ delivered' \subseteq Sent
  BY <1>1, <1>2
<1>5. hand' \in [Dispatcher -> HandRow]
  BY <1>1, <1>2 DEF HandRow
<1>6. /\ hand'[d].mail = hand[d].mail /\ hand'[d].attempt = hand[d].attempt /\ hand'[d].st = s
      /\ \A e \in Dispatcher : e # d => hand'[e] = hand[e]
  BY <1>1, <1>2 DEF HandRow
<1>7. ASSUME NEW e \in Dispatcher PROVE Remembers(e)' /\ hand'[e].mail \in Sent \cup {NoMail}
  <2>1. Remembers(e) /\ hand[e].mail \in Sent \cup {NoMail}
    BY DEF MailInv, OutboxTypeOK
  <2>2. CASE e = d
    <3>1. hand[d].st # "idle"
      BY DEF Send
    <3> QED BY <1>1, <1>2, <1>3, <1>6, <2>1, <2>2, <3>1 DEF Remembers
  <2>3. CASE e # d
    BY <1>3, <1>4, <1>6, <2>1, <2>3 DEF Remembers
  <2> QED BY <2>2, <2>3
<1>8. OutboxTypeOK'
  BY <1>3, <1>5, <1>7 DEF MailInv, OutboxTypeOK
<1>9. MailHonest'
  BY <1>3, <1>4 DEF MailInv, MailHonest
<1> QED BY <1>3, <1>4, <1>7, <1>8, <1>9 DEF MailInv

\* The outcome is written over that of another dispatcher, and still is true.
LEMMA ReportKeeps ==
    ASSUME FlowsAssumption, MailInv, links \in 0..MaxLinks, NEW d \in Dispatcher, Report(d)
    PROVE  MailInv'
<1>1. PICK l : l = hand[d].mail
  OBVIOUS
<1>2. mail \in [Link -> MailRow] /\ hand \in [Dispatcher -> HandRow] /\ Remembers(d)
  BY DEF MailInv, OutboxTypeOK
<1>3. l \in Sent /\ l \in Link /\ Sent \subseteq Link /\ l # NoMail
  BY <1>1 DEF MailInv, OutboxTypeOK, Report, Remembers, Sent, Link, NoMail, FlowsAssumption
<1>4. PICK s : s = IF hand[d].st = "ok" THEN "sent"
                   ELSE IF hand[d].attempt >= MaxAttempts THEN "dead" ELSE "failed"
  OBVIOUS
<1>5. s \in {"sent", "dead", "failed"}
  BY <1>4
<1>6. mail' = [mail EXCEPT ![l].due = FALSE, ![l].st = s]
  BY <1>1, <1>4 DEF Report
<1>7. mail' \in [Link -> MailRow]
  BY <1>2, <1>3, <1>5, <1>6 DEF MailRow
<1>8. mail'[l].st = s /\ mail'[l].attempts = mail[l].attempts /\ \A m \in Link : m # l => mail'[m] = mail[m]
  BY <1>2, <1>3, <1>6 DEF MailRow
<1>9. /\ s = "sent" => l \in delivered
      /\ s = "dead" => mail[l].attempts >= MaxAttempts
  <2>1. s = "sent" => l \in delivered
    BY <1>1, <1>2, <1>4 DEF Remembers
  <2>2. s = "dead" => hand[d].attempt >= MaxAttempts
    BY <1>4
  <2>3. hand[d].attempt \in Nat /\ mail[l].attempts \in Nat /\ hand[d].attempt <= mail[l].attempts
    BY <1>1, <1>2, <1>3 DEF Remembers, HandRow, MailRow, FlowsAssumption
  <2> QED BY <2>1, <2>2, <2>3 DEF FlowsAssumption
<1>10. UNCHANGED <<links, delivered>> /\ Sent' = Sent /\ Drop(d)
  BY DEF Report, apiVars, Sent
<1>11. ASSUME NEW e \in Dispatcher PROVE Remembers(e)' /\ hand'[e].mail \in Sent \cup {NoMail}
  <2>1. CASE e = d
    BY <1>10, <2>1, DropKeeps DEF Remembers
  <2>2. CASE e # d
    <3>1. hand'[e] = hand[e] /\ Remembers(e) /\ hand[e].mail \in Sent \cup {NoMail}
      BY <1>10, <2>2, DropKeeps DEF MailInv, OutboxTypeOK
    <3>2. hand[e].mail # NoMail => mail'[hand[e].mail].attempts = mail[hand[e].mail].attempts
      BY <1>3, <1>8, <3>1
    <3> QED BY <1>10, <3>1, <3>2 DEF Remembers
  <2> QED BY <2>1, <2>2
<1>12. hand' \in [Dispatcher -> HandRow]
  BY <1>10, DropKeeps
<1>13. OutboxTypeOK'
  BY <1>3, <1>7, <1>8, <1>10, <1>11, <1>12 DEF MailInv, OutboxTypeOK
<1>14. MailHonest'
  BY <1>3, <1>8, <1>9, <1>10 DEF MailInv, MailHonest
<1> QED BY <1>11, <1>13, <1>14 DEF MailInv

LEMMA LoseKeeps ==
    ASSUME FlowsAssumption, MailInv, NEW d \in Dispatcher, Lose(d) PROVE MailInv'
<1>1. UNCHANGED <<links, mail, delivered>> /\ Sent' = Sent /\ Drop(d)
  BY DEF Lose, apiVars, Sent
<1>2. ASSUME NEW e \in Dispatcher PROVE Remembers(e)' /\ hand'[e].mail \in Sent \cup {NoMail}
  <2>1. CASE e = d
    BY <1>1, <2>1, DropKeeps DEF Remembers
  <2>2. CASE e # d
    <3>1. hand'[e] = hand[e] /\ Remembers(e) /\ hand[e].mail \in Sent \cup {NoMail}
      BY <1>1, <2>2, DropKeeps DEF MailInv, OutboxTypeOK
    <3> QED BY <1>1, <3>1 DEF Remembers
  <2> QED BY <2>1, <2>2
<1>3. OutboxTypeOK' /\ MailHonest'
  BY <1>1, <1>2, DropKeeps DEF MailInv, OutboxTypeOK, MailHonest
<1> QED BY <1>2, <1>3 DEF MailInv

LEMMA ComesDueKeeps ==
    ASSUME FlowsAssumption, links \in 0..MaxLinks, MailInv, NEW l \in Link, ComesDue(l) PROVE MailInv'
<1>1. mail \in [Link -> MailRow] /\ mail' = [mail EXCEPT ![l].due = TRUE]
  BY DEF ComesDue, MailInv, OutboxTypeOK
<1>2. mail' \in [Link -> MailRow]
  BY <1>1 DEF MailRow
<1>3. \A m \in Link : mail'[m].st = mail[m].st /\ mail'[m].attempts = mail[m].attempts
  BY <1>1 DEF MailRow
<1>4. UNCHANGED <<links, hand, delivered>> /\ Sent' = Sent /\ Sent \subseteq Link
  BY DEF ComesDue, apiVars, Sent, Link, FlowsAssumption
<1>5. OutboxTypeOK'
  BY <1>2, <1>3, <1>4 DEF MailInv, OutboxTypeOK
<1>6. MailHonest'
  BY <1>3, <1>4 DEF MailInv, MailHonest
<1>7. ASSUME NEW e \in Dispatcher PROVE Remembers(e)'
  <2>1. Remembers(e) /\ hand[e].mail \in Sent \cup {NoMail}
    BY DEF MailInv, OutboxTypeOK
  <2> QED BY <1>3, <1>4, <2>1 DEF Remembers
<1> QED BY <1>5, <1>6, <1>7 DEF MailInv

-----------------------------------------------------------------------------
(* Steps of the outbox are stutters of links and requests.                 *)

LinksInv == AccountTypeOK /\ CallTypeOK /\ RowsInv /\ CallsInv

LEMMA OnlyDelivers ==
    ASSUME LinksInv, UNCHANGED apiVars, delivered \subseteq delivered', delivered' \subseteq Sent
    PROVE  LinksInv'
<1>1. UNCHANGED <<account, links, link, at, call, acted>> /\ Sent' = Sent
  BY DEF apiVars, Sent
<1>2. AccountTypeOK' /\ CallTypeOK'
  BY <1>1 DEF LinksInv, AccountTypeOK, CallTypeOK
<1>3. \A p \in Person : Live(p, "change")' = Live(p, "change")
  BY <1>1 DEF Live
<1>4. ASSUME NEW c \in Call PROVE Knows(at[c], call[c])'
  <2>1. Knows(at[c], call[c]) /\ call[c].owner \in Person
    BY DEF LinksInv, CallsInv, CallTypeOK, FlowCall
  <2>2. KnowsLink(at[c], call[c])'
    BY <1>1, <2>1 DEF Knows, KnowsLink
  <2>3. KnowsOld(at[c], call[c])'
    BY <1>1, <1>3, <2>1 DEF Knows, KnowsOld
  <2>4. KnowsAddress(at[c], call[c])'
    BY <1>1, <2>1 DEF Knows, KnowsAddress, Shows
  <2> QED BY <2>2, <2>3, <2>4 DEF Knows
<1>5. ASSUME NEW b \in Call, NEW c \in Call, b # c PROVE Apart(at[b], call[b], at[c], call[c])'
  BY <1>1, <1>5 DEF LinksInv, CallsInv, Apart, Holds, Changes
<1>6. CallsInv'
  BY <1>4, <1>5 DEF CallsInv
<1>7. \A p \in Person : OneChange(p)'
  BY <1>1, <1>3 DEF LinksInv, RowsInv, OneChange
<1>8. ASSUME NEW p \in Person PROVE Followed(p)'
  <2>1. Followed(p)
    BY DEF LinksInv, RowsInv
  <2>2. \A l \in delivered : FollowedBy(p, l) => FollowedBy(p, l)'
    BY <1>1 DEF FollowedBy
  <2> QED BY <1>1, <2>1, <2>2 DEF Followed
<1>9. RowsInv'
  BY <1>1, <1>7, <1>8 DEF LinksInv, RowsInv, OnceUsed, Addressed, Shows
<1> QED BY <1>2, <1>6, <1>9 DEF LinksInv

-----------------------------------------------------------------------------
(* Steps that change only what a request holds.                            *)

LEMMA RequestMoves ==
    ASSUME LinksInv, UNCHANGED <<account, links, link, delivered, acted>>,
           NEW c \in Call, NEW s \in {"idle", "store", "stored", "consume"}, NEW v \in FlowCall,
           at' = [at EXCEPT ![c] = s], call' = [call EXCEPT ![c] = v],
           v.seen \subseteq Sent, s = "consume" => v.link \in Sent,
           Knows(s, v), \A b \in Call \ {c} : Apart(at[b], call[b], s, v)
    PROVE  LinksInv'
<1>1. Sent' = Sent
  BY DEF Sent
<1>2. AccountTypeOK'
  BY <1>1 DEF LinksInv, AccountTypeOK
<1>3. /\ at \in [Call -> {"idle", "store", "stored", "consume"}] /\ call \in [Call -> FlowCall]
      /\ \A b \in Call : call[b].seen \subseteq Sent /\ (at[b] = "consume" => call[b].link \in Sent)
  BY DEF LinksInv, CallTypeOK
<1>4. at'[c] = s /\ call'[c] = v /\ \A b \in Call : b # c => at'[b] = at[b] /\ call'[b] = call[b]
  BY <1>3
<1>5. CallTypeOK'
  <2>1. at' \in [Call -> {"idle", "store", "stored", "consume"}] /\ call' \in [Call -> FlowCall]
    BY <1>3
  <2>2. ASSUME NEW b \in Call PROVE call'[b].seen \subseteq Sent /\ (at'[b] = "consume" => call'[b].link \in Sent)
    <3>1. CASE b = c
      BY <1>4, <3>1
    <3>2. CASE b # c
      BY <1>3, <1>4, <3>2
    <3> QED BY <3>1, <3>2
  <2> QED BY <1>1, <2>1, <2>2 DEF CallTypeOK
<1>6. \A p, u : Live(p, u)' = Live(p, u)
  BY <1>1 DEF Live
<1>7. ASSUME NEW b \in Call
      PROVE  \E t, w : at'[b] = t /\ call'[b] = w /\ Knows(t, w)
  <2>1. Knows(at[b], call[b])
    BY DEF LinksInv, CallsInv
  <2>2. CASE b = c
    BY <1>4, <2>2
  <2>3. CASE b # c
    BY <1>4, <2>1, <2>3
  <2> QED BY <2>2, <2>3
<1>8. ASSUME NEW b \in Call PROVE Knows(at[b], call[b])'
  <2>1. PICK t, w : at'[b] = t /\ call'[b] = w /\ Knows(t, w)
    BY <1>7
  <2>2. KnowsLink(at[b], call[b])'
    BY <2>1 DEF Knows, KnowsLink
  <2>3. KnowsOld(at[b], call[b])'
    BY <1>1, <2>1 DEF Knows, KnowsOld, Live
  <2>4. KnowsAddress(at[b], call[b])'
    BY <2>1 DEF Knows, KnowsAddress, Shows
  <2> QED BY <2>2, <2>3, <2>4 DEF Knows
<1>9. ASSUME NEW b \in Call, NEW d \in Call, b # d PROVE Apart(at'[b], call'[b], at'[d], call'[d])
  <2>1. CASE b = c
    <3>1. Apart(at[d], call[d], s, v)
      BY <1>9, <2>1
    <3>2. at'[b] = s /\ call'[b] = v /\ at'[d] = at[d] /\ call'[d] = call[d]
      BY <1>4, <1>9, <2>1
    <3> QED BY <3>1, <3>2 DEF Apart
  <2>2. CASE d = c
    <3>1. Apart(at[b], call[b], s, v)
      BY <1>9, <2>2
    <3>2. at'[d] = s /\ call'[d] = v /\ at'[b] = at[b] /\ call'[b] = call[b]
      BY <1>4, <1>9, <2>2
    <3> QED BY <3>1, <3>2
  <2>3. CASE b # c /\ d # c
    <3>1. Apart(at[b], call[b], at[d], call[d])
      BY <1>9 DEF LinksInv, CallsInv
    <3>2. at'[d] = at[d] /\ call'[d] = call[d] /\ at'[b] = at[b] /\ call'[b] = call[b]
      BY <1>4, <1>9, <2>3
    <3> QED BY <3>1, <3>2
  <2> QED BY <2>1, <2>2, <2>3
<1>10. CallsInv'
  <2>1. \A b \in Call : Knows(at[b], call[b])'
    BY <1>8
  <2>2. \A b, d \in Call : b # d => Apart(at[b], call[b], at[d], call[d])'
    BY <1>9 DEF Apart, Holds, Changes
  <2> QED BY <2>1, <2>2 DEF CallsInv
<1>11. RowsInv'
  <2>1. \A p \in Person : OneChange(p)'
    BY <1>6 DEF LinksInv, RowsInv, OneChange
  <2>2. \A p \in Person : Followed(p)'
    BY DEF LinksInv, RowsInv, Followed, FollowedBy
  <2> QED BY <1>1, <2>1, <2>2 DEF LinksInv, RowsInv, OnceUsed, Addressed, Shows
<1> QED BY <1>2, <1>5, <1>10, <1>11 DEF LinksInv

LEMMA AskMoves ==
    ASSUME FlowsAssumption, LinksInv, NEW c \in Call, NEW p \in Person, NEW u \in Purpose, NEW a \in Address,
           Ask(c, p, u, a)
    PROVE  LinksInv'
<1>1. PICK v : v = [Nowhere EXCEPT !.owner = p, !.purpose = u, !.target = a]
  OBVIOUS
<1>2. v \in FlowCall /\ v.seen = {} /\ v.owner = p /\ v.purpose = u /\ v.target = a
  BY <1>1, NowhereType DEF FlowCall
<1>3. u = "verify" => Shows(p, a)
  BY DEF Ask, Shows, Purpose
<1>4. Knows("store", v)
  BY <1>2, <1>3 DEF Knows, KnowsLink, KnowsOld, KnowsAddress
<1>5. \A b \in Call \ {c} : Apart(at[b], call[b], "store", v)
  BY DEF Apart, Holds, Changes
<1>6. /\ at' = [at EXCEPT ![c] = "store"] /\ call' = [call EXCEPT ![c] = v]
      /\ UNCHANGED <<account, links, link, delivered, acted>>
  BY <1>1 DEF Ask, outboxVars
<1>7. v.seen \subseteq Sent
  BY <1>2
<1> QED BY <1>2, <1>4, <1>5, <1>6, <1>7, RequestMoves

LEMMA FailMoves ==
    ASSUME FlowsAssumption, LinksInv, NEW c \in Call, Done(c), UNCHANGED <<account, links, link, delivered, acted>>
    PROVE  LinksInv'
<1>1. Nowhere.seen \subseteq Sent /\ Nowhere \in FlowCall
  BY NowhereType
<1>2. \A b \in Call \ {c} : Apart(at[b], call[b], "idle", Nowhere)
  BY IdleApart
<1>3. Knows("idle", Nowhere)
  BY IdleKnows
<1>4. at' = [at EXCEPT ![c] = "idle"] /\ call' = [call EXCEPT ![c] = Nowhere]
  BY DEF Done
<1> QED BY <1>1, <1>2, <1>3, <1>4, RequestMoves

\* It waits for who holds the old links, and a change for who changes the user.
LEMMA StoreMoves ==
    ASSUME FlowsAssumption, LinksInv, NEW c \in Call, Store(c)
    PROVE  LinksInv'
<1>1. PICK w : w = call[c]
  OBVIOUS
<1>2. PICK old : old = Live(w.owner, w.purpose)
  OBVIOUS
<1>3. PICK v : v = [w EXCEPT !.seen = old]
  OBVIOUS
<1>4. w \in FlowCall /\ call \in [Call -> FlowCall] /\ at[c] = "store" /\ Knows("store", w)
  BY <1>1 DEF LinksInv, CallTypeOK, CallsInv, Store
<1>5. old \subseteq Sent /\ Sent \subseteq Link /\ old \in SUBSET Link
  BY <1>2 DEF Live, Sent, Link, LinksInv, AccountTypeOK, FlowsAssumption
<1>6. v \in FlowCall /\ v.seen = old /\ v.owner = w.owner /\ v.purpose = w.purpose /\ v.target = w.target
  BY <1>3, <1>4, <1>5 DEF FlowCall
<1>7. call' = [call EXCEPT ![c] = v] /\ at' = [at EXCEPT ![c] = "stored"]
  <2>1. call' = [call EXCEPT ![c].seen = old]
    BY <1>1, <1>2 DEF Store
  <2>2. call' = [call EXCEPT ![c] = [call[c] EXCEPT !.seen = old]]
    BY <1>4, <2>1
  <2> QED BY <1>1, <1>3, <2>2 DEF Store
<1>8. UNCHANGED <<account, links, link, delivered, acted>>
  BY DEF Store, outboxVars
<1>9. Knows("stored", v)
  BY <1>2, <1>4, <1>6 DEF Knows, KnowsLink, KnowsOld, KnowsAddress
<1>10. ASSUME NEW b \in Call \ {c} PROVE Apart(at[b], call[b], "stored", v)
  <2>1. \A l \in old : ~HasLink(b, l)
    BY <1>1, <1>2 DEF Store, LinkFree
  <2>2. w.purpose = "change" => ~ChangesUser(b, w.owner)
    BY <1>1 DEF Store, PersonFree
  <2> QED BY <1>6, <2>1, <2>2 DEF Apart, Holds, HasLink, Changes, ChangesUser
<1>11. v.seen \subseteq Sent
  BY <1>5, <1>6
<1> QED BY <1>6, <1>7, <1>8, <1>9, <1>10, <1>11, RequestMoves

LEMMA FollowMoves ==
    ASSUME FlowsAssumption, LinksInv, NEW c \in Call, NEW l \in Link, Follow(c, l)
    PROVE  LinksInv'
<1>1. PICK v : v = [Nowhere EXCEPT !.owner = link[l].owner, !.purpose = link[l].purpose, !.link = l]
  OBVIOUS
<1>2. link[l] \in LinkRow /\ l \in delivered /\ delivered \subseteq Sent
  BY DEF LinksInv, AccountTypeOK, Follow
<1>3. v \in FlowCall /\ v.seen = {} /\ v.link = l /\ v.owner = link[l].owner /\ v.purpose = link[l].purpose
  BY <1>1, <1>2, NowhereType DEF FlowCall, LinkRow
<1>4. call' = [call EXCEPT ![c] = v] /\ at' = [at EXCEPT ![c] = "consume"]
  BY <1>1 DEF Follow
<1>5. UNCHANGED <<account, links, link, delivered, acted>>
  BY DEF Follow, outboxVars
<1>6. Knows("consume", v)
  BY <1>2, <1>3 DEF Follow, Knows, KnowsLink, KnowsOld, KnowsAddress
<1>7. ASSUME NEW b \in Call \ {c} PROVE Apart(at[b], call[b], "consume", v)
  <2>1. ~HasLink(b, l)
    BY DEF Follow, LinkFree
  <2>2. v.purpose = "change" => ~ChangesUser(b, v.owner)
    BY <1>3 DEF Follow, PersonFree
  <2> QED BY <1>3, <2>1, <2>2 DEF Apart, Holds, HasLink, Changes, ChangesUser
<1>8. v.seen \subseteq Sent /\ v.link \in Sent
  BY <1>2, <1>3
<1> QED BY <1>3, <1>4, <1>5, <1>6, <1>7, <1>8, RequestMoves

-----------------------------------------------------------------------------
(* Steps that change links and accounts.                                   *)

LEMMA CallsShrink ==
    ASSUME FlowsAssumption, CallTypeOK, CallsInv, Sent \subseteq Sent', NEW c,
           Done(c) \/ UNCHANGED <<at, call>>,
           \A b \in Call : at'[b] # "idle" => Knows(at[b], call[b])'
    PROVE  CallTypeOK' /\ CallsInv'
<1>1. /\ at \in [Call -> {"idle", "store", "stored", "consume"}] /\ call \in [Call -> FlowCall]
      /\ \A b \in Call : call[b].seen \subseteq Sent /\ (at[b] = "consume" => call[b].link \in Sent)
  BY DEF CallTypeOK
<1>2. \A b \in Call : \/ at'[b] = at[b] /\ call'[b] = call[b]
                      \/ at'[b] = "idle" /\ call'[b] = Nowhere
  BY <1>1 DEF Done
<1>3. at' \in [Call -> {"idle", "store", "stored", "consume"}] /\ call' \in [Call -> FlowCall]
  BY <1>1, NowhereType DEF Done
<1>4. CallTypeOK'
  <2>1. ASSUME NEW b \in Call PROVE call'[b].seen \subseteq Sent' /\ (at'[b] = "consume" => call'[b].link \in Sent')
    BY <1>1, <1>2, NowhereType
  <2> QED BY <1>3, <2>1 DEF CallTypeOK
<1>5. ASSUME NEW b \in Call PROVE Knows(at[b], call[b])'
  <2>1. CASE at'[b] = "idle"
    BY <2>1 DEF Knows, KnowsLink, KnowsOld, KnowsAddress
  <2>2. CASE at'[b] # "idle"
    BY <2>2
  <2> QED BY <2>1, <2>2
<1>6. ASSUME NEW b \in Call, NEW d \in Call, b # d PROVE Apart(at[b], call[b], at[d], call[d])'
  <2>1. CASE at'[b] = "idle" \/ at'[d] = "idle"
    BY <2>1 DEF Apart, Holds, Changes
  <2>2. CASE at'[b] # "idle" /\ at'[d] # "idle"
    <3>1. Apart(at[b], call[b], at[d], call[d])
      BY <1>6 DEF CallsInv
    <3>2. at'[b] = at[b] /\ call'[b] = call[b] /\ at'[d] = at[d] /\ call'[d] = call[d]
      BY <1>2, <2>2
    <3> QED BY <3>1, <3>2 DEF Apart, Holds, Changes
  <2> QED BY <2>1, <2>2
<1> QED BY <1>4, <1>5, <1>6 DEF CallsInv

\* What a new link and its mail change.
LEMMA Inserted ==
    ASSUME FlowsAssumption, LinksInv, NEW p \in Person, NEW u \in Purpose, NEW a \in Address, NEW old,
           Insert(p, u, a, old), UNCHANGED <<delivered, acted>>
    PROVE  \E n \in Link :
             /\ n \notin Sent /\ Sent' = Sent \cup {n} /\ n \notin delivered /\ links' \in 0..MaxLinks
             /\ link' \in [Link -> LinkRow]
             /\ link'[n] = [owner |-> p, purpose |-> u, target |-> a, used |-> FALSE]
             /\ \A l \in Link : l # n =>
                  /\ link'[l].owner = link[l].owner /\ link'[l].purpose = link[l].purpose
                  /\ link'[l].target = link[l].target /\ (link'[l].used <=> link[l].used \/ l \in old)
             /\ \A l \in Link : OnceUsed(l)'
             /\ delivered' \subseteq Sent'
<1>1. PICK n : n = links + 1
  OBVIOUS
<1>2. links \in 0..MaxLinks /\ links < MaxLinks /\ links' = links + 1 /\ link \in [Link -> LinkRow]
  BY DEF Insert, LinksInv, AccountTypeOK
<1>3. n \in Link /\ n \notin Sent /\ Sent' = Sent \cup {n} /\ links' \in 0..MaxLinks
  BY <1>1, <1>2 DEF Link, Sent, FlowsAssumption
<1>4. link' = [l \in Link |-> IF l = n THEN [owner |-> p, purpose |-> u, target |-> a, used |-> FALSE]
                              ELSE [link[l] EXCEPT !.used = link[l].used \/ l \in old]]
  BY <1>1 DEF Insert
<1>5. link'[n] = [owner |-> p, purpose |-> u, target |-> a, used |-> FALSE]
  BY <1>3, <1>4
<1>6. ASSUME NEW l \in Link, l # n
      PROVE  /\ link'[l] \in LinkRow
             /\ link'[l].owner = link[l].owner /\ link'[l].purpose = link[l].purpose
             /\ link'[l].target = link[l].target /\ (link'[l].used <=> link[l].used \/ l \in old)
  <2>1. link'[l] = [link[l] EXCEPT !.used = link[l].used \/ l \in old] /\ link[l] \in LinkRow
    BY <1>2, <1>4, <1>6
  <2> QED BY <2>1 DEF LinkRow
<1>7. link' \in [Link -> LinkRow]
  <2>1. ASSUME NEW l \in Link PROVE link'[l] \in LinkRow
    <3>1. CASE l = n
      <4>1. [owner |-> p, purpose |-> u, target |-> a, used |-> FALSE] \in LinkRow
        BY DEF LinkRow
      <4> QED BY <1>5, <3>1, <4>1
    <3> QED BY <1>6, <3>1
  <2> QED BY <1>4, <2>1
<1>8. delivered \subseteq Sent
  BY DEF LinksInv, AccountTypeOK
<1>9. ASSUME NEW l \in Link PROVE OnceUsed(l)'
  <2>1. OnceUsed(l)
    BY DEF LinksInv, RowsInv
  <2>2. CASE l = n
    BY <1>3, <2>1, <2>2 DEF OnceUsed
  <2>3. CASE l # n
    BY <1>3, <1>6, <2>1, <2>3 DEF OnceUsed
  <2> QED BY <2>2, <2>3
<1> QED BY <1>3, <1>5, <1>6, <1>7, <1>8, <1>9

\* Nobody who is not registered is verified, has a verification link or asks for one.
LEMMA Unregistered ==
    ASSUME FlowsAssumption, LinksInv, NEW p \in Person, account[p].email = NoAddress
    PROVE  /\ ~account[p].verified
           /\ \A l \in Sent : link[l].purpose = "verify" => link[l].owner # p
           /\ \A c \in Call : at[c] \in {"store", "stored"} /\ call[c].purpose = "verify" => call[c].owner # p
<1>1. \A l \in Sent : l \in Link /\ link[l].target \in Address
  BY DEF LinksInv, AccountTypeOK, LinkRow, Sent, Link, FlowsAssumption
<1>2. ~account[p].verified
  <2>1. account[p].verified => \E l \in delivered : FollowedBy(p, l)
    BY DEF LinksInv, RowsInv, Followed
  <2>2. \A l \in delivered : link[l].target \in Address
    BY <1>1 DEF LinksInv, AccountTypeOK
  <2> QED BY <2>1, <2>2 DEF FollowedBy, FlowsAssumption
<1>3. \A a \in Address : ~Shows(p, a)
  BY <1>2 DEF Shows, FlowsAssumption
<1>4. \A l \in Sent : link[l].purpose = "verify" => link[l].owner # p
  BY <1>1, <1>3 DEF LinksInv, RowsInv, Addressed
<1>5. ASSUME NEW c \in Call PROVE at[c] \in {"store", "stored"} /\ call[c].purpose = "verify" => call[c].owner # p
  <2>1. call[c].target \in Address /\ Knows(at[c], call[c])
    BY DEF LinksInv, CallTypeOK, CallsInv, FlowCall
  <2> QED BY <1>3, <2>1 DEF Knows, KnowsAddress
<1> QED BY <1>2, <1>4, <1>5

LEMMA RegisterMoves ==
    ASSUME FlowsAssumption, LinksInv, NEW p \in Person, NEW a \in Address, Register(p, a)
    PROVE  LinksInv'
<1>1. Insert(p, "verify", a, {}) /\ UNCHANGED <<at, call, hand, delivered, acted>> /\ account[p].email = NoAddress
  BY DEF Register
<1>2. "verify" \in Purpose
  BY DEF Purpose
<1>3. PICK n \in Link :
             /\ n \notin Sent /\ Sent' = Sent \cup {n} /\ n \notin delivered /\ links' \in 0..MaxLinks
             /\ link' \in [Link -> LinkRow]
             /\ link'[n] = [owner |-> p, purpose |-> "verify", target |-> a, used |-> FALSE]
             /\ \A l \in Link : l # n =>
                  /\ link'[l].owner = link[l].owner /\ link'[l].purpose = link[l].purpose
                  /\ link'[l].target = link[l].target /\ (link'[l].used <=> link[l].used \/ l \in {})
             /\ \A l \in Link : OnceUsed(l)'
             /\ delivered' \subseteq Sent'
  BY <1>1, <1>2, Inserted
<1>4. account \in [Person -> UserRow] /\ account' = [account EXCEPT ![p].email = a]
  BY DEF Register, LinksInv, AccountTypeOK
<1>5. /\ account' \in [Person -> UserRow] /\ account'[p].email = a /\ account'[p].verified = account[p].verified
      /\ \A q \in Person : q # p => account'[q] = account[q]
  BY <1>4 DEF UserRow
<1>6. Sent \subseteq Link
  BY DEF LinksInv, AccountTypeOK, Sent, Link, FlowsAssumption
<1>7. /\ ~account[p].verified
      /\ \A l \in Sent : link[l].purpose = "verify" => link[l].owner # p
      /\ \A c \in Call : at[c] \in {"store", "stored"} /\ call[c].purpose = "verify" => call[c].owner # p
  BY <1>1, Unregistered
<1>8. AccountTypeOK'
  BY <1>1, <1>3, <1>5 DEF LinksInv, AccountTypeOK
<1>9. \A q \in Person : Live(q, "change")' \subseteq Live(q, "change")
  BY <1>3, <1>6 DEF Live
<1>11. ASSUME NEW l \in Sent' PROVE Addressed(l)'
  <2>1. CASE l = n
    BY <1>3, <1>5, <2>1 DEF Addressed, Shows
  <2>2. CASE l # n
    <3>1. l \in Sent /\ l \in Link /\ Addressed(l) /\ link[l].owner \in Person
      BY <1>3, <1>6, <2>2 DEF LinksInv, RowsInv, AccountTypeOK, LinkRow
    <3>2. link[l].purpose = "verify" => link[l].owner # p
      BY <1>7, <3>1
    <3> QED BY <1>3, <1>5, <2>2, <3>1, <3>2 DEF Addressed, Shows
  <2> QED BY <2>1, <2>2
<1>12. ASSUME NEW q \in Person PROVE OneChange(q)' /\ Followed(q)'
  <2>1. OneChange(q) /\ Followed(q) /\ delivered \subseteq Sent
    BY DEF LinksInv, RowsInv, AccountTypeOK
  <2>2. OneChange(q)'
    BY <1>9, <2>1 DEF OneChange
  <2>3. Followed(q)'
    <3>1. CASE q = p
      BY <1>5, <1>7, <3>1 DEF Followed
    <3>2. CASE q # p
      <4>1. \A l \in delivered : FollowedBy(q, l) => FollowedBy(q, l)'
        BY <1>1, <1>3, <1>5, <1>6, <2>1, <3>2 DEF FollowedBy
      <4> QED BY <1>1, <1>5, <2>1, <3>2, <4>1 DEF Followed
    <3> QED BY <3>1, <3>2
  <2> QED BY <2>2, <2>3
<1>13. RowsInv'
  BY <1>3, <1>11, <1>12 DEF RowsInv
<1>14. ASSUME NEW c \in Call PROVE Knows(at[c], call[c])'
  <2>1. Knows(at[c], call[c]) /\ at'[c] = at[c] /\ call'[c] = call[c] /\ call[c].owner \in Person
    BY <1>1 DEF LinksInv, CallsInv, CallTypeOK, FlowCall
  <2>2. KnowsLink(at[c], call[c])'
    BY <1>1, <1>3, <1>6, <2>1 DEF Knows, KnowsLink, LinksInv, AccountTypeOK
  <2>3. KnowsOld(at[c], call[c])'
    BY <1>9, <2>1 DEF Knows, KnowsOld
  <2>4. KnowsAddress(at[c], call[c])'
    BY <1>5, <1>7, <2>1 DEF Knows, KnowsAddress, Shows
  <2> QED BY <2>2, <2>3, <2>4 DEF Knows
<1>15. CallTypeOK' /\ CallsInv'
  <2>1. UNCHANGED <<at, call>> /\ Sent \subseteq Sent'
    BY <1>1, <1>3
  <2>2. CallTypeOK /\ CallsInv
    BY DEF LinksInv
  <2> QED BY <1>14, <2>1, <2>2, CallsShrink
<1> QED BY <1>8, <1>13, <1>15 DEF LinksInv

\* The links it has seen are used up, so that a change leaves its own link only.
LEMMA StoredMoves ==
    ASSUME FlowsAssumption, LinksInv, NEW c \in Call, Stored(c)
    PROVE  LinksInv'
<1>1. PICK v : v = call[c]
  OBVIOUS
<1>2. PICK p, u, a, old : p = v.owner /\ u = v.purpose /\ a = v.target /\ old = v.seen
  OBVIOUS
<1>3. v \in FlowCall /\ at[c] = "stored" /\ Knows("stored", v)
  BY <1>1 DEF LinksInv, CallTypeOK, CallsInv, Stored
<1>4. p \in Person /\ u \in Purpose /\ a \in Address
  BY <1>2, <1>3 DEF FlowCall
<1>5. Insert(p, u, a, old) /\ UNCHANGED <<delivered, acted>> /\ Done(c)
  BY <1>1, <1>2 DEF Stored
<1>6. PICK n \in Link :
             /\ n \notin Sent /\ Sent' = Sent \cup {n} /\ n \notin delivered /\ links' \in 0..MaxLinks
             /\ link' \in [Link -> LinkRow]
             /\ link'[n] = [owner |-> p, purpose |-> u, target |-> a, used |-> FALSE]
             /\ \A l \in Link : l # n =>
                  /\ link'[l].owner = link[l].owner /\ link'[l].purpose = link[l].purpose
                  /\ link'[l].target = link[l].target /\ (link'[l].used <=> link[l].used \/ l \in old)
             /\ \A l \in Link : OnceUsed(l)'
             /\ delivered' \subseteq Sent'
  BY <1>4, <1>5, Inserted
<1>7. account' = IF u = "change" THEN [account EXCEPT ![p].pending = a] ELSE account
  BY <1>1, <1>2 DEF Stored
<1>8. /\ account' \in [Person -> UserRow]
      /\ \A q \in Person : account'[q].email = account[q].email /\ account'[q].verified = account[q].verified
  <2>1. account \in [Person -> UserRow]
    BY DEF LinksInv, AccountTypeOK
  <2>2. CASE u = "change"
    BY <1>4, <1>7, <2>1, <2>2 DEF UserRow
  <2> QED BY <1>7, <2>1, <2>2
<1>9. Sent \subseteq Link /\ \A l \in Sent : link[l].owner \in Person
  BY DEF LinksInv, AccountTypeOK, Sent, Link, FlowsAssumption, LinkRow
<1>10. AccountTypeOK'
  BY <1>5, <1>6, <1>8 DEF LinksInv, AccountTypeOK
<1>11. \A q \in Person : (q = p /\ u = "change") \/ Live(q, "change")' \subseteq Live(q, "change")
  BY <1>6, <1>9 DEF Live
<1>12. u = "change" => Live(p, "change")' \subseteq {n}
  <2>1. u = "change" => Live(p, "change") \subseteq old
    BY <1>2, <1>3 DEF Knows, KnowsOld
  <2> QED BY <1>6, <1>9, <2>1 DEF Live
<1>13. ASSUME NEW l \in Sent' PROVE Addressed(l)'
  <2>1. CASE l = n
    <3>1. u = "verify" => Shows(p, a)
      BY <1>2, <1>3 DEF Knows, KnowsAddress
    <3> QED BY <1>4, <1>6, <1>8, <2>1, <3>1 DEF Addressed, Shows
  <2>2. CASE l # n
    <3>1. l \in Sent /\ l \in Link /\ Addressed(l) /\ link[l].owner \in Person
      BY <1>6, <1>9, <2>2 DEF LinksInv, RowsInv
    <3> QED BY <1>6, <1>8, <2>2, <3>1 DEF Addressed, Shows
  <2> QED BY <2>1, <2>2
<1>14. ASSUME NEW q \in Person PROVE OneChange(q)' /\ Followed(q)'
  <2>1. OneChange(q) /\ Followed(q) /\ delivered \subseteq Sent
    BY DEF LinksInv, RowsInv, AccountTypeOK
  <2>2. OneChange(q)'
    BY <1>11, <1>12, <2>1 DEF OneChange
  <2>3. \A l \in delivered : FollowedBy(q, l) => FollowedBy(q, l)'
    BY <1>5, <1>6, <1>8, <1>9, <2>1 DEF FollowedBy
  <2>4. Followed(q)'
    BY <1>5, <1>8, <2>1, <2>3 DEF Followed
  <2> QED BY <2>2, <2>4
<1>15. RowsInv'
  BY <1>6, <1>13, <1>14 DEF RowsInv
<1>16. at \in [Call -> {"idle", "store", "stored", "consume"}] /\ call \in [Call -> FlowCall]
  BY DEF LinksInv, CallTypeOK
<1>17. ASSUME NEW b \in Call, at'[b] # "idle" PROVE Knows(at[b], call[b])'
  <2>1. b # c /\ at'[b] = at[b] /\ call'[b] = call[b]
    BY <1>5, <1>16, <1>17 DEF Done
  <2>2. Knows(at[b], call[b]) /\ call[b].owner \in Person /\ Apart(at[b], call[b], "stored", v)
    BY <1>1, <1>3, <2>1 DEF LinksInv, CallsInv, CallTypeOK, FlowCall
  <2>3. KnowsLink(at[b], call[b])'
    <3>1. CASE at[b] = "consume"
      <4>1. call[b].link \in Sent /\ call[b].link \in Link /\ call[b].link # n /\ call[b].link \notin old
        BY <1>2, <1>6, <1>9, <2>2, <3>1 DEF Apart, Holds, LinksInv, CallTypeOK
      <4> QED BY <1>5, <1>6, <2>1, <2>2, <4>1 DEF Knows, KnowsLink
    <3> QED BY <2>1, <3>1 DEF KnowsLink
  <2>4. KnowsOld(at[b], call[b])'
    <3>1. CASE at[b] = "stored" /\ call[b].purpose = "change"
      <4>1. ~(call[b].owner = p /\ u = "change")
        BY <1>2, <1>4, <2>2, <3>1 DEF Apart, Changes
      <4>2. Live(call[b].owner, "change")' \subseteq Live(call[b].owner, "change")
        <5>1. PICK q \in Person : q = call[b].owner
          BY <2>2
        <5>2. Live(q, "change")' \subseteq Live(q, "change")
          BY <1>11, <4>1, <5>1
        <5> QED BY <2>1, <5>1, <5>2 DEF Live
      <4> QED BY <2>1, <2>2, <4>2 DEF Knows, KnowsOld, Live
    <3> QED BY <2>1, <3>1 DEF KnowsOld
  <2>5. KnowsAddress(at[b], call[b])'
    BY <1>8, <2>1, <2>2 DEF Knows, KnowsAddress, Shows
  <2> QED BY <2>3, <2>4, <2>5 DEF Knows
<1>18. CallTypeOK' /\ CallsInv'
  <2>1. Sent \subseteq Sent' /\ CallTypeOK /\ CallsInv
    BY <1>6 DEF LinksInv
  <2> QED BY <1>5, <1>17, <2>1, CallsShrink
<1> QED BY <1>10, <1>15, <1>18 DEF LinksInv

\* A link is used up while nobody else holds it.
LEMMA UsedUp ==
    ASSUME FlowsAssumption, LinksInv, NEW c, NEW l \in Sent,
           Done(c) \/ UNCHANGED <<at, call>>,
           \A b \in Call : at'[b] # "idle" => ~Holds(at[b], call[b], l),
           link' = [link EXCEPT ![l].used = TRUE], UNCHANGED <<links, delivered>>,
           account' \in [Person -> UserRow],
           \A q \in Person : \/ account'[q].email = account[q].email /\ account'[q].verified = account[q].verified
                             \/ account'[q].verified,
           acted' \in [Link -> {0, 1}], \A m \in Link : acted[m] = 1 \/ m = l \/ acted'[m] = 0,
           \A q \in Person : Followed(q)'
    PROVE  LinksInv'
<1>1. Sent' = Sent /\ Sent \subseteq Link /\ l \in Link
  BY DEF LinksInv, AccountTypeOK, Sent, Link, FlowsAssumption
<1>2. link \in [Link -> LinkRow]
  BY DEF LinksInv, AccountTypeOK
<1>3. /\ link' \in [Link -> LinkRow] /\ link'[l].used
      /\ \A m \in Link : m # l => link'[m] = link[m]
      /\ \A m \in Link : /\ link'[m].owner = link[m].owner /\ link'[m].purpose = link[m].purpose
                         /\ link'[m].target = link[m].target /\ (link[m].used => link'[m].used)
                         /\ link'[m].used \in BOOLEAN /\ link[m].used \in BOOLEAN
  BY <1>1, <1>2 DEF LinkRow
<1>4. AccountTypeOK'
  BY <1>1, <1>3 DEF LinksInv, AccountTypeOK
<1>5. \A q, u : Live(q, u)' \subseteq Live(q, u)
  BY <1>1, <1>3 DEF Live
<1>6. ASSUME NEW q \in Person, NEW a, Shows(q, a) PROVE a = account'[q].email \/ account'[q].verified
  BY <1>6 DEF Shows
<1>7. ASSUME NEW m \in Link PROVE OnceUsed(m)'
  <2>1. OnceUsed(m) /\ acted[m] \in {0, 1} /\ acted'[m] \in {0, 1}
    BY DEF LinksInv, RowsInv, AccountTypeOK
  <2>2. CASE m = l
    BY <1>1, <1>3, <2>2 DEF OnceUsed
  <2>3. CASE m # l
    BY <1>1, <1>3, <2>1, <2>3 DEF OnceUsed
  <2> QED BY <2>2, <2>3
<1>8. ASSUME NEW m \in Sent PROVE Addressed(m)'
  <2>1. Addressed(m) /\ m \in Link /\ link[m].owner \in Person
    BY <1>1, <1>2 DEF LinksInv, RowsInv, LinkRow
  <2> QED BY <1>3, <1>6, <2>1 DEF Addressed, Shows
<1>9. ASSUME NEW q \in Person PROVE OneChange(q)'
  BY <1>5 DEF LinksInv, RowsInv, OneChange
<1>10. RowsInv'
  BY <1>1, <1>7, <1>8, <1>9 DEF RowsInv
<1>11. /\ at \in [Call -> {"idle", "store", "stored", "consume"}] /\ call \in [Call -> FlowCall]
       /\ \A b \in Call : at[b] = "consume" => call[b].link \in Sent
  BY DEF LinksInv, CallTypeOK
<1>12. ASSUME NEW b \in Call, at'[b] # "idle" PROVE Knows(at[b], call[b])'
  <2>1. at'[b] = at[b] /\ call'[b] = call[b]
    BY <1>11, <1>12 DEF Done
  <2>2. Knows(at[b], call[b]) /\ call[b].owner \in Person /\ ~Holds(at[b], call[b], l)
    BY <1>11, <1>12 DEF LinksInv, CallsInv, FlowCall
  <2>3. KnowsLink(at[b], call[b])'
    <3>1. CASE at[b] = "consume"
      <4>1. call[b].link \in Link /\ call[b].link # l
        BY <1>1, <1>11, <2>2, <3>1 DEF Holds
      <4> QED BY <1>3, <2>1, <2>2, <4>1 DEF Knows, KnowsLink
    <3> QED BY <2>1, <3>1 DEF KnowsLink
  <2>4. KnowsOld(at[b], call[b])'
    <3>1. PICK q : q = call[b].owner
      OBVIOUS
    <3>2. Live(q, "change")' \subseteq Live(q, "change")
      BY <1>5
    <3> QED BY <2>1, <2>2, <3>1, <3>2 DEF Knows, KnowsOld, Live
  <2>5. KnowsAddress(at[b], call[b])'
    BY <1>6, <2>1, <2>2 DEF Knows, KnowsAddress, Shows
  <2> QED BY <2>3, <2>4, <2>5 DEF Knows
<1>13. CallTypeOK' /\ CallsInv'
  <2>1. Sent \subseteq Sent' /\ CallTypeOK /\ CallsInv
    BY <1>1 DEF LinksInv
  <2> QED BY <1>12, <2>1, CallsShrink
<1> QED BY <1>4, <1>10, <1>13 DEF LinksInv

LEMMA ExpireMoves ==
    ASSUME FlowsAssumption, LinksInv, NEW l \in Link, ExpireLink(l)
    PROVE  LinksInv'
<1>1. l \in Sent /\ link' = [link EXCEPT ![l].used = TRUE] /\ UNCHANGED <<account, links, delivered, at, call, acted>>
  BY DEF ExpireLink, outboxVars
<1>2. ASSUME NEW b \in Call PROVE ~Holds(at[b], call[b], l)
  BY DEF ExpireLink, HasLink, Holds
<1>3. account \in [Person -> UserRow] /\ acted \in [Link -> {0, 1}] /\ link \in [Link -> LinkRow]
  BY DEF LinksInv, AccountTypeOK
<1>4. ASSUME NEW q \in Person PROVE Followed(q)'
  <2>1. Followed(q)
    BY DEF LinksInv, RowsInv
  <2>2. \A m \in Link : link'[m].owner = link[m].owner /\ link'[m].target = link[m].target
    BY <1>1, <1>3 DEF LinkRow
  <2>3. delivered \subseteq Link
    BY DEF LinksInv, AccountTypeOK, Sent, Link, FlowsAssumption
  <2> QED BY <1>1, <2>1, <2>2, <2>3 DEF Followed, FollowedBy
<1>5. \A m \in Link : acted[m] = 1 \/ m = l \/ acted'[m] = 0
  BY <1>1, <1>3
<1>6. /\ account' \in [Person -> UserRow] /\ acted' \in [Link -> {0, 1}]
      /\ \A q \in Person : account'[q].email = account[q].email /\ account'[q].verified = account[q].verified
  BY <1>1, <1>3
<1>7. \A b \in Call : at'[b] # "idle" => ~Holds(at[b], call[b], l)
  BY <1>2
<1>8. UNCHANGED <<at, call>> /\ UNCHANGED <<links, delivered>>
  BY <1>1
<1> HIDE DEF LinksInv
<1> QED BY <1>1, <1>4, <1>5, <1>6, <1>7, <1>8, UsedUp

LEMMA ConsumeMoves ==
    ASSUME FlowsAssumption, LinksInv, NEW c \in Call, Consume(c)
    PROVE  LinksInv'
<1>1. PICK v, l, p : v = call[c] /\ l = v.link /\ p = v.owner
  OBVIOUS
<1>2. v \in FlowCall /\ at[c] = "consume" /\ Knows("consume", v) /\ p \in Person
  BY <1>1 DEF LinksInv, CallTypeOK, CallsInv, Consume, FlowCall
<1>3. /\ l \in delivered /\ ~link[l].used /\ link[l].owner = p /\ link[l].purpose = v.purpose
      /\ l \in Sent /\ l \in Link /\ delivered \subseteq Link
  <2>1. l \in delivered /\ ~link[l].used /\ link[l].owner = p /\ link[l].purpose = v.purpose
    BY <1>1, <1>2 DEF Knows, KnowsLink
  <2>2. delivered \subseteq Sent /\ Sent \subseteq Link
    BY DEF LinksInv, AccountTypeOK, Sent, Link, FlowsAssumption
  <2> QED BY <2>1, <2>2
<1>4. /\ account \in [Person -> UserRow] /\ acted \in [Link -> {0, 1}] /\ link \in [Link -> LinkRow]
      /\ call \in [Call -> FlowCall] /\ at \in [Call -> {"idle", "store", "stored", "consume"}]
  BY DEF LinksInv, AccountTypeOK, CallTypeOK
<1>5. Done(c) /\ UNCHANGED <<links, delivered>>
  BY DEF Consume, outboxVars
<1>6. CASE UNCHANGED <<account, link, acted>>
  BY <1>5, <1>6, FailMoves
<1>7. CASE /\ account' = Confirmed(c) /\ link' = [link EXCEPT ![l].used = TRUE]
           /\ acted' = [acted EXCEPT ![l] = acted[l] + 1]
  <2>1. acted[l] = 0
    BY <1>3, <1>4 DEF LinksInv, RowsInv, OnceUsed
  <2>2. /\ acted' \in [Link -> {0, 1}] /\ acted'[l] = 1
        /\ \A m \in Link : m # l => acted'[m] = acted[m]
    BY <1>3, <1>4, <1>7, <2>1
  <2>3. \A m \in Link : link'[m].owner = link[m].owner /\ link'[m].target = link[m].target
    BY <1>3, <1>4, <1>7 DEF LinkRow
  <2>4. link[l].target \in Address /\ v.purpose \in Purpose
    BY <1>2, <1>3, <1>4 DEF LinkRow, FlowCall
  <2>5. \/ /\ v.purpose = "verify" /\ account' = [account EXCEPT ![p].verified = TRUE]
        \/ v.purpose = "reset" /\ account' = account
        \/ /\ v.purpose = "change"
           /\ account' = [account EXCEPT ![p] = [email |-> link[l].target, pending |-> NoAddress, verified |-> TRUE]]
    BY <1>1, <1>7, <2>4 DEF Confirmed, Purpose
  <2>6. /\ account' \in [Person -> UserRow]
        /\ \A q \in Person : q # p => account'[q] = account[q]
        /\ \/ v.purpose = "verify" /\ account'[p].verified /\ account'[p].email = account[p].email
           \/ v.purpose = "reset" /\ account'[p] = account[p]
           \/ v.purpose = "change" /\ account'[p].verified /\ account'[p].email = link[l].target
    <3>1. CASE v.purpose = "verify"
      BY ZenonT(30), <1>2, <1>4, <2>5, <3>1 DEF UserRow
    <3>2. CASE v.purpose = "reset"
      BY <1>4, <2>5, <3>2
    <3>3. CASE v.purpose = "change"
      <4>1. [email |-> link[l].target, pending |-> NoAddress, verified |-> TRUE] \in UserRow
        BY <2>4 DEF UserRow
      <4>2. account' = [account EXCEPT ![p] = [email |-> link[l].target, pending |-> NoAddress, verified |-> TRUE]]
        BY <2>5, <3>3
      <4> QED BY <1>2, <1>4, <3>3, <4>1, <4>2
    <3> QED BY <2>4, <3>1, <3>2, <3>3 DEF Purpose
  <2>7. ASSUME NEW q \in Person PROVE Followed(q)'
    <3>1. \A m \in delivered : /\ FollowedBy(q, m) /\ account'[q].email = account[q].email => FollowedBy(q, m)'
                               /\ m \in delivered'
      BY <1>3, <1>5, <2>1, <2>2, <2>3 DEF FollowedBy
    <3>2. Followed(q) /\ Addressed(l)
      BY <1>3 DEF LinksInv, RowsInv
    <3>3. CASE q # p \/ v.purpose = "reset"
      <4>1. account'[q] = account[q]
        BY <2>6, <3>3
      <4> QED BY <3>1, <3>2, <4>1 DEF Followed
    <3>4. CASE q = p /\ v.purpose = "verify"
      <4>1. link[l].target = account[p].email \/ account[p].verified
        BY <1>3, <3>2, <3>4 DEF Addressed, Shows
      <4>2. account'[p].email = account[p].email
        BY <2>6, <3>4
      <4>3. CASE link[l].target = account[p].email
        <5>1. FollowedBy(p, l)'
          BY <1>3, <2>2, <2>3, <4>2, <4>3 DEF FollowedBy
        <5> QED BY <1>3, <1>5, <3>4, <5>1 DEF Followed
      <4>4. CASE account[p].verified
        BY <3>1, <3>2, <3>4, <4>2, <4>4 DEF Followed
      <4> QED BY <4>1, <4>3, <4>4
    <3>5. CASE q = p /\ v.purpose = "change"
      <4>1. FollowedBy(p, l)'
        BY <1>3, <2>2, <2>3, <2>6, <3>5 DEF FollowedBy
      <4> QED BY <1>3, <1>5, <3>5, <4>1 DEF Followed
    <3> QED BY <2>4, <3>3, <3>4, <3>5 DEF Purpose
  <2>8. ASSUME NEW b \in Call, at'[b] # "idle" PROVE ~Holds(at[b], call[b], l)
    <3>1. b # c
      BY <1>4, <1>5, <2>8 DEF Done
    <3>2. Apart(at[b], call[b], "consume", v)
      BY <1>1, <1>2, <3>1 DEF LinksInv, CallsInv
    <3> QED BY <1>1, <1>3, <3>2 DEF Apart, Holds
  <2>9. \A m \in Link : acted[m] = 1 \/ m = l \/ acted'[m] = 0
    BY <1>4, <2>2
  <2>10. \A q \in Person : \/ account'[q].email = account[q].email /\ account'[q].verified = account[q].verified
                           \/ account'[q].verified
    BY <2>6
  <2>11. l \in Sent /\ account' \in [Person -> UserRow] /\ acted' \in [Link -> {0, 1}]
    BY <1>3, <2>2, <2>6
  <2> QED BY <1>5, <1>7, <2>7, <2>8, <2>9, <2>10, <2>11, UsedUp
<1>8. \/ UNCHANGED <<account, link, acted>>
      \/ /\ account' = Confirmed(c) /\ link' = [link EXCEPT ![l].used = TRUE]
         /\ acted' = [acted EXCEPT ![l] = acted[l] + 1]
  BY <1>1 DEF Consume
<1> QED BY <1>6, <1>7, <1>8

-----------------------------------------------------------------------------
(* Together.                                                               *)

LEMMA InvInit == ASSUME FlowsAssumption, FlowsInit PROVE Inv
<1>1. /\ links = 0 /\ delivered = {} /\ acted = [l \in Link |-> 0] /\ at = [c \in Call |-> "idle"]
      /\ call = [c \in Call |-> Nowhere]
      /\ account = [p \in Person |-> [email |-> NoAddress, pending |-> NoAddress, verified |-> FALSE]]
  BY DEF FlowsInit
<1>2. Sent = {}
  BY <1>1 DEF Sent
<1>3. link \in [Link -> LinkRow]
  <2>1. [owner |-> CHOOSE p \in Person : TRUE, purpose |-> "verify",
         target |-> CHOOSE a \in Address : TRUE, used |-> TRUE] \in LinkRow
    BY DEF LinkRow, Purpose, FlowsAssumption
  <2> QED BY <2>1 DEF FlowsInit
<1>4. account \in [Person -> UserRow]
  BY <1>1 DEF UserRow
<1>5. AccountTypeOK
  <2>1. links \in 0..MaxLinks
    BY <1>1 DEF FlowsAssumption
  <2>2. acted \in [Link -> {0, 1}] /\ delivered \subseteq Sent
    BY <1>1
  <2> QED BY <1>3, <1>4, <2>1, <2>2 DEF AccountTypeOK
<1>6. CallTypeOK
  BY <1>1, NowhereType DEF CallTypeOK
<1>7. MailInv
  <2>1. /\ hand = [d \in Dispatcher |-> [mail |-> NoMail, attempt |-> 0, st |-> "idle"]]
        /\ mail = [l \in Link |-> [st |-> "none", attempts |-> 0, due |-> FALSE]]
    BY DEF FlowsInit
  <2>2. mail \in [Link -> MailRow] /\ \A l \in Link : mail[l].st = "none"
    BY <2>1 DEF MailRow, FlowsAssumption
  <2>3. hand \in [Dispatcher -> HandRow] /\ \A d \in Dispatcher : hand[d].mail = NoMail /\ hand[d].st = "idle"
    BY <2>1 DEF HandRow, NoMail, FlowsAssumption
  <2>4. OutboxTypeOK
    BY <2>2, <2>3 DEF OutboxTypeOK
  <2> QED BY <1>2, <2>3, <2>4 DEF MailInv, Remembers, MailHonest
<1>8. RowsInv
  BY <1>1, <1>2 DEF RowsInv, OnceUsed, Addressed, OneChange, Followed, Live
<1>9. CallsInv
  BY <1>1, IdleKnows, IdleApart DEF CallsInv
<1> QED BY <1>5, <1>6, <1>7, <1>8, <1>9 DEF Inv

LEMMA LinksStep == ASSUME FlowsAssumption, Inv, FlowsNext PROVE LinksInv'
<1>1. LinksInv /\ MailInv /\ links \in 0..MaxLinks /\ delivered \subseteq Sent
  BY DEF Inv, LinksInv, AccountTypeOK
<1>2. CASE \E p \in Person, a \in Address : Register(p, a)
  BY <1>1, <1>2, RegisterMoves
<1>3. CASE \E p \in Person, a \in Address, c \in Call, u \in Purpose : Ask(c, p, u, a)
  BY <1>1, <1>3, AskMoves
<1>4. CASE \E c \in Call : Store(c)
  BY <1>1, <1>4, StoreMoves
<1>5. CASE \E c \in Call : Stored(c)
  BY <1>1, <1>5, StoredMoves
<1>6. CASE \E c \in Call : Consume(c)
  BY <1>1, <1>6, ConsumeMoves
<1>7. CASE \E c \in Call : FailCall(c)
  BY <1>1, <1>7, FailMoves DEF FailCall, outboxVars
<1>8. CASE \E l \in Link : ExpireLink(l)
  BY <1>1, <1>8, ExpireMoves
<1>9. CASE \E c \in Call, l \in Link : Follow(c, l)
  BY <1>1, <1>9, FollowMoves
<1>10. CASE \/ \E l \in Link : ComesDue(l)
            \/ \E d \in Dispatcher : Claim(d) \/ Report(d) \/ Lose(d)
  BY <1>1, <1>10, OnlyDelivers DEF ComesDue, Claim, ClaimMail, Report, Lose
<1>11. CASE \E d \in Dispatcher : Send(d)
  BY <1>1, <1>11, SendKeeps, OnlyDelivers
<1> QED BY <1>2, <1>3, <1>4, <1>5, <1>6, <1>7, <1>8, <1>9, <1>10, <1>11 DEF FlowsNext

LEMMA MailStep == ASSUME FlowsAssumption, Inv, FlowsNext PROVE MailInv'
<1>1. MailInv /\ links \in 0..MaxLinks /\ delivered \subseteq Sent
  BY DEF Inv, AccountTypeOK
<1>2. ASSUME NEW p, NEW u, NEW a, NEW old, Insert(p, u, a, old), UNCHANGED <<hand, delivered>> PROVE MailInv'
  BY <1>1, <1>2, InsertMail DEF Insert
<1>3. CASE \E p \in Person, a \in Address : Register(p, a)
  BY <1>2, <1>3 DEF Register
<1>4. CASE \E c \in Call : Stored(c)
  BY <1>2, <1>4 DEF Stored
<1>5. CASE \/ \E p \in Person, a \in Address, c \in Call, u \in Purpose : Ask(c, p, u, a)
           \/ \E c \in Call : Store(c) \/ Consume(c) \/ FailCall(c)
           \/ \E l \in Link : ExpireLink(l) \/ \E c \in Call : Follow(c, l)
  <2>1. UNCHANGED <<links, outboxVars>>
    BY <1>5 DEF Ask, Store, Consume, FailCall, ExpireLink, Follow
  <2> QED BY <1>1, <2>1, MailKept
<1>6. CASE \E l \in Link : ComesDue(l)
  BY <1>1, <1>6, ComesDueKeeps
<1>7. CASE \E d \in Dispatcher : Claim(d)
  BY <1>1, <1>7, ClaimKeeps DEF Claim
<1>8. CASE \E d \in Dispatcher : Send(d)
  BY <1>1, <1>8, SendKeeps
<1>9. CASE \E d \in Dispatcher : Report(d)
  BY <1>1, <1>9, ReportKeeps
<1>10. CASE \E d \in Dispatcher : Lose(d)
  BY <1>1, <1>10, LoseKeeps
<1> QED BY <1>3, <1>4, <1>5, <1>6, <1>7, <1>8, <1>9, <1>10 DEF FlowsNext

LEMMA InvStep == ASSUME FlowsAssumption, Inv, [FlowsNext]_flowVars PROVE Inv'
<1>1. CASE FlowsNext
  BY <1>1, LinksStep, MailStep DEF Inv, LinksInv
<1>2. CASE UNCHANGED flowVars
  <2>1. UNCHANGED <<links, outboxVars>> /\ UNCHANGED apiVars /\ delivered' = delivered
    BY <1>2 DEF flowVars, outboxVars, apiVars
  <2>2. LinksInv /\ MailInv /\ links \in 0..MaxLinks /\ delivered \subseteq Sent
    BY DEF Inv, LinksInv, AccountTypeOK
  <2>3. LinksInv'
    BY <2>1, <2>2, OnlyDelivers
  <2>4. MailInv'
    BY <2>1, <2>2, MailKept
  <2> QED BY <2>3, <2>4 DEF Inv, LinksInv
<1> QED BY <1>1, <1>2

\* What a link changes: every state keeps the conjuncts of Inv.
THEOREM Invariance == ASSUME FlowsAssumption PROVE FlowsSpec => []Inv
<1>1. FlowsInit => Inv
  BY InvInit
<1>2. Inv /\ [FlowsNext]_flowVars => Inv'
  BY InvStep
<1> QED BY <1>1, <1>2, PTL DEF FlowsSpec

\* The rows of users, links, mails and requests have their types.
THEOREM TypeCorrect == ASSUME FlowsAssumption PROVE FlowsSpec => []FlowsTypeOK
<1>1. Inv => FlowsTypeOK
  BY DEF Inv, MailInv, FlowsTypeOK
<1> QED BY <1>1, Invariance, PTL

\* An address is given to a user who is the only one to have it.
OwnAddress == \A p, q \in Person : p # q /\ account[p].email = account[q].email => account[p].email = NoAddress

LEMMA GivenAddress ==
    ASSUME FlowsAssumption, Inv, OwnAddress, NEW p \in Person, NEW a \in Address,
           ~TakenByOther(p, a), account'[p].email = a,
           \A q \in Person : q # p => account'[q].email = account[q].email
    PROVE  OwnAddress'
<1>1. a # NoAddress
  BY DEF FlowsAssumption
<1>2. ASSUME NEW q \in Person, NEW o \in Person, q # o, account'[q].email = account'[o].email
      PROVE  account'[q].email = NoAddress
  <2>1. CASE q = p \/ o = p
    BY <1>2, <2>1 DEF TakenByOther
  <2>2. CASE q # p /\ o # p
    BY <1>2, <2>2 DEF OwnAddress
  <2> QED BY <2>1, <2>2
<1> QED BY <1>2 DEF OwnAddress

LEMMA OwnAddressStep == ASSUME FlowsAssumption, Inv, OwnAddress, [FlowsNext]_flowVars PROVE OwnAddress'
<1>1. account \in [Person -> UserRow] /\ call \in [Call -> FlowCall]
  BY DEF Inv, AccountTypeOK, CallTypeOK
<1>2. CASE account' = account
  BY <1>2 DEF OwnAddress
<1>3. ASSUME NEW p \in Person, NEW a \in Address, Register(p, a) PROVE OwnAddress'
  <2>1. account' = [account EXCEPT ![p].email = a] /\ ~TakenByOther(p, a)
    BY <1>3 DEF Register
  <2>2. account'[p].email = a /\ \A q \in Person : q # p => account'[q].email = account[q].email
    BY <1>1, <2>1 DEF UserRow
  <2> QED BY <2>1, <2>2, GivenAddress
<1>4. ASSUME NEW c \in Call, Stored(c) PROVE OwnAddress'
  <2>1. PICK p \in Person, a \in Address : p = call[c].owner /\ a = call[c].target
    BY <1>1 DEF FlowCall
  <2>2. account' = [account EXCEPT ![p].pending = a] \/ account' = account
    BY <1>4, <2>1 DEF Stored
  <2>3. \A q \in Person : account'[q].email = account[q].email
    BY <1>1, <2>2 DEF UserRow
  <2> QED BY <2>3 DEF OwnAddress
<1>5. ASSUME NEW c \in Call, Consume(c) PROVE OwnAddress'
  <2>1. PICK p \in Person, l \in Link \cup {0} : p = call[c].owner /\ l = call[c].link
    BY <1>1 DEF FlowCall
  <2>2. at[c] = "consume" => l \in Sent /\ Sent \subseteq Link
    BY <2>1 DEF Inv, CallTypeOK, AccountTypeOK, Sent, Link, FlowsAssumption
  <2>3. PICK a \in Address : a = link[l].target
    BY <1>5, <2>2 DEF Consume, Inv, AccountTypeOK, LinkRow
  <2>4. CASE Refused(c)
    BY <1>2, <1>5, <2>4 DEF Consume
  <2>5. CASE ~Refused(c) /\ call[c].purpose = "change"
    <3>1. ~TakenByOther(p, a)
      BY <2>1, <2>3, <2>5 DEF Refused
    <3>2. account' = [account EXCEPT ![p] = [email |-> a, pending |-> NoAddress, verified |-> TRUE]]
      BY <1>5, <2>1, <2>3, <2>5 DEF Consume, Confirmed
    <3>3. account'[p].email = a /\ \A q \in Person : q # p => account'[q].email = account[q].email
      BY <1>1, <3>2
    <3> QED BY <3>1, <3>3, GivenAddress
  <2>6. CASE ~Refused(c) /\ call[c].purpose # "change"
    <3>1. call[c].purpose \in Purpose
      BY <1>1 DEF FlowCall
    <3>2. account' = [account EXCEPT ![p].verified = TRUE] \/ account' = account
      BY <1>5, <2>1, <2>6, <3>1 DEF Consume, Confirmed, Purpose
    <3>3. \A q \in Person : account'[q].email = account[q].email
      BY <1>1, <3>2 DEF UserRow
    <3> QED BY <3>3 DEF OwnAddress
  <2> QED BY <2>4, <2>5, <2>6
<1>6. CASE UNCHANGED flowVars
  BY <1>2, <1>6 DEF flowVars
<1>7. CASE FlowsNext /\ account' # account
  BY <1>3, <1>4, <1>5, <1>7
     DEF FlowsNext, Ask, Store, FailCall, ExpireLink, ComesDue, Follow, Claim, ClaimMail, Send, Report, Lose, apiVars
<1> QED BY <1>2, <1>6, <1>7

\* Nobody takes the address of another.
LEMMA OwnAddresses == ASSUME FlowsAssumption PROVE FlowsSpec => []OwnAddress
<1>1. FlowsInit => OwnAddress
  BY DEF FlowsInit, OwnAddress
<1>2. Inv /\ OwnAddress /\ [FlowsNext]_flowVars => OwnAddress'
  BY OwnAddressStep
<1> QED BY <1>1, <1>2, Invariance, PTL DEF FlowsSpec

\* A link takes effect once, one link at most can change an address, no address comes
\* to be of two users, and a verified address is one whose owner followed a link mailed
\* to it, for any number of requests.
THEOREM LinksAreSound == ASSUME FlowsAssumption PROVE FlowsSpec => []LinksSound
<1>1. Inv /\ OwnAddress => LinksSound
  <2> SUFFICES ASSUME Inv, OwnAddress PROVE LinksSound
    OBVIOUS
  <2>1. Sent \subseteq Link /\ acted \in [Link -> {0, 1}]
    BY DEF Inv, AccountTypeOK, Sent, Link, FlowsAssumption
  <2>2. \A l \in Sent : acted[l] <= 1
    BY <2>1
  <2>3. ASSUME NEW p \in Person PROVE Cardinality(Live(p, "change")) <= 1
    <3>1. CASE Live(p, "change") = {}
      BY <3>1, FS_EmptySet
    <3>2. CASE Live(p, "change") # {}
      <4>1. PICK l \in Live(p, "change") : TRUE
        BY <3>2
      <4>2. Live(p, "change") = {l}
        BY <4>1 DEF Inv, RowsInv, OneChange
      <4>3. Cardinality({l}) = 1
        BY FS_Singleton
      <4> QED BY <4>2, <4>3
    <3> QED BY <3>1, <3>2
  <2>4. ASSUME NEW p \in Person, account[p].verified
        PROVE  \E l \in delivered : link[l].owner = p /\ link[l].target = account[p].email /\ acted[l] > 0
    BY <2>4 DEF Inv, RowsInv, Followed, FollowedBy
  <2> QED BY <2>2, <2>3, <2>4 DEF LinksSound, OwnAddress
<1> QED BY <1>1, Invariance, OwnAddresses, PTL

\* Sent means delivered and dead means tried MaxAttempts times, for any number of
\* dispatchers that overtake, fail and die.
THEOREM MailIsHonest == ASSUME FlowsAssumption PROVE FlowsSpec => []MailHonest
<1>1. Inv => MailHonest
  BY DEF Inv, MailInv
<1> QED BY <1>1, Invariance, PTL
=============================================================================
