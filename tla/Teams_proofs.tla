---------------------------- MODULE Teams_proofs ----------------------------
(***************************************************************************)
(* That no team outgrows its limit, and that what was registered fits the  *)
(* competition, for any number of players, teams, competitions and calls.  *)
(*                                                                         *)
(* Inv says what a call that holds a lock knows: what it read before is    *)
(* still so, because nobody else holds the lock (LocksHeld), and who needs *)
(* no lock can only make a team smaller (CallKnows).                       *)
(***************************************************************************)
EXTENDS Teams, TLAPS, FiniteSetTheorems

\* A team with a row in team_members, a request or an invitation exists; so does the
\* team of every call about one.
TeamsExist ==
    /\ \A p \in Player : of[p] # NoTeam => Exists(of[p])
    /\ \A p \in Player : role[p] # "none" => of[p] # NoTeam
    /\ \A x \in asking \cup invited : Exists(x[2])

\* Nobody else holds a row that a call has locked.
LocksHeld ==
    \A r, q \in Request :
        r # q /\ at[r] = "locked" /\ at[q] = "locked" =>
            /\ req[r].op \in OnTeam /\ req[q].op \in OnTeam => req[r].team # req[q].team
            /\ req[r].op \in OnComp /\ req[q].op \in OnComp => req[r].comp # req[q].comp

\* What a call has looked up and what is still so.
Knows(l, c) ==
    /\ l # "idle" /\ c.op \notin OnComp => c.team \in Team /\ Exists(c.team)
    /\ l = "locked" =>
        /\ c.op \in {"review", "accept"} => Cardinality(Members(c.team)) < limit[c.team]
        /\ c.op = "update" => Cardinality(Members(c.team)) <= c.limit
        /\ c.op = "transfer" => captain[c.team] = c.actor
        /\ c.op = "register" => ((c.team = NoTeam) <=> (comp[c.comp].mode = "individual"))
        /\ c.op = "config" => (c.to # comp[c.comp] => roster[c.comp] = {})
CallKnows == \A r \in Request : Knows(at[r], req[r])

Inv == TeamsTypeOK /\ TeamsExist /\ LocksHeld /\ CallKnows /\ MembersSound /\ RosterSound

-----------------------------------------------------------------------------
(* Lemmas.                                                                 *)

\* A set of players has a number of members, and a part of it has no more.
LEMMA Counting ==
    ASSUME NEW S \in SUBSET Player
    PROVE  /\ IsFiniteSet(S) /\ Cardinality(S) \in Nat
           /\ \A T \in SUBSET S : Cardinality(T) \in Nat /\ Cardinality(T) <= Cardinality(S)
<1>1. IsFiniteSet(S)
  BY FS_Subset, TeamsAssumption DEF TeamsAssumption
<1>2. Cardinality(S) \in Nat
  BY <1>1, FS_CardinalityType
<1>3. ASSUME NEW T \in SUBSET S PROVE Cardinality(T) \in Nat /\ Cardinality(T) <= Cardinality(S)
  <2>1. IsFiniteSet(T) /\ Cardinality(T) <= Cardinality(S)
    BY <1>1, FS_Subset
  <2> QED BY <2>1, FS_CardinalityType
<1> QED BY <1>1, <1>2, <1>3

\* The calls the actions open are calls.
LEMMA NoCallTyped == NoCall \in Call
<1>1. /\ (CHOOSE p \in Player : TRUE) \in Player /\ (CHOOSE l \in Limits : TRUE) \in Limits
      /\ (CHOOSE c \in Competition : TRUE) \in Competition /\ (CHOOSE s \in Sizes : TRUE) \in Sizes
  BY TeamsAssumption DEF TeamsAssumption
<1>2. [status |-> "draft", mode |-> "team", size |-> CHOOSE s \in Sizes : TRUE] \in Comp
  BY <1>1 DEF Comp
<1> QED BY <1>1, <1>2 DEF NoCall, Call

LEMMA CallOnTyped ==
    ASSUME NEW op \in {"join", "invite", "review", "accept", "leave", "transfer",
    "update", "register", "config"},
           NEW a \in Player, NEW p \in Player, NEW t \in Team \cup {NoTeam}
    PROVE  /\ CallOn(op, a, p, t) \in Call
           /\ CallOn(op, a, p, t).op = op /\ CallOn(op, a, p, t).actor = a
           /\ CallOn(op, a, p, t).target = p /\ CallOn(op, a, p, t).team = t
BY NoCallTyped DEF CallOn, Call

LEMMA CallFields ==
    ASSUME NEW c \in Call
    PROVE  /\ c.actor \in Player /\ c.target \in Player /\ c.team \in Team \cup {NoTeam}
           /\ c.limit \in Limits /\ c.comp \in Competition /\ c.to \in Comp
BY DEF Call

\* A call that opens, or takes its lock, disturbs no other.
LEMMA Opening ==
    ASSUME CallTypeOK, LocksHeld, CallKnows, NEW r \in Request, NEW l \in {"asked",
    "locked"},
           NEW c \in Call, Open(r, l, c), UNCHANGED <<of, captain, limit, comp, roster>>,
           Knows(l, c),
           l = "locked" => /\ c.op \in OnTeam => TeamFree({r}, c.team)
                           /\ c.op \in OnComp => CompFree({r}, c.comp)
    PROVE  CallTypeOK' /\ LocksHeld' /\ CallKnows'
<1>1. at' = [at EXCEPT ![r] = l] /\ req' = [req EXCEPT ![r] = c]
  BY DEF Open
<1>2. /\ at \in [Request -> {"idle", "asked", "locked"}] /\ req \in [Request -> Call]
  BY DEF CallTypeOK
<1>3. /\ at'[r] = l /\ req'[r] = c
      /\ \A q \in Request \ {r} : at'[q] = at[q] /\ req'[q] = req[q]
  BY <1>1, <1>2
<1>4. CallTypeOK'
  BY <1>1, <1>2 DEF CallTypeOK
<1>5. LocksHeld'
  <2> SUFFICES ASSUME NEW q \in Request, NEW s \in Request, q # s, at'[q] = "locked",
     at'[s] = "locked"
               PROVE  /\ req'[q].op \in OnTeam /\ req'[s].op \in OnTeam => req'[q].team # req'[s].team
                      /\ req'[q].op \in OnComp /\ req'[s].op \in OnComp => req'[q].comp # req'[s].comp
    BY DEF LocksHeld
  <2>1. CASE q # r /\ s # r
    BY <2>1, <1>3 DEF LocksHeld
  <2>2. CASE q = r
    BY <2>2, <1>3 DEF TeamFree, CompFree
  <2>3. CASE s = r
    BY <2>3, <1>3 DEF TeamFree, CompFree
  <2> QED BY <2>1, <2>2, <2>3
<1>6. CallKnows'
  <2>1. ASSUME NEW q \in Request PROVE Knows(at'[q], req'[q])
    BY <1>3 DEF CallKnows
  <2>2. ASSUME NEW m, NEW d, Knows(m, d) PROVE Knows(m, d)'
    BY <2>2 DEF Knows, Exists, Members
  <2> QED BY <2>1, <2>2 DEF CallKnows, Knows, Exists, Members
<1> QED BY <1>4, <1>5, <1>6

\* So does one that ends.
LEMMA Closing ==
    ASSUME CallTypeOK, LocksHeld, NEW r \in Request, Done(r)
    PROVE  /\ CallTypeOK' /\ LocksHeld' /\ at'[r] = "idle"
           /\ \A q \in Request \ {r} : at'[q] = at[q] /\ req'[q] = req[q]
<1>1. at' = [at EXCEPT ![r] = "idle"] /\ req' = [req EXCEPT ![r] = NoCall]
  BY DEF Done, Open
<1>2. /\ at \in [Request -> {"idle", "asked", "locked"}] /\ req \in [Request -> Call]
  BY DEF CallTypeOK
<1>3. /\ at'[r] = "idle"
      /\ \A q \in Request \ {r} : at'[q] = at[q] /\ req'[q] = req[q]
  BY <1>1, <1>2
<1>4. CallTypeOK'
  BY <1>1, <1>2, NoCallTyped DEF CallTypeOK
<1>5. LocksHeld'
  BY <1>3 DEF LocksHeld
<1> QED BY <1>3, <1>4, <1>5

\* What a call knows stays so while its team gets no larger and its rows stay.
LEMMA Keeping ==
    ASSUME NEW l, NEW c, Knows(l, c),
           c.team \in Team /\ Exists(c.team) => Exists(c.team)',
           l = "locked" /\ c.op \in OnTeam /\ c.team \in Team =>
               /\ Cardinality(Members(c.team))' <= Cardinality(Members(c.team))
               /\ Cardinality(Members(c.team)) \in Nat /\ Cardinality(Members(c.team))' \in Nat
               /\ limit[c.team] \in Nat /\ c.limit \in Nat
               /\ captain'[c.team] = captain[c.team] /\ limit'[c.team] = limit[c.team],
           l = "locked" /\ c.op \in OnComp =>
               (comp'[c.comp] = comp[c.comp] /\ roster'[c.comp] = roster[c.comp])
    PROVE  Knows(l, c)'
<1>1. CASE l = "locked" /\ c.op \in OnTeam
  <2>1. c.team \in Team /\ Exists(c.team)
    BY <1>1 DEF Knows, OnTeam, OnComp
  <2> QED BY <1>1, <2>1 DEF Knows, OnTeam, OnComp
<1>2. CASE l = "locked" /\ c.op \in OnComp
  BY <1>2 DEF Knows, OnTeam, OnComp
<1>3. CASE ~(l = "locked" /\ c.op \in OnTeam \cup OnComp)
  BY <1>3 DEF Knows, OnTeam, OnComp
<1> QED BY <1>1, <1>2, <1>3

\* A step that only opens a call, or gives it its lock, keeps the invariant.
LEMMA OpeningKeeps ==
    ASSUME Inv, NEW r \in Request, NEW l \in {"asked", "locked"}, NEW c \in Call, Open(r,
    l, c),
           UNCHANGED <<memberVars, captain, limit, pendingVars, compVars>>, Knows(l, c),
           l = "locked" => /\ c.op \in OnTeam => TeamFree({r}, c.team)
                           /\ c.op \in OnComp => CompFree({r}, c.comp)
    PROVE  Inv'
<1>1. UNCHANGED <<of, role, captain, limit, asking, invited, comp, roster>>
  BY DEF memberVars, pendingVars, compVars
<1>2. CallTypeOK' /\ LocksHeld' /\ CallKnows'
  BY <1>1, Opening DEF Inv, TeamsTypeOK
<1>3. RowTypeOK' /\ CompTypeOK' /\ TeamsExist' /\ MembersSound' /\ RosterSound'
  BY <1>1 DEF Inv, TeamsTypeOK, RowTypeOK, CompTypeOK, TeamsExist, MembersSound,
     RosterSound, Exists, Members
<1> QED BY <1>2, <1>3 DEF Inv, TeamsTypeOK

\* So does one that only ends a call.
LEMMA ClosingKeeps ==
    ASSUME Inv, NEW r \in Request, Done(r), UNCHANGED <<memberVars, captain, limit,
    pendingVars, compVars>>
    PROVE  Inv'
<1>1. UNCHANGED <<of, role, captain, limit, asking, invited, comp, roster>>
  BY DEF memberVars, pendingVars, compVars
<1>2. /\ CallTypeOK' /\ LocksHeld' /\ at'[r] = "idle"
      /\ \A q \in Request \ {r} : at'[q] = at[q] /\ req'[q] = req[q]
  BY Closing DEF Inv, TeamsTypeOK
<1>3. CallKnows'
  <2>2. ASSUME NEW q \in Request, q # r PROVE Knows(at[q], req[q])'
    <3>1. at'[q] = at[q] /\ req'[q] = req[q]
      BY <1>2, <2>2
    <3>2. Knows(at[q], req[q])
      BY DEF Inv, CallKnows
    <3> QED BY <1>1, <3>1, <3>2 DEF Knows, Exists, Members
  <2>3. Knows(at[r], req[r])'
    BY <1>2 DEF Knows
  <2> QED BY <2>2, <2>3 DEF CallKnows
<1>4. RowTypeOK' /\ CompTypeOK' /\ TeamsExist' /\ MembersSound' /\ RosterSound'
  BY <1>1 DEF Inv, TeamsTypeOK, RowTypeOK, CompTypeOK, TeamsExist, MembersSound,
     RosterSound, Exists, Members
<1> QED BY <1>2, <1>3, <1>4 DEF Inv, TeamsTypeOK

-----------------------------------------------------------------------------
(* The invariant.                                                          *)

LEMMA InvInit == TeamsInit => Inv
<1> SUFFICES ASSUME TeamsInit PROVE Inv
  OBVIOUS
<1>1. RowTypeOK
  BY TeamsAssumption DEF TeamsInit, RowTypeOK, TeamsAssumption
<1>2. CompTypeOK
  BY DEF TeamsInit, CompTypeOK
<1>3. CallTypeOK
  BY NoCallTyped DEF TeamsInit, CallTypeOK
<1>4. TeamsExist /\ LocksHeld /\ CallKnows /\ RosterSound
  BY DEF TeamsInit, TeamsExist, LocksHeld, CallKnows, Knows, RosterSound
<1>5. MembersSound
  BY DEF TeamsInit, MembersSound, Exists
<1> QED BY <1>1, <1>2, <1>3, <1>4, <1>5 DEF Inv, TeamsTypeOK

\* What is looked up without a lock: the team of the call exists.
LEMMA AskKeeps ==
    ASSUME Inv, NEW r \in Request, NEW a \in Player, NEW p \in Player, NEW t \in Team,
           NEW op \in {"join", "invite", "review", "accept", "leave"}, Exists(t), Ask(r,
           op, a, p, t)
    PROVE  Inv'
<1> DEFINE c == CallOn(op, a, p, t)
<1>1. c \in Call /\ c.op = op /\ c.team = t
  BY CallOnTyped
<1>2. Knows("asked", c)
  BY <1>1 DEF Knows
<1>3. Open(r, "asked", c) /\ UNCHANGED <<memberVars, captain, limit, pendingVars, compVars>>
  BY DEF Ask
<1> QED
  <2> HIDE DEF c
  <2> QED BY <1>1, <1>2, <1>3, OpeningKeeps

LEMMA ManagersTeam ==
    ASSUME Inv, NEW a \in Player, NEW t \in Team, Manages(a, t)
    PROVE  Exists(t)
BY TeamsAssumption DEF Inv, TeamsExist, Manages, TeamsAssumption

LEMMA AsksKeep ==
    ASSUME Inv, NEW r \in Request, NEW a \in Player, NEW p \in Player, NEW t \in Team,
           \/ RequestJoin(r, p, t) \/ AcceptInvitation(r, p, t) \/ Leave(r, p, t) \/ Invite(r, a, p, t)
           \/ ReviewJoin(r, a, p, t) \/ RemoveMember(r, a, p, t)
    PROVE  Inv'
<1>1. CASE RequestJoin(r, p, t)
  BY <1>1, AskKeeps DEF RequestJoin
<1>2. CASE AcceptInvitation(r, p, t)
  <2>1. Exists(t)
    BY <1>2 DEF AcceptInvitation, Inv, TeamsExist
  <2> QED BY <1>2, <2>1, AskKeeps DEF AcceptInvitation
<1>3. CASE Leave(r, p, t)
  BY <1>3, AskKeeps DEF Leave
<1>4. CASE Invite(r, a, p, t)
  BY <1>4, AskKeeps, ManagersTeam DEF Invite
<1>5. CASE ReviewJoin(r, a, p, t)
  BY <1>5, AskKeeps, ManagersTeam DEF ReviewJoin
<1>6. CASE RemoveMember(r, a, p, t)
  BY <1>6, AskKeeps, ManagersTeam DEF RemoveMember
<1> QED BY <1>1, <1>2, <1>3, <1>4, <1>5, <1>6

\* Calls that take their lock at once: the captain, the number of members, the mode
\* and the registrations are read under it.
LEMMA LockingKeeps ==
    ASSUME Inv, NEW r \in Request,
           \/ \E a, p \in Player, t \in Team : TransferCaptain(r, a, p, t)
           \/ \E a \in Player, t \in Team, l \in Limits : Update(r, a, t, l)
           \/ \E a \in Player, t \in Team \cup {NoTeam}, c \in Competition : Register(r, a, t, c)
           \/ \E c \in Competition, d \in Comp : Configure(r, c, d)
    PROVE  Inv'
<1>1. CASE \E a, p \in Player, t \in Team : TransferCaptain(r, a, p, t)
  <2>1. PICK a \in Player, p \in Player, t \in Team : TransferCaptain(r, a, p, t)
    BY <1>1
  <2> DEFINE c == CallOn("transfer", a, p, t)
  <2>2. c \in Call /\ c.op = "transfer" /\ c.team = t /\ c.actor = a
    BY CallOnTyped
  <2>3. Exists(t)
    BY <2>1, TeamsAssumption DEF TransferCaptain, Exists, TeamsAssumption
  <2>4. Knows("locked", c)
    BY <2>1, <2>2, <2>3 DEF Knows, TransferCaptain, OnComp
  <2>5. Open(r, "locked", c) /\ TeamFree({r}, t) /\ UNCHANGED <<memberVars, captain,
     limit, pendingVars, compVars>>
    BY <2>1 DEF TransferCaptain
  <2> HIDE DEF c
  <2> QED BY <2>2, <2>4, <2>5, OpeningKeeps DEF OnTeam, OnComp
<1>2. CASE \E a \in Player, t \in Team, l \in Limits : Update(r, a, t, l)
  <2>1. PICK a \in Player, t \in Team, l \in Limits : Update(r, a, t, l)
    BY <1>2
  <2> DEFINE b == CallOn("update", a, a, t)
             c == [b EXCEPT !.limit = l]
  <2>2. b \in Call /\ b.op = "update" /\ b.team = t
    BY CallOnTyped
  <2>3. c \in Call /\ c.op = "update" /\ c.team = t /\ c.limit = l
    <3> HIDE DEF b
    <3> QED BY <2>2 DEF Call
  <2>4. Exists(t)
    BY <2>1, ManagersTeam DEF Update
  <2>5. Knows("locked", c)
    BY <2>1, <2>3, <2>4 DEF Knows, Update, OnComp
  <2>6. Open(r, "locked", c) /\ TeamFree({r}, t) /\ UNCHANGED <<memberVars, captain,
     limit, pendingVars, compVars>>
    BY <2>1 DEF Update
  <2> HIDE DEF c
  <2> QED BY <2>3, <2>5, <2>6, OpeningKeeps DEF OnTeam, OnComp
<1>3. CASE \E a \in Player, t \in Team \cup {NoTeam}, k \in Competition : Register(r, a,
   t, k)
  <2>1. PICK a \in Player, t \in Team \cup {NoTeam}, k \in Competition : Register(r, a, t,
     k)
    BY <1>3
  <2> DEFINE b == CallOn("register", a, a, t)
             c == [b EXCEPT !.comp = k]
  <2>2. b \in Call /\ b.op = "register" /\ b.team = t
    BY CallOnTyped
  <2>3. c \in Call /\ c.op = "register" /\ c.team = t /\ c.comp = k
    <3> HIDE DEF b
    <3> QED BY <2>2 DEF Call
  <2>4. comp[k].mode \in {"team", "individual"}
    BY DEF Inv, TeamsTypeOK, CompTypeOK, Comp
  <2>5. (t = NoTeam) <=> (comp[k].mode = "individual")
    BY <2>1, <2>4, TeamsAssumption DEF Register, TeamsAssumption
  <2>6. Knows("locked", c)
    BY <2>3, <2>5 DEF Knows, OnComp
  <2>7. Open(r, "locked", c) /\ CompFree({r}, k) /\ UNCHANGED <<memberVars, captain,
     limit, pendingVars, compVars>>
    BY <2>1 DEF Register
  <2> HIDE DEF c
  <2> QED BY <2>3, <2>6, <2>7, OpeningKeeps DEF OnTeam, OnComp
<1>4. CASE \E k \in Competition, d \in Comp : Configure(r, k, d)
  <2>1. PICK k \in Competition, d \in Comp : Configure(r, k, d)
    BY <1>4
  <2> DEFINE b == CallOn("config", NoCall.actor, NoCall.actor, NoTeam)
             c == [b EXCEPT !.comp = k, !.to = d]
  <2>2. b \in Call /\ b.op = "config"
    BY CallOnTyped, NoCallTyped, CallFields
  <2>3. c \in Call /\ c.op = "config" /\ c.comp = k /\ c.to = d
    <3> HIDE DEF b
    <3> QED BY <2>2 DEF Call
  <2>4. Knows("locked", c)
    BY <2>1, <2>3 DEF Knows, Configure, OnComp
  <2>5. Open(r, "locked", c) /\ CompFree({r}, k) /\ UNCHANGED <<memberVars, captain,
     limit, pendingVars, compVars>>
    BY <2>1 DEF Configure
  <2> HIDE DEF c
  <2> QED BY <2>3, <2>4, <2>5, OpeningKeeps DEF OnTeam, OnComp
<1> QED BY <1>1, <1>2, <1>3, <1>4

\* What the other calls know when the calls of R end: the rows they have locked stay,
\* and their teams get no larger.
LEMMA OthersKnow ==
    ASSUME Inv, NEW R \in SUBSET Request,
           \A q \in R : at'[q] = "idle",
           \A q \in Request \ R : at'[q] = at[q] /\ req'[q] = req[q],
           \A t \in Team : Exists(t) => Exists(t)',
           \A t \in Team : ~TeamFree(R, t) /\ Exists(t) =>
               /\ Members(t)' \subseteq Members(t)
               /\ captain'[t] = captain[t] /\ limit'[t] = limit[t],
           \A c \in Competition : ~CompFree(R, c) => comp'[c] = comp[c] /\ roster'[c] = roster[c]
    PROVE  CallKnows'
<1>2. ASSUME NEW q \in R PROVE Knows(at[q], req[q])'
  BY <1>2 DEF Knows
<1>3. ASSUME NEW q \in Request \ R PROVE Knows(at[q], req[q])'
  <2> PICK l, c : l = at[q] /\ c = req[q]
    OBVIOUS
  <2>1. Knows(l, c)
    BY DEF Inv, CallKnows
  <2>2. c \in Call
    BY DEF Inv, TeamsTypeOK, CallTypeOK
  <2>3. c.limit \in Nat /\ c.comp \in Competition
    BY <2>2, CallFields, TeamsAssumption DEF TeamsAssumption
  <2>4. ASSUME l = "locked", c.op \in OnTeam, c.team \in Team
        PROVE  /\ Cardinality(Members(c.team))' <= Cardinality(Members(c.team))
               /\ Cardinality(Members(c.team)) \in Nat /\ Cardinality(Members(c.team))' \in Nat
               /\ limit[c.team] \in Nat /\ c.limit \in Nat
               /\ captain'[c.team] = captain[c.team] /\ limit'[c.team] = limit[c.team]
    <3>1. /\ Members(c.team)' \subseteq Members(c.team)
          /\ captain'[c.team] = captain[c.team] /\ limit'[c.team] = limit[c.team]
      BY <2>1, <2>4 DEF TeamFree, Knows, OnTeam, OnComp
    <3>2. Members(c.team) \in SUBSET Player
      BY DEF Members
    <3>3. /\ Cardinality(Members(c.team)') \in Nat /\ Cardinality(Members(c.team)) \in Nat
          /\ Cardinality(Members(c.team)') <= Cardinality(Members(c.team))
      BY <3>1, <3>2, Counting
    <3>4. limit[c.team] \in Nat
      BY <2>4, TeamsAssumption DEF Inv, TeamsTypeOK, RowTypeOK, TeamsAssumption
    <3> QED BY <3>1, <3>3, <3>4, <2>3
  <2>5. l = "locked" /\ c.op \in OnComp => comp'[c.comp] = comp[c.comp] /\ roster'[c.comp] = roster[c.comp]
    BY <2>3 DEF CompFree
  <2>6. at'[q] = l /\ req'[q] = c
    OBVIOUS
  <2>7. c.team \in Team /\ Exists(c.team) => Exists(c.team)'
    OBVIOUS
  <2>8. Knows(l, c)'
    BY <2>1, <2>4, <2>5, <2>7, Keeping
  <2> QED BY <2>6, <2>8 DEF Knows, Exists, Members
<1> QED BY <1>2, <1>3 DEF CallKnows

\* A call that ends with the rows it has locked leaves the others what they know.
LEMMA EndingKnow ==
    ASSUME Inv, NEW r \in Request, Done(r),
           \A t \in Team : Exists(t) => Exists(t)',
           \A t \in Team : t # req[r].team \/ ~(at[r] = "locked" /\ req[r].op \in OnTeam) =>
               /\ Members(t)' \subseteq Members(t)
               /\ captain'[t] = captain[t] /\ limit'[t] = limit[t],
           \A c \in Competition : c # req[r].comp \/ ~(at[r] = "locked" /\ req[r].op \in OnComp) =>
               (comp'[c] = comp[c] /\ roster'[c] = roster[c])
    PROVE  CallTypeOK' /\ LocksHeld' /\ CallKnows'
<1>1. /\ CallTypeOK' /\ LocksHeld' /\ at'[r] = "idle"
      /\ \A q \in Request \ {r} : at'[q] = at[q] /\ req'[q] = req[q]
  BY Closing DEF Inv, TeamsTypeOK
<1>2. ASSUME NEW t \in Team, ~TeamFree({r}, t)
      PROVE  /\ Members(t)' \subseteq Members(t)
             /\ captain'[t] = captain[t] /\ limit'[t] = limit[t]
  BY <1>2 DEF TeamFree, Inv, LocksHeld
<1>3. ASSUME NEW c \in Competition, ~CompFree({r},
   c) PROVE comp'[c] = comp[c] /\ roster'[c] = roster[c]
  BY <1>3 DEF CompFree, Inv, LocksHeld
<1>4. CallKnows'
  BY <1>1, <1>2, <1>3, OthersKnow
<1> QED BY <1>1, <1>4

\* Pending rows come from a call whose team exists.
LEMMA PendKeeps ==
    ASSUME Inv, NEW r \in Request, Pend(r) \/ Reject(r)
    PROVE  Inv'
<1>1. /\ Done(r) /\ UNCHANGED <<of, role, captain, limit, comp, roster>>
      /\ asking' \subseteq asking \cup {<<req[r].target, req[r].team>>}
      /\ invited' \subseteq invited \cup {<<req[r].target, req[r].team>>}
  BY DEF Pend, Reject, memberVars, compVars
<1>2. req[r].team \in Team /\ Exists(req[r].team)
  BY DEF Inv, CallKnows, Knows, Pend, Reject, OnComp
<1>3. req[r].target \in Player
  BY CallFields DEF Inv, TeamsTypeOK, CallTypeOK
<1>4. CallTypeOK' /\ LocksHeld' /\ CallKnows'
  BY <1>1, EndingKnow DEF Exists, Members
<1>5. RowTypeOK' /\ CompTypeOK'
  BY <1>1, <1>2, <1>3 DEF Inv, TeamsTypeOK, RowTypeOK, CompTypeOK, Pair
<1>6. TeamsExist' /\ MembersSound' /\ RosterSound'
  BY <1>1, <1>2 DEF Inv, TeamsExist, MembersSound, RosterSound, Exists, Members
<1> QED BY <1>4, <1>5, <1>6 DEF Inv, TeamsTypeOK

LEMMA ExpireKeeps ==
    ASSUME Inv, NEW p \in Player, NEW t \in Team, ExpireInvitation(p, t)
    PROVE  Inv'
<1>1. /\ UNCHANGED <<of, role, captain, limit, asking, comp, roster, at, req>>
      /\ invited' \subseteq invited
  BY DEF ExpireInvitation, memberVars, compVars
<1>2. TeamsTypeOK'
  BY <1>1 DEF Inv, TeamsTypeOK, RowTypeOK, CompTypeOK, CallTypeOK
<1>3. TeamsExist' /\ MembersSound' /\ RosterSound'
  BY <1>1 DEF Inv, TeamsExist, MembersSound, RosterSound, Exists, Members
<1>4. LocksHeld' /\ CallKnows'
  BY <1>1 DEF Inv, LocksHeld, CallKnows, Knows, Exists, Members
<1> QED BY <1>2, <1>3, <1>4 DEF Inv

\* A new team has its captain as its only member, and nobody has a call about it.
LEMMA CreateKeeps ==
    ASSUME Inv, NEW p \in Player, NEW t \in Team, NEW l \in Limits, Create(p, t, l)
    PROVE  Inv'
<1>1. /\ of[p] = NoTeam /\ ~Exists(t)
      /\ of' = [of EXCEPT ![p] = t] /\ role' = [role EXCEPT ![p] = "captain"]
      /\ captain' = [captain EXCEPT ![t] = p] /\ limit' = [limit EXCEPT ![t] = l]
      /\ UNCHANGED <<asking, invited, comp, roster, at, req>>
  BY DEF Create, pendingVars, compVars
<1>2. RowTypeOK
  BY DEF Inv, TeamsTypeOK
<1>3. TeamsTypeOK'
  <2>1. RowTypeOK'
    BY <1>1, <1>2 DEF RowTypeOK
  <2> QED BY <1>1, <2>1 DEF Inv, TeamsTypeOK, CompTypeOK, CallTypeOK
<1>4. /\ Exists(t)' /\ \A u \in Team \ {t} : captain'[u] = captain[u] /\ limit'[u] = limit[u]
      /\ limit'[t] = l /\ captain'[t] = p /\ of'[p] = t /\ role'[p] = "captain"
      /\ \A q \in Player \ {p} : of'[q] = of[q] /\ role'[q] = role[q]
  BY <1>1, <1>2, TeamsAssumption DEF RowTypeOK, Exists, TeamsAssumption
<1>5. TeamsExist'
  BY <1>1, <1>2, <1>4, TeamsAssumption DEF Inv, TeamsExist, Exists, RowTypeOK,
     TeamsAssumption
<1>6. Members(t)' = {p} /\ \A u \in Team \ {t} : Members(u)' = Members(u)
  BY <1>1, <1>2, <1>4, TeamsAssumption DEF Inv, TeamsExist, Members, RowTypeOK,
     TeamsAssumption
<1>7. MembersSound'
  <2>1. \A u \in Team : Exists(u)' => Cardinality(Members(u)') <= limit'[u]
    <3>1. Cardinality({p}) = 1
      BY FS_Singleton
    <3>2. l \in Nat \ {0}
      BY TeamsAssumption DEF TeamsAssumption
    <3>3. Cardinality(Members(t)') <= limit'[t]
      BY <1>4, <1>6, <3>1, <3>2
    <3>4. ASSUME NEW u \in Team \ {t},
       Exists(u)' PROVE Cardinality(Members(u)') <= limit'[u]
      BY <1>4, <1>6, <3>4 DEF Inv, MembersSound, Exists
    <3> QED BY <3>3, <3>4
  <2>2. ASSUME NEW q \in Player, role'[q] = "captain" PROVE captain'[of'[q]] = q
    <3>1. CASE q = p
      BY <1>4, <3>1
    <3>2. CASE q # p
      <4>1. captain[of[q]] = q /\ of[q] # NoTeam
        BY <1>4, <2>2, <3>2 DEF Inv, MembersSound, TeamsExist
      <4>2. of[q] \in Team /\ of[q] # t
        BY <1>1, <1>2, <4>1, TeamsAssumption DEF RowTypeOK, Exists, TeamsAssumption
      <4> QED BY <1>4, <3>2, <4>1, <4>2
    <3> QED BY <3>1, <3>2
  <2> QED BY <2>1, <2>2 DEF MembersSound, Members, Exists
<1>8. RosterSound' /\ LocksHeld'
  BY <1>1 DEF Inv, RosterSound, LocksHeld
<1>9. CallKnows'
  <2>1. \A u \in Team : Exists(u) => Exists(u)'
    BY <1>4 DEF Exists
  <2>2. \A u \in Team : Exists(u) => Members(u)' \subseteq Members(u) /\ captain'[u] = captain[u] /\ limit'[u] = limit[u]
    BY <1>1, <1>4, <1>6
  <2>3. /\ {} \in SUBSET Request /\ \A q \in {} : at'[q] = "idle"
        /\ \A q \in Request \ {} : at'[q] = at[q] /\ req'[q] = req[q]
        /\ \A c \in Competition : ~CompFree({}, c) => comp'[c] = comp[c] /\ roster'[c] = roster[c]
        /\ \A u \in Team : ~TeamFree({}, u) /\ Exists(u) =>
              Members(u)' \subseteq Members(u) /\ captain'[u] = captain[u] /\ limit'[u] = limit[u]
    BY <1>1, <2>2
  <2> QED BY <2>1, <2>3, OthersKnow
<1> QED BY <1>3, <1>5, <1>7, <1>8, <1>9 DEF Inv

\* The members are counted under the lock of the team.
LEMMA RoomKeeps ==
    ASSUME Inv, NEW r \in Request, Room(r)
    PROVE  Inv'
<1>1. PICK t, c : t = req[r].team /\ c = req[r]
  OBVIOUS
<1>2. /\ at[r] = "asked" /\ c.op \in {"review", "accept"} /\ TeamFree({r}, t)
      /\ UNCHANGED <<memberVars, captain, limit, pendingVars, compVars>>
      /\ \/ Cardinality(Members(t)) < limit[t] /\ Open(r, "locked", c)
         \/ Done(r)
  BY <1>1 DEF Room
<1>3. CASE Done(r)
  BY <1>2, <1>3, ClosingKeeps
<1>4. CASE Cardinality(Members(t)) < limit[t] /\ Open(r, "locked", c)
  <2>1. c \in Call /\ t = c.team
    BY <1>1 DEF Inv, TeamsTypeOK, CallTypeOK
  <2>2. c.team \in Team /\ Exists(c.team)
    BY <1>1, <1>2 DEF Inv, CallKnows, Knows, OnComp
  <2>3. Knows("locked", c)
    BY <1>2, <1>4, <2>1, <2>2 DEF Knows
  <2> QED BY <1>2, <1>4, <2>1, <2>3, OpeningKeeps DEF OnTeam, OnComp
<1> QED BY <1>2, <1>3, <1>4

\* Who joins finds the room the call has seen.
LEMMA JoinKeeps ==
    ASSUME Inv, NEW r \in Request, Join(r)
    PROVE  Inv'
<1>1. PICK p, t : p = req[r].target /\ t = req[r].team
  OBVIOUS
<1>2. /\ at[r] = "locked" /\ req[r].op \in {"review", "accept"} /\ of[p] = NoTeam /\ Done(r)
      /\ of' = [of EXCEPT ![p] = t] /\ role' = [role EXCEPT ![p] = "member"]
      /\ asking' \subseteq asking /\ invited' \subseteq invited
      /\ UNCHANGED <<captain, limit, comp, roster>>
  BY <1>1 DEF Join, compVars
<1>3. /\ p \in Player /\ t \in Team /\ Exists(t) /\ Cardinality(Members(t)) < limit[t]
  BY <1>1, <1>2, CallFields DEF Inv, TeamsTypeOK, CallTypeOK, CallKnows, Knows, OnComp
<1>4. /\ of'[p] = t /\ role'[p] = "member"
      /\ \A q \in Player \ {p} : of'[q] = of[q] /\ role'[q] = role[q]
  BY <1>2, <1>3 DEF Inv, TeamsTypeOK, RowTypeOK
<1>5. Members(t)' = Members(t) \cup {p} /\ \A u \in Team \ {t} : Members(u)' = Members(u)
  BY <1>2, <1>3, <1>4, TeamsAssumption DEF Members, TeamsAssumption
<1>6. TeamsTypeOK'
  <2>1. RowTypeOK'
    BY <1>2, <1>3 DEF Inv, TeamsTypeOK, RowTypeOK
  <2>2. CallTypeOK'
    BY <1>2, Closing DEF Inv, TeamsTypeOK
  <2> QED BY <1>2, <2>1, <2>2 DEF Inv, TeamsTypeOK, CompTypeOK
<1>7. TeamsExist'
  BY <1>2, <1>3, <1>4, TeamsAssumption DEF Inv, TeamsExist, Exists, TeamsAssumption
<1>8. MembersSound'
  <2>1. Cardinality(Members(t)') <= limit'[t]
    <3>1. IsFiniteSet(Members(t)) /\ Cardinality(Members(t)) \in Nat
      BY Counting DEF Members
    <3>2. Cardinality(Members(t) \cup {p}) <= Cardinality(Members(t)) + 1
      <4> PICK S : S = Members(t)
        OBVIOUS
      <4>1. Cardinality(S \cup {p}) = IF p \in S THEN Cardinality(S) ELSE Cardinality(S) + 1
        BY <3>1, FS_AddElement
      <4> QED BY <3>1, <4>1
    <3>3. Cardinality(Members(t) \cup {p}) \in Nat
      BY <1>3, Counting DEF Members
    <3>4. limit[t] \in Nat
      BY <1>3, TeamsAssumption DEF Inv, TeamsTypeOK, RowTypeOK, TeamsAssumption
    <3> QED BY <1>2, <1>3, <1>5, <3>1, <3>2, <3>3, <3>4
  <2>2. ASSUME NEW u \in Team \ {t}, Exists(u)' PROVE Cardinality(Members(u)') <= limit'[u]
    BY <1>2, <1>5, <2>2 DEF Inv, MembersSound, Exists
  <2>3. ASSUME NEW q \in Player, role'[q] = "captain" PROVE captain'[of'[q]] = q
    BY <1>2, <1>4, <2>3 DEF Inv, MembersSound
  <2> QED BY <2>1, <2>2, <2>3 DEF MembersSound, Members, Exists
<1>9. RosterSound'
  BY <1>2 DEF Inv, RosterSound
<1>10. LocksHeld' /\ CallKnows'
  <2>1. \A u \in Team : Exists(u) => Exists(u)'
    BY <1>2 DEF Exists
  <2>2. \A u \in Team : u # req[r].team \/ ~(at[r] = "locked" /\ req[r].op \in OnTeam) =>
            Members(u)' \subseteq Members(u) /\ captain'[u] = captain[u] /\ limit'[u] = limit[u]
    BY <1>1, <1>2, <1>5 DEF OnTeam
  <2> QED BY <1>2, <2>1, <2>2, EndingKnow
<1> QED BY <1>6, <1>7, <1>8, <1>9, <1>10 DEF Inv

\* Who leaves makes a team smaller, whatever is locked.
LEMMA DeletedKeeps ==
    ASSUME Inv, NEW r \in Request, Deleted(r)
    PROVE  Inv'
<1>1. /\ Done(r) /\ UNCHANGED <<captain, limit, asking, invited, comp, roster>>
  BY DEF Deleted, pendingVars, compVars
<1>2. /\ of' \in [Player -> Team \cup {NoTeam}]
      /\ role' \in [Player -> {"none", "member", "manager", "captain"}]
      /\ \A q \in Player : \/ of'[q] = of[q] /\ role'[q] = role[q]
                           \/ of'[q] = NoTeam /\ role'[q] = "none"
  BY DEF Deleted, memberVars, Inv, TeamsTypeOK, RowTypeOK
<1>3. TeamsTypeOK'
  <2>1. RowTypeOK'
    BY <1>1, <1>2 DEF Inv, TeamsTypeOK, RowTypeOK
  <2>2. CallTypeOK'
    BY <1>1, Closing DEF Inv, TeamsTypeOK
  <2> QED BY <1>1, <2>1, <2>2 DEF Inv, TeamsTypeOK, CompTypeOK
<1>4. TeamsExist'
  BY <1>1, <1>2 DEF Inv, TeamsExist, Exists
<1>5. \A u \in Team : Members(u)' \subseteq Members(u)
  BY <1>2, TeamsAssumption DEF Members, TeamsAssumption
<1>6. MembersSound'
  <2>1. ASSUME NEW u \in Team, Exists(u)' PROVE Cardinality(Members(u)') <= limit'[u]
    <3>1. /\ Cardinality(Members(u)') \in Nat /\ Cardinality(Members(u)) \in Nat
          /\ Cardinality(Members(u)') <= Cardinality(Members(u))
      BY <1>5, Counting DEF Members
    <3>2. Cardinality(Members(u)) <= limit[u] /\ limit'[u] = limit[u]
      BY <1>1, <2>1 DEF Inv, MembersSound, Exists
    <3>3. limit[u] \in Nat
      BY TeamsAssumption DEF Inv, TeamsTypeOK, RowTypeOK, TeamsAssumption
    <3> QED BY <3>1, <3>2, <3>3
  <2>2. ASSUME NEW q \in Player, role'[q] = "captain" PROVE captain'[of'[q]] = q
    BY <1>1, <1>2, <2>2 DEF Inv, MembersSound
  <2> QED BY <2>1, <2>2 DEF MembersSound, Members, Exists
<1>7. RosterSound'
  BY <1>1 DEF Inv, RosterSound
<1>8. LocksHeld' /\ CallKnows'
  <2>1. \A u \in Team : Exists(u) => Exists(u)'
    BY <1>1 DEF Exists
  <2> QED BY <1>1, <1>5, <2>1, EndingKnow
<1> QED BY <1>3, <1>4, <1>6, <1>7, <1>8 DEF Inv

\* The captain is who transfers, for the lock has kept it so; nobody else has the role.
LEMMA TransferredKeeps ==
    ASSUME Inv, NEW r \in Request, Transferred(r)
    PROVE  Inv'
<1>1. PICK a, p, t : a = req[r].actor /\ p = req[r].target /\ t = req[r].team
  OBVIOUS
<1>2. /\ at[r] = "locked" /\ req[r].op = "transfer" /\ Done(r)
      /\ role' = [q \in Player |-> IF of[q] # t THEN role[q]
                                   ELSE IF q = p THEN "captain" ELSE IF q = a THEN "manager" ELSE role[q]]
      /\ captain' = [captain EXCEPT ![t] = p]
      /\ UNCHANGED <<of, limit, asking, invited, comp, roster>>
  BY <1>1 DEF Transferred, pendingVars, compVars
<1>3. /\ p \in Player /\ a \in Player /\ t \in Team /\ captain[t] = a
  BY <1>1, <1>2, CallFields DEF Inv, TeamsTypeOK, CallTypeOK, CallKnows, Knows, OnComp
<1>4. captain'[t] = p /\ \A u \in Team \ {t} : captain'[u] = captain[u]
  BY <1>2, <1>3 DEF Inv, TeamsTypeOK, RowTypeOK
<1>5. TeamsTypeOK'
  <2>1. RowTypeOK'
    BY <1>2, <1>3 DEF Inv, TeamsTypeOK, RowTypeOK
  <2>2. CallTypeOK'
    BY <1>2, Closing DEF Inv, TeamsTypeOK
  <2> QED BY <1>2, <2>1, <2>2 DEF Inv, TeamsTypeOK, CompTypeOK
<1>6. \A u \in Team : Exists(u) => Exists(u)'
  BY <1>3, <1>4, TeamsAssumption DEF Exists, TeamsAssumption
<1>7. TeamsExist'
  <2>1. ASSUME NEW q \in Player, of'[q] # NoTeam PROVE Exists(of[q])'
    <3>1. of[q] \in Team /\ Exists(of[q]) /\ of'[q] = of[q]
      BY <1>2, <2>1 DEF Inv, TeamsTypeOK, RowTypeOK, TeamsExist
    <3> QED BY <1>6, <3>1 DEF Exists
  <2>2. ASSUME NEW q \in Player, role'[q] # "none" PROVE of'[q] # NoTeam
    BY <1>2, <1>3, <2>2, TeamsAssumption DEF Inv, TeamsExist, TeamsAssumption
  <2>3. ASSUME NEW x \in asking' \cup invited' PROVE Exists(x[2])'
    <3>1. x[2] \in Team /\ Exists(x[2])
      BY <1>2, <2>3 DEF Inv, TeamsTypeOK, RowTypeOK, Pair, TeamsExist
    <3> QED BY <1>6, <3>1 DEF Exists
  <2> QED BY <2>1, <2>2, <2>3 DEF TeamsExist, Exists
<1>8. MembersSound'
  <2>1. ASSUME NEW u \in Team, Exists(u)' PROVE Cardinality(Members(u)') <= limit'[u]
    <3>1. Exists(u)
      BY <1>3, <1>4, <2>1, TeamsAssumption DEF Exists, TeamsAssumption
    <3> QED BY <1>2, <3>1 DEF Inv, MembersSound, Members
  <2>2. ASSUME NEW q \in Player, role'[q] = "captain" PROVE captain'[of'[q]] = q
    <3>1. CASE of[q] # t
      <4>1. role[q] = "captain" /\ of'[q] = of[q]
        BY <1>2, <2>2, <3>1
      <4>2. of[q] \in Team /\ captain[of[q]] = q
        BY <4>1 DEF Inv, MembersSound, TeamsExist, TeamsTypeOK, RowTypeOK
      <4> QED BY <1>4, <3>1, <4>1, <4>2
    <3>2. CASE of[q] = t /\ q # p
      <4>1. role[q] = "captain" /\ q # a
        BY <1>2, <2>2, <3>2
      <4>2. captain[of[q]] = q
        BY <4>1 DEF Inv, MembersSound
      <4> QED BY <1>3, <3>2, <4>1, <4>2
    <3>3. CASE of[q] = t /\ q = p
      BY <1>2, <1>4, <3>3
    <3> QED BY <3>1, <3>2, <3>3
  <2> QED BY <2>1, <2>2 DEF MembersSound, Members, Exists
<1>9. RosterSound'
  BY <1>2 DEF Inv, RosterSound
<1>10. LocksHeld' /\ CallKnows'
  <2>1. \A u \in Team : Members(u)' = Members(u)
    BY <1>2 DEF Members
  <2>2. \A u \in Team : u # req[r].team \/ ~(at[r] = "locked" /\ req[r].op \in OnTeam) =>
            Members(u)' \subseteq Members(u) /\ captain'[u] = captain[u] /\ limit'[u] = limit[u]
    BY <1>1, <1>2, <1>4, <2>1 DEF OnTeam
  <2> QED BY <1>2, <1>6, <2>2, EndingKnow
<1> QED BY <1>5, <1>7, <1>8, <1>9, <1>10 DEF Inv

\* The members still fit the limit they were compared with.
LEMMA UpdatedKeeps ==
    ASSUME Inv, NEW r \in Request, Updated(r)
    PROVE  Inv'
<1>1. PICK t, l : t = req[r].team /\ l = req[r].limit
  OBVIOUS
<1>2. /\ at[r] = "locked" /\ req[r].op = "update" /\ Done(r) /\ limit' = [limit EXCEPT ![t] = l]
      /\ UNCHANGED <<of, role, captain, asking, invited, comp, roster>>
  BY <1>1 DEF Updated, memberVars, pendingVars, compVars
<1>3. l \in Limits /\ t \in Team /\ Cardinality(Members(t)) <= l
  BY <1>1, <1>2, CallFields DEF Inv, TeamsTypeOK, CallTypeOK, CallKnows, Knows, OnComp
<1>4. limit'[t] = l /\ \A u \in Team \ {t} : limit'[u] = limit[u]
  BY <1>2, <1>3 DEF Inv, TeamsTypeOK, RowTypeOK
<1>5. TeamsTypeOK'
  <2>1. RowTypeOK'
    BY <1>2, <1>3 DEF Inv, TeamsTypeOK, RowTypeOK
  <2>2. CallTypeOK'
    BY <1>2, Closing DEF Inv, TeamsTypeOK
  <2> QED BY <1>2, <2>1, <2>2 DEF Inv, TeamsTypeOK, CompTypeOK
<1>6. \A u \in Team : Members(u)' = Members(u) /\ (Exists(u) <=> Exists(u)')
  BY <1>2 DEF Members, Exists
<1>7. TeamsExist' /\ RosterSound'
  BY <1>2 DEF Inv, TeamsExist, RosterSound, Exists
<1>8. MembersSound'
  <2>1. ASSUME NEW u \in Team, Exists(u)' PROVE Cardinality(Members(u)') <= limit'[u]
    <3>1. CASE u = t
      BY <1>3, <1>4, <1>6, <3>1
    <3>2. CASE u # t
      BY <1>4, <1>6, <2>1, <3>2 DEF Inv, MembersSound
    <3> QED BY <3>1, <3>2
  <2> QED BY <1>2, <2>1 DEF Inv, MembersSound, Members, Exists
<1>9. LocksHeld' /\ CallKnows'
  <2>1. \A u \in Team : u # req[r].team \/ ~(at[r] = "locked" /\ req[r].op \in OnTeam) =>
            Members(u)' \subseteq Members(u) /\ captain'[u] = captain[u] /\ limit'[u] = limit[u]
    BY <1>1, <1>2, <1>4, <1>6 DEF OnTeam
  <2> QED BY <1>2, <1>6, <2>1, EndingKnow
<1> QED BY <1>5, <1>7, <1>8, <1>9 DEF Inv

\* A registration fits the mode that the call has seen under the lock of the competition.
LEMMA EnterKeeps ==
    ASSUME Inv, NEW r \in Request, Enter(r)
    PROVE  Inv'
<1>1. PICK c, e : c = req[r].comp /\ e = Entering(r)
  OBVIOUS
<1>2. /\ at[r] = "locked" /\ req[r].op = "register" /\ Done(r)
      /\ e.team # NoTeam => Cardinality(e.members) \in comp[c].size[1]..comp[c].size[2]
      /\ \A f \in roster[c] : f.members \cap e.members = {}
      /\ roster' = [roster EXCEPT ![c] = @ \cup {e}]
      /\ UNCHANGED <<of, role, captain, limit, asking, invited, comp>>
  BY <1>1 DEF Enter, memberVars, pendingVars
<1>3. /\ req[r] \in Call /\ c \in Competition
      /\ ((req[r].team = NoTeam) <=> (comp[c].mode = "individual"))
  BY <1>1, <1>2, CallFields DEF Inv, TeamsTypeOK, CallTypeOK, CallKnows, Knows, OnComp
<1>4. e \in Entry /\ ((e.team = NoTeam) <=> (comp[c].mode = "individual"))
  <2>1. /\ req[r].actor \in Player /\ req[r].team \in Team \cup {NoTeam}
    BY <1>3, CallFields
  <2>2. Members(req[r].team) \in SUBSET Player
    BY DEF Members
  <2> QED BY <1>1, <1>3, <2>1, <2>2 DEF Entering, Entry
<1>5. roster'[c] = roster[c] \cup {e} /\ \A d \in Competition \ {c} : roster'[d] = roster[d]
  BY <1>2, <1>3 DEF Inv, TeamsTypeOK, CompTypeOK
<1>6. TeamsTypeOK'
  <2>1. CompTypeOK'
    BY <1>2, <1>3, <1>4 DEF Inv, TeamsTypeOK, CompTypeOK
  <2>2. CallTypeOK'
    BY <1>2, Closing DEF Inv, TeamsTypeOK
  <2> QED BY <1>2, <2>1, <2>2 DEF Inv, TeamsTypeOK, RowTypeOK
<1>7. TeamsExist' /\ MembersSound'
  BY <1>2 DEF Inv, TeamsExist, MembersSound, Exists, Members
<1>8. RosterSound'
  <2> SUFFICES ASSUME NEW d \in Competition, NEW g \in roster'[d]
               PROVE  /\ (g.team = NoTeam) = (comp[d].mode = "individual")
                      /\ g.team # NoTeam => Cardinality(g.members) \in comp[d].size[1]..comp[d].size[2]
                      /\ \A f \in roster'[d] : f # g => f.members \cap g.members = {}
    BY <1>2 DEF RosterSound
  <2>1. CASE d # c
    BY <1>5, <2>1 DEF Inv, RosterSound
  <2>2. CASE d = c /\ g = e
    BY <1>2, <1>4, <1>5, <2>2
  <2>3. CASE d = c /\ g # e
    <3>1. g \in roster[c]
      BY <1>5, <2>3
    <3> QED BY <1>2, <1>5, <2>3, <3>1 DEF Inv, RosterSound
  <2> QED BY <2>1, <2>2, <2>3
<1>9. LocksHeld' /\ CallKnows'
  BY <1>1, <1>2, <1>5, EndingKnow DEF Exists, Members, OnComp
<1> QED BY <1>6, <1>7, <1>8, <1>9 DEF Inv

\* A competition that changes has no registration yet.
LEMMA ConfiguredKeeps ==
    ASSUME Inv, NEW r \in Request, Configured(r)
    PROVE  Inv'
<1>1. PICK c, d : c = req[r].comp /\ d = req[r].to
  OBVIOUS
<1>2. /\ at[r] = "locked" /\ req[r].op = "config" /\ Done(r)
      /\ comp' = [comp EXCEPT ![c] = d]
      /\ UNCHANGED <<of, role, captain, limit, asking, invited, roster>>
  BY <1>1 DEF Configured, memberVars, pendingVars
<1>3. /\ c \in Competition /\ d \in Comp /\ (d # comp[c] => roster[c] = {})
  BY <1>1, <1>2, CallFields DEF Inv, TeamsTypeOK, CallTypeOK, CallKnows, Knows, OnComp
<1>4. comp'[c] = d /\ \A b \in Competition \ {c} : comp'[b] = comp[b]
  BY <1>2, <1>3 DEF Inv, TeamsTypeOK, CompTypeOK
<1>5. TeamsTypeOK'
  <2>1. CompTypeOK'
    BY <1>2, <1>3 DEF Inv, TeamsTypeOK, CompTypeOK
  <2>2. CallTypeOK'
    BY <1>2, Closing DEF Inv, TeamsTypeOK
  <2> QED BY <1>2, <2>1, <2>2 DEF Inv, TeamsTypeOK, RowTypeOK
<1>6. TeamsExist' /\ MembersSound'
  BY <1>2 DEF Inv, TeamsExist, MembersSound, Exists, Members
<1>7. RosterSound'
  BY <1>2, <1>3, <1>4 DEF Inv, RosterSound
<1>8. LocksHeld' /\ CallKnows'
  BY <1>1, <1>2, <1>4, EndingKnow DEF Exists, Members, OnComp
<1> QED BY <1>5, <1>6, <1>7, <1>8 DEF Inv

LEMMA SetStatusKeeps ==
    ASSUME Inv, NEW c \in Competition, NEW next \in {"draft", "registration", "running"},
    SetStatus(c, next)
    PROVE  Inv'
<1>1. /\ comp' = [comp EXCEPT ![c].status = next] /\ CompFree({}, c)
      /\ UNCHANGED <<of, role, captain, limit, asking, invited, roster, at, req>>
  BY DEF SetStatus, memberVars, pendingVars
<1>2. comp \in [Competition -> Comp]
  BY DEF Inv, TeamsTypeOK, CompTypeOK
<1>3. PICK d : d = [comp[c] EXCEPT !.status = next]
  OBVIOUS
<1>4. d \in Comp /\ d.mode = comp[c].mode /\ d.size = comp[c].size
  BY <1>2, <1>3 DEF Comp
<1>5. comp' = [comp EXCEPT ![c] = d]
  BY <1>1, <1>3
<1>6. comp'[c] = d /\ \A b \in Competition \ {c} : comp'[b] = comp[b]
  BY <1>2, <1>5
<1>7. TeamsTypeOK'
  BY <1>1, <1>2, <1>4, <1>5 DEF Inv, TeamsTypeOK, RowTypeOK, CompTypeOK, CallTypeOK
<1>8. TeamsExist' /\ MembersSound' /\ LocksHeld'
  BY <1>1 DEF Inv, TeamsExist, MembersSound, LocksHeld, Exists, Members
<1>9. RosterSound'
  BY <1>1, <1>4, <1>6 DEF Inv, RosterSound
<1>10. CallKnows'
  <2>1. \A q \in Request : ~(at[q] = "locked" /\ req[q].op = "config" /\ req[q].comp = c)
    BY <1>1 DEF CompFree, OnComp
  <2>2. ASSUME NEW q \in Request PROVE Knows(at[q], req[q])'
    <3>1. Knows(at[q], req[q])
      BY DEF Inv, CallKnows
    <3>2. req[q].op \in OnComp => req[q].comp \in Competition
      BY CallFields DEF Inv, TeamsTypeOK, CallTypeOK
    <3>3. req[q].op = "register" => comp'[req[q].comp].mode = comp[req[q].comp].mode
      BY <1>4, <1>6, <3>2 DEF OnComp
    <3>4. at[q] = "locked" /\ req[q].op = "config" => comp'[req[q].comp] = comp[req[q].comp]
      BY <1>6, <2>1, <3>2 DEF OnComp
    <3> QED BY <1>1, <3>1, <3>3, <3>4 DEF Knows, Exists, Members
  <2> QED BY <2>2 DEF CallKnows
<1> QED BY <1>7, <1>8, <1>9, <1>10 DEF Inv

LEMMA InvStep == Inv /\ [TeamsNext]_teamsVars => Inv'
<1> SUFFICES ASSUME Inv, [TeamsNext]_teamsVars PROVE Inv'
  OBVIOUS
<1>1. CASE UNCHANGED teamsVars
  <2>1. UNCHANGED <<of, role, captain, limit, asking, invited, comp, roster, at, req>>
    BY <1>1 DEF teamsVars
  <2>2. TeamsTypeOK' /\ LocksHeld'
    BY <2>1 DEF Inv, TeamsTypeOK, RowTypeOK, CompTypeOK, CallTypeOK, LocksHeld
  <2>3. TeamsExist' /\ MembersSound' /\ RosterSound'
    BY <2>1 DEF Inv, TeamsExist, MembersSound, RosterSound, Exists, Members
  <2>4. CallKnows'
    BY <2>1 DEF Inv, CallKnows, Knows, Exists, Members
  <2> QED BY <2>2, <2>3, <2>4 DEF Inv
<1>2. ASSUME NEW p \in Player, NEW t \in Team,
             ExpireInvitation(p, t) \/ \E l \in Limits : Create(p, t, l)
      PROVE  Inv'
  BY <1>2, ExpireKeeps, CreateKeeps
<1>3. ASSUME NEW p \in Player, NEW t \in Team, NEW r \in Request,
             \/ RequestJoin(r, p, t) \/ AcceptInvitation(r, p, t) \/ Leave(r, p, t)
             \/ \E l \in Limits : Update(r, p, t, l)
             \/ \E a \in Player : Invite(r, a, p, t) \/ ReviewJoin(r, a, p, t)
                                  \/ RemoveMember(r, a, p, t) \/ TransferCaptain(r, a, p, t)
      PROVE  Inv'
  <2>1. CASE \E l \in Limits : Update(r, p, t, l)
    BY <2>1, LockingKeeps
  <2>2. CASE \E a \in Player : TransferCaptain(r, a, p, t)
    BY <2>2, LockingKeeps
  <2>3. CASE RequestJoin(r, p, t) \/ AcceptInvitation(r, p, t) \/ Leave(r, p, t)
    BY <2>3, AsksKeep
  <2>4. CASE \E a \in Player : Invite(r, a, p, t) \/ ReviewJoin(r, a, p,
     t) \/ RemoveMember(r, a, p, t)
    BY <2>4, AsksKeep
  <2> QED BY <1>3, <2>1, <2>2, <2>3, <2>4
<1>4. ASSUME NEW r \in Request,
             \/ Pend(r) \/ Reject(r) \/ Room(r) \/ Join(r) \/ Deleted(r) \/ Transferred(r) \/ Updated(r)
             \/ Enter(r) \/ Configured(r) \/ Fail(r)
      PROVE  Inv'
  <2>1. CASE Fail(r)
    BY <2>1, ClosingKeeps DEF Fail
  <2> QED BY <1>4, <2>1, PendKeeps, RoomKeeps, JoinKeeps, DeletedKeeps, TransferredKeeps,
     UpdatedKeeps,
             EnterKeeps, ConfiguredKeeps
<1>5. ASSUME NEW r \in Request, NEW c \in Competition,
             (\E d \in Comp : Configure(r, c, d)) \/ \E a \in Player, t \in Team \cup {NoTeam} : Register(r, a, t, c)
      PROVE  Inv'
  BY <1>5, LockingKeeps
<1>6. ASSUME NEW c \in Competition, NEW s \in {"draft", "registration", "running"},
   SetStatus(c, s) PROVE Inv'
  BY <1>6, SetStatusKeeps
<1> HIDE DEF Inv
<1> QED BY <1>1, <1>2, <1>3, <1>4, <1>5, <1>6 DEF TeamsNext

-----------------------------------------------------------------------------
(* Theorems.                                                               *)

THEOREM Invariance == TeamsSpec => []Inv
BY InvInit, InvStep, PTL DEF TeamsSpec

\* No team outgrows its limit however many requests are reviewed, invitations accepted
\* and limits lowered at once, and only the captain of a team has the role.
THEOREM NoTeamOutgrowsItsLimit == TeamsSpec => []MembersSound
<1>1. Inv => MembersSound
  BY DEF Inv
<1> QED BY <1>1, Invariance, PTL

\* What is registered fits the competition as it is configured, and the rosters of
\* one competition are disjoint.
THEOREM RostersFit == TeamsSpec => []RosterSound
<1>1. Inv => RosterSound
  BY DEF Inv
<1> QED BY <1>1, Invariance, PTL

\* The rows and the calls stay of their types.
THEOREM TypeCorrect == TeamsSpec => []TeamsTypeOK
<1>1. Inv => TeamsTypeOK
  BY DEF Inv
<1> QED BY <1>1, Invariance, PTL
=============================================================================
