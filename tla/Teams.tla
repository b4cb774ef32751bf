------------------------------- MODULE Teams -------------------------------
(***************************************************************************)
(* Teams, their members, and the teams that enter a competition            *)
(* (team/service.go, competition/service.go).                              *)
(*                                                                         *)
(* Who adds a member or changes the limit locks the team; who leaves or is *)
(* removed locks nothing.  A registration and a change of the competition  *)
(* lock the competition, a registration reads the members as they are.     *)
(* The unique indexes (one team of a player, one registration of a team,   *)
(* of a player and of a member of a roster) refuse what a check that was   *)
(* made before let through.  A team that does not recruit is like one      *)
(* nobody asks to join, a window that is over like nobody registering.     *)
(***************************************************************************)
EXTENDS Integers, FiniteSets

CONSTANTS Player, NoPlayer, Team, NoTeam, Competition,
          Limits,     \* limits of members a team may have
          Sizes,      \* bound: pairs of team_min and team_max
          Request,    \* API calls that may be open at once
          MaxPending  \* bound: requests to join and invitations that are pending

ASSUME TeamsAssumption ==
    /\ IsFiniteSet(Player) /\ Player # {} /\ NoPlayer \notin Player /\ NoTeam \notin Team
    /\ Limits # {} /\ Limits \subseteq Nat \ {0} /\ Sizes # {} /\ Competition # {}

VARIABLES
    of, role,       \* team_members
    captain, limit, \* teams (captain_id and member_limit)
    asking,         \* team_join_requests that are pending
    invited,        \* team_invitations that are pending
    comp,           \* competitions
    roster,         \* competition_participants with competition_roster_members
    at, req         \* calls that are open

memberVars == <<of, role>>
pendingVars == <<asking, invited>>
compVars == <<comp, roster>>
teamsVars == <<of, role, captain, limit, asking, invited, comp, roster, at, req>>

Pair == Player \X Team
Entry == [team : Team \cup {NoTeam}, by : Player, members : SUBSET Player]
Comp == [status : {"draft", "registration", "running"}, mode : {"team", "individual"}, size : Sizes]
Call == [op : {"join", "invite", "review", "accept", "leave", "transfer", "update", "register", "config"},
         actor : Player, target : Player, team : Team \cup {NoTeam}, limit : Limits,
         comp : Competition, to : Comp]

RowTypeOK ==
    /\ of \in [Player -> Team \cup {NoTeam}]
    /\ role \in [Player -> {"none", "member", "manager", "captain"}]
    /\ captain \in [Team -> Player \cup {NoPlayer}] /\ limit \in [Team -> Limits]
    /\ asking \subseteq Pair /\ invited \subseteq Pair
CompTypeOK == comp \in [Competition -> Comp] /\ roster \in [Competition -> SUBSET Entry]
CallTypeOK == at \in [Request -> {"idle", "asked", "locked"}] /\ req \in [Request -> Call]
TeamsTypeOK == RowTypeOK /\ CompTypeOK /\ CallTypeOK

NoCall == [op |-> "join", actor |-> CHOOSE p \in Player : TRUE, target |-> CHOOSE p \in Player : TRUE,
           team |-> NoTeam, limit |-> CHOOSE l \in Limits : TRUE,
           comp |-> CHOOSE c \in Competition : TRUE,
           to |-> [status |-> "draft", mode |-> "team", size |-> CHOOSE s \in Sizes : TRUE]]

TeamsInit ==
    /\ of = [p \in Player |-> NoTeam] /\ role = [p \in Player |-> "none"]
    /\ captain = [t \in Team |-> NoPlayer] /\ limit \in [Team -> {CHOOSE l \in Limits : TRUE}]
    /\ asking = {} /\ invited = {}
    /\ comp \in [Competition -> {d \in Comp : d.status = "draft"}]
    /\ roster = [c \in Competition |-> {}]
    /\ at = [r \in Request |-> "idle"] /\ req = [r \in Request |-> NoCall]

-----------------------------------------------------------------------------

Members(t) == {p \in Player : of[p] = t}
Exists(t) == captain[t] # NoPlayer
Manages(p, t) == of[p] = t /\ role[p] \in {"captain", "manager"}   \* requireManager

OnTeam == {"review", "accept", "transfer", "update"}
OnComp == {"register", "config"}

\* Row locks: the team, the competition, the request to join or invitation.
\* They are free but for the calls of R.
TeamFree(R, t) == \A q \in Request \ R : ~(at[q] = "locked" /\ req[q].op \in OnTeam /\ req[q].team = t)
CompFree(R, c) == \A q \in Request \ R : ~(at[q] = "locked" /\ req[q].op \in OnComp /\ req[q].comp = c)
PairFree(R, op, p, t) ==
    \A q \in Request \ R : ~(at[q] # "idle" /\ req[q].op = op /\ req[q].target = p /\ req[q].team = t)

Open(r, l, call) == at' = [at EXCEPT ![r] = l] /\ req' = [req EXCEPT ![r] = call]
Done(r) == Open(r, "idle", NoCall)
CallOn(op, a, p, t) == [NoCall EXCEPT !.op = op, !.actor = a, !.target = p, !.team = t]

Create(p, t, l) ==
    /\ of[p] = NoTeam /\ ~Exists(t)
    /\ of' = [of EXCEPT ![p] = t] /\ role' = [role EXCEPT ![p] = "captain"]
    /\ captain' = [captain EXCEPT ![t] = p] /\ limit' = [limit EXCEPT ![t] = l]
    /\ UNCHANGED <<pendingVars, compVars, at, req>>

\* What is looked up without a lock.
Ask(r, op, a, p, t) ==
    /\ at[r] = "idle"
    /\ Open(r, "asked", CallOn(op, a, p, t))
    /\ UNCHANGED <<memberVars, captain, limit, pendingVars, compVars>>

RequestJoin(r, p, t) == Exists(t) /\ of[p] = NoTeam /\ Ask(r, "join", p, p, t)
Invite(r, a, p, t) == Manages(a, t) /\ Ask(r, "invite", a, p, t)
ReviewJoin(r, a, p, t) ==
    <<p, t>> \in asking /\ PairFree({r}, "review", p, t) /\ Manages(a, t) /\ Ask(r, "review", a, p, t)
AcceptInvitation(r, p, t) ==
    <<p, t>> \in invited /\ PairFree({r}, "accept", p, t) /\ Ask(r, "accept", p, p, t)
RemoveMember(r, a, p, t) == a # p /\ Manages(a, t) /\ captain[t] # p /\ Ask(r, "leave", a, p, t)
Leave(r, p, t) == Exists(t) /\ captain[t] # p /\ Ask(r, "leave", p, p, t)

\* One that is pending already is refused.
Pend(r) ==
    LET pair == <<req[r].target, req[r].team>>
    IN  /\ at[r] = "asked" /\ req[r].op \in {"join", "invite"}
        /\ Cardinality(asking) + Cardinality(invited) < MaxPending    \* bound
        /\ asking' = asking \cup IF req[r].op = "join" THEN {pair} ELSE {}
        /\ invited' = invited \cup IF req[r].op = "invite" THEN {pair} ELSE {}
        /\ Done(r)
        /\ UNCHANGED <<memberVars, captain, limit, compVars>>

Reject(r) ==
    /\ at[r] = "asked" /\ req[r].op = "review"
    /\ asking' = asking \ {<<req[r].target, req[r].team>>}
    /\ Done(r)
    /\ UNCHANGED <<memberVars, captain, limit, invited, compVars>>

ExpireInvitation(p, t) ==
    /\ <<p, t>> \in invited /\ PairFree({}, "accept", p, t)
    /\ invited' = invited \ {<<p, t>>}
    /\ UNCHANGED <<memberVars, captain, limit, asking, compVars, at, req>>

\* The team is locked, then the members are counted.
RoomUnlocked(r) ==   \* mutant: the team is not locked
    /\ at[r] = "asked" /\ req[r].op \in {"review", "accept"}
    /\ IF Cardinality(Members(req[r].team)) < limit[req[r].team] /\ of[req[r].target] = NoTeam
       THEN Open(r, "locked", req[r]) ELSE Done(r)
    /\ UNCHANGED <<memberVars, captain, limit, pendingVars, compVars>>
Room(r) ==
    LET t == req[r].team
    IN  /\ at[r] = "asked" /\ req[r].op \in {"review", "accept"} /\ TeamFree({r}, t)
        /\ IF Cardinality(Members(t)) < limit[t] /\ of[req[r].target] = NoTeam
           THEN Open(r, "locked", req[r]) ELSE Done(r)
        /\ UNCHANGED <<memberVars, captain, limit, pendingVars, compVars>>

\* A player who is in a team by now is refused by the index.
Join(r) ==
    LET p == req[r].target
        t == req[r].team
    IN  /\ at[r] = "locked" /\ req[r].op \in {"review", "accept"} /\ of[p] = NoTeam
        /\ of' = [of EXCEPT ![p] = t] /\ role' = [role EXCEPT ![p] = "member"]
        /\ asking' = asking \ IF req[r].op = "review" THEN {<<p, t>>} ELSE {}
        /\ invited' = invited \ IF req[r].op = "accept" THEN {<<p, t>>} ELSE {}
        /\ Done(r)
        /\ UNCHANGED <<captain, limit, compVars>>

\* The row is deleted, whatever the player is by now.
Deleted(r) ==
    LET p == req[r].target
    IN  /\ at[r] = "asked" /\ req[r].op = "leave"
        /\ IF of[p] = req[r].team
           THEN of' = [of EXCEPT ![p] = NoTeam] /\ role' = [role EXCEPT ![p] = "none"]
           ELSE UNCHANGED memberVars
        /\ Done(r)
        /\ UNCHANGED <<captain, limit, pendingVars, compVars>>

TransferCaptain(r, a, p, t) ==
    /\ at[r] = "idle" /\ TeamFree({r}, t) /\ captain[t] = a /\ of[p] = t
    /\ Open(r, "locked", CallOn("transfer", a, p, t))
    /\ UNCHANGED <<memberVars, captain, limit, pendingVars, compVars>>

\* A member who left in between has no row to update.
Transferred(r) ==
    LET t == req[r].team
    IN  /\ at[r] = "locked" /\ req[r].op = "transfer"
        /\ role' = [p \in Player |-> IF of[p] # t THEN role[p]
                                     ELSE IF p = req[r].target THEN "captain"
                                     ELSE IF p = req[r].actor THEN "manager" ELSE role[p]]
        /\ captain' = [captain EXCEPT ![t] = req[r].target]
        /\ Done(r)
        /\ UNCHANGED <<of, limit, pendingVars, compVars>>

Update(r, a, t, l) ==
    /\ at[r] = "idle" /\ TeamFree({r}, t) /\ Manages(a, t) /\ Cardinality(Members(t)) <= l
    /\ Open(r, "locked", [CallOn("update", a, a, t) EXCEPT !.limit = l])
    /\ UNCHANGED <<memberVars, captain, limit, pendingVars, compVars>>

Updated(r) ==
    /\ at[r] = "locked" /\ req[r].op = "update"
    /\ limit' = [limit EXCEPT ![req[r].team] = req[r].limit]
    /\ Done(r)
    /\ UNCHANGED <<memberVars, captain, pendingVars, compVars>>

-----------------------------------------------------------------------------
(* Competitions.                                                           *)

\* A manager registers the team; in an individual competition a player registers.
Register(r, a, t, c) ==
    /\ at[r] = "idle" /\ CompFree({r}, c) /\ comp[c].status = "registration"
    /\ IF comp[c].mode = "team" THEN t \in Team /\ Manages(a, t) ELSE t = NoTeam
    /\ Open(r, "locked", [CallOn("register", a, a, t) EXCEPT !.comp = c])
    /\ UNCHANGED <<memberVars, captain, limit, pendingVars, compVars>>

Entering(r) ==
    [team |-> req[r].team, by |-> req[r].actor,
     members |-> IF req[r].team = NoTeam THEN {req[r].actor} ELSE Members(req[r].team)]

\* The roster must fit, and the indexes refuse a second registration.
EnterTwice(r) ==   \* mutant: only the rosters of one team must be disjoint
    LET c == req[r].comp
        e == Entering(r)
    IN  /\ at[r] = "locked" /\ req[r].op = "register"
        /\ e.team # NoTeam => Cardinality(e.members) \in comp[c].size[1]..comp[c].size[2]
        /\ \A f \in roster[c] : f.team # e.team
        /\ roster' = [roster EXCEPT ![c] = @ \cup {e}]
        /\ Done(r)
        /\ UNCHANGED <<memberVars, captain, limit, pendingVars, comp>>
Enter(r) ==
    LET c == req[r].comp
        e == Entering(r)
    IN  /\ at[r] = "locked" /\ req[r].op = "register"
        /\ e.team # NoTeam => Cardinality(e.members) \in comp[c].size[1]..comp[c].size[2]
        /\ \A f \in roster[c] : f.members \cap e.members = {} /\ (f.team = e.team => e.team = NoTeam)
        /\ roster' = [roster EXCEPT ![c] = @ \cup {e}]
        /\ Done(r)
        /\ UNCHANGED <<memberVars, captain, limit, pendingVars, comp>>

\* competition.Update: mode and sizes stay as they are once a team is registered.
Configure(r, c, d) ==
    /\ at[r] = "idle" /\ CompFree({r}, c) /\ comp[c].status \in {"draft", "registration"}
    /\ d.status = comp[c].status /\ (d # comp[c] => roster[c] = {})
    /\ Open(r, "locked", [CallOn("config", NoCall.actor, NoCall.actor, NoTeam) EXCEPT !.comp = c, !.to = d])
    /\ UNCHANGED <<memberVars, captain, limit, pendingVars, compVars>>

Configured(r) ==
    /\ at[r] = "locked" /\ req[r].op = "config"
    /\ comp' = [comp EXCEPT ![req[r].comp] = req[r].to]
    /\ Done(r)
    /\ UNCHANGED <<memberVars, captain, limit, pendingVars, roster>>

SetStatus(c, next) ==
    /\ CompFree({}, c)
    /\ <<comp[c].status, next>> \in {<<"draft", "registration">>, <<"registration", "running">>,
                                      <<"registration", "draft">>}
    /\ comp' = [comp EXCEPT ![c].status = next]
    /\ UNCHANGED <<memberVars, captain, limit, pendingVars, roster, at, req>>

\* A call fails, and what it locked is free.
Fail(r) ==
    /\ at[r] # "idle"
    /\ Done(r)
    /\ UNCHANGED <<memberVars, captain, limit, pendingVars, compVars>>

TeamsNext ==
    \/ \E p \in Player, t \in Team :
         \/ ExpireInvitation(p, t) \/ \E l \in Limits : Create(p, t, l)
         \/ \E r \in Request :
              \/ RequestJoin(r, p, t) \/ AcceptInvitation(r, p, t) \/ Leave(r, p, t)
              \/ \E l \in Limits : Update(r, p, t, l)
              \/ \E a \in Player : Invite(r, a, p, t) \/ ReviewJoin(r, a, p, t)
                                   \/ RemoveMember(r, a, p, t) \/ TransferCaptain(r, a, p, t)
    \/ \E r \in Request :
         \/ Pend(r) \/ Reject(r) \/ Room(r) \/ Join(r) \/ Deleted(r) \/ Transferred(r) \/ Updated(r)
         \/ Enter(r) \/ Configured(r) \/ Fail(r)
         \/ \E c \in Competition :
              (\E d \in Comp : Configure(r, c, d)) \/ \E a \in Player, t \in Team \cup {NoTeam} : Register(r, a, t, c)
    \/ \E c \in Competition, s \in {"draft", "registration", "running"} : SetStatus(c, s)

TeamsSpec == TeamsInit /\ [][TeamsNext]_teamsVars

-----------------------------------------------------------------------------
(* Properties.                                                             *)

\* No team has more members than its limit, while requests are reviewed, invitations
\* accepted and the limit is lowered at the same time; and whoever has the role of
\* a captain is the captain of the team, through transfers to members who leave.
MembersSound ==
    /\ \A t \in Team : Exists(t) => Cardinality(Members(t)) <= limit[t]
    /\ \A p \in Player : role[p] = "captain" => captain[of[p]] = p

\* Every registered roster fits the competition as it is configured now, nobody is in
\* two rosters, and a competition of teams has no registration without a team.
RosterSound ==
    \A c \in Competition : \A e \in roster[c] :
        /\ (e.team = NoTeam) = (comp[c].mode = "individual")
        /\ e.team # NoTeam => Cardinality(e.members) \in comp[c].size[1]..comp[c].size[2]
        /\ \A f \in roster[c] : f # e => f.members \cap e.members = {}
=============================================================================
