----------------------------- MODULE MCContests -----------------------------
(* Teams, Content and Editions for TLC.  They share no variable, so what one  *)
(* of them promises depends on its own steps only: in a behaviour, focus says *)
(* which part of which of them moves.                                         *)
EXTENDS Teams, Content, Editions, TLC

CONSTANT Focus     \* bound: what may move

VARIABLE focus

ASSUME ContentHolds == ContentAssumption
ASSUME EditionsHold == EditionsAssumption

MCSizes == {<<1, 2>>, <<2, 2>>}
MCInit == TeamsInit /\ ContentInit /\ EditionsInit /\ focus \in Focus

Opened(l, c, q, ops) == l[q] # "idle" => c[q].op \in ops

First == CHOOSE t \in Team : TRUE
Calls(ops) == Cardinality({r \in Request : at'[r] # "idle" /\ req'[r].op \in ops})
MembersOnly ==   \* of one team; of the calls that are open one at most does not add or remove
                \* a member or its captain, and no two of them do the same thing to those
    /\ UNCHANGED compVars
    /\ \A r \in Request : req'[r].op \notin OnComp
    /\ Calls({"update", "invite", "join"}) <= 1 /\ Calls({"leave"}) <= 1 /\ Calls({"transfer"}) <= 1
    /\ \A t \in Team \ {First} : captain'[t] = NoPlayer
Involved ==
    {p \in Player : \/ of'[p] # NoTeam \/ \E t \in Team : <<p, t>> \in asking' \cup invited'
                    \/ \E c \in Competition : \E e \in roster'[c] : p \in e.members
                    \/ \E r \in Request : at'[r] # "idle" /\ p \in {req'[r].actor, req'[r].target}}
RostersOnly ==   \* of two players in teams; one of the calls that are open is about the competition
    /\ captain'[First] = NoPlayer => \A t \in Team : captain'[t] = NoPlayer
    /\ Cardinality(Involved) <= 2
    /\ \A r \in Request : Opened(at', req', r, OnComp \cup {"invite", "accept", "leave"})
    /\ Calls({"invite", "accept", "leave"}) <= 1

PoolOnly ==
    /\ UNCHANGED <<file, object, pinned, public, enabled>>
    /\ \A p \in Path : path'[p].st # "archived"
    /\ \A r \in Editor : Opened(workAt', work', r, {"publish", "archive", "pool", "start"})
OpenCalls(ops) == {r \in Editor : workAt'[r] # "idle" /\ work'[r].op \in ops}
One == CHOOSE c \in Challenge : TRUE
PathsOnly ==   \* one of the calls that are open is about a challenge, one about a path; one path is
              \* saved once, one challenge published twice, hidden before it is
              \* and archived, the other one neither
    /\ UNCHANGED <<file, object, pinned, contest>>
    /\ (enabled' => enabled)
    /\ \A c \in Challenge \ {One} :
         revision'[c] < MaxVersion /\ public'[c] = public[c] /\ status'[c] # "archived"
    /\ public'[One] # public[One] => status[One] = "draft"
    /\ Cardinality(OpenCalls({"save", "show"})) <= 1 /\ Cardinality(OpenCalls({"publish", "archive"})) <= 1
    /\ OpenCalls({"pool", "start", "put", "delete"}) = {}
    /\ \A p \in Path : path'[p].gen < MaxVersion
FilesOnly ==   \* of one challenge
    /\ UNCHANGED <<enabled, public, contest>>
    /\ \A c \in Challenge \ {One} : status'[c] = "none"
    /\ \A p \in Path : path'[p].st # "archived"
    /\ \A r \in Editor : Opened(workAt', work', r, {"publish", "put", "delete"})

AssetsOnly == UNCHANGED <<shown, settings, writeup, likers, likes>>
ShownOnly == UNCHANGED <<version, writeup, likers, likes>>
WriteupsOnly == UNCHANGED <<asset, version, stored, shown, settings>>

MCNext ==
    /\ \/ /\ focus \in {"members", "rosters"} /\ TeamsNext /\ UNCHANGED <<contentVars, editionsVars>>
          /\ IF focus = "members" THEN MembersOnly ELSE RostersOnly
       \/ /\ focus \in {"pool", "paths", "files"} /\ ContentNext /\ UNCHANGED <<teamsVars, editionsVars>>
          /\ focus = "pool" => PoolOnly
          /\ focus = "paths" => PathsOnly
          /\ focus = "files" => FilesOnly
       \/ /\ focus \in {"assets", "shown", "writeups"} /\ EditionsNext /\ UNCHANGED <<teamsVars, contentVars>>
          /\ focus = "assets" => AssetsOnly
          /\ focus = "shown" => ShownOnly
          /\ focus = "writeups" => WriteupsOnly
    /\ UNCHANGED focus

MCSpec == MCInit /\ [][MCNext]_<<teamsVars, contentVars, editionsVars, focus>>

\* Requests, editors and clients, two of each, never move in the same behaviour, so that
\* they are exchanged together.
Other(S, x) == CHOOSE y \in S : y # x
MCSwap == [x \in Request \cup Editor \cup Client |->
             Other(CHOOSE S \in {Request, Editor, Client} : x \in S, x)]
MCSymmetry == {MCSwap} \cup Permutations(Player)
=============================================================================
