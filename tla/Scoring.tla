------------------------------ MODULE Scoring ------------------------------
(***************************************************************************)
(* The score ledger of one running competition: submissions, hints, manual *)
(* adjustments and corrections against the freeze, the settlement, the     *)
(* public scoreboard and the rebuild of derived scores.                    *)
(*                                                                         *)
(* Every writer is a READ COMMITTED transaction that takes its locks one   *)
(* after the other, so it is one action per lock; SetStatus holds the row  *)
(* of the competition FOR UPDATE from its first read to its commit and is  *)
(* one action.  What a transaction writes becomes visible when it commits. *)
(*                                                                         *)
(* An event is worth one point, gained (a solve) or lost (a hint); a       *)
(* standing is the set of the events it shows.                             *)
(* Timestamps are drawn from one clock that never gives the same value     *)
(* twice: API processes whose clocks differ are not modelled.  Not here:   *)
(* scoring outside competitions, attempt counts, notifications, experience *)
(* and the path that leads to a running competition.                       *)
(***************************************************************************)
EXTENDS Integers, FiniteSets

CONSTANTS User, Team, Challenge,
          TeamOf,       \* the roster: the team each participant is registered for
          Mode,         \* competitions.mode
          BloodRanks,   \* ranks that earn a bonus (3)
          Request,      \* writing transactions that may be open at once
          Kind,         \* what they may do
          Reader,       \* readers of the public scoreboard
          Rebuilder,    \* administrators who rebuild derived scores
          NoUser, NoChallenge,
          MaxStamps     \* bound: timestamps drawn

ASSUME ScoringAssumption ==
    /\ TeamOf \in [User -> Team]
    /\ Mode \in {"team", "individual"}
    /\ Kind \subseteq {"submit", "hint", "adjust", "void"}
    /\ BloodRanks \in Nat /\ MaxStamps \in Nat
    /\ NoUser \notin User /\ NoChallenge \notin Challenge

Never == -1     \* a moment that has not come
NoEvent == 0

VARIABLES
    \* score_events, with the solve_records and blood_records of the solves
    events,
    \* teams.score and challenges.solve_count
    teamScore, solveCount,
    \* the competition: status, the moment FreezeAt passed, whether EndsAt has
    status, freezeAt, ended,
    \* scoreboard_snapshots: the cutoff and the rows of the freeze, the final rows
    cutoff, freezeRows, finalRows,
    clock,
    \* the transactions: control point, request, created_at, solves as read
    pc, req, stamp, seen,
    \* public readers: control point, when the scores they may not see began as
    \* they asked and as they were answered, the view they planned, its answer
    asks,
    \* the rebuild: control point and the events its two statements read
    rebuild,
    \* history: the events that the last rebuild overwrote in either table
    missed

boardVars == <<status, freezeAt, ended, cutoff, freezeRows, finalRows>>
ledgerVars == <<events, teamScore, solveCount, missed>>
reqVars == <<pc, req, stamp, seen>>
vars == <<ledgerVars, boardVars, clock, reqVars, asks, rebuild>>

EventType == {"solve", "hint", "adjust", "correction"}

Delta == {-1, 1}

Event == [ts : Nat, type : EventType, user : User, chal : Challenge \cup {NoChallenge},
          parent : Nat, before : SUBSET Nat, blood : Nat, delta : Delta]

\* waiting for: the event lock, the competition, the owner's lock, the score lock,
\* the row of the challenge, the clock
PC == {"idle", "event", "enter", "owner", "score", "row", "stamp", "commit"}

Req == [kind : {"submit", "hint", "adjust", "void"}, user : User \cup {NoUser},
        chal : Challenge \cup {NoChallenge}, parent : Nat, delta : Delta]
NoReq == [kind |-> "adjust", user |-> NoUser, chal |-> NoChallenge, parent |-> NoEvent, delta |-> 1]

View == {"live", "cutoff", "freeze", "final"}
NoAsk == [pc |-> "idle", view |-> "live", at |-> Never, rows |-> {}]
NoRebuild == [pc |-> "idle", teams |-> {}, chals |-> {}]

TypeOK ==
    /\ events \subseteq Event
    /\ teamScore \in [Team -> Int] /\ solveCount \in [Challenge -> Nat]
    /\ status \in {"running", "frozen", "finished", "archived"}
    /\ freezeAt \in Nat \cup {Never} /\ cutoff \in Nat \cup {Never}
    /\ ended \in BOOLEAN
    /\ freezeRows \subseteq Event /\ finalRows \subseteq Event
    /\ clock \in Nat
    /\ pc \in [Request -> PC] /\ req \in [Request -> Req]
    /\ stamp \in [Request -> Nat] /\ seen \in [Request -> SUBSET Event]
    /\ asks \in [Reader -> [pc : {"idle", "planned", "answered"}, view : View,
                            at : Nat \cup {Never},
                            rows : SUBSET Event]]
    /\ rebuild \in [Rebuilder -> [pc : {"idle", "teams", "challenges"},
                                  teams : SUBSET Event, chals : SUBSET Event]]
    /\ missed \in [teams : SUBSET Event, chals : SUBSET Event]

\* SetStatus has just started the competition.
Init ==
    /\ events = {}
    /\ teamScore = [t \in Team |-> 0] /\ solveCount = [c \in Challenge |-> 0]
    /\ status = "running" /\ freezeAt = Never /\ ended = FALSE
    /\ cutoff = Never /\ freezeRows = {} /\ finalRows = {}
    /\ clock = 0
    /\ pc = [r \in Request |-> "idle"] /\ req = [r \in Request |-> NoReq]
    /\ stamp = [r \in Request |-> 0] /\ seen = [r \in Request |-> {}]
    /\ asks = [a \in Reader |-> NoAsk]
    /\ rebuild = [b \in Rebuilder |-> NoRebuild]
    /\ missed = [teams |-> {}, chals |-> {}]

-----------------------------------------------------------------------------
(* Helpers.                                                                *)

\* Who is awarded and charged: the team in a team competition, else the user.
OwnerUser(u) == u   \* mutant
Owner(u) == IF Mode = "team" THEN TeamOf[u] ELSE u

\* playableAt and lockActiveCompetition
Playable == status \in {"running", "frozen"} /\ ~ended

Solves(c)     == {e \in events : e.type = "solve" /\ e.chal = c}
TeamEvents(t) == {e \in events : Mode = "team" /\ TeamOf[e.user] = t}
Rows(upTo)    == {e \in events : e.ts <= upTo}

\* What a set of events adds up to.
Points(S) == Cardinality({e \in S : e.delta = 1}) - Cardinality({e \in S : e.delta = -1})

Goto(r, p) == pc' = [pc EXCEPT ![r] = p]

\* The transactions that hold the competition FOR SHARE ...
SharingNoAdjust == {r \in Request : req[r].kind # "adjust"
                       /\ pc[r] \in {"owner", "score", "row", "stamp", "commit"}} \* mutant
Sharing == {r \in Request : pc[r] \in {"owner", "score", "row", "stamp", "commit"}}

\* ... the lock of an owner on a challenge or on its hint ...
HasOwnerLock(k, u, c) ==
    {r \in Request : /\ req[r].kind = k /\ req[r].chal = c
                     /\ Owner(req[r].user) = Owner(u)
                     /\ pc[r] \in {"score", "row", "stamp", "commit"}}

\* ... the score lock of a challenge and the row of the challenge ...
HasScoreLockOfUser(r) == {q \in Request : /\ req[q].kind = "submit"
                                          /\ req[q].chal = req[r].chal
                                          /\ req[q].user = req[r].user
                                          /\ pc[q] \in {"row", "commit"}} \* mutant
HasScoreLock(r) == {q \in Request : /\ req[q].kind = "submit"
                                    /\ req[q].chal = req[r].chal
                                    /\ pc[q] \in {"row", "commit"}}
HasRow(c) == {q \in Request : req[q].kind = "submit" /\ req[q].chal = c /\ pc[q] = "commit"}

\* ... and the lock of an event that is voided.
HasEventLock(e) == {r \in Request : /\ req[r].kind = "void" /\ req[r].parent = e
                                    /\ pc[r] \in {"enter", "stamp", "commit"}}

\* RebuildDerived has updated every team and not committed.
TeamsLocked == \E b \in Rebuilder : rebuild[b].pc = "challenges"

-----------------------------------------------------------------------------
(* Submit, Unlock, Adjust and VoidEvent.                                   *)

\* A request of a participant (who passed the same check without a lock), of an
\* administrator who adjusts a score or of one who voids an event.
Begin(r) ==
    /\ pc[r] = "idle"
    /\ \E k \in Kind :
         \/ \E u \in User, c \in Challenge :
              /\ k \in {"submit", "hint"} /\ Playable
              /\ req' = [req EXCEPT ![r] = [kind |-> k, user |-> u, chal |-> c, parent |-> NoEvent,
                                            delta |-> IF k = "hint" THEN -1 ELSE 1]]
              /\ Goto(r, "enter")
         \/ \E u \in User, d \in Delta :
              /\ k = "adjust"
              /\ req' = [req EXCEPT ![r] = [NoReq EXCEPT !.user = u, !.delta = d]]
              /\ Goto(r, "enter")
         \/ \E e \in events :
              /\ k = "void"
              /\ req' = [req EXCEPT ![r] = [kind |-> k, user |-> e.user, chal |-> e.chal,
                                            parent |-> e.ts, delta |-> -e.delta]]
              /\ Goto(r, "event")
    /\ UNCHANGED <<ledgerVars, boardVars, clock, stamp, seen, asks, rebuild>>

\* A check of the request refuses it, or its transaction fails: nothing of it is
\* left.  (A wrong flag leaves an attempt, which is not modelled.)
Fail(r) ==
    /\ pc[r] # "idle"
    /\ Goto(r, "idle")
    /\ req' = [req EXCEPT ![r] = NoReq]
    /\ stamp' = [stamp EXCEPT ![r] = 0] /\ seen' = [seen EXCEPT ![r] = {}]
    /\ UNCHANGED <<ledgerVars, boardVars, clock, asks, rebuild>>

\* VoidEvent takes the lock of the event and refuses to correct a correction.
LockAnyEvent(r) ==   \* mutant: the type is not looked at
    /\ pc[r] = "event"
    /\ HasEventLock(req[r].parent) = {}
    /\ Goto(r, "enter")
    /\ UNCHANGED <<ledgerVars, boardVars, clock, req, stamp, seen, asks, rebuild>>

LockEvent(r) ==
    /\ pc[r] = "event"
    /\ HasEventLock(req[r].parent) = {}
    /\ \A e \in events : e.ts = req[r].parent => e.type # "correction"
    /\ Goto(r, "enter")
    /\ UNCHANGED <<ledgerVars, boardVars, clock, req, stamp, seen, asks, rebuild>>

\* ActiveChallenge and lockActiveCompetition: SELECT ... FOR SHARE and the check
\* of what it returns.
EnterOnTrust(r) ==   \* mutant: the check that was made without the lock is relied on
    /\ pc[r] = "enter"
    /\ Goto(r, IF req[r].kind \in {"submit", "hint"} THEN "owner" ELSE "stamp")
    /\ UNCHANGED <<ledgerVars, boardVars, clock, req, stamp, seen, asks, rebuild>>

Enter(r) ==
    /\ pc[r] = "enter"
    /\ Playable
    /\ Goto(r, IF req[r].kind \in {"submit", "hint"} THEN "owner" ELSE "stamp")
    /\ UNCHANGED <<ledgerVars, boardVars, clock, req, stamp, seen, asks, rebuild>>

\* solveLockKey, and the hint lock of Unlock.  An owner who has the hint is done,
\* which is a Fail without an error.
LockOwner(r) ==
    /\ pc[r] = "owner"
    /\ HasOwnerLock(req[r].kind, req[r].user, req[r].chal) = {}
    /\ \/ req[r].kind = "submit" /\ Goto(r, "score")
       \/ /\ req[r].kind = "hint" /\ Goto(r, "stamp")
          /\ \A e \in events : ~(/\ e.type = "hint" /\ e.chal = req[r].chal
                                 /\ Owner(e.user) = Owner(req[r].user))
    /\ UNCHANGED <<ledgerVars, boardVars, clock, req, stamp, seen, asks, rebuild>>

Stamped(r) ==
    /\ clock < MaxStamps
    /\ clock' = clock + 1
    /\ stamp' = [stamp EXCEPT ![r] = clock + 1]

\* Submit takes the score lock, then the time ...
LockScore(r) ==
    /\ pc[r] = "score"
    /\ HasScoreLock(r) = {}
    /\ Stamped(r)
    /\ Goto(r, "row")
    /\ UNCHANGED <<ledgerVars, boardVars, req, seen, asks, rebuild>>

\* ... counts the attempt, which locks the row of the challenge, and reads who
\* solved it.
LockRow(r) ==
    /\ pc[r] = "row"
    /\ HasRow(req[r].chal) = {}
    /\ seen' = [seen EXCEPT ![r] = Solves(req[r].chal)]
    /\ Goto(r, "commit")
    /\ UNCHANGED <<ledgerVars, boardVars, clock, req, stamp, asks, rebuild>>

\* The others take the time when all their checks are passed; VoidEvent counts the
\* corrections of the event before.
Stamp(r) ==
    /\ pc[r] = "stamp"
    /\ req[r].kind = "void" => \A e \in events : e.parent # req[r].parent
    /\ Stamped(r)
    /\ Goto(r, "commit")
    /\ UNCHANGED <<ledgerVars, boardVars, req, seen, asks, rebuild>>

\* The claim of a team, or the solve record of a user, exists already.
Duplicate(r) ==
    req[r].kind = "submit" /\ \E e \in seen[r] : Owner(e.user) = Owner(req[r].user)

BloodsOfUser(r) == {e \in seen[r] : e.blood # 0 /\ e.user = req[r].user}   \* mutant
Bloods(r) == {e \in seen[r] : e.blood # 0}

EventOf(r) ==
    [ts |-> stamp[r],
     type |-> CASE req[r].kind = "submit" -> "solve"
                [] req[r].kind = "void"   -> "correction"
                [] OTHER                  -> req[r].kind,
     user |-> req[r].user, chal |-> req[r].chal, parent |-> req[r].parent,
     before |-> {e.ts : e \in seen[r]},     \* counted by DynamicScore
     blood |-> IF req[r].kind = "submit" /\ Cardinality(Bloods(r)) < BloodRanks
               THEN Cardinality(Bloods(r)) + 1 ELSE 0,
     delta |-> req[r].delta]

Done(r) ==
    /\ Goto(r, "idle")
    /\ req' = [req EXCEPT ![r] = NoReq]
    /\ stamp' = [stamp EXCEPT ![r] = 0] /\ seen' = [seen EXCEPT ![r] = {}]
    /\ UNCHANGED <<boardVars, clock, asks, rebuild>>

\* The event is written, with what is derived from it: the solve count of the
\* challenge and, in a team competition, the score of the team.
Award(r) ==
    /\ pc[r] = "commit" /\ ~Duplicate(r)
    /\ Mode = "team" => ~TeamsLocked
    /\ events' = events \cup {EventOf(r)}
    /\ solveCount' = IF req[r].kind = "submit"
                     THEN [solveCount EXCEPT ![req[r].chal] = @ + 1] ELSE solveCount
    /\ teamScore' = IF Mode = "team"
                    THEN [teamScore EXCEPT ![TeamOf[req[r].user]] = @ + req[r].delta]
                    ELSE teamScore
    /\ Done(r)
    /\ UNCHANGED missed

\* The submission is recorded as a duplicate.
CommitDuplicateCounted(r) ==   \* mutant: the solve is counted again
    /\ pc[r] = "commit" /\ Duplicate(r)
    /\ solveCount' = [solveCount EXCEPT ![req[r].chal] = @ + 1]
    /\ Done(r)
    /\ UNCHANGED <<events, teamScore, missed>>

CommitDuplicate(r) ==
    /\ pc[r] = "commit" /\ Duplicate(r)
    /\ Done(r)
    /\ UNCHANGED ledgerVars

-----------------------------------------------------------------------------
(* SetStatus, and the time.                                                *)

\* running -> frozen: the standings at FreezeAt if that has passed, else now.
Freeze ==
    LET at == IF freezeAt # Never THEN freezeAt ELSE clock
    IN  /\ status = "running" /\ Sharing = {}
        /\ status' = "frozen"
        /\ cutoff' = at /\ freezeRows' = Rows(at)
        /\ UNCHANGED <<ledgerVars, freezeAt, ended, finalRows, clock, reqVars, asks, rebuild>>

\* running, frozen -> finished: the settlement and its final standings.
Finish ==
    /\ status \in {"running", "frozen"} /\ Sharing = {}
    /\ status' = "finished"
    /\ finalRows' = events
    /\ UNCHANGED <<ledgerVars, freezeAt, ended, cutoff, freezeRows, clock, reqVars, asks, rebuild>>

Archive ==
    /\ status = "finished" /\ Sharing = {}
    /\ status' = "archived"
    /\ UNCHANGED <<ledgerVars, freezeAt, ended, cutoff, freezeRows, finalRows, clock, reqVars,
                   asks, rebuild>>

FreezeTimePasses ==
    /\ freezeAt = Never /\ ~ended
    /\ freezeAt' = clock
    /\ UNCHANGED <<ledgerVars, status, ended, cutoff, freezeRows, finalRows, clock, reqVars,
                   asks, rebuild>>

EndTimePasses ==
    /\ ~ended
    /\ ended' = TRUE
    /\ UNCHANGED <<ledgerVars, status, freezeAt, cutoff, freezeRows, finalRows, clock, reqVars,
                   asks, rebuild>>

-----------------------------------------------------------------------------
(* Competition, the public scoreboard.                                     *)

\* planPublicView: what the row of the competition says is to be shown.
PlanByStatus ==   \* mutant: FreezeAt is not looked at
    IF status \in {"finished", "archived"} THEN "final"
    ELSE IF status = "frozen" THEN "freeze" ELSE "live"

PlanByState ==   \* mutant: the kind of the snapshot is called like the status
    IF status \in {"finished", "archived"} THEN "final"
    ELSE IF status = "frozen" THEN "frozen" ELSE IF freezeAt # Never THEN "cutoff" ELSE "live"

PlanView ==
    CASE status \in {"finished", "archived"}       -> "final"
      [] status = "frozen"                         -> "freeze"
      [] status = "running" /\ freezeAt # Never    -> "cutoff"
      [] status = "running" /\ freezeAt = Never    -> "live"

\* From when on the public may not see scores.
HiddenSince ==
    CASE status = "running" -> freezeAt
      [] status = "frozen"  -> cutoff
      [] OTHER              -> Never

Plan(a) ==
    /\ asks[a].pc = "idle"
    /\ asks' = [asks EXCEPT ![a] = [NoAsk EXCEPT !.pc = "planned", !.view = PlanView,
                                                 !.at = HiddenSince]]
    /\ UNCHANGED <<ledgerVars, boardVars, clock, reqVars, rebuild>>

\* The stored snapshot, or the events up to the FreezeAt that was read.
Shown(a) ==
    CASE asks[a].view = "final"  -> finalRows
      [] asks[a].view = "freeze" -> freezeRows
      [] asks[a].view = "cutoff" -> Rows(asks[a].at)
      [] asks[a].view = "live"   -> events

Answer(a) ==
    /\ asks[a].pc = "planned"
    /\ asks' = [asks EXCEPT ![a] = [@ EXCEPT !.pc = "answered", !.rows = Shown(a)]]
    /\ UNCHANGED <<ledgerVars, boardVars, clock, reqVars, rebuild>>

Leave(a) ==
    /\ asks[a].pc = "answered"
    /\ asks' = [asks EXCEPT ![a] = NoAsk]
    /\ UNCHANGED <<ledgerVars, boardVars, clock, reqVars, rebuild>>

-----------------------------------------------------------------------------
(* RebuildDerived: one transaction of two UPDATEs under one advisory lock.  *)
(* Each computes its sums on the snapshot its statement starts with, and   *)
(* then waits for the rows it writes; a row that another transaction       *)
(* changed meanwhile is overwritten with the sum of the old snapshot, and  *)
(* its change is missed.                                                   *)

RebuildStart(b) ==
    /\ \A d \in Rebuilder : rebuild[d].pc = "idle"
    /\ rebuild' = [rebuild EXCEPT ![b] =
          [NoRebuild EXCEPT !.pc = "teams", !.teams = events]]
    /\ UNCHANGED <<ledgerVars, boardVars, clock, reqVars, asks>>

\* Every team is updated, and locked; the second statement starts.
RebuildTeams(b) ==
    /\ rebuild[b].pc = "teams"
    /\ rebuild' = [rebuild EXCEPT ![b] =
          [@ EXCEPT !.pc = "challenges", !.chals = events]]
    /\ UNCHANGED <<ledgerVars, boardVars, clock, reqVars, asks>>

\* Every challenge is updated as soon as no submission holds it; commit.
RebuildChallenges(b) ==
    /\ rebuild[b].pc = "challenges"
    /\ \A c \in Challenge : HasRow(c) = {}
    /\ teamScore' = [t \in Team |-> Points(TeamEvents(t) \cap rebuild[b].teams)]
    /\ solveCount' = [c \in Challenge |-> Cardinality(Solves(c) \cap rebuild[b].chals)]
    /\ missed' = [teams |-> events \ rebuild[b].teams, chals |-> events \ rebuild[b].chals]
    /\ rebuild' = [rebuild EXCEPT ![b] = NoRebuild]
    /\ UNCHANGED <<events, boardVars, clock, reqVars, asks>>

\* The transaction fails, for one as the victim of a deadlock with a submission
\* that holds a challenge and waits for its team.
RebuildFails(b) ==
    /\ rebuild[b].pc # "idle"
    /\ rebuild' = [rebuild EXCEPT ![b] = NoRebuild]
    /\ UNCHANGED <<ledgerVars, boardVars, clock, reqVars, asks>>

-----------------------------------------------------------------------------

Transaction(r) ==
    \/ Begin(r) \/ Fail(r) \/ LockEvent(r) \/ Enter(r) \/ LockOwner(r) \/ LockScore(r)
    \/ LockRow(r) \/ Stamp(r) \/ Award(r) \/ CommitDuplicate(r)

Lifecycle == Freeze \/ Finish \/ Archive \/ FreezeTimePasses \/ EndTimePasses

Next ==
    \/ \E r \in Request : Transaction(r)
    \/ Lifecycle
    \/ \E a \in Reader : Plan(a) \/ Answer(a) \/ Leave(a)
    \/ \E b \in Rebuilder : RebuildStart(b) \/ RebuildTeams(b) \/ RebuildChallenges(b)
                              \/ RebuildFails(b)

Spec == Init /\ [][Next]_vars

-----------------------------------------------------------------------------
(* Properties.                                                             *)

\* A team is awarded a challenge of a team competition once, whichever of its
\* members submits and however the submissions overlap (claimTeamCompetitionSolve,
\* solveLockKey); in an individual competition each user is.
OneAwardPerOwner ==
    \A e, f \in events :
        /\ e.type = "solve" /\ f.type = "solve" /\ e.chal = f.chal
        /\ IF Mode = "team" THEN TeamOf[e.user] = TeamOf[f.user] ELSE e.user = f.user
        => e = f

\* The order in which the solves of a challenge are dated is the order in which
\* they are priced: the dynamic score of a solve counts exactly the solves dated
\* before it (Submit takes scoredAt under the score lock).
PriceOrder ==
    \A c \in Challenge : \A e \in Solves(c) :
        e.before = {f.ts : f \in {g \in Solves(c) : g.ts < e.ts}}

\* Blood ranks are given in the order of the dates, without gap or tie, until all
\* of them are given (Submit).
BloodOrder ==
    \A c \in Challenge : \A e \in Solves(c) :
        LET earlier == Cardinality({f \in Solves(c) : f.ts < e.ts})
        IN  e.blood = IF earlier < BloodRanks THEN earlier + 1 ELSE 0

\* The frozen standings stay what the ledger says of the moment of the freeze: no
\* event that is dated before it is committed after it (SetStatus, frozen).
FreezeSnapshotStable ==
    cutoff # Never => freezeRows = Rows(cutoff)

\* The final standings that settle a competition contain every event it ever has
\* (SetStatus, finished).
FinalComplete ==
    status \in {"finished", "archived"} => finalRows = events

\* An event is corrected at most once and a correction never (VoidEvent).
CorrectionsFinal ==
    \A e, f \in events :
        e.type = "correction" =>
            /\ f.ts = e.parent => f.type # "correction"
            /\ f.type = "correction" /\ f.parent = e.parent => e = f

\* Who asks for the public scoreboard while scores are hidden is shown none of
\* the hidden ones, whatever happens until the answer (planPublicView).
FrozenReadsHide ==
    \A a \in Reader : asks[a].pc = "answered" /\ asks[a].at # Never =>
        \A e \in asks[a].rows : e.ts <= asks[a].at

\* The derived scores lose exactly what was committed while the last rebuild ran:
\* every other event of a team counts in its score once, with its sign, and every
\* other solve of a challenge in its solve count, whatever was missed by earlier
\* rebuilds and however transactions and rebuilds overlap (RebuildDerived).
ScoreAccounted ==
    /\ \A t \in Team : teamScore[t] = Points(TeamEvents(t) \ missed.teams)
    /\ \A c \in Challenge : solveCount[c] = Cardinality(Solves(c) \ missed.chals)

\* Violated.  The score of a team is what its events add up to, and the solve
\* count of a challenge the number of its solves (RebuildDerived).
DerivedExact ==
    /\ \A t \in Team : teamScore[t] = Points(TeamEvents(t))
    /\ \A c \in Challenge : solveCount[c] = Cardinality(Solves(c))
=============================================================================
