-------------------------- MODULE Scoring_proofs --------------------------
(***************************************************************************)
(* What holds of Scoring for any number of participants, teams,            *)
(* challenges, transactions, readers and rebuilds.                         *)
(*                                                                         *)
(* The argument: a transaction draws its date only while it holds the      *)
(* competition FOR SHARE, and SetStatus waits for those who hold it; so    *)
(* what is dated and not committed is dated after the freeze (FreezeInv)   *)
(* and is not there after the settlement (FinalInv).  Among themselves the *)
(* submissions of a challenge are dated one at a time (ScoreLockInv), so   *)
(* what one has read is all that is dated before it (SeenInv, PriceInv).   *)
(***************************************************************************)
EXTENDS Scoring, FiniteSetTheorems, TLAPS

Dated == {r \in Request : pc[r] \in {"row", "commit"}}

\* A request is what its control point says.
ReqInv ==
    \A r \in Request :
        /\ pc[r] # "idle" => req[r].user \in User
        /\ pc[r] # "idle" /\ req[r].kind \in {"submit", "hint"} => req[r].chal \in Challenge
        /\ pc[r] = "event" => req[r].kind = "void"
        /\ pc[r] = "owner" => req[r].kind \in {"submit", "hint"}
        /\ pc[r] \in {"score", "row"} => req[r].kind = "submit"
        /\ pc[r] = "stamp" => req[r].kind # "submit"
        /\ req[r].kind # "void" => req[r].parent = NoEvent

\* Events are dated one by one, in the past.
LedgerInv ==
    /\ IsFiniteSet(events)
    /\ \A e \in events : 0 < e.ts /\ e.ts <= clock
    /\ \A e, f \in events : e.ts = f.ts => e = f

\* The date of a transaction is its own.
DateInv ==
    /\ \A r \in Dated : /\ 0 < stamp[r] /\ stamp[r] <= clock
                        /\ \A e \in events : e.ts # stamp[r]
    /\ \A r, q \in Dated : stamp[r] = stamp[q] => r = q

\* One submission at a time holds the score lock of a challenge ...
ScoreLockInv ==
    \A r, q \in Dated :
        req[r].kind = "submit" /\ req[q].kind = "submit" /\ req[r].chal = req[q].chal => r = q

\* ... so that what it read is still all there is ...
SeenInv ==
    \A r \in Request :
        /\ seen[r] \subseteq events
        /\ pc[r] = "commit" /\ req[r].kind = "submit" => seen[r] = Solves(req[r].chal)

\* ... and dated before it.
PriceInv ==
    \A r \in Dated : req[r].kind = "submit" => \A e \in Solves(req[r].chal) : e.ts < stamp[r]

\* What is dated and not committed is dated after the freeze.
FreezeInv ==
    /\ status = "running" => cutoff = Never
    /\ freezeAt # Never => freezeAt <= clock
    /\ cutoff # Never => cutoff <= clock /\ \A r \in Dated : stamp[r] > cutoff
    /\ FreezeSnapshotStable

\* Nobody writes after the settlement.
FinalInv ==
    status \in {"finished", "archived"} => Sharing = {} /\ finalRows = events

Void(r) == req[r].kind = "void" /\ pc[r] \in {"enter", "stamp", "commit"}

\* Who holds the lock of an event is alone, and the event is not a correction.
VoidInv ==
    /\ \A r \in Request : req[r].kind = "void" => \E e \in events : e.ts = req[r].parent
    /\ \A r \in Request : Void(r) =>
         \E e \in events : e.ts = req[r].parent /\ e.type # "correction"
    /\ \A r \in Request : Void(r) /\ pc[r] = "commit" => \A e \in events : e.parent # req[r].parent
    /\ \A r, q \in Request : Void(r) /\ Void(q) /\ req[r].parent = req[q].parent => r = q

\* A correction is of an event that is none, and alone.
CorrectionInv ==
    /\ \A e \in events : e.type = "correction" =>
         \E f \in events : f.ts = e.parent /\ f.type # "correction"
    /\ \A e, f \in events :
         e.type = "correction" /\ f.type = "correction" /\ e.parent = f.parent => e = f

\* A reader who asked while scores were hidden has a view that hides them.
AskInv ==
    \A a \in Reader :
        /\ asks[a].pc = "planned" /\ asks[a].at # Never =>
             \/ asks[a].view = "cutoff"
             \/ asks[a].view = "freeze" /\ status # "running" /\ asks[a].at = cutoff
        /\ asks[a].pc = "answered" /\ asks[a].at # Never =>
             \A e \in asks[a].rows : e.ts <= asks[a].at

Inv ==
    /\ TypeOK /\ ReqInv /\ LedgerInv /\ DateInv /\ ScoreLockInv /\ SeenInv /\ PriceInv
    /\ OneAwardPerOwner /\ PriceOrder /\ FreezeInv /\ FinalInv /\ VoidInv /\ CorrectionInv
    /\ AskInv

-----------------------------------------------------------------------------
(* The event of a transaction.                                             *)

\* What a transaction adds to the ledger is an event with its date.
LEMMA EventOfType ==
  ASSUME TypeOK, LedgerInv, SeenInv, ReqInv, NEW r \in Request, pc[r] = "commit"
  PROVE  /\ EventOf(r) \in Event
         /\ EventOf(r).ts = stamp[r]
         /\ EventOf(r).type = "solve" <=> req[r].kind = "submit"
         /\ EventOf(r).type = "correction" <=> req[r].kind = "void"
         /\ EventOf(r).user = req[r].user /\ EventOf(r).chal = req[r].chal
         /\ EventOf(r).parent = req[r].parent
         /\ EventOf(r).before = {e.ts : e \in seen[r]}
         /\ EventOf(r).delta = req[r].delta
<1>1. Bloods(r) \subseteq events
  BY DEF Bloods, SeenInv
<1>2. Cardinality(Bloods(r)) \in Nat
  BY <1>1, FS_Subset, FS_CardinalityType DEF LedgerInv
<1> DEFINE type == CASE req[r].kind = "submit" -> "solve"
                     [] req[r].kind = "void"   -> "correction"
                     [] OTHER                  -> req[r].kind
           blood == IF req[r].kind = "submit" /\ Cardinality(Bloods(r)) < BloodRanks
                    THEN Cardinality(Bloods(r)) + 1 ELSE 0
           before == {e.ts : e \in seen[r]}
<1>3. req[r] \in Req /\ stamp[r] \in Nat /\ seen[r] \subseteq Event
  BY DEF TypeOK
<1>4. type \in EventType /\ (type = "solve" <=> req[r].kind = "submit")
                         /\ (type = "correction" <=> req[r].kind = "void")
  BY <1>3 DEF Req, EventType
<1>5. blood \in Nat
  BY <1>2, ScoringAssumption
<1>6. before \in SUBSET Nat
  BY <1>3 DEF Event
<1>7. req[r].user \in User
  BY DEF ReqInv
<1>8. EventOf(r) = [ts |-> stamp[r], type |-> type, user |-> req[r].user, chal |-> req[r].chal,
                    parent |-> req[r].parent, before |-> before, blood |-> blood,
                    delta |-> req[r].delta]
  BY DEF EventOf
<1> HIDE DEF type, blood, before
<1>9. before = {e.ts : e \in seen[r]}
  BY DEF before
<1> QED  BY <1>3, <1>4, <1>5, <1>6, <1>7, <1>8, <1>9 DEF Event, Req

\* What a rebuild writes are numbers.
LEMMA CountType ==
  ASSUME LedgerInv, NEW S
  PROVE  /\ \A t \in Team : Points(TeamEvents(t) \cap S) \in Int
         /\ \A c \in Challenge : Cardinality(Solves(c) \cap S) \in Nat
<1>1. \A R \in SUBSET events : Cardinality(R) \in Nat
  BY FS_Subset, FS_CardinalityType DEF LedgerInv
<1>2. \A R \in SUBSET events : Points(R) \in Int
  <2> SUFFICES ASSUME NEW R \in SUBSET events PROVE Points(R) \in Int
    OBVIOUS
  <2>1. {e \in R : e.delta = 1} \in SUBSET events /\ {e \in R : e.delta = -1} \in SUBSET events
    OBVIOUS
  <2> QED  BY <1>1, <2>1 DEF Points
<1>3. \A t \in Team : TeamEvents(t) \cap S \in SUBSET events
  BY DEF TeamEvents
<1>4. \A c \in Challenge : Solves(c) \cap S \in SUBSET events
  BY DEF Solves
<1> QED  BY <1>1, <1>2, <1>3, <1>4

\* The empty request has its type.
LEMMA NoReqType == NoReq \in Req
<1>1. 1 \in Delta
  BY DEF Delta
<1> QED  BY <1>1 DEF NoReq, Req, NoEvent

\* A transaction begins with a request of its kind.
LEMMA BeginForm ==
  ASSUME TypeOK, NEW r \in Request, Begin(r)
  PROVE  /\ pc[r] = "idle" /\ UNCHANGED <<ledgerVars, boardVars, clock, stamp, seen, asks, rebuild>>
         /\ \E q \in Req, p \in {"enter", "event"} :
              /\ req' = [req EXCEPT ![r] = q] /\ pc' = [pc EXCEPT ![r] = p]
              /\ q.user \in User /\ (q.kind \in {"submit", "hint"} => q.chal \in Challenge)
              /\ q.kind # "void" => q.parent = NoEvent
              /\ q.kind = "void" => \E e \in events : e.ts = q.parent
              /\ p = "event" <=> q.kind = "void"
<1>1. \A e \in events : /\ e.user \in User /\ e.chal \in Challenge \cup {NoChallenge} /\ e.ts \in Nat
                       /\ -e.delta \in Delta
  <2>1. \A e \in events : e.delta \in Delta
    BY DEF TypeOK, Event
  <2>2. \A d \in Delta : -d \in Delta
    BY DEF Delta
  <2> QED  BY <2>1, <2>2 DEF TypeOK, Event
<1>2. PICK k \in Kind :
         \/ \E u \in User, c \in Challenge :
              /\ k \in {"submit", "hint"} /\ Playable
              /\ req' = [req EXCEPT ![r] = [kind |-> k, user |-> u, chal |-> c, parent |-> NoEvent,
                                            delta |-> IF k = "hint" THEN -1 ELSE 1]]
              /\ Goto(r, "enter")
         \/ \E u \in User, d \in Delta :
              /\ k = "adjust"
              /\ req' = [req EXCEPT ![r] = [NoReq EXCEPT !.user = u, !.delta = d]]
              /\ Goto(r, "enter")
         \/ \E e \in events :
              /\ k = "void"
              /\ req' = [req EXCEPT ![r] = [kind |-> k, user |-> e.user, chal |-> e.chal,
                                            parent |-> e.ts, delta |-> -e.delta]]
              /\ Goto(r, "event")
  BY DEF Begin
<1> DEFINE Form(q, p) ==
         /\ req' = [req EXCEPT ![r] = q] /\ pc' = [pc EXCEPT ![r] = p]
         /\ q.user \in User /\ (q.kind \in {"submit", "hint"} => q.chal \in Challenge)
         /\ q.kind # "void" => q.parent = NoEvent
         /\ q.kind = "void" => \E e \in events : e.ts = q.parent
         /\ p = "event" <=> q.kind = "void"
<1>3. ASSUME NEW u \in User, NEW c \in Challenge, k \in {"submit", "hint"}, Goto(r, "enter"),
             req' = [req EXCEPT ![r] = [kind |-> k, user |-> u, chal |-> c, parent |-> NoEvent,
                                        delta |-> IF k = "hint" THEN -1 ELSE 1]]
      PROVE  \E q \in Req, p \in {"enter", "event"} : Form(q, p)
  <2>1. PICK d \in Delta : d = IF k = "hint" THEN -1 ELSE 1
    BY DEF Delta
  <2>2. PICK q : q = [kind |-> k, user |-> u, chal |-> c, parent |-> NoEvent, delta |-> d]
    OBVIOUS
  <2>3. q \in Req
    BY <1>3, <2>2 DEF Req, NoEvent
  <2>4. Form(q, "enter")
    BY <1>3, <2>1, <2>2 DEF Goto
  <2> QED  BY <2>3, <2>4
<1>4. ASSUME NEW u \in User, NEW d \in Delta, Goto(r, "enter"),
             req' = [req EXCEPT ![r] = [NoReq EXCEPT !.user = u, !.delta = d]]
      PROVE  \E q \in Req, p \in {"enter", "event"} : Form(q, p)
  <2>1. PICK q : q = [NoReq EXCEPT !.user = u, !.delta = d]
    OBVIOUS
  <2>2. q \in Req /\ q.user = u /\ q.kind = "adjust" /\ q.parent = NoEvent
    BY <2>1 DEF NoReq, Req, NoEvent
  <2>3. Form(q, "enter")
    BY <1>4, <2>1, <2>2 DEF Goto
  <2> QED  BY <2>2, <2>3
<1>5. ASSUME NEW e \in events, k = "void", Goto(r, "event"),
             req' = [req EXCEPT ![r] = [kind |-> k, user |-> e.user, chal |-> e.chal,
                                        parent |-> e.ts, delta |-> -e.delta]]
      PROVE  \E q \in Req, p \in {"enter", "event"} : Form(q, p)
  <2>1. PICK d \in Delta : d = -e.delta
    BY <1>1
  <2>2. PICK q : q = [kind |-> k, user |-> e.user, chal |-> e.chal, parent |-> e.ts, delta |-> d]
    OBVIOUS
  <2>3. q \in Req
    BY <1>1, <1>5, <2>2 DEF Req
  <2>4. Form(q, "event")
    BY <1>1, <1>5, <2>1, <2>2 DEF Goto
  <2> QED  BY <2>3, <2>4
<1>6. pc[r] = "idle" /\ UNCHANGED <<ledgerVars, boardVars, clock, stamp, seen, asks, rebuild>>
  BY DEF Begin
<1>7. \E q \in Req, p \in {"enter", "event"} : Form(q, p)
  BY <1>2, <1>3, <1>4, <1>5
<1> QED  BY <1>6, <1>7

-----------------------------------------------------------------------------
(* The invariant holds in the beginning ...                                *)

LEMMA InvInit == Init => Inv
<1> SUFFICES ASSUME Init PROVE Inv
  OBVIOUS
<1>1. TypeOK
  <2>1. /\ teamScore \in [Team -> Int] /\ solveCount \in [Challenge -> Nat]
        /\ pc \in [Request -> PC] /\ stamp \in [Request -> Nat] /\ seen \in [Request -> SUBSET Event]
    BY DEF Init, PC
  <2>2. req \in [Request -> Req]
    BY NoReqType DEF Init
  <2>3. /\ asks \in [Reader -> [pc : {"idle", "planned", "answered"}, view : View,
                            at : Nat \cup {Never}, rows : SUBSET Event]]
        /\ rebuild \in [Rebuilder -> [pc : {"idle", "teams", "challenges"},
                                  teams : SUBSET Event, chals : SUBSET Event]]
        /\ missed \in [teams : SUBSET Event, chals : SUBSET Event]
    BY DEF Init, NoAsk, NoRebuild, View, Never
  <2>4. events \subseteq Event /\ freezeRows \subseteq Event /\ finalRows \subseteq Event
    BY DEF Init
  <2> QED  BY <2>1, <2>2, <2>3, <2>4 DEF Init, TypeOK
<1> USE DEF Init, Never, NoEvent, NoReq, NoAsk, NoRebuild
<1>2. LedgerInv
  BY FS_EmptySet DEF LedgerInv
<1>3. ReqInv /\ VoidInv
  BY DEF ReqInv, VoidInv, Void
<1>4. DateInv /\ ScoreLockInv /\ SeenInv /\ PriceInv
  BY DEF DateInv, ScoreLockInv, SeenInv, PriceInv, Dated
<1>5. OneAwardPerOwner /\ PriceOrder /\ CorrectionInv
  BY DEF OneAwardPerOwner, PriceOrder, CorrectionInv, Solves
<1>6. FreezeInv /\ FinalInv /\ AskInv
  BY DEF FreezeInv, FreezeSnapshotStable, FinalInv, AskInv
<1> QED  BY <1>1, <1>2, <1>3, <1>4, <1>5, <1>6 DEF Inv

(* ... and every step keeps each of its parts.                             *)

\* Types: an award adds an event, a rebuild writes numbers.
LEMMA TypeStep ==
  ASSUME TypeOK, LedgerInv, SeenInv, ReqInv, Next
  PROVE  TypeOK'
<1> USE DEF TypeOK
<1>1. ASSUME NEW r \in Request, Transaction(r) PROVE TypeOK'
  <2>1. CASE Begin(r)
    BY <2>1, BeginForm DEF ledgerVars, boardVars, PC
  <2>2. CASE Fail(r)
    BY <2>2, NoReqType DEF Fail, Goto, ledgerVars, boardVars, PC
  <2>3. CASE LockEvent(r)
    BY <2>3 DEF LockEvent, Goto, ledgerVars, boardVars, PC
  <2>4. CASE Enter(r)
    BY <2>4 DEF Enter, Goto, ledgerVars, boardVars, PC
  <2>5. CASE LockOwner(r)
    BY <2>5 DEF LockOwner, Goto, ledgerVars, boardVars, PC
  <2>6. CASE LockScore(r)
    BY <2>6 DEF LockScore, Goto, Stamped, ledgerVars, boardVars, PC
  <2>7. CASE LockRow(r)
    BY <2>7 DEF LockRow, Goto, ledgerVars, boardVars, PC, Solves
  <2>8. CASE Stamp(r)
    BY <2>8 DEF Stamp, Goto, Stamped, ledgerVars, boardVars, PC
  <2>9. CASE Award(r)
    <3>1. EventOf(r) \in Event
      BY <2>9, EventOfType DEF Award
    <3>2. req[r].user \in User /\ (req[r].kind = "submit" => req[r].chal \in Challenge)
      BY <2>9 DEF Award, ReqInv
    <3>3. teamScore' \in [Team -> Int]
      <4>1. req[r].delta \in Int
        BY DEF Req, Delta
      <4> QED  BY <2>9, <3>2, <4>1, ScoringAssumption DEF Award
    <3>4. solveCount' \in [Challenge -> Nat]
      BY <2>9, <3>2 DEF Award
    <3> QED  BY <2>9, <3>1, <3>3, <3>4, NoReqType DEF Award, Done, Goto, PC, boardVars
  <2>10. CASE CommitDuplicate(r)
    BY <2>10, NoReqType DEF CommitDuplicate, Done, Goto, boardVars, ledgerVars, PC
  <2> QED  BY <1>1, <2>1, <2>2, <2>3, <2>4, <2>5, <2>6, <2>7, <2>8, <2>9, <2>10 DEF
     Transaction
<1>2. CASE Lifecycle
  <2>1. CASE Freeze
    BY <2>1 DEF Freeze, ledgerVars, reqVars, Rows, Never
  <2>2. CASE Finish
    BY <2>2 DEF Finish, ledgerVars, reqVars
  <2>3. CASE Archive
    BY <2>3 DEF Archive, ledgerVars, reqVars
  <2>4. CASE FreezeTimePasses
    BY <2>4 DEF FreezeTimePasses, ledgerVars, reqVars
  <2>5. CASE EndTimePasses
    BY <2>5 DEF EndTimePasses, ledgerVars, reqVars
  <2> QED  BY <1>2, <2>1, <2>2, <2>3, <2>4, <2>5 DEF Lifecycle
<1>3. ASSUME NEW a \in Reader, Plan(a) \/ Answer(a) \/ Leave(a) PROVE TypeOK'
  <2>1. CASE Plan(a)
    BY <2>1 DEF Plan, ledgerVars, boardVars, reqVars, NoAsk, PlanView, HiddenSince,
       View, Never
  <2>2. CASE Answer(a)
    <3>1. Shown(a) \in SUBSET Event
      BY DEF Rows, View, Shown
    <3>2. asks[a] \in [pc : {"idle", "planned", "answered"}, view : View,
                       at : Nat \cup {Never}, rows : SUBSET Event]
      OBVIOUS
    <3>3. [asks[a] EXCEPT !.pc = "answered", !.rows = Shown(a)]
             \in [pc : {"idle", "planned", "answered"}, view : View,
                  at : Nat \cup {Never}, rows : SUBSET Event]
      BY <3>1, <3>2
    <3> QED  BY <2>2, <3>3 DEF Answer, ledgerVars, boardVars, reqVars
  <2>3. CASE Leave(a)
    BY <2>3 DEF Leave, ledgerVars, boardVars, reqVars, NoAsk, View, Never
  <2> QED  BY <1>3, <2>1, <2>2, <2>3
<1>4. ASSUME NEW b \in Rebuilder, RebuildStart(b) \/ RebuildTeams(b) \/ RebuildChallenges(b)
                  \/ RebuildFails(b)
      PROVE TypeOK'
  <2>1. CASE RebuildStart(b)
    BY <2>1 DEF RebuildStart, NoRebuild, ledgerVars, boardVars, reqVars
  <2>2. CASE RebuildTeams(b)
    BY <2>2 DEF RebuildTeams, ledgerVars, boardVars, reqVars
  <2>3. CASE RebuildChallenges(b)
    <3>1. teamScore' \in [Team -> Int] /\ solveCount' \in [Challenge -> Nat]
      BY <2>3, CountType DEF RebuildChallenges
    <3> QED  BY <2>3, <3>1 DEF RebuildChallenges, boardVars, reqVars, NoRebuild
  <2>4. CASE RebuildFails(b)
    BY <2>4 DEF RebuildFails, ledgerVars, boardVars, reqVars, NoRebuild
  <2> QED  BY <1>4, <2>1, <2>2, <2>3, <2>4
<1> QED  BY <1>1, <1>2, <1>3, <1>4 DEF Next

\* A request goes through the control points of its kind only.
LEMMA ReqStep ==
  ASSUME TypeOK, ReqInv, Next
  PROVE  ReqInv'
<1> USE DEF ReqInv, TypeOK
<1>1. ASSUME NEW r \in Request, Transaction(r) PROVE ReqInv'
  <2>1. CASE Begin(r)
    <3>1. PICK q \in Req, p \in {"enter", "event"} :
              /\ req' = [req EXCEPT ![r] = q] /\ pc' = [pc EXCEPT ![r] = p]
              /\ q.user \in User /\ (q.kind \in {"submit", "hint"} => q.chal \in Challenge)
              /\ q.kind # "void" => q.parent = NoEvent
              /\ q.kind = "void" => \E e \in events : e.ts = q.parent
              /\ p = "event" <=> q.kind = "void"
      BY <2>1, BeginForm
    <3>2. /\ pc[r] = "idle" /\ events' = events /\ clock' = clock
          /\ stamp' = stamp /\ seen' = seen
      BY <2>1 DEF Begin, ledgerVars, boardVars
    <3> QED  BY <3>1, <3>2
  <2>2. CASE Fail(r)
    BY <2>2 DEF Fail, Goto, ledgerVars, boardVars, NoReq
  <2>3. CASE LockEvent(r)
    BY <2>3 DEF LockEvent, Goto, ledgerVars, boardVars, PC
  <2>4. CASE Enter(r)
    BY <2>4 DEF Enter, Goto, ledgerVars, boardVars
  <2>5. CASE LockOwner(r)
    BY <2>5 DEF LockOwner, Goto, ledgerVars, boardVars
  <2>6. CASE LockScore(r)
    BY <2>6 DEF LockScore, Goto, Stamped, ledgerVars, boardVars
  <2>7. CASE LockRow(r)
    BY <2>7 DEF LockRow, Goto, ledgerVars, boardVars
  <2>8. CASE Stamp(r)
    BY <2>8 DEF Stamp, Goto, Stamped, ledgerVars, boardVars
  <2>9. CASE Award(r)
    BY <2>9 DEF Award, Done, Goto, boardVars, NoReq
  <2>10. CASE CommitDuplicate(r)
    BY <2>10 DEF CommitDuplicate, Done, Goto, boardVars, ledgerVars, NoReq
  <2> QED  BY <1>1, <2>1, <2>2, <2>3, <2>4, <2>5, <2>6, <2>7, <2>8, <2>9, <2>10 DEF
     Transaction
<1>2. CASE Lifecycle
  <2>1. CASE Freeze
    BY <2>1 DEF Freeze, ledgerVars, reqVars
  <2>2. CASE Finish
    BY <2>2 DEF Finish, ledgerVars, reqVars
  <2>3. CASE Archive
    BY <2>3 DEF Archive, ledgerVars, reqVars
  <2>4. CASE FreezeTimePasses
    BY <2>4 DEF FreezeTimePasses, ledgerVars, reqVars
  <2>5. CASE EndTimePasses
    BY <2>5 DEF EndTimePasses, ledgerVars, reqVars
  <2> QED  BY <1>2, <2>1, <2>2, <2>3, <2>4, <2>5 DEF Lifecycle
<1>3. ASSUME NEW a \in Reader, Plan(a) \/ Answer(a) \/ Leave(a) PROVE ReqInv'
  <2>1. CASE Plan(a)
    BY <2>1 DEF Plan, ledgerVars, boardVars, reqVars
  <2>2. CASE Answer(a)
    BY <2>2 DEF Answer, ledgerVars, boardVars, reqVars
  <2>3. CASE Leave(a)
    BY <2>3 DEF Leave, ledgerVars, boardVars, reqVars
  <2> QED  BY <1>3, <2>1, <2>2, <2>3
<1>4. ASSUME NEW b \in Rebuilder, RebuildStart(b) \/ RebuildTeams(b) \/ RebuildChallenges(b)
                  \/ RebuildFails(b)
      PROVE ReqInv'
  <2>1. CASE RebuildStart(b)
    BY <2>1 DEF RebuildStart, ledgerVars, boardVars, reqVars
  <2>2. CASE RebuildTeams(b)
    BY <2>2 DEF RebuildTeams, ledgerVars, boardVars, reqVars
  <2>3. CASE RebuildChallenges(b)
    BY <2>3 DEF RebuildChallenges, boardVars, reqVars
  <2>4. CASE RebuildFails(b)
    BY <2>4 DEF RebuildFails, ledgerVars, boardVars, reqVars
  <2> QED  BY <1>4, <2>1, <2>2, <2>3, <2>4
<1> QED  BY <1>1, <1>2, <1>3, <1>4 DEF Next

\* Only an award adds to the ledger, and its date is new.
LEMMA LedgerStep ==
  ASSUME TypeOK, ReqInv, SeenInv, LedgerInv, DateInv, Next
  PROVE  LedgerInv'
<1> USE DEF LedgerInv, TypeOK
<1>1. ASSUME NEW r \in Request, Transaction(r) PROVE LedgerInv'
  <2>1. CASE Begin(r)
    BY <2>1 DEF Begin, Goto, ledgerVars, boardVars
  <2>2. CASE Fail(r)
    BY <2>2 DEF Fail, Goto, ledgerVars, boardVars
  <2>3. CASE LockEvent(r)
    BY <2>3 DEF LockEvent, Goto, ledgerVars, boardVars
  <2>4. CASE Enter(r)
    BY <2>4 DEF Enter, Goto, ledgerVars, boardVars
  <2>5. CASE LockOwner(r)
    BY <2>5 DEF LockOwner, Goto, ledgerVars, boardVars
  <2>6. CASE LockScore(r)
    BY <2>6 DEF LockScore, Goto, Stamped, ledgerVars, boardVars, Event
  <2>7. CASE LockRow(r)
    BY <2>7 DEF LockRow, Goto, ledgerVars, boardVars
  <2>8. CASE Stamp(r)
    BY <2>8 DEF Stamp, Goto, Stamped, ledgerVars, boardVars, Event
  <2>9. CASE Award(r)
    <3>1. EventOf(r).ts = stamp[r] /\ EventOf(r) \in Event
      BY <2>9, EventOfType DEF Award
    <3>2. 0 < stamp[r] /\ stamp[r] <= clock /\ \A e \in events : e.ts # stamp[r]
      BY <2>9 DEF Award, DateInv, Dated
    <3>3. IsFiniteSet(events \cup {EventOf(r)})
      BY FS_AddElement
    <3> QED  BY <2>9, <3>1, <3>2, <3>3 DEF Award, Done
  <2>10. CASE CommitDuplicate(r)
    BY <2>10 DEF CommitDuplicate, Done, Goto, boardVars, ledgerVars
  <2> QED  BY <1>1, <2>1, <2>2, <2>3, <2>4, <2>5, <2>6, <2>7, <2>8, <2>9, <2>10 DEF
     Transaction
<1>2. CASE Lifecycle
  <2>1. CASE Freeze
    BY <2>1 DEF Freeze, ledgerVars, reqVars
  <2>2. CASE Finish
    BY <2>2 DEF Finish, ledgerVars, reqVars
  <2>3. CASE Archive
    BY <2>3 DEF Archive, ledgerVars, reqVars
  <2>4. CASE FreezeTimePasses
    BY <2>4 DEF FreezeTimePasses, ledgerVars, reqVars
  <2>5. CASE EndTimePasses
    BY <2>5 DEF EndTimePasses, ledgerVars, reqVars
  <2> QED  BY <1>2, <2>1, <2>2, <2>3, <2>4, <2>5 DEF Lifecycle
<1>3. ASSUME NEW a \in Reader, Plan(a) \/ Answer(a) \/ Leave(a) PROVE LedgerInv'
  <2>1. CASE Plan(a)
    BY <2>1 DEF Plan, ledgerVars, boardVars, reqVars
  <2>2. CASE Answer(a)
    BY <2>2 DEF Answer, ledgerVars, boardVars, reqVars
  <2>3. CASE Leave(a)
    BY <2>3 DEF Leave, ledgerVars, boardVars, reqVars
  <2> QED  BY <1>3, <2>1, <2>2, <2>3
<1>4. ASSUME NEW b \in Rebuilder, RebuildStart(b) \/ RebuildTeams(b) \/ RebuildChallenges(b)
                  \/ RebuildFails(b)
      PROVE LedgerInv'
  <2>1. CASE RebuildStart(b)
    BY <2>1 DEF RebuildStart, ledgerVars, boardVars, reqVars
  <2>2. CASE RebuildTeams(b)
    BY <2>2 DEF RebuildTeams, ledgerVars, boardVars, reqVars
  <2>3. CASE RebuildChallenges(b)
    BY <2>3 DEF RebuildChallenges, boardVars, reqVars
  <2>4. CASE RebuildFails(b)
    BY <2>4 DEF RebuildFails, ledgerVars, boardVars, reqVars
  <2> QED  BY <1>4, <2>1, <2>2, <2>3, <2>4
<1> QED  BY <1>1, <1>2, <1>3, <1>4 DEF Next

\* A date is the next of the clock.
LEMMA DateStep ==
  ASSUME TypeOK, ReqInv, SeenInv, LedgerInv, DateInv, Next
  PROVE  DateInv'
<1> USE DEF DateInv, TypeOK, Dated
<1>1. ASSUME NEW r \in Request, Transaction(r) PROVE DateInv'
  <2>1. CASE Begin(r)
    <3>1. PICK p \in {"enter", "event"} : pc' = [pc EXCEPT ![r] = p]
      BY <2>1 DEF Begin, Goto
    <3>2. UNCHANGED <<events, clock, stamp>>
      BY <2>1 DEF Begin, ledgerVars
    <3> QED  BY <3>1, <3>2
  <2>2. CASE Fail(r)
    BY <2>2 DEF Fail, Goto, ledgerVars, boardVars
  <2>3. CASE LockEvent(r)
    BY <2>3 DEF LockEvent, Goto, ledgerVars, boardVars
  <2>4. CASE Enter(r)
    BY <2>4 DEF Enter, Goto, ledgerVars, boardVars
  <2>5. CASE LockOwner(r)
    <3>1. PICK p \in {"score", "stamp"} : pc' = [pc EXCEPT ![r] = p]
      BY <2>5 DEF LockOwner, Goto
    <3>2. UNCHANGED <<events, clock, stamp>>
      BY <2>5 DEF LockOwner, ledgerVars
    <3> QED  BY <3>1, <3>2
  <2>6. CASE LockScore(r)
    <3>1. \A e \in events : e.ts \in Nat /\ e.ts <= clock
      BY DEF LedgerInv, Event
    <3>2. clock \in Nat /\ clock' = clock + 1 /\ stamp' = [stamp EXCEPT ![r] = clock + 1]
      BY <2>6 DEF LockScore, Stamped
    <3>3. events' = events /\ pc' = [pc EXCEPT ![r] = "row"]
      BY <2>6 DEF LockScore, Goto, ledgerVars
    <3> QED  BY <3>1, <3>2, <3>3
  <2>7. CASE LockRow(r)
    BY <2>7 DEF LockRow, Goto, ledgerVars, boardVars
  <2>8. CASE Stamp(r)
    <3>1. \A e \in events : e.ts \in Nat /\ e.ts <= clock
      BY DEF LedgerInv, Event
    <3>2. clock \in Nat /\ clock' = clock + 1 /\ stamp' = [stamp EXCEPT ![r] = clock + 1]
      BY <2>8 DEF Stamp, Stamped
    <3>3. events' = events /\ pc' = [pc EXCEPT ![r] = "commit"]
      BY <2>8 DEF Stamp, Goto, ledgerVars
    <3> QED  BY <3>1, <3>2, <3>3
  <2>9. CASE Award(r)
    <3>1. EventOf(r).ts = stamp[r] /\ EventOf(r) \in Event
      BY <2>9, EventOfType DEF Award
    <3> QED  BY <2>9, <3>1 DEF Award, Done, Goto, boardVars
  <2>10. CASE CommitDuplicate(r)
    BY <2>10 DEF CommitDuplicate, Done, Goto, boardVars, ledgerVars
  <2> QED  BY <1>1, <2>1, <2>2, <2>3, <2>4, <2>5, <2>6, <2>7, <2>8, <2>9, <2>10 DEF
     Transaction
<1>2. CASE Lifecycle
  <2>1. CASE Freeze
    BY <2>1 DEF Freeze, ledgerVars, reqVars
  <2>2. CASE Finish
    BY <2>2 DEF Finish, ledgerVars, reqVars
  <2>3. CASE Archive
    BY <2>3 DEF Archive, ledgerVars, reqVars
  <2>4. CASE FreezeTimePasses
    BY <2>4 DEF FreezeTimePasses, ledgerVars, reqVars
  <2>5. CASE EndTimePasses
    BY <2>5 DEF EndTimePasses, ledgerVars, reqVars
  <2> QED  BY <1>2, <2>1, <2>2, <2>3, <2>4, <2>5 DEF Lifecycle
<1>3. ASSUME NEW a \in Reader, Plan(a) \/ Answer(a) \/ Leave(a) PROVE DateInv'
  <2>1. CASE Plan(a)
    BY <2>1 DEF Plan, ledgerVars, boardVars, reqVars
  <2>2. CASE Answer(a)
    BY <2>2 DEF Answer, ledgerVars, boardVars, reqVars
  <2>3. CASE Leave(a)
    BY <2>3 DEF Leave, ledgerVars, boardVars, reqVars
  <2> QED  BY <1>3, <2>1, <2>2, <2>3
<1>4. ASSUME NEW b \in Rebuilder, RebuildStart(b) \/ RebuildTeams(b) \/ RebuildChallenges(b)
                  \/ RebuildFails(b)
      PROVE DateInv'
  <2>1. CASE RebuildStart(b)
    BY <2>1 DEF RebuildStart, ledgerVars, boardVars, reqVars
  <2>2. CASE RebuildTeams(b)
    BY <2>2 DEF RebuildTeams, ledgerVars, boardVars, reqVars
  <2>3. CASE RebuildChallenges(b)
    BY <2>3 DEF RebuildChallenges, boardVars, reqVars
  <2>4. CASE RebuildFails(b)
    BY <2>4 DEF RebuildFails, ledgerVars, boardVars, reqVars
  <2> QED  BY <1>4, <2>1, <2>2, <2>3, <2>4
<1> QED  BY <1>1, <1>2, <1>3, <1>4 DEF Next

\* The score lock is taken when nobody holds it and held until the end.
LEMMA ScoreLockStep ==
  ASSUME TypeOK, ReqInv, ScoreLockInv, Next
  PROVE  ScoreLockInv'
<1> USE DEF ScoreLockInv, TypeOK, Dated
<1>1. ASSUME NEW r \in Request, Transaction(r) PROVE ScoreLockInv'
  <2>1. CASE Begin(r)
    BY <2>1, BeginForm
  <2>2. CASE Fail(r)
    BY <2>2 DEF Fail, Goto, ledgerVars, boardVars
  <2>3. CASE LockEvent(r)
    BY <2>3 DEF LockEvent, Goto, ledgerVars, boardVars
  <2>4. CASE Enter(r)
    BY <2>4 DEF Enter, Goto, ledgerVars, boardVars
  <2>5. CASE LockOwner(r)
    BY <2>5 DEF LockOwner, Goto, ledgerVars, boardVars
  <2>6. CASE LockScore(r)
    BY <2>6 DEF LockScore, Goto, Stamped, ledgerVars, boardVars, HasScoreLock
  <2>7. CASE LockRow(r)
    BY <2>7 DEF LockRow, Goto, ledgerVars, boardVars, ReqInv
  <2>8. CASE Stamp(r)
    BY <2>8 DEF Stamp, Goto, Stamped, ledgerVars, boardVars, ReqInv
  <2>9. CASE Award(r)
    BY <2>9 DEF Award, Done, Goto, boardVars
  <2>10. CASE CommitDuplicate(r)
    BY <2>10 DEF CommitDuplicate, Done, Goto, boardVars, ledgerVars
  <2> QED  BY <1>1, <2>1, <2>2, <2>3, <2>4, <2>5, <2>6, <2>7, <2>8, <2>9, <2>10 DEF
     Transaction
<1>2. CASE Lifecycle
  <2>1. CASE Freeze
    BY <2>1 DEF Freeze, ledgerVars, reqVars
  <2>2. CASE Finish
    BY <2>2 DEF Finish, ledgerVars, reqVars
  <2>3. CASE Archive
    BY <2>3 DEF Archive, ledgerVars, reqVars
  <2>4. CASE FreezeTimePasses
    BY <2>4 DEF FreezeTimePasses, ledgerVars, reqVars
  <2>5. CASE EndTimePasses
    BY <2>5 DEF EndTimePasses, ledgerVars, reqVars
  <2> QED  BY <1>2, <2>1, <2>2, <2>3, <2>4, <2>5 DEF Lifecycle
<1>3. ASSUME NEW a \in Reader, Plan(a) \/ Answer(a) \/ Leave(a) PROVE ScoreLockInv'
  <2>1. CASE Plan(a)
    BY <2>1 DEF Plan, ledgerVars, boardVars, reqVars
  <2>2. CASE Answer(a)
    BY <2>2 DEF Answer, ledgerVars, boardVars, reqVars
  <2>3. CASE Leave(a)
    BY <2>3 DEF Leave, ledgerVars, boardVars, reqVars
  <2> QED  BY <1>3, <2>1, <2>2, <2>3
<1>4. ASSUME NEW b \in Rebuilder, RebuildStart(b) \/ RebuildTeams(b) \/ RebuildChallenges(b)
                  \/ RebuildFails(b)
      PROVE ScoreLockInv'
  <2>1. CASE RebuildStart(b)
    BY <2>1 DEF RebuildStart, ledgerVars, boardVars, reqVars
  <2>2. CASE RebuildTeams(b)
    BY <2>2 DEF RebuildTeams, ledgerVars, boardVars, reqVars
  <2>3. CASE RebuildChallenges(b)
    BY <2>3 DEF RebuildChallenges, boardVars, reqVars
  <2>4. CASE RebuildFails(b)
    BY <2>4 DEF RebuildFails, ledgerVars, boardVars, reqVars
  <2> QED  BY <1>4, <2>1, <2>2, <2>3, <2>4
<1> QED  BY <1>1, <1>2, <1>3, <1>4 DEF Next

\* Only who holds the score lock adds a solve of the challenge.
LEMMA SeenStep ==
  ASSUME TypeOK, ReqInv, LedgerInv, ScoreLockInv, SeenInv, Next
  PROVE  SeenInv'
<1> USE DEF SeenInv, TypeOK
<1>1. ASSUME NEW r \in Request, Transaction(r) PROVE SeenInv'
  <2>1. CASE Begin(r)
    <3>1. PICK q \in Req, p \in {"enter", "event"} :
              /\ req' = [req EXCEPT ![r] = q] /\ pc' = [pc EXCEPT ![r] = p]
              /\ q.user \in User /\ (q.kind \in {"submit", "hint"} => q.chal \in Challenge)
              /\ q.kind # "void" => q.parent = NoEvent
              /\ q.kind = "void" => \E e \in events : e.ts = q.parent
              /\ p = "event" <=> q.kind = "void"
      BY <2>1, BeginForm
    <3>2. /\ pc[r] = "idle" /\ events' = events /\ clock' = clock
          /\ stamp' = stamp /\ seen' = seen
      BY <2>1 DEF Begin, ledgerVars, boardVars
    <3> QED  BY <3>1, <3>2 DEF Solves
  <2>2. CASE Fail(r)
    BY <2>2 DEF Fail, Goto, ledgerVars, boardVars, Solves
  <2>3. CASE LockEvent(r)
    BY <2>3 DEF LockEvent, Goto, ledgerVars, boardVars, Solves
  <2>4. CASE Enter(r)
    BY <2>4 DEF Enter, Goto, ledgerVars, boardVars, Solves
  <2>5. CASE LockOwner(r)
    <3>1. PICK p \in {"score", "stamp"} : pc' = [pc EXCEPT ![r] = p]
      BY <2>5 DEF LockOwner, Goto
    <3>2. UNCHANGED <<events, req, seen>>
      BY <2>5 DEF LockOwner, ledgerVars
    <3> QED  BY <3>1, <3>2 DEF Solves
  <2>6. CASE LockScore(r)
    BY <2>6 DEF LockScore, Goto, Stamped, ledgerVars, boardVars, Solves
  <2>7. CASE LockRow(r)
    BY <2>7 DEF LockRow, Goto, ledgerVars, boardVars, Solves
  <2>8. CASE Stamp(r)
    BY <2>8 DEF Stamp, Goto, Stamped, ledgerVars, boardVars, Solves, ReqInv
  <2>9. CASE Award(r)
    <3>1. /\ EventOf(r).type = "solve" <=> req[r].kind = "submit"
          /\ EventOf(r).chal = req[r].chal
      BY <2>9, EventOfType DEF Award
    <3> QED  BY <2>9, <3>1 DEF Award, Done, Goto, Solves, ScoreLockInv, Dated
  <2>10. CASE CommitDuplicate(r)
    BY <2>10 DEF CommitDuplicate, Done, Goto, boardVars, ledgerVars, Solves
  <2> QED  BY <1>1, <2>1, <2>2, <2>3, <2>4, <2>5, <2>6, <2>7, <2>8, <2>9, <2>10 DEF
     Transaction
<1>2. CASE Lifecycle
  <2>1. CASE Freeze
    BY <2>1 DEF Freeze, ledgerVars, reqVars, Solves
  <2>2. CASE Finish
    BY <2>2 DEF Finish, ledgerVars, reqVars, Solves
  <2>3. CASE Archive
    BY <2>3 DEF Archive, ledgerVars, reqVars, Solves
  <2>4. CASE FreezeTimePasses
    BY <2>4 DEF FreezeTimePasses, ledgerVars, reqVars, Solves
  <2>5. CASE EndTimePasses
    BY <2>5 DEF EndTimePasses, ledgerVars, reqVars, Solves
  <2> QED  BY <1>2, <2>1, <2>2, <2>3, <2>4, <2>5 DEF Lifecycle
<1>3. ASSUME NEW a \in Reader, Plan(a) \/ Answer(a) \/ Leave(a) PROVE SeenInv'
  <2>1. CASE Plan(a)
    BY <2>1 DEF Plan, ledgerVars, boardVars, reqVars, Solves
  <2>2. CASE Answer(a)
    BY <2>2 DEF Answer, ledgerVars, boardVars, reqVars, Solves
  <2>3. CASE Leave(a)
    BY <2>3 DEF Leave, ledgerVars, boardVars, reqVars, Solves
  <2> QED  BY <1>3, <2>1, <2>2, <2>3
<1>4. ASSUME NEW b \in Rebuilder, RebuildStart(b) \/ RebuildTeams(b) \/ RebuildChallenges(b)
                  \/ RebuildFails(b)
      PROVE SeenInv'
  <2>1. CASE RebuildStart(b)
    BY <2>1 DEF RebuildStart, ledgerVars, boardVars, reqVars, Solves
  <2>2. CASE RebuildTeams(b)
    BY <2>2 DEF RebuildTeams, ledgerVars, boardVars, reqVars, Solves
  <2>3. CASE RebuildChallenges(b)
    BY <2>3 DEF RebuildChallenges, boardVars, reqVars, Solves
  <2>4. CASE RebuildFails(b)
    BY <2>4 DEF RebuildFails, ledgerVars, boardVars, reqVars, Solves
  <2> QED  BY <1>4, <2>1, <2>2, <2>3, <2>4
<1> QED  BY <1>1, <1>2, <1>3, <1>4 DEF Next

\* A date that is drawn under the score lock is after those of all solves.
LEMMA PriceStep ==
  ASSUME TypeOK, ReqInv, LedgerInv, SeenInv, ScoreLockInv, PriceInv, Next
  PROVE  PriceInv'
<1> USE DEF PriceInv, TypeOK, Dated, Solves
<1>1. ASSUME NEW r \in Request, Transaction(r) PROVE PriceInv'
  <2>1. CASE Begin(r)
    <3>1. PICK q \in Req, p \in {"enter", "event"} :
              /\ req' = [req EXCEPT ![r] = q] /\ pc' = [pc EXCEPT ![r] = p]
              /\ q.user \in User /\ (q.kind \in {"submit", "hint"} => q.chal \in Challenge)
              /\ q.kind # "void" => q.parent = NoEvent
              /\ q.kind = "void" => \E e \in events : e.ts = q.parent
              /\ p = "event" <=> q.kind = "void"
      BY <2>1, BeginForm
    <3>2. /\ pc[r] = "idle" /\ events' = events /\ clock' = clock
          /\ stamp' = stamp /\ seen' = seen
      BY <2>1 DEF Begin, ledgerVars, boardVars
    <3> QED  BY <3>1, <3>2
  <2>2. CASE Fail(r)
    BY <2>2 DEF Fail, Goto, ledgerVars, boardVars
  <2>3. CASE LockEvent(r)
    BY <2>3 DEF LockEvent, Goto, ledgerVars, boardVars
  <2>4. CASE Enter(r)
    BY <2>4 DEF Enter, Goto, ledgerVars, boardVars
  <2>5. CASE LockOwner(r)
    BY <2>5 DEF LockOwner, Goto, ledgerVars, boardVars
  <2>6. CASE LockScore(r)
    BY <2>6 DEF LockScore, Goto, Stamped, ledgerVars, boardVars, LedgerInv, Event
  <2>7. CASE LockRow(r)
    BY <2>7 DEF LockRow, Goto, ledgerVars, boardVars
  <2>8. CASE Stamp(r)
    BY <2>8 DEF Stamp, Goto, Stamped, ledgerVars, boardVars, ReqInv
  <2>9. CASE Award(r)
    <3>1. /\ EventOf(r).type = "solve" <=> req[r].kind = "submit"
          /\ EventOf(r).chal = req[r].chal
      BY <2>9, EventOfType DEF Award
    <3> QED  BY <2>9, <3>1 DEF Award, Done, Goto, ScoreLockInv
  <2>10. CASE CommitDuplicate(r)
    BY <2>10 DEF CommitDuplicate, Done, Goto, boardVars, ledgerVars
  <2> QED  BY <1>1, <2>1, <2>2, <2>3, <2>4, <2>5, <2>6, <2>7, <2>8, <2>9, <2>10 DEF
     Transaction
<1>2. CASE Lifecycle
  <2>1. CASE Freeze
    BY <2>1 DEF Freeze, ledgerVars, reqVars
  <2>2. CASE Finish
    BY <2>2 DEF Finish, ledgerVars, reqVars
  <2>3. CASE Archive
    BY <2>3 DEF Archive, ledgerVars, reqVars
  <2>4. CASE FreezeTimePasses
    BY <2>4 DEF FreezeTimePasses, ledgerVars, reqVars
  <2>5. CASE EndTimePasses
    BY <2>5 DEF EndTimePasses, ledgerVars, reqVars
  <2> QED  BY <1>2, <2>1, <2>2, <2>3, <2>4, <2>5 DEF Lifecycle
<1>3. ASSUME NEW a \in Reader, Plan(a) \/ Answer(a) \/ Leave(a) PROVE PriceInv'
  <2>1. CASE Plan(a)
    BY <2>1 DEF Plan, ledgerVars, boardVars, reqVars
  <2>2. CASE Answer(a)
    BY <2>2 DEF Answer, ledgerVars, boardVars, reqVars
  <2>3. CASE Leave(a)
    BY <2>3 DEF Leave, ledgerVars, boardVars, reqVars
  <2> QED  BY <1>3, <2>1, <2>2, <2>3
<1>4. ASSUME NEW b \in Rebuilder, RebuildStart(b) \/ RebuildTeams(b) \/ RebuildChallenges(b)
                  \/ RebuildFails(b)
      PROVE PriceInv'
  <2>1. CASE RebuildStart(b)
    BY <2>1 DEF RebuildStart, ledgerVars, boardVars, reqVars
  <2>2. CASE RebuildTeams(b)
    BY <2>2 DEF RebuildTeams, ledgerVars, boardVars, reqVars
  <2>3. CASE RebuildChallenges(b)
    BY <2>3 DEF RebuildChallenges, boardVars, reqVars
  <2>4. CASE RebuildFails(b)
    BY <2>4 DEF RebuildFails, ledgerVars, boardVars, reqVars
  <2> QED  BY <1>4, <2>1, <2>2, <2>3, <2>4
<1> QED  BY <1>1, <1>2, <1>3, <1>4 DEF Next

\* A solve is written only if its owner has none among those that were read.
LEMMA OneAwardStep ==
  ASSUME TypeOK, ReqInv, LedgerInv, SeenInv, OneAwardPerOwner, Next
  PROVE  OneAwardPerOwner'
<1> USE DEF OneAwardPerOwner
<1>1. ASSUME NEW r \in Request, Transaction(r) PROVE OneAwardPerOwner'
  <2>1. CASE Begin(r)
    BY <2>1 DEF Begin, Goto, ledgerVars, boardVars
  <2>2. CASE Fail(r)
    BY <2>2 DEF Fail, Goto, ledgerVars, boardVars
  <2>3. CASE LockEvent(r)
    BY <2>3 DEF LockEvent, Goto, ledgerVars, boardVars
  <2>4. CASE Enter(r)
    BY <2>4 DEF Enter, Goto, ledgerVars, boardVars
  <2>5. CASE LockOwner(r)
    BY <2>5 DEF LockOwner, Goto, ledgerVars, boardVars
  <2>6. CASE LockScore(r)
    BY <2>6 DEF LockScore, Goto, Stamped, ledgerVars, boardVars
  <2>7. CASE LockRow(r)
    BY <2>7 DEF LockRow, Goto, ledgerVars, boardVars
  <2>8. CASE Stamp(r)
    BY <2>8 DEF Stamp, Goto, Stamped, ledgerVars, boardVars
  <2>9. CASE Award(r)
    <3>1. /\ EventOf(r).type = "solve" <=> req[r].kind = "submit"
          /\ EventOf(r).chal = req[r].chal /\ EventOf(r).user = req[r].user
      BY <2>9, EventOfType DEF Award
    <3>2. \A e \in events :
            e.type = "solve" /\ EventOf(r).type = "solve" /\ e.chal = EventOf(r).chal
              => Owner(e.user) # Owner(req[r].user)
      BY <2>9, <3>1 DEF Award, Duplicate, SeenInv, Solves
    <3> QED  BY <2>9, <3>1, <3>2 DEF Award, Done, Owner
  <2>10. CASE CommitDuplicate(r)
    BY <2>10 DEF CommitDuplicate, Done, Goto, boardVars, ledgerVars
  <2> QED  BY <1>1, <2>1, <2>2, <2>3, <2>4, <2>5, <2>6, <2>7, <2>8, <2>9, <2>10 DEF
     Transaction
<1>2. CASE Lifecycle
  <2>1. CASE Freeze
    BY <2>1 DEF Freeze, ledgerVars, reqVars
  <2>2. CASE Finish
    BY <2>2 DEF Finish, ledgerVars, reqVars
  <2>3. CASE Archive
    BY <2>3 DEF Archive, ledgerVars, reqVars
  <2>4. CASE FreezeTimePasses
    BY <2>4 DEF FreezeTimePasses, ledgerVars, reqVars
  <2>5. CASE EndTimePasses
    BY <2>5 DEF EndTimePasses, ledgerVars, reqVars
  <2> QED  BY <1>2, <2>1, <2>2, <2>3, <2>4, <2>5 DEF Lifecycle
<1>3. ASSUME NEW a \in Reader, Plan(a) \/ Answer(a) \/ Leave(a) PROVE OneAwardPerOwner'
  <2>1. CASE Plan(a)
    BY <2>1 DEF Plan, ledgerVars, boardVars, reqVars
  <2>2. CASE Answer(a)
    BY <2>2 DEF Answer, ledgerVars, boardVars, reqVars
  <2>3. CASE Leave(a)
    BY <2>3 DEF Leave, ledgerVars, boardVars, reqVars
  <2> QED  BY <1>3, <2>1, <2>2, <2>3
<1>4. ASSUME NEW b \in Rebuilder, RebuildStart(b) \/ RebuildTeams(b) \/ RebuildChallenges(b)
                  \/ RebuildFails(b)
      PROVE OneAwardPerOwner'
  <2>1. CASE RebuildStart(b)
    BY <2>1 DEF RebuildStart, ledgerVars, boardVars, reqVars
  <2>2. CASE RebuildTeams(b)
    BY <2>2 DEF RebuildTeams, ledgerVars, boardVars, reqVars
  <2>3. CASE RebuildChallenges(b)
    BY <2>3 DEF RebuildChallenges, boardVars, reqVars
  <2>4. CASE RebuildFails(b)
    BY <2>4 DEF RebuildFails, ledgerVars, boardVars, reqVars
  <2> QED  BY <1>4, <2>1, <2>2, <2>3, <2>4
<1> QED  BY <1>1, <1>2, <1>3, <1>4 DEF Next

\* A new solve counts those before it and is counted by none.
LEMMA PriceOrderStep ==
  ASSUME TypeOK, ReqInv, LedgerInv, SeenInv, PriceInv, PriceOrder, Next
  PROVE  PriceOrder'
<1> USE DEF PriceOrder, Solves
<1>1. ASSUME NEW r \in Request, Transaction(r) PROVE PriceOrder'
  <2>1. CASE Begin(r)
    BY <2>1 DEF Begin, Goto, ledgerVars, boardVars
  <2>2. CASE Fail(r)
    BY <2>2 DEF Fail, Goto, ledgerVars, boardVars
  <2>3. CASE LockEvent(r)
    BY <2>3 DEF LockEvent, Goto, ledgerVars, boardVars
  <2>4. CASE Enter(r)
    BY <2>4 DEF Enter, Goto, ledgerVars, boardVars
  <2>5. CASE LockOwner(r)
    BY <2>5 DEF LockOwner, Goto, ledgerVars, boardVars
  <2>6. CASE LockScore(r)
    BY <2>6 DEF LockScore, Goto, Stamped, ledgerVars, boardVars
  <2>7. CASE LockRow(r)
    BY <2>7 DEF LockRow, Goto, ledgerVars, boardVars
  <2>8. CASE Stamp(r)
    BY <2>8 DEF Stamp, Goto, Stamped, ledgerVars, boardVars
  <2>9. CASE Award(r)
    <3> DEFINE g == EventOf(r)
    <3>1. /\ g \in Event /\ g.ts = stamp[r] /\ g.chal = req[r].chal
          /\ g.type = "solve" <=> req[r].kind = "submit"
          /\ g.before = {e.ts : e \in seen[r]}
      BY <2>9, EventOfType DEF Award
    <3>2. events' = events \cup {g} /\ (g.type = "solve" => seen[r] = Solves(g.chal))
      BY <2>9, <3>1 DEF Award, SeenInv
    <3>3. \A e \in events : e.ts \in Nat
      BY DEF TypeOK, Event
    <3>4. \A e \in events :
            g.type = "solve" /\ e.type = "solve" /\ e.chal = g.chal => e.ts < g.ts
      BY <2>9, <3>1 DEF Award, PriceInv, Dated
    <3> HIDE DEF g
    <3>5. ASSUME NEW c \in Challenge, NEW e \in Solves(c)'
          PROVE  e.before = {f.ts : f \in {h \in Solves(c)' : h.ts < e.ts}}
      <4>1. CASE e = g
        <5>1. {h \in Solves(c)' : h.ts < e.ts} = Solves(c)
          BY <3>1, <3>2, <3>3, <3>4, <3>5, <4>1 DEF Event
        <5> QED  BY <3>1, <3>2, <3>5, <4>1, <5>1
      <4>2. CASE e # g
        <5>1. e \in Solves(c)
          BY <3>2, <3>5, <4>2
        <5>2. {h \in Solves(c)' : h.ts < e.ts} = {h \in Solves(c) : h.ts < e.ts}
          BY <3>1, <3>2, <3>3, <3>4, <5>1 DEF Event
        <5> QED  BY <5>1, <5>2
      <4> QED  BY <4>1, <4>2
    <3> QED  BY <3>5
  <2>10. CASE CommitDuplicate(r)
    BY <2>10 DEF CommitDuplicate, Done, Goto, boardVars, ledgerVars
  <2> QED  BY <1>1, <2>1, <2>2, <2>3, <2>4, <2>5, <2>6, <2>7, <2>8, <2>9, <2>10 DEF
     Transaction
<1>2. CASE Lifecycle
  <2>1. CASE Freeze
    BY <2>1 DEF Freeze, ledgerVars, reqVars
  <2>2. CASE Finish
    BY <2>2 DEF Finish, ledgerVars, reqVars
  <2>3. CASE Archive
    BY <2>3 DEF Archive, ledgerVars, reqVars
  <2>4. CASE FreezeTimePasses
    BY <2>4 DEF FreezeTimePasses, ledgerVars, reqVars
  <2>5. CASE EndTimePasses
    BY <2>5 DEF EndTimePasses, ledgerVars, reqVars
  <2> QED  BY <1>2, <2>1, <2>2, <2>3, <2>4, <2>5 DEF Lifecycle
<1>3. ASSUME NEW a \in Reader, Plan(a) \/ Answer(a) \/ Leave(a) PROVE PriceOrder'
  <2>1. CASE Plan(a)
    BY <2>1 DEF Plan, ledgerVars, boardVars, reqVars
  <2>2. CASE Answer(a)
    BY <2>2 DEF Answer, ledgerVars, boardVars, reqVars
  <2>3. CASE Leave(a)
    BY <2>3 DEF Leave, ledgerVars, boardVars, reqVars
  <2> QED  BY <1>3, <2>1, <2>2, <2>3
<1>4. ASSUME NEW b \in Rebuilder, RebuildStart(b) \/ RebuildTeams(b) \/ RebuildChallenges(b)
                  \/ RebuildFails(b)
      PROVE PriceOrder'
  <2>1. CASE RebuildStart(b)
    BY <2>1 DEF RebuildStart, ledgerVars, boardVars, reqVars
  <2>2. CASE RebuildTeams(b)
    BY <2>2 DEF RebuildTeams, ledgerVars, boardVars, reqVars
  <2>3. CASE RebuildChallenges(b)
    BY <2>3 DEF RebuildChallenges, boardVars, reqVars
  <2>4. CASE RebuildFails(b)
    BY <2>4 DEF RebuildFails, ledgerVars, boardVars, reqVars
  <2> QED  BY <1>4, <2>1, <2>2, <2>3, <2>4
<1> QED  BY <1>1, <1>2, <1>3, <1>4 DEF Next

\* The freeze finds nobody with a date, and later dates are after it.
LEMMA FreezeStep ==
  ASSUME TypeOK, ReqInv, LedgerInv, SeenInv, FreezeInv, Next
  PROVE  FreezeInv'
<1> USE DEF FreezeInv, FreezeSnapshotStable, TypeOK, Dated, Rows
<1>1. ASSUME NEW r \in Request, Transaction(r) PROVE FreezeInv'
  <2>1. CASE Begin(r)
    BY <2>1 DEF Begin, Goto, ledgerVars, boardVars
  <2>2. CASE Fail(r)
    BY <2>2 DEF Fail, Goto, ledgerVars, boardVars
  <2>3. CASE LockEvent(r)
    BY <2>3 DEF LockEvent, Goto, ledgerVars, boardVars
  <2>4. CASE Enter(r)
    BY <2>4 DEF Enter, Goto, ledgerVars, boardVars
  <2>5. CASE LockOwner(r)
    BY <2>5 DEF LockOwner, Goto, ledgerVars, boardVars
  <2>6. CASE LockScore(r)
    BY <2>6 DEF LockScore, Goto, Stamped, ledgerVars, boardVars, Never
  <2>7. CASE LockRow(r)
    BY <2>7 DEF LockRow, Goto, ledgerVars, boardVars
  <2>8. CASE Stamp(r)
    BY <2>8 DEF Stamp, Goto, Stamped, ledgerVars, boardVars, Never
  <2>9. CASE Award(r)
    <3>1. EventOf(r).ts = stamp[r]
      BY <2>9, EventOfType DEF Award
    <3>2. cutoff # Never => stamp[r] > cutoff /\ stamp[r] \in Nat /\ cutoff \in Nat
      BY <2>9 DEF Award
    <3>3. cutoff' # Never => Rows(cutoff)' = Rows(cutoff)
      BY <2>9, <3>1, <3>2 DEF Award, Done, boardVars
    <3> QED  BY <2>9, <3>3 DEF Award, Done, Goto, boardVars
  <2>10. CASE CommitDuplicate(r)
    BY <2>10 DEF CommitDuplicate, Done, Goto, boardVars, ledgerVars
  <2> QED  BY <1>1, <2>1, <2>2, <2>3, <2>4, <2>5, <2>6, <2>7, <2>8, <2>9, <2>10 DEF
     Transaction
<1>2. CASE Lifecycle
  <2>1. CASE Freeze
    BY <2>1 DEF Freeze, ledgerVars, reqVars, Sharing
  <2>2. CASE Finish
    BY <2>2 DEF Finish, ledgerVars, reqVars
  <2>3. CASE Archive
    BY <2>3 DEF Archive, ledgerVars, reqVars
  <2>4. CASE FreezeTimePasses
    BY <2>4 DEF FreezeTimePasses, ledgerVars, reqVars, Never
  <2>5. CASE EndTimePasses
    BY <2>5 DEF EndTimePasses, ledgerVars, reqVars
  <2> QED  BY <1>2, <2>1, <2>2, <2>3, <2>4, <2>5 DEF Lifecycle
<1>3. ASSUME NEW a \in Reader, Plan(a) \/ Answer(a) \/ Leave(a) PROVE FreezeInv'
  <2>1. CASE Plan(a)
    BY <2>1 DEF Plan, ledgerVars, boardVars, reqVars
  <2>2. CASE Answer(a)
    BY <2>2 DEF Answer, ledgerVars, boardVars, reqVars
  <2>3. CASE Leave(a)
    BY <2>3 DEF Leave, ledgerVars, boardVars, reqVars
  <2> QED  BY <1>3, <2>1, <2>2, <2>3
<1>4. ASSUME NEW b \in Rebuilder, RebuildStart(b) \/ RebuildTeams(b) \/ RebuildChallenges(b)
                  \/ RebuildFails(b)
      PROVE FreezeInv'
  <2>1. CASE RebuildStart(b)
    BY <2>1 DEF RebuildStart, ledgerVars, boardVars, reqVars
  <2>2. CASE RebuildTeams(b)
    BY <2>2 DEF RebuildTeams, ledgerVars, boardVars, reqVars
  <2>3. CASE RebuildChallenges(b)
    BY <2>3 DEF RebuildChallenges, boardVars, reqVars
  <2>4. CASE RebuildFails(b)
    BY <2>4 DEF RebuildFails, ledgerVars, boardVars, reqVars
  <2> QED  BY <1>4, <2>1, <2>2, <2>3, <2>4
<1> QED  BY <1>1, <1>2, <1>3, <1>4 DEF Next

\* The settlement finds nobody, and nobody enters after it.
LEMMA FinalStep ==
  ASSUME TypeOK, FinalInv, Next
  PROVE  FinalInv'
<1> USE DEF FinalInv, Sharing
<1>1. ASSUME NEW r \in Request, Transaction(r) PROVE FinalInv'
  <2>1. CASE Begin(r)
    BY <2>1 DEF Begin, Goto, ledgerVars, boardVars, TypeOK
  <2>2. CASE Fail(r)
    BY <2>2 DEF Fail, Goto, ledgerVars, boardVars, TypeOK
  <2>3. CASE LockEvent(r)
    BY <2>3 DEF LockEvent, Goto, ledgerVars, boardVars, TypeOK
  <2>4. CASE Enter(r)
    BY <2>4 DEF Enter, Goto, ledgerVars, boardVars, TypeOK, Playable
  <2>5. CASE LockOwner(r)
    BY <2>5 DEF LockOwner, Goto, ledgerVars, boardVars, TypeOK
  <2>6. CASE LockScore(r)
    BY <2>6 DEF LockScore, Goto, Stamped, ledgerVars, boardVars, TypeOK
  <2>7. CASE LockRow(r)
    BY <2>7 DEF LockRow, Goto, ledgerVars, boardVars, TypeOK
  <2>8. CASE Stamp(r)
    BY <2>8 DEF Stamp, Goto, Stamped, ledgerVars, boardVars, TypeOK
  <2>9. CASE Award(r)
    BY <2>9 DEF Award, Done, Goto, boardVars, TypeOK
  <2>10. CASE CommitDuplicate(r)
    BY <2>10 DEF CommitDuplicate, Done, Goto, boardVars, ledgerVars, TypeOK
  <2> QED  BY <1>1, <2>1, <2>2, <2>3, <2>4, <2>5, <2>6, <2>7, <2>8, <2>9, <2>10 DEF
     Transaction
<1>2. CASE Lifecycle
  <2>1. CASE Freeze
    BY <2>1 DEF Freeze, ledgerVars, reqVars
  <2>2. CASE Finish
    BY <2>2 DEF Finish, ledgerVars, reqVars
  <2>3. CASE Archive
    BY <2>3 DEF Archive, ledgerVars, reqVars
  <2>4. CASE FreezeTimePasses
    BY <2>4 DEF FreezeTimePasses, ledgerVars, reqVars
  <2>5. CASE EndTimePasses
    BY <2>5 DEF EndTimePasses, ledgerVars, reqVars
  <2> QED  BY <1>2, <2>1, <2>2, <2>3, <2>4, <2>5 DEF Lifecycle
<1>3. ASSUME NEW a \in Reader, Plan(a) \/ Answer(a) \/ Leave(a) PROVE FinalInv'
  <2>1. CASE Plan(a)
    BY <2>1 DEF Plan, ledgerVars, boardVars, reqVars
  <2>2. CASE Answer(a)
    BY <2>2 DEF Answer, ledgerVars, boardVars, reqVars
  <2>3. CASE Leave(a)
    BY <2>3 DEF Leave, ledgerVars, boardVars, reqVars
  <2> QED  BY <1>3, <2>1, <2>2, <2>3
<1>4. ASSUME NEW b \in Rebuilder, RebuildStart(b) \/ RebuildTeams(b) \/ RebuildChallenges(b)
                  \/ RebuildFails(b)
      PROVE FinalInv'
  <2>1. CASE RebuildStart(b)
    BY <2>1 DEF RebuildStart, ledgerVars, boardVars, reqVars
  <2>2. CASE RebuildTeams(b)
    BY <2>2 DEF RebuildTeams, ledgerVars, boardVars, reqVars
  <2>3. CASE RebuildChallenges(b)
    BY <2>3 DEF RebuildChallenges, boardVars, reqVars
  <2>4. CASE RebuildFails(b)
    BY <2>4 DEF RebuildFails, ledgerVars, boardVars, reqVars
  <2> QED  BY <1>4, <2>1, <2>2, <2>3, <2>4
<1> QED  BY <1>1, <1>2, <1>3, <1>4 DEF Next

\* The lock of an event is taken when nobody holds it.
LEMMA VoidStep ==
  ASSUME TypeOK, ReqInv, LedgerInv, SeenInv, DateInv, VoidInv, Next
  PROVE  VoidInv'
<1> USE DEF VoidInv, Void
<1>1. ASSUME NEW r \in Request, Transaction(r) PROVE VoidInv'
  <2>1. CASE Begin(r)
    <3>1. PICK q \in Req, p \in {"enter", "event"} :
              /\ req' = [req EXCEPT ![r] = q] /\ pc' = [pc EXCEPT ![r] = p]
              /\ q.user \in User /\ (q.kind \in {"submit", "hint"} => q.chal \in Challenge)
              /\ q.kind # "void" => q.parent = NoEvent
              /\ q.kind = "void" => \E e \in events : e.ts = q.parent
              /\ p = "event" <=> q.kind = "void"
      BY <2>1, BeginForm DEF TypeOK
    <3>2. /\ pc[r] = "idle" /\ events' = events /\ clock' = clock
          /\ stamp' = stamp /\ seen' = seen
      BY <2>1 DEF Begin, ledgerVars, boardVars
    <3> QED  BY <3>1, <3>2 DEF TypeOK
  <2>2. CASE Fail(r)
    BY <2>2 DEF Fail, Goto, ledgerVars, boardVars, TypeOK, NoReq
  <2>3. CASE LockEvent(r)
    BY <2>3 DEF LockEvent, Goto, ledgerVars, boardVars, TypeOK, HasEventLock
  <2>4. CASE Enter(r)
    BY <2>4 DEF Enter, Goto, ledgerVars, boardVars, TypeOK, ReqInv
  <2>5. CASE LockOwner(r)
    BY <2>5 DEF LockOwner, Goto, ledgerVars, boardVars, TypeOK, ReqInv
  <2>6. CASE LockScore(r)
    BY <2>6 DEF LockScore, Goto, Stamped, ledgerVars, boardVars, TypeOK, ReqInv
  <2>7. CASE LockRow(r)
    BY <2>7 DEF LockRow, Goto, ledgerVars, boardVars, TypeOK, ReqInv
  <2>8. CASE Stamp(r)
    BY <2>8 DEF Stamp, Goto, Stamped, ledgerVars, boardVars, TypeOK
  <2>9. CASE Award(r)
    <3>1. EventOf(r).parent = req[r].parent /\ EventOf(r).ts = stamp[r]
      BY <2>9, EventOfType DEF Award
    <3>2. ASSUME NEW q \in Request, q # r, Void(q), pc[q] = "commit"
          PROVE  EventOf(r).parent # req[q].parent
      <4>1. req[q].parent # NoEvent
        BY <3>2 DEF LedgerInv, TypeOK, Event, NoEvent
      <4> QED  BY <2>9, <3>1, <3>2, <4>1 DEF Award, ReqInv
    <3> QED  BY <2>9, <3>1, <3>2 DEF Award, Done, Goto, NoReq, TypeOK
  <2>10. CASE CommitDuplicate(r)
    BY <2>10 DEF CommitDuplicate, Done, Goto, boardVars, ledgerVars, TypeOK, NoReq
  <2> QED  BY <1>1, <2>1, <2>2, <2>3, <2>4, <2>5, <2>6, <2>7, <2>8, <2>9, <2>10 DEF
     Transaction
<1>2. CASE Lifecycle
  <2>1. CASE Freeze
    BY <2>1 DEF Freeze, ledgerVars, reqVars
  <2>2. CASE Finish
    BY <2>2 DEF Finish, ledgerVars, reqVars
  <2>3. CASE Archive
    BY <2>3 DEF Archive, ledgerVars, reqVars
  <2>4. CASE FreezeTimePasses
    BY <2>4 DEF FreezeTimePasses, ledgerVars, reqVars
  <2>5. CASE EndTimePasses
    BY <2>5 DEF EndTimePasses, ledgerVars, reqVars
  <2> QED  BY <1>2, <2>1, <2>2, <2>3, <2>4, <2>5 DEF Lifecycle
<1>3. ASSUME NEW a \in Reader, Plan(a) \/ Answer(a) \/ Leave(a) PROVE VoidInv'
  <2>1. CASE Plan(a)
    BY <2>1 DEF Plan, ledgerVars, boardVars, reqVars
  <2>2. CASE Answer(a)
    BY <2>2 DEF Answer, ledgerVars, boardVars, reqVars
  <2>3. CASE Leave(a)
    BY <2>3 DEF Leave, ledgerVars, boardVars, reqVars
  <2> QED  BY <1>3, <2>1, <2>2, <2>3
<1>4. ASSUME NEW b \in Rebuilder, RebuildStart(b) \/ RebuildTeams(b) \/ RebuildChallenges(b)
                  \/ RebuildFails(b)
      PROVE VoidInv'
  <2>1. CASE RebuildStart(b)
    BY <2>1 DEF RebuildStart, ledgerVars, boardVars, reqVars
  <2>2. CASE RebuildTeams(b)
    BY <2>2 DEF RebuildTeams, ledgerVars, boardVars, reqVars
  <2>3. CASE RebuildChallenges(b)
    BY <2>3 DEF RebuildChallenges, boardVars, reqVars
  <2>4. CASE RebuildFails(b)
    BY <2>4 DEF RebuildFails, ledgerVars, boardVars, reqVars
  <2> QED  BY <1>4, <2>1, <2>2, <2>3, <2>4
<1> QED  BY <1>1, <1>2, <1>3, <1>4 DEF Next

\* A correction is written by who is alone with an event that was not corrected.
LEMMA CorrectionStep ==
  ASSUME TypeOK, ReqInv, LedgerInv, SeenInv, DateInv, VoidInv, CorrectionInv, Next
  PROVE  CorrectionInv'
<1> USE DEF CorrectionInv
<1>1. ASSUME NEW r \in Request, Transaction(r) PROVE CorrectionInv'
  <2>1. CASE Begin(r)
    BY <2>1 DEF Begin, Goto, ledgerVars, boardVars
  <2>2. CASE Fail(r)
    BY <2>2 DEF Fail, Goto, ledgerVars, boardVars
  <2>3. CASE LockEvent(r)
    BY <2>3 DEF LockEvent, Goto, ledgerVars, boardVars
  <2>4. CASE Enter(r)
    BY <2>4 DEF Enter, Goto, ledgerVars, boardVars
  <2>5. CASE LockOwner(r)
    BY <2>5 DEF LockOwner, Goto, ledgerVars, boardVars
  <2>6. CASE LockScore(r)
    BY <2>6 DEF LockScore, Goto, Stamped, ledgerVars, boardVars
  <2>7. CASE LockRow(r)
    BY <2>7 DEF LockRow, Goto, ledgerVars, boardVars
  <2>8. CASE Stamp(r)
    BY <2>8 DEF Stamp, Goto, Stamped, ledgerVars, boardVars
  <2>9. CASE Award(r)
    <3>1. /\ EventOf(r).type = "correction" <=> req[r].kind = "void"
          /\ EventOf(r).parent = req[r].parent
      BY <2>9, EventOfType DEF Award
    <3> QED  BY <2>9, <3>1 DEF Award, Done, VoidInv, Void
  <2>10. CASE CommitDuplicate(r)
    BY <2>10 DEF CommitDuplicate, Done, Goto, boardVars, ledgerVars
  <2> QED  BY <1>1, <2>1, <2>2, <2>3, <2>4, <2>5, <2>6, <2>7, <2>8, <2>9, <2>10 DEF
     Transaction
<1>2. CASE Lifecycle
  <2>1. CASE Freeze
    BY <2>1 DEF Freeze, ledgerVars, reqVars
  <2>2. CASE Finish
    BY <2>2 DEF Finish, ledgerVars, reqVars
  <2>3. CASE Archive
    BY <2>3 DEF Archive, ledgerVars, reqVars
  <2>4. CASE FreezeTimePasses
    BY <2>4 DEF FreezeTimePasses, ledgerVars, reqVars
  <2>5. CASE EndTimePasses
    BY <2>5 DEF EndTimePasses, ledgerVars, reqVars
  <2> QED  BY <1>2, <2>1, <2>2, <2>3, <2>4, <2>5 DEF Lifecycle
<1>3. ASSUME NEW a \in Reader, Plan(a) \/ Answer(a) \/ Leave(a) PROVE CorrectionInv'
  <2>1. CASE Plan(a)
    BY <2>1 DEF Plan, ledgerVars, boardVars, reqVars
  <2>2. CASE Answer(a)
    BY <2>2 DEF Answer, ledgerVars, boardVars, reqVars
  <2>3. CASE Leave(a)
    BY <2>3 DEF Leave, ledgerVars, boardVars, reqVars
  <2> QED  BY <1>3, <2>1, <2>2, <2>3
<1>4. ASSUME NEW b \in Rebuilder, RebuildStart(b) \/ RebuildTeams(b) \/ RebuildChallenges(b)
                  \/ RebuildFails(b)
      PROVE CorrectionInv'
  <2>1. CASE RebuildStart(b)
    BY <2>1 DEF RebuildStart, ledgerVars, boardVars, reqVars
  <2>2. CASE RebuildTeams(b)
    BY <2>2 DEF RebuildTeams, ledgerVars, boardVars, reqVars
  <2>3. CASE RebuildChallenges(b)
    BY <2>3 DEF RebuildChallenges, boardVars, reqVars
  <2>4. CASE RebuildFails(b)
    BY <2>4 DEF RebuildFails, ledgerVars, boardVars, reqVars
  <2> QED  BY <1>4, <2>1, <2>2, <2>3, <2>4
<1> QED  BY <1>1, <1>2, <1>3, <1>4 DEF Next

\* The view that was planned hides what it should when it is answered.
LEMMA AskStep ==
  ASSUME TypeOK, FreezeInv, AskInv, Next
  PROVE  AskInv'
<1> USE DEF AskInv, TypeOK
<1>1. ASSUME NEW r \in Request, Transaction(r) PROVE AskInv'
  <2>1. CASE Begin(r)
    BY <2>1 DEF Begin, Goto, ledgerVars, boardVars
  <2>2. CASE Fail(r)
    BY <2>2 DEF Fail, Goto, ledgerVars, boardVars
  <2>3. CASE LockEvent(r)
    BY <2>3 DEF LockEvent, Goto, ledgerVars, boardVars
  <2>4. CASE Enter(r)
    BY <2>4 DEF Enter, Goto, ledgerVars, boardVars
  <2>5. CASE LockOwner(r)
    BY <2>5 DEF LockOwner, Goto, ledgerVars, boardVars
  <2>6. CASE LockScore(r)
    BY <2>6 DEF LockScore, Goto, Stamped, ledgerVars, boardVars
  <2>7. CASE LockRow(r)
    BY <2>7 DEF LockRow, Goto, ledgerVars, boardVars
  <2>8. CASE Stamp(r)
    BY <2>8 DEF Stamp, Goto, Stamped, ledgerVars, boardVars
  <2>9. CASE Award(r)
    BY <2>9 DEF Award, Done, Goto, boardVars
  <2>10. CASE CommitDuplicate(r)
    BY <2>10 DEF CommitDuplicate, Done, Goto, boardVars, ledgerVars
  <2> QED  BY <1>1, <2>1, <2>2, <2>3, <2>4, <2>5, <2>6, <2>7, <2>8, <2>9, <2>10 DEF
     Transaction
<1>2. CASE Lifecycle
  <2>1. CASE Freeze
    BY <2>1 DEF Freeze, ledgerVars, reqVars, FreezeInv
  <2>2. CASE Finish
    BY <2>2 DEF Finish, ledgerVars, reqVars
  <2>3. CASE Archive
    BY <2>3 DEF Archive, ledgerVars, reqVars
  <2>4. CASE FreezeTimePasses
    BY <2>4 DEF FreezeTimePasses, ledgerVars, reqVars
  <2>5. CASE EndTimePasses
    BY <2>5 DEF EndTimePasses, ledgerVars, reqVars
  <2> QED  BY <1>2, <2>1, <2>2, <2>3, <2>4, <2>5 DEF Lifecycle
<1>3. ASSUME NEW a \in Reader, Plan(a) \/ Answer(a) \/ Leave(a) PROVE AskInv'
  <2>1. CASE Plan(a)
    BY <2>1 DEF Plan, ledgerVars, boardVars, reqVars, NoAsk, PlanView, HiddenSince
  <2>2. CASE Answer(a)
    BY <2>2 DEF Answer, ledgerVars, boardVars, reqVars, Shown, Rows, FreezeInv,
       FreezeSnapshotStable
  <2>3. CASE Leave(a)
    BY <2>3 DEF Leave, ledgerVars, boardVars, reqVars, NoAsk
  <2> QED  BY <1>3, <2>1, <2>2, <2>3
<1>4. ASSUME NEW b \in Rebuilder, RebuildStart(b) \/ RebuildTeams(b) \/ RebuildChallenges(b)
                  \/ RebuildFails(b)
      PROVE AskInv'
  <2>1. CASE RebuildStart(b)
    BY <2>1 DEF RebuildStart, ledgerVars, boardVars, reqVars
  <2>2. CASE RebuildTeams(b)
    BY <2>2 DEF RebuildTeams, ledgerVars, boardVars, reqVars
  <2>3. CASE RebuildChallenges(b)
    BY <2>3 DEF RebuildChallenges, boardVars, reqVars
  <2>4. CASE RebuildFails(b)
    BY <2>4 DEF RebuildFails, ledgerVars, boardVars, reqVars
  <2> QED  BY <1>4, <2>1, <2>2, <2>3, <2>4
<1> QED  BY <1>1, <1>2, <1>3, <1>4 DEF Next

\* Nothing changes in a step that changes nothing.
LEMMA Stutter == ASSUME Inv, UNCHANGED vars PROVE Inv'
<1> USE DEF vars, ledgerVars, boardVars, reqVars
<1>1. TypeOK' /\ ReqInv' /\ LedgerInv' /\ DateInv' /\ ScoreLockInv' /\ AskInv'
  BY DEF Inv, TypeOK, ReqInv, LedgerInv, DateInv, ScoreLockInv, AskInv, Dated
<1>2. SeenInv' /\ PriceInv' /\ OneAwardPerOwner' /\ PriceOrder' /\ CorrectionInv'
  BY DEF Inv, SeenInv, PriceInv, OneAwardPerOwner, PriceOrder, CorrectionInv, Dated, Solves
<1>3. FreezeInv' /\ FinalInv' /\ VoidInv'
  BY DEF Inv, FreezeInv, FreezeSnapshotStable, FinalInv, VoidInv, Void, Dated, Rows, Sharing
<1> QED  BY <1>1, <1>2, <1>3 DEF Inv

\* Every step keeps the whole invariant.
LEMMA InvStep == Inv /\ [Next]_vars => Inv'
<1> SUFFICES ASSUME Inv, [Next]_vars PROVE Inv'
  OBVIOUS
<1>1. CASE Next
  BY <1>1, TypeStep, ReqStep, LedgerStep, DateStep, ScoreLockStep, SeenStep, PriceStep,
     OneAwardStep, PriceOrderStep, FreezeStep, FinalStep, VoidStep, CorrectionStep, AskStep
     DEF Inv
<1> QED  BY <1>1, Stutter

\* The invariant holds in every reachable state.
THEOREM InvInvariant == Spec => []Inv
BY InvInit, InvStep, PTL DEF Spec

-----------------------------------------------------------------------------
(* What follows.                                                           *)

\* The ledger, the boards, the transactions, readers and rebuilds are of their
\* types in every reachable state.
THEOREM TypeCorrect == Spec => []TypeOK
<1>1. Inv => TypeOK
  BY DEF Inv
<1> QED  BY <1>1, InvInvariant, PTL

\* However many members of a team submit the same flag at once, the team is
\* awarded the challenge once (claimTeamCompetitionSolve).
THEOREM AwardedOnce == Spec => []OneAwardPerOwner
<1>1. Inv => OneAwardPerOwner
  BY DEF Inv
<1> QED  BY <1>1, InvInvariant, PTL

\* Solves of a challenge are priced in the order in which they are dated (Submit).
THEOREM PricedInOrder == Spec => []PriceOrder
<1>1. Inv => PriceOrder
  BY DEF Inv
<1> QED  BY <1>1, InvInvariant, PTL

\* The frozen standings are the ledger up to the freeze, and stay it (SetStatus).
THEOREM FreezeStays == Spec => []FreezeSnapshotStable
<1>1. Inv => FreezeSnapshotStable
  BY DEF Inv, FreezeInv
<1> QED  BY <1>1, InvInvariant, PTL

\* The settlement is the whole ledger, and stays it (SetStatus).
THEOREM FinalIsFinal == Spec => []FinalComplete
<1>1. Inv => FinalComplete
  BY DEF Inv, FinalInv, FinalComplete
<1> QED  BY <1>1, InvInvariant, PTL

\* An event is corrected at most once and no correction is corrected (VoidEvent).
THEOREM CorrectedOnce == Spec => []CorrectionsFinal
<1>1. Inv => CorrectionsFinal
  BY DEF Inv, CorrectionInv, CorrectionsFinal, LedgerInv
<1> QED  BY <1>1, InvInvariant, PTL

\* Who asks while scores are hidden is shown none of them (planPublicView).
THEOREM ReadsHide == Spec => []FrozenReadsHide
<1>1. Inv => FrozenReadsHide
  BY DEF Inv, AskInv, FrozenReadsHide
<1> QED  BY <1>1, InvInvariant, PTL

-----------------------------------------------------------------------------
(* What an award adds to the counts of a challenge and of a team.          *)

\* Only an award writes to the ledger.
LEMMA OnlyAwards == ASSUME Next PROVE events' = events \/ \E r \in Request : Award(r)
  BY DEF Next, Transaction, Lifecycle, Begin, Fail, LockEvent, Enter, LockOwner, LockScore, LockRow,
         Stamp, CommitDuplicate, Freeze, Finish, Archive, FreezeTimePasses, EndTimePasses, Plan,
         Answer, Leave, RebuildStart, RebuildTeams, RebuildChallenges, RebuildFails, ledgerVars

\* An award adds one event; if it is a solve, it is later than what was read, and
\* that is every other solve of the challenge.
LEMMA AwardAdds ==
  ASSUME Inv, NEW r \in Request, Award(r), NEW e, e = EventOf(r)
  PROVE  /\ events' = events \cup {e} /\ e \notin events /\ e \in Event
         /\ e.user = req[r].user /\ e.user \in User /\ e.chal = req[r].chal
         /\ e.type = "solve" <=> req[r].kind = "submit"
         /\ e.type = "solve" => /\ e.chal \in Challenge /\ seen[r] = Solves(e.chal)
                                /\ \A f \in Solves(e.chal) : f.ts < e.ts
<1>1. TypeOK /\ LedgerInv /\ SeenInv /\ ReqInv /\ DateInv /\ PriceInv /\ pc[r] = "commit" /\ r \in Dated
  BY DEF Inv, Award, Dated
<1>2. /\ e \in Event /\ e.ts = stamp[r] /\ (e.type = "solve" <=> req[r].kind = "submit")
      /\ e.user = req[r].user /\ e.chal = req[r].chal
  BY <1>1, EventOfType
<1>3. e \notin events
  BY <1>1, <1>2 DEF DateInv
<1>4. events' = events \cup {e}
  BY DEF Award
<1>5. e.user \in User /\ (e.type = "solve" => e.chal \in Challenge)
  BY <1>1, <1>2 DEF ReqInv
<1>6. e.type = "solve" => seen[r] = Solves(e.chal) /\ \A f \in Solves(e.chal) : f.ts < e.ts
  BY <1>1, <1>2 DEF SeenInv, PriceInv
<1> QED  BY <1>2, <1>3, <1>4, <1>5, <1>6

\* The solves of a challenge, and the events of a team, after a new event.
LEMMA SolvesGrow ==
  ASSUME NEW e, events' = events \cup {e}, NEW c
  PROVE  Solves(c)' = IF e.type = "solve" /\ e.chal = c THEN Solves(c) \cup {e} ELSE Solves(c)
  BY DEF Solves
LEMMA TeamEventsGrow ==
  ASSUME NEW e, events' = events \cup {e}, NEW t
  PROVE  TeamEvents(t)' = IF Mode = "team" /\ TeamOf[e.user] = t
                          THEN TeamEvents(t) \cup {e} ELSE TeamEvents(t)
  BY DEF TeamEvents

LEMMA CountsFinite ==
  ASSUME LedgerInv, NEW S \in SUBSET events
  PROVE  IsFiniteSet(S) /\ Cardinality(S) \in Nat
  BY FS_Subset, FS_CardinalityType DEF LedgerInv

-----------------------------------------------------------------------------
(* The ranks: as long as they are not all given every solve has one.       *)

Blooded(c) == {e \in Solves(c) : e.blood # 0}
BloodInv == \A c \in Challenge : Blooded(c) = Solves(c) \/ Cardinality(Blooded(c)) >= BloodRanks

LEMMA BloodStep ==
  ASSUME Inv, BloodInv, BloodOrder, Next
  PROVE  BloodInv' /\ BloodOrder'
<1>1. CASE events' = events
  BY <1>1 DEF BloodInv, BloodOrder, Blooded, Solves
<1>2. ASSUME NEW r \in Request, Award(r) PROVE BloodInv' /\ BloodOrder'
  <2>1. PICK e : e = EventOf(r)
    OBVIOUS
  <2>2. /\ events' = events \cup {e} /\ e \notin events
        /\ e.type = "solve" => /\ e.chal \in Challenge /\ seen[r] = Solves(e.chal)
                               /\ \A f \in Solves(e.chal) : f.ts < e.ts
        /\ e.type = "solve" <=> req[r].kind = "submit"
    BY <1>2, <2>1, AwardAdds
  <2>3. ASSUME NEW c \in Challenge, ~(e.type = "solve" /\ e.chal = c)
        PROVE  /\ Blooded(c)' = Solves(c)' \/ Cardinality(Blooded(c)') >= BloodRanks
               /\ \A g \in Solves(c)' :
                    LET earlier == Cardinality({f \in Solves(c)' : f.ts < g.ts})
                    IN  g.blood = IF earlier < BloodRanks THEN earlier + 1 ELSE 0
    <3>1. Solves(c)' = Solves(c)
      BY <2>2, <2>3, SolvesGrow
    <3>2. Blooded(c)' = Blooded(c)
      BY <3>1 DEF Blooded
    <3> QED  BY <3>1, <3>2 DEF BloodInv, BloodOrder
  <2>4. ASSUME NEW c \in Challenge, e.type = "solve", e.chal = c
        PROVE  /\ Blooded(c)' = Solves(c)' \/ Cardinality(Blooded(c)') >= BloodRanks
               /\ \A g \in Solves(c)' :
                    LET earlier == Cardinality({f \in Solves(c)' : f.ts < g.ts})
                    IN  g.blood = IF earlier < BloodRanks THEN earlier + 1 ELSE 0
    <3>1. PICK S, B : S = Solves(c) /\ B = Blooded(c)
      OBVIOUS
    <3>2. Solves(c)' = S \cup {e} /\ e \notin S /\ \A f \in S : f.ts < e.ts
      BY <2>2, <2>4, <3>1, SolvesGrow DEF Solves
    <3>3. /\ IsFiniteSet(S) /\ IsFiniteSet(B) /\ Cardinality(S) \in Nat /\ Cardinality(B) \in Nat
          /\ Cardinality(B) <= Cardinality(S) /\ BloodRanks \in Nat
      <4>1. S \in SUBSET events /\ B \in SUBSET events /\ B \in SUBSET S
        BY <3>1 DEF Solves, Blooded
      <4> QED  BY <4>1, CountsFinite, FS_Subset, ScoringAssumption DEF Inv
    <3>4. e.blood = IF Cardinality(B) < BloodRanks THEN Cardinality(B) + 1 ELSE 0
      <4>1. Bloods(r) = B
        BY <2>2, <2>4, <3>1 DEF Bloods, Blooded
      <4>2. req[r].kind = "submit"
        BY <2>2, <2>4
      <4>3. EventOf(r).blood = IF req[r].kind = "submit" /\ Cardinality(Bloods(r)) < BloodRanks
                               THEN Cardinality(Bloods(r)) + 1 ELSE 0
        BY DEF EventOf
      <4> QED  BY <2>1, <4>1, <4>2, <4>3
    <3>5. B = S \/ Cardinality(B) >= BloodRanks
      BY <3>1 DEF BloodInv
    <3>6. Blooded(c)' = {g \in S \cup {e} : g.blood # 0} /\ B = {g \in S : g.blood # 0}
      BY <3>1, <3>2 DEF Blooded
    <3>7. Blooded(c)' = Solves(c)' \/ Cardinality(Blooded(c)') >= BloodRanks
      <4>1. CASE Cardinality(B) < BloodRanks
        <5>1. B = S /\ e.blood # 0
          BY <3>3, <3>4, <3>5, <4>1
        <5> QED  BY <3>2, <3>6, <5>1
      <4>2. CASE ~(Cardinality(B) < BloodRanks)
        <5>1. e.blood = 0
          BY <3>4, <4>2
        <5>2. Blooded(c)' = B
          BY <3>6, <5>1
        <5> QED  BY <3>3, <4>2, <5>2
      <4> QED  BY <4>1, <4>2
    <3>8. \A f \in S : f.ts \in Nat /\ e.ts \in Nat
      <4>1. e \in Event /\ S \subseteq Event
        BY <1>2, <2>1, <3>1, AwardAdds DEF Inv, TypeOK, Solves
      <4> QED  BY <4>1 DEF Event
    <3>9. ASSUME NEW g \in S
          PROVE  LET earlier == Cardinality({f \in S \cup {e} : f.ts < g.ts})
                 IN  g.blood = IF earlier < BloodRanks THEN earlier + 1 ELSE 0
      <4>1. {f \in S \cup {e} : f.ts < g.ts} = {f \in S : f.ts < g.ts}
        BY <3>2, <3>8
      <4> QED  BY <3>1, <4>1 DEF BloodOrder
    <3>10. e.blood = IF Cardinality(S) < BloodRanks THEN Cardinality(S) + 1 ELSE 0
      BY <3>3, <3>4, <3>5
    <3>11. {f \in S \cup {e} : f.ts < e.ts} = S
      BY <3>2, <3>8, <1>2, <2>1, AwardAdds DEF Event
    <3>12. \A g \in S \cup {e} :
             LET earlier == Cardinality({f \in S \cup {e} : f.ts < g.ts})
             IN  g.blood = IF earlier < BloodRanks THEN earlier + 1 ELSE 0
      BY <3>9, <3>10, <3>11
    <3> QED  BY <3>2, <3>7, <3>12
  <2> QED  BY <2>3, <2>4 DEF BloodInv, BloodOrder
<1> QED  BY <1>1, <1>2, OnlyAwards

\* Blood ranks are given in the order of the dates, without gap or tie (Submit).
THEOREM BloodsInOrder == Spec => []BloodOrder
<1>1. Init => BloodInv /\ BloodOrder
  BY DEF Init, BloodInv, BloodOrder, Blooded, Solves
<1>2. Inv /\ BloodInv /\ BloodOrder /\ [Next]_vars => (BloodInv /\ BloodOrder)'
  <2> SUFFICES ASSUME Inv, BloodInv, BloodOrder, [Next]_vars PROVE BloodInv' /\ BloodOrder'
    OBVIOUS
  <2>1. CASE UNCHANGED vars
    BY <2>1 DEF vars, ledgerVars, BloodInv, BloodOrder, Blooded, Solves
  <2> QED  BY <2>1, BloodStep
<1> QED  BY <1>1, <1>2, InvInvariant, PTL DEF Spec

-----------------------------------------------------------------------------
(* The derived scores: an award adds its event to what is counted, and a   *)
(* rebuild leaves out what it did not read.                                *)

AccountInv ==
    /\ missed.teams \subseteq events /\ missed.chals \subseteq events
    /\ \A b \in Rebuilder : rebuild[b].teams \subseteq events /\ rebuild[b].chals \subseteq events
    /\ ScoreAccounted

\* One more event is worth its delta.
LEMMA PointsAdd ==
  ASSUME NEW S, IsFiniteSet(S), NEW e, e \notin S, e.delta \in Delta
  PROVE  Points(S \cup {e}) = Points(S) + e.delta
<1>1. PICK G, L : G = {f \in S : f.delta = 1} /\ L = {f \in S : f.delta = -1}
  OBVIOUS
<1>2. IsFiniteSet(G) /\ IsFiniteSet(L) /\ e \notin G /\ e \notin L
  BY <1>1, FS_Subset
<1>3. Cardinality(G) \in Nat /\ Cardinality(L) \in Nat
  BY <1>2, FS_CardinalityType
<1>4. Cardinality(G \cup {e}) = Cardinality(G) + 1 /\ Cardinality(L \cup {e}) = Cardinality(L) + 1
  BY <1>2, FS_AddElement
<1>5. Points(S) = Cardinality(G) - Cardinality(L)
  BY <1>1 DEF Points
<1>6. CASE e.delta = 1
  <2>1. {f \in S \cup {e} : f.delta = 1} = G \cup {e} /\ {f \in S \cup {e} : f.delta = -1} = L
    BY <1>1, <1>6
  <2>2. Points(S \cup {e}) = Cardinality(G \cup {e}) - Cardinality(L)
    BY <2>1 DEF Points
  <2> QED  BY <1>3, <1>4, <1>5, <1>6, <2>2
<1>7. CASE e.delta = -1
  <2>1. {f \in S \cup {e} : f.delta = 1} = G /\ {f \in S \cup {e} : f.delta = -1} = L \cup {e}
    BY <1>1, <1>7
  <2>2. Points(S \cup {e}) = Cardinality(G) - Cardinality(L \cup {e})
    BY <2>1 DEF Points
  <2> QED  BY <1>3, <1>4, <1>5, <1>7, <2>2
<1> QED  BY <1>6, <1>7 DEF Delta

\* An award counts its event once, in the score of its team and the solves of its
\* challenge.
LEMMA AwardAccounted ==
  ASSUME Inv, AccountInv, NEW r \in Request, Award(r)
  PROVE  AccountInv'
<1>1. PICK e : e = EventOf(r)
  OBVIOUS
<1>2. /\ events' = events \cup {e} /\ e \notin events /\ e.user = req[r].user /\ e.user \in User
      /\ e.chal = req[r].chal
      /\ e.type = "solve" <=> req[r].kind = "submit"
      /\ e.type = "solve" => e.chal \in Challenge
  BY <1>1, AwardAdds
<1>3. e.delta = req[r].delta /\ e.delta \in Delta
  <2>1. e.delta = req[r].delta
    BY <1>1 DEF EventOf
  <2> QED  BY <2>1 DEF Inv, TypeOK, Req
<1>4. /\ teamScore \in [Team -> Int] /\ solveCount \in [Challenge -> Nat] /\ LedgerInv
      /\ missed' = missed /\ rebuild' = rebuild
  BY DEF Inv, TypeOK, Award, Done
<1>5. ASSUME NEW t \in Team PROVE teamScore'[t] = Points(TeamEvents(t)' \ missed.teams)
  <2>1. PICK S : S = TeamEvents(t) \ missed.teams
    OBVIOUS
  <2>2. teamScore[t] = Points(S) /\ S \in SUBSET events
    BY <2>1 DEF AccountInv, ScoreAccounted, TeamEvents
  <2>3. IsFiniteSet(S) /\ e \notin S /\ e \notin missed.teams
    BY <1>2, <1>4, <2>2, CountsFinite DEF AccountInv
  <2>4. CASE Mode = "team" /\ TeamOf[e.user] = t
    <3>1. TeamEvents(t)' \ missed.teams = S \cup {e}
      BY <1>2, <2>1, <2>3, <2>4, TeamEventsGrow
    <3>2. teamScore'[t] = teamScore[t] + e.delta
      BY <1>2, <1>3, <1>4, <2>4 DEF Award
    <3> QED  BY <1>3, <2>2, <2>3, <3>1, <3>2, PointsAdd
  <2>5. CASE ~(Mode = "team" /\ TeamOf[e.user] = t)
    <3>1. TeamEvents(t)' \ missed.teams = S
      BY <1>2, <2>1, <2>5, TeamEventsGrow
    <3>2. teamScore'[t] = teamScore[t]
      BY <1>2, <1>4, <2>5, ScoringAssumption DEF Award
    <3> QED  BY <2>2, <3>1, <3>2
  <2> QED  BY <2>4, <2>5
<1>6. ASSUME NEW c \in Challenge PROVE solveCount'[c] = Cardinality(Solves(c)' \ missed.chals)
  <2>1. PICK S : S = Solves(c) \ missed.chals
    OBVIOUS
  <2>2. solveCount[c] = Cardinality(S) /\ S \in SUBSET events
    BY <2>1 DEF AccountInv, ScoreAccounted, Solves
  <2>3. IsFiniteSet(S) /\ e \notin S /\ e \notin missed.chals
    BY <1>2, <1>4, <2>2, CountsFinite DEF AccountInv
  <2>4. CASE e.type = "solve" /\ e.chal = c
    <3>1. Solves(c)' \ missed.chals = S \cup {e}
      BY <1>2, <2>1, <2>3, <2>4, SolvesGrow
    <3>2. Cardinality(S \cup {e}) = Cardinality(S) + 1
      BY <2>3, FS_AddElement
    <3>3. solveCount'[c] = solveCount[c] + 1
      BY <1>2, <1>4, <2>4 DEF Award
    <3> QED  BY <2>2, <3>1, <3>2, <3>3
  <2>5. CASE ~(e.type = "solve" /\ e.chal = c)
    <3>1. Solves(c)' \ missed.chals = S
      BY <1>2, <2>1, <2>5, SolvesGrow
    <3>2. solveCount'[c] = solveCount[c]
      BY <1>2, <1>4, <2>5 DEF Award
    <3> QED  BY <2>2, <3>1, <3>2
  <2> QED  BY <2>4, <2>5
<1>7. ScoreAccounted'
  BY <1>4, <1>5, <1>6 DEF ScoreAccounted
<1> QED  BY <1>2, <1>4, <1>7 DEF AccountInv

\* A rebuild writes what it read; the rest is missed.
LEMMA RebuildAccounted ==
  ASSUME Inv, AccountInv, NEW b \in Rebuilder,
         RebuildStart(b) \/ RebuildTeams(b) \/ RebuildChallenges(b) \/ RebuildFails(b)
  PROVE  AccountInv'
<1>1. events' = events
  BY DEF RebuildStart, RebuildTeams, RebuildChallenges, RebuildFails, ledgerVars
<1>2. /\ \A t \in Team : TeamEvents(t)' = TeamEvents(t) /\ TeamEvents(t) \subseteq events
      /\ \A c \in Challenge : Solves(c)' = Solves(c) /\ Solves(c) \subseteq events
  BY <1>1 DEF TeamEvents, Solves
<1>3. \A x \in Rebuilder : rebuild'[x].teams \subseteq events /\ rebuild'[x].chals \subseteq events
  <2>1. PICK n : /\ rebuild' = [rebuild EXCEPT ![b] = n]
                 /\ n.teams \subseteq events /\ n.chals \subseteq events
    <3>1. CASE RebuildStart(b)
      <4>1. PICK n : n = [NoRebuild EXCEPT !.pc = "teams", !.teams = events]
        OBVIOUS
      <4>2. n.teams = events /\ n.chals = {}
        BY <4>1 DEF NoRebuild
      <4>3. rebuild' = [rebuild EXCEPT ![b] = n]
        BY <3>1, <4>1 DEF RebuildStart
      <4> QED  BY <4>2, <4>3
    <3>2. CASE RebuildTeams(b)
      <4>1. PICK n : n = [rebuild[b] EXCEPT !.pc = "challenges", !.chals = events]
        OBVIOUS
      <4>2. n.teams = rebuild[b].teams /\ n.chals = events
        BY <4>1 DEF Inv, TypeOK
      <4>3. rebuild' = [rebuild EXCEPT ![b] = n]
        BY <3>2, <4>1 DEF RebuildTeams, Inv, TypeOK
      <4> QED  BY <4>2, <4>3 DEF AccountInv
    <3>3. CASE RebuildChallenges(b) \/ RebuildFails(b)
      <4>1. rebuild' = [rebuild EXCEPT ![b] = NoRebuild]
        BY <3>3 DEF RebuildChallenges, RebuildFails
      <4>2. NoRebuild.teams = {} /\ NoRebuild.chals = {}
        BY DEF NoRebuild
      <4> QED  BY <4>1, <4>2
    <3> QED  BY <3>1, <3>2, <3>3
  <2> QED  BY <2>1 DEF AccountInv, Inv, TypeOK
<1>4. CASE UNCHANGED <<teamScore, solveCount, missed>>
  BY <1>1, <1>2, <1>3, <1>4 DEF AccountInv, ScoreAccounted
<1>5. CASE RebuildChallenges(b)
  <2>1. PICK T, C : T = rebuild[b].teams /\ C = rebuild[b].chals
    OBVIOUS
  <2>2. /\ teamScore' = [t \in Team |-> Points(TeamEvents(t) \cap T)]
        /\ solveCount' = [c \in Challenge |-> Cardinality(Solves(c) \cap C)]
        /\ missed' = [teams |-> events \ T, chals |-> events \ C]
    BY <1>5, <2>1 DEF RebuildChallenges
  <2>3. missed'.teams = events \ T /\ missed'.chals = events \ C
    BY <2>2
  <2>4. /\ \A t \in Team : TeamEvents(t) \ missed'.teams = TeamEvents(t) \cap T
        /\ \A c \in Challenge : Solves(c) \ missed'.chals = Solves(c) \cap C
    BY <1>2, <2>3
  <2>5. ScoreAccounted'
    BY <1>2, <2>2, <2>4 DEF ScoreAccounted
  <2>6. missed'.teams \subseteq events' /\ missed'.chals \subseteq events'
    BY <1>1, <2>3
  <2> QED  BY <1>1, <1>3, <2>5, <2>6 DEF AccountInv
<1> QED  BY <1>4, <1>5 DEF RebuildStart, RebuildTeams, RebuildFails, ledgerVars

LEMMA AccountStep == ASSUME Inv, AccountInv, [Next]_vars PROVE AccountInv'
<1>1. CASE UNCHANGED <<events, teamScore, solveCount, missed, rebuild>>
  BY <1>1 DEF AccountInv, ScoreAccounted, TeamEvents, Solves
<1>2. CASE UNCHANGED vars
  BY <1>1, <1>2 DEF vars, ledgerVars
<1>3. CASE Lifecycle
  BY <1>1, <1>3 DEF Lifecycle, Freeze, Finish, Archive, FreezeTimePasses, EndTimePasses, ledgerVars
<1>4. CASE \E a \in Reader : Plan(a) \/ Answer(a) \/ Leave(a)
  BY <1>1, <1>4 DEF Plan, Answer, Leave, ledgerVars
<1>5. ASSUME NEW r \in Request, Transaction(r), ~Award(r) PROVE AccountInv'
  BY <1>1, <1>5 DEF Transaction, Begin, Fail, LockEvent, Enter, LockOwner, LockScore, LockRow, Stamp,
                    CommitDuplicate, Done, ledgerVars
<1> QED  BY <1>2, <1>3, <1>4, <1>5, AwardAccounted, RebuildAccounted DEF Next

\* The score of a team and the solve count of a challenge lose exactly what was
\* committed while the last rebuild ran (RebuildDerived).
THEOREM ScoresAccounted == Spec => []ScoreAccounted
<1>1. Init => AccountInv
  <2> SUFFICES ASSUME Init PROVE AccountInv
    OBVIOUS
  <2>1. \A S : S = {} => Points(S) = 0 /\ Cardinality(S) = 0
    <3>1. Cardinality({}) = 0
      BY FS_EmptySet
    <3>2. Points({}) = Cardinality({}) - Cardinality({})
      <4>1. {e \in {} : e.delta = 1} = {} /\ {e \in {} : e.delta = -1} = {}
        OBVIOUS
      <4> QED  BY <4>1 DEF Points
    <3>3. Points({}) = 0
      BY <3>1, <3>2
    <3> QED  BY <3>1, <3>3
  <2>2. /\ \A t \in Team : TeamEvents(t) \ missed.teams = {}
        /\ \A c \in Challenge : Solves(c) \ missed.chals = {}
    BY DEF Init, TeamEvents, Solves
  <2>3. ScoreAccounted
    BY <2>1, <2>2 DEF Init, ScoreAccounted
  <2> QED  BY <2>3 DEF Init, AccountInv, NoRebuild
<1>2. AccountInv => ScoreAccounted
  BY DEF AccountInv
<1> QED  BY <1>1, <1>2, AccountStep, InvInvariant, PTL DEF Spec
=============================================================================
