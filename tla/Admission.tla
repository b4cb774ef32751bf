----------------------------- MODULE Admission -----------------------------
(***************************************************************************)
(* How operations on instances are admitted: the idempotency keys of       *)
(* requests, the lock that keeps a challenge published meanwhile, the      *)
(* quota of an owner, one active instance of an owner and challenge, the   *)
(* operations of administrators and the expiry (instance/service.go).      *)
(*                                                                         *)
(* Advisory and row locks are held to the end of the transaction, whose    *)
(* effect is its last step; a transition locks the row it changes, so that *)
(* finding it and changing it is one step.  What was resolved before the   *)
(* transaction (the scope a user may act in) does not change here.  A      *)
(* challenge is locked on its own or by its competition, which also has a  *)
(* window: that ends by the clock and waits for nobody.                    *)
(***************************************************************************)
EXTENDS Integers, FiniteSets, InstanceState

CONSTANTS Member, Owner, Challenge, Key, Caller,
          ActsFor,      \* owners (the user, teams) a user acts for
          Quota,        \* max_active_instances of an owner
          Operations,   \* bound: what is requested
          MaxInstances  \* bound: instances ever created

AdmissionAssumption ==
    /\ Member # {} /\ Owner # {} /\ Challenge # {} /\ Key # {}
    /\ ActsFor \in [Member -> SUBSET Owner] /\ Quota \in [Owner -> Nat]
    /\ Operations \subseteq {"start", "restart", "stop", "reset"} /\ MaxInstances \in Nat

VARIABLES
    playable,   \* challenges that are published, or whose competition is running
    ended,      \* challenges of a competition whose window has ended
    made, inst, \* challenge_instances
    ops,        \* runtime_operations (and instance_operations)
    stage, want     \* requests that are served

admissionVars == <<playable, ended, made, inst, ops, stage, want>>

Id == 1..MaxInstances
Made == 1..made
NoId == 0

InstRow == [owner : Owner, chal : Challenge, by : Member, st : Status]
Operation == [actor : Member, key : Key \cup Id, op : JobKind, inst : Id]
\* A user names a challenge and an owner, an administrator and the expiry an
\* instance; current: the row has the version the administrator has seen.
CallRow == [op : JobKind, actor : Member, key : Key \cup Id, owner : Owner, chal : Challenge,
         inst : Id \cup {NoId}, current : BOOLEAN]

AdmissionTypeOK ==
    /\ playable \subseteq Challenge /\ ended \subseteq Challenge /\ made \in 0..MaxInstances
    /\ inst \in [Id -> InstRow]
    /\ ops \subseteq Operation
    /\ stage \in [Caller -> {"idle", "asked", "checked", "shared", "quota", "scope", "counted", "refused"}]
    /\ want \in [Caller -> CallRow]

NoInst == [owner |-> CHOOSE o \in Owner : TRUE, chal |-> CHOOSE c \in Challenge : TRUE,
          by |-> CHOOSE u \in Member : TRUE, st |-> "deleted"]
NoCall == [op |-> "start", actor |-> NoInst.by, key |-> CHOOSE k \in Key : TRUE, owner |-> NoInst.owner,
           chal |-> NoInst.chal, inst |-> NoId, current |-> TRUE]

AdmissionInit ==
    /\ playable = Challenge /\ ended = {}
    /\ made = 0 /\ inst = [n \in Id |-> NoInst]
    /\ ops = {}
    /\ stage = [r \in Caller |-> "idle"] /\ want = [r \in Caller |-> NoCall]

-----------------------------------------------------------------------------
Active(n) == n \in Made /\ inst[n].st \in ActiveStatus
InstOf(o, c) == {n \in Made : inst[n].owner = o /\ inst[n].chal = c}
Newest(S) == CHOOSE n \in S : \A m \in S : m <= n

\* Locks: the idempotency key, the challenge (SHARE), the quota of the owner and
\* the owner with the challenge.
HasKey(q, u, k) ==
    /\ stage[q] \in {"checked", "shared", "quota", "scope", "counted"}
    /\ want[q].actor = u /\ want[q].key = k
HasChallenge(q, c) ==
    /\ stage[q] \in {"shared", "quota", "scope", "counted"}
    /\ want[q].op # "stop" /\ want[q].chal = c
HasQuotaOfUser(q, w) ==   \* mutant: the user is locked, not the owner
    /\ stage[q] \in {"quota", "scope", "counted"} /\ want[q].op = "start"
    /\ want[q].actor = w.actor
HasQuota(q, w) ==
    /\ stage[q] \in {"quota", "scope", "counted"} /\ want[q].op = "start"
    /\ want[q].owner = w.owner
HasScope(q, w) ==
    /\ stage[q] \in {"scope", "counted"}
    /\ want[q].owner = w.owner /\ want[q].chal = w.chal

Others(r) == Caller \ {r}

Step(r, l) == stage' = [stage EXCEPT ![r] = l]
Served(r) == Step(r, "idle") /\ want' = [want EXCEPT ![r] = NoCall]
Refuse(r) == Step(r, "refused") /\ UNCHANGED want

Recorded(w) == {o \in ops : o.actor = w.actor /\ o.key = w.key}

\* The key was used for this very operation.
Same(o, w) ==
    /\ o.op = w.op
    /\ IF w.inst # NoId THEN o.inst = w.inst
       ELSE inst[o.inst].owner = w.owner /\ inst[o.inst].chal = w.chal

\* The instance as it is now, or IDEMPOTENCY_KEY_CONFLICT.
AnswerAgain(r) == IF \E o \in Recorded(want[r]) : Same(o, want[r]) THEN Served(r) ELSE Refuse(r)

-----------------------------------------------------------------------------
(* A request.                                                              *)

AskFor(r, w) ==
    /\ stage[r] = "idle"
    /\ Step(r, "asked") /\ want' = [want EXCEPT ![r] = w]
    /\ UNCHANGED <<playable, ended, made, inst, ops>>

\* Start, Restart, Stop, Reset.
AskUser(r, u, k, o, c) ==
    /\ o \in ActsFor[u]
    /\ \E op \in Operations :
         AskFor(r, [op |-> op, actor |-> u, key |-> k, owner |-> o, chal |-> c,
                    inst |-> NoId, current |-> TRUE])

AskOf(r, u, k, n, op) ==
    n \in Made /\ AskFor(r, [op |-> op, actor |-> u, key |-> k, owner |-> inst[n].owner,
                          chal |-> inst[n].chal, inst |-> n, current |-> TRUE])

AskAdmin(r, u, k, n) == \E op \in Operations \cap {"stop", "reset"} : AskOf(r, u, k, n, op)

\* ExpireDue asks in the name of the user, with a key made of the instance.
AskExpiry(r, n) == Active(n) /\ inst[n].st = "running" /\ AskOf(r, inst[n].by, n, n, "expire")

\* lockIdempotencyKey, and the key is looked up.
LockKeyTogether(r) ==   \* mutant: nobody waits for the key
    /\ stage[r] = "asked"
    /\ IF Recorded(want[r]) # {} THEN AnswerAgain(r) ELSE Step(r, "checked") /\ UNCHANGED want
    /\ UNCHANGED <<playable, ended, made, inst, ops>>
LockKey(r) ==
    /\ stage[r] = "asked"
    /\ \A q \in Others(r) : ~HasKey(q, want[r].actor, want[r].key)
    /\ IF Recorded(want[r]) # {} THEN AnswerAgain(r) ELSE Step(r, "checked") /\ UNCHANGED want
    /\ UNCHANGED <<playable, ended, made, inst, ops>>

\* ensureGlobalChallengeActive, ActiveChallenge: not for a stop.  The window is looked
\* at here and not again.
LockChallenge(r) ==
    /\ stage[r] = "checked" /\ want[r].inst = NoId
    /\ IF want[r].op = "stop" \/ want[r].chal \in playable \ ended
       THEN Step(r, "shared") /\ UNCHANGED want ELSE Refuse(r)
    /\ UNCHANGED <<playable, ended, made, inst, ops>>

LockQuota(r) ==
    /\ stage[r] = "shared" /\ want[r].op = "start"
    /\ \A q \in Others(r) : ~HasQuota(q, want[r])
    /\ Step(r, "quota")
    /\ UNCHANGED <<playable, ended, made, inst, ops, want>>

LockScope(r) ==
    /\ stage[r] = IF want[r].op = "start" THEN "quota" ELSE "shared"
    /\ \A q \in Others(r) : ~HasScope(q, want[r])
    /\ IF Recorded(want[r]) # {} THEN AnswerAgain(r) ELSE Step(r, "scope") /\ UNCHANGED want
    /\ UNCHANGED <<playable, ended, made, inst, ops>>

\* Start: INSTANCE_ALREADY_ACTIVE, and enforceQuota.
Count(r) ==
    LET o == want[r].owner
    IN  /\ stage[r] = "scope" /\ want[r].op = "start"
        /\ IF /\ \A n \in InstOf(o, want[r].chal) : ~Active(n)
              /\ Cardinality({n \in Id : Active(n) /\ inst[n].owner = o}) < Quota[o]
           THEN Step(r, "counted") /\ UNCHANGED want
           ELSE Refuse(r)
        /\ UNCHANGED <<playable, ended, made, inst, ops>>

\* The version of a row moves on.
Moved(q, n) == [want[q] EXCEPT !.current = @ /\ want[q].inst # n]

\* createJob.
Record(r, n) ==
    /\ ops' = ops \cup {[actor |-> want[r].actor, key |-> want[r].key,
                          op |-> want[r].op, inst |-> n]}
    /\ Step(r, "idle")
    /\ want' = [q \in Caller |-> IF q = r THEN NoCall ELSE Moved(q, n)]

\* The unique indexes on the key and on active instances refuse what the locks let
\* through, and the key is looked up once more.
Start(r) ==
    LET w == want[r]
    IN  /\ stage[r] = "counted" /\ made < MaxInstances   \* bound
        /\ IF Recorded(w) # {} THEN AnswerAgain(r) /\ UNCHANGED <<made, inst, ops>>
           ELSE /\ \A n \in InstOf(w.owner, w.chal) : ~Active(n)
                /\ made' = made + 1
                /\ inst' = [inst EXCEPT ![made + 1] =
                       [owner |-> w.owner, chal |-> w.chal, by |-> w.actor, st |-> To("start")]]
                /\ Record(r, made + 1)
        /\ UNCHANGED <<playable, ended>>

Change(r, n) ==
    IF NextAllowed(want[r].op, inst[n].st)
    THEN Record(r, n) /\ inst' = [inst EXCEPT ![n].st = To(want[r].op)]
    ELSE Refuse(r) /\ UNCHANGED <<inst, ops>>

\* Restart, Reset, Stop: the newest instance of the owner for the challenge.
Transition(r) ==
    LET S == InstOf(want[r].owner, want[r].chal)
    IN  /\ stage[r] = "scope" /\ want[r].op # "start"
        /\ IF S = {} THEN Refuse(r) /\ UNCHANGED <<inst, ops>> ELSE Change(r, Newest(S))
        /\ UNCHANGED <<playable, ended, made>>

\* AdminTransition and ExpireInstance look at the key again, and an administrator
\* at the version.
Operate(r) ==
    /\ stage[r] = "checked" /\ want[r].inst # NoId
    /\ IF Recorded(want[r]) # {} THEN AnswerAgain(r) /\ UNCHANGED <<inst, ops>>
       ELSE IF want[r].op = "expire" \/ want[r].current THEN Change(r, want[r].inst)
       ELSE Refuse(r) /\ UNCHANGED <<inst, ops>>
    /\ UNCHANGED <<playable, ended, made>>

Leave(r) ==
    /\ stage[r] = "refused"
    /\ Served(r)
    /\ UNCHANGED <<playable, ended, made, inst, ops>>

\* A call fails (no worker is online, the database, the process), and may be retried.
Fail(r) ==
    /\ stage[r] \notin {"idle", "refused"}
    /\ Served(r)
    /\ UNCHANGED <<playable, ended, made, inst, ops>>

-----------------------------------------------------------------------------
\* Archive, or SetStatus of the competition, waits for those who have the challenge.
Archive(c) ==
    /\ c \in playable /\ \A q \in Caller : ~HasChallenge(q, c)
    /\ playable' = playable \ {c}
    /\ UNCHANGED <<ended, made, inst, ops, stage, want>>

\* The clock passes the end of the competition, with requests wherever they are.
Close(c) ==
    /\ c \in playable \ ended
    /\ ended' = ended \cup {c}
    /\ UNCHANGED <<playable, made, inst, ops, stage, want>>

\* The worker: an operation succeeds or fails, a container is lost.
Worked(n) ==
    /\ Active(n)
    /\ \E st \in {"running", "stopped"} \ {inst[n].st} :
         /\ inst[n].st = "stopping" => st = "stopped"
         /\ inst' = [inst EXCEPT ![n].st = st]
    /\ want' = [q \in Caller |-> Moved(q, n)]
    /\ UNCHANGED <<playable, ended, made, ops, stage>>

AdmissionNext ==
    \/ \E r \in Caller :
         \/ LockKey(r) \/ LockChallenge(r) \/ LockQuota(r) \/ LockScope(r) \/ Count(r) \/ Start(r)
         \/ Transition(r) \/ Operate(r) \/ Leave(r) \/ Fail(r)
         \/ \E n \in Id : AskExpiry(r, n)
         \/ \E u \in Member, k \in Key :
              \/ \E n \in Id : AskAdmin(r, u, k, n)
              \/ \E o \in Owner, c \in Challenge : AskUser(r, u, k, o, c)
    \/ \E c \in Challenge : Archive(c) \/ Close(c)
    \/ \E n \in Id : Worked(n)

AdmissionSpec == AdmissionInit /\ [][AdmissionNext]_admissionVars

-----------------------------------------------------------------------------
(* Properties.                                                             *)

\* No owner has more active instances than the quota, also when members of a team
\* start different challenges at once; and the instance that is active is the newest
\* of its owner and challenge, which is the only one that Stop can reach.
AdmissionSound ==
    /\ \A o \in Owner : Cardinality({n \in Id : Active(n) /\ inst[n].owner = o}) <= Quota[o]
    /\ \A n, m \in Made : Active(n) /\ m \in InstOf(inst[n].owner, inst[n].chal) => m <= n

\* A request whose operation was recorded is never refused, whatever happened since
\* (archival, the end of the window, another operation, a full quota): a retry that
\* overlaps with the first attempt gets its answer.  And what is recorded for a user, but
\* for a stop, is recorded while the challenge is published or its competition running,
\* however long the request waited for the quota and the owner; its window may have
\* ended while it did.
Verdicts ==
    \A r \in Caller :
        /\ stage[r] # "refused" /\ stage'[r] = "refused" => ~\E o \in Recorded(want[r]) : Same(o, want[r])
        /\ /\ ops' # ops /\ stage[r] # "idle" /\ stage'[r] = "idle"
           /\ want[r].inst = NoId /\ want[r].op # "stop"
           => want[r].chal \in playable'
VerdictsSound == [][Verdicts]_admissionVars
=============================================================================
