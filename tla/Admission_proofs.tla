-------------------------- MODULE Admission_proofs --------------------------
(***************************************************************************)
(* That no quota is exceeded, that Stop reaches the instance that is       *)
(* active, and that a retry is never refused, for any number of users,     *)
(* owners, challenges, keys and requests; the end of a window stops none   *)
(* of them that has passed the check.                                      *)
(*                                                                         *)
(* Inv says what the advisory locks are for: a request that holds the lock *)
(* of its key finds nothing recorded (KeysHeld), one that holds the lock   *)
(* of a quota is alone with the owner (QuotasHeld), and so the room it has *)
(* counted is still there (RoomLeft).                                      *)
(***************************************************************************)
EXTENDS Admission, FiniteSetTheorems, TLAPS

Keyed == {"checked", "shared", "quota", "scope", "counted"}
Playing == {"shared", "quota", "scope", "counted"}
Counting == {"quota", "scope", "counted"}

Load(o) == {n \in Id : Active(n) /\ inst[n].owner = o}

\* What a request at stage l knows, by the locks it holds.
KeyHeld(l, w) == l \in Keyed => \A o \in ops : ~(o.actor = w.actor /\ o.key = w.key)
PlayableHeld(l, w) == l \in Playing /\ w.op # "stop" => w.chal \in playable
RoomLeft(l, w) == l = "counted" => w.op = "start" /\ Cardinality(Load(w.owner)) < Quota[w.owner]
\* Only users start, of instances that are named one is operated on.
OnOne(w) == w.inst # NoId => w.op \in {"stop", "reset", "expire"}

\* What two of them never have in common.
KeysApart(k, v, l, w) == k \in Keyed /\ l \in Keyed => ~(v.actor = w.actor /\ v.key = w.key)
QuotasApart(k, v, l, w) ==
    k \in Counting /\ l \in Counting /\ v.op = "start" /\ w.op = "start" => v.owner # w.owner

Held(r) == /\ KeyHeld(stage[r], want[r]) /\ PlayableHeld(stage[r], want[r])
           /\ RoomLeft(stage[r], want[r]) /\ OnOne(want[r])
Apart(q, r) == /\ KeysApart(stage[q], want[q], stage[r], want[r])
               /\ QuotasApart(stage[q], want[q], stage[r], want[r])

\* Rows have their numbers in the order they were created.
HasNewest ==
    \A o \in Owner, c \in Challenge :
        InstOf(o, c) # {} => \E n \in InstOf(o, c) : \A m \in InstOf(o, c) : m <= n

Inv ==
    /\ AdmissionTypeOK /\ HasNewest
    /\ \A r \in Caller : Held(r)
    /\ \A q, r \in Caller : q # r => Apart(q, r)
    /\ AdmissionSound

-----------------------------------------------------------------------------
(* Lemmas.                                                                 *)

LEMMA NoInstType == ASSUME AdmissionAssumption PROVE NoInst \in InstRow /\ NoCall \in CallRow
<1>1. /\ (CHOOSE o \in Owner : TRUE) \in Owner /\ (CHOOSE c \in Challenge : TRUE) \in Challenge
      /\ (CHOOSE u \in Member : TRUE) \in Member /\ (CHOOSE k \in Key : TRUE) \in Key
  BY DEF AdmissionAssumption
<1>2. "deleted" \in Status /\ "start" \in JobKind
  BY DEF Status, InactiveStatus, JobKind
<1> QED BY <1>1, <1>2 DEF NoInst, NoCall, InstRow, CallRow

LEMMA LoadFinite ==
    ASSUME AdmissionAssumption, AdmissionTypeOK, NEW o
    PROVE  IsFiniteSet(Load(o)) /\ Cardinality(Load(o)) \in Nat
<1>1. IsFiniteSet(Id)
  BY FS_Interval DEF AdmissionAssumption, Id
<1>2. Load(o) \subseteq Id
  BY DEF Load
<1>3. IsFiniteSet(Load(o))
  BY <1>1, <1>2, FS_Subset
<1> QED BY <1>3, FS_CardinalityType

LEMMA IdleKnows == ASSUME NEW w, w.inst = NoId
                   PROVE KeyHeld("idle", w) /\ PlayableHeld("idle", w) /\ RoomLeft("idle", w) /\ OnOne(w)
BY DEF KeyHeld, PlayableHeld, RoomLeft, OnOne, Keyed, Playing

\* A request goes on and nothing else changes: what it knows now is to be shown.
LEMMA Moves ==
    ASSUME AdmissionAssumption, Inv, NEW r \in Caller,
           NEW l \in {"idle", "asked", "checked", "shared", "quota", "scope", "counted", "refused"},
           NEW w \in CallRow,
           stage' = [stage EXCEPT ![r] = l], want' = [want EXCEPT ![r] = w],
           UNCHANGED <<playable, ended, made, inst, ops>>,
           KeyHeld(l, w), PlayableHeld(l, w), RoomLeft(l, w), OnOne(w),
           \A q \in Caller \ {r} : KeysApart(stage[q], want[q], l, w) /\ QuotasApart(stage[q], want[q], l, w)
    PROVE  Inv'
<1>1. AdmissionTypeOK'
  BY DEF Inv, AdmissionTypeOK, Made, Id, Active
<1>2. AdmissionSound' /\ HasNewest'
  BY DEF Inv, AdmissionSound, Active, Made, InstOf, HasNewest
<1>3. stage'[r] = l /\ want'[r] = w /\ \A q \in Caller \ {r} : stage'[q] = stage[q] /\ want'[q] = want[q]
  BY DEF Inv, AdmissionTypeOK
<1>6. \A o : Load(o)' = Load(o)
  BY DEF Load, Active, Made
<1>4. ASSUME NEW q \in Caller PROVE Held(q)'
  <2>1. CASE q = r
    <3>1. KeyHeld(l, w)' /\ PlayableHeld(l, w)' /\ RoomLeft(l, w)' /\ OnOne(w)
      BY <1>6 DEF KeyHeld, PlayableHeld, RoomLeft
    <3> QED BY <1>3, <2>1, <3>1 DEF Held, KeyHeld, PlayableHeld, RoomLeft, OnOne
  <2>2. CASE q # r
    <3>1. Held(q) /\ stage'[q] = stage[q] /\ want'[q] = want[q]
      BY <1>3, <2>2 DEF Inv
    <3> QED BY <1>6, <3>1 DEF Held, KeyHeld, PlayableHeld, RoomLeft, OnOne
  <2> QED BY <2>1, <2>2
<1>5. ASSUME NEW q \in Caller, NEW s \in Caller, q # s PROVE Apart(q, s)'
  <2>1. Apart(q, s)
    BY <1>5 DEF Inv
  <2>2. CASE q = r
    <3>1. /\ KeysApart(stage[s], want[s], l, w) /\ QuotasApart(stage[s], want[s], l, w)
          /\ stage'[s] = stage[s] /\ want'[s] = want[s] /\ stage'[q] = l /\ want'[q] = w
      BY <1>3, <1>5, <2>2
    <3> QED BY <3>1 DEF Apart, KeysApart, QuotasApart
  <2>3. CASE s = r
    <3>1. /\ KeysApart(stage[q], want[q], l, w) /\ QuotasApart(stage[q], want[q], l, w)
          /\ stage'[q] = stage[q] /\ want'[q] = want[q] /\ stage'[s] = l /\ want'[s] = w
      BY <1>3, <1>5, <2>3
    <3> QED BY <3>1 DEF Apart, KeysApart, QuotasApart
  <2>4. CASE q # r /\ s # r
    <3>1. stage'[q] = stage[q] /\ want'[q] = want[q] /\ stage'[s] = stage[s] /\ want'[s] = want[s]
      BY <1>3, <2>4
    <3> QED BY <2>1, <3>1 DEF Apart, KeysApart, QuotasApart
  <2> QED BY <2>2, <2>3, <2>4
<1> QED BY <1>1, <1>2, <1>4, <1>5 DEF Inv

\* It stops where it is, is refused, or has its answer.
LEMMA Ends ==
    ASSUME AdmissionAssumption, Inv, NEW r \in Caller,
           Served(r) \/ Refuse(r) \/ AnswerAgain(r), UNCHANGED <<playable, ended, made, inst, ops>>
    PROVE  Inv'
<1>1. CASE Served(r)
  <2>1. NoCall \in CallRow /\ NoCall.inst = NoId
    BY NoInstType DEF NoCall
  <2>2. KeyHeld("idle", NoCall) /\ PlayableHeld("idle", NoCall) /\ RoomLeft("idle", NoCall) /\ OnOne(NoCall)
    BY <2>1, IdleKnows
  <2>3. \A q \in Caller : KeysApart(stage[q], want[q], "idle", NoCall) /\ QuotasApart(stage[q], want[q], "idle", NoCall)
    BY DEF KeysApart, QuotasApart, Keyed, Counting
  <2>4. stage' = [stage EXCEPT ![r] = "idle"] /\ want' = [want EXCEPT ![r] = NoCall]
    BY <1>1 DEF Served, Step
  <2> QED BY <2>1, <2>2, <2>3, <2>4, Moves
<1>2. CASE Refuse(r)
  <2>1. want[r] \in CallRow /\ want' = [want EXCEPT ![r] = want[r]] /\ stage' = [stage EXCEPT ![r] = "refused"]
    BY <1>2 DEF Refuse, Step, Inv, AdmissionTypeOK
  <2>2. KeyHeld("refused", want[r]) /\ PlayableHeld("refused", want[r]) /\ RoomLeft("refused", want[r]) /\ OnOne(want[r])
    BY DEF KeyHeld, PlayableHeld, RoomLeft, Keyed, Playing, Inv, Held
  <2>3. \A q \in Caller : KeysApart(stage[q], want[q], "refused", want[r]) /\ QuotasApart(stage[q], want[q], "refused", want[r])
    BY DEF KeysApart, QuotasApart, Keyed, Counting
  <2> QED BY <2>1, <2>2, <2>3, Moves
<1> QED BY <1>1, <1>2 DEF AnswerAgain

\* It goes on with what it asks for.
LEMMA GoesOn ==
    ASSUME AdmissionAssumption, Inv, NEW r \in Caller,
           NEW l \in {"asked", "checked", "shared", "quota", "scope", "counted"},
           Step(r, l), UNCHANGED <<want, playable, ended, made, inst, ops>>,
           KeyHeld(l, want[r]), PlayableHeld(l, want[r]), RoomLeft(l, want[r]),
           \A q \in Caller \ {r} : /\ KeysApart(stage[q], want[q], l, want[r])
                                   /\ QuotasApart(stage[q], want[q], l, want[r])
    PROVE  Inv'
<1>1. want[r] \in CallRow /\ want' = [want EXCEPT ![r] = want[r]] /\ stage' = [stage EXCEPT ![r] = l]
  BY DEF Step, Inv, AdmissionTypeOK
<1>2. OnOne(want[r])
  BY DEF Inv, Held
<1>3. l \in {"idle", "asked", "checked", "shared", "quota", "scope", "counted", "refused"}
  OBVIOUS
<1> QED BY ZenonT(30), <1>1, <1>2, <1>3, Moves

-----------------------------------------------------------------------------
(* The stages of a request.                                                *)

LEMMA AskForKeeps ==
    ASSUME AdmissionAssumption, Inv, NEW r \in Caller, NEW w \in CallRow, OnOne(w), AskFor(r, w)
    PROVE  Inv'
<1>1. KeyHeld("asked", w) /\ PlayableHeld("asked", w) /\ RoomLeft("asked", w)
  BY DEF KeyHeld, PlayableHeld, RoomLeft, Keyed, Playing
<1>2. \A q \in Caller : KeysApart(stage[q], want[q], "asked", w) /\ QuotasApart(stage[q], want[q], "asked", w)
  BY DEF KeysApart, QuotasApart, Keyed, Counting
<1>3. stage' = [stage EXCEPT ![r] = "asked"] /\ want' = [want EXCEPT ![r] = w] /\ UNCHANGED <<playable, ended, made, inst, ops>>
  BY DEF AskFor, Step
<1> QED BY <1>1, <1>2, <1>3, Moves

LEMMA AskUserKeeps ==
    ASSUME AdmissionAssumption, Inv, NEW r \in Caller, NEW u \in Member, NEW k \in Key,
           NEW o \in Owner, NEW c \in Challenge, AskUser(r, u, k, o, c)
    PROVE  Inv'
<1>1. PICK op \in Operations :
        AskFor(r, [op |-> op, actor |-> u, key |-> k, owner |-> o, chal |-> c,
                   inst |-> NoId, current |-> TRUE])
  BY DEF AskUser
<1> DEFINE w == [op |-> op, actor |-> u, key |-> k, owner |-> o, chal |-> c, inst |-> NoId, current |-> TRUE]
<1>2. w \in CallRow
  BY DEF CallRow, AdmissionAssumption, JobKind
<1>3. OnOne(w)
  BY DEF OnOne
<1> QED BY <1>1, <1>2, <1>3, AskForKeeps

LEMMA AskOfKeeps ==
    ASSUME AdmissionAssumption, Inv, NEW r \in Caller, NEW u \in Member, NEW k \in Key \cup Id,
           NEW n \in Id, NEW op \in {"stop", "reset", "expire"}, AskOf(r, u, k, n, op)
    PROVE  Inv'
<1> DEFINE w == [op |-> op, actor |-> u, key |-> k, owner |-> inst[n].owner,
                 chal |-> inst[n].chal, inst |-> n, current |-> TRUE]
<1>1. inst[n] \in InstRow
  BY DEF Inv, AdmissionTypeOK
<1>2. w \in CallRow
  BY <1>1 DEF CallRow, InstRow, JobKind
<1>3. OnOne(w)
  BY DEF OnOne
<1>4. AskFor(r, w)
  BY DEF AskOf
<1> QED BY <1>2, <1>3, <1>4, AskForKeeps

LEMMA LockKeyKeeps ==
    ASSUME AdmissionAssumption, Inv, NEW r \in Caller, LockKey(r) PROVE Inv'
<1>1. CASE Recorded(want[r]) # {}
  BY <1>1, Ends DEF LockKey
<1>2. CASE Recorded(want[r]) = {}
  <2>1. KeyHeld("checked", want[r]) /\ PlayableHeld("checked", want[r]) /\ RoomLeft("checked", want[r])
    BY <1>2 DEF KeyHeld, PlayableHeld, RoomLeft, Playing, Recorded
  <2>2. \A q \in Caller \ {r} : KeysApart(stage[q], want[q], "checked", want[r])
    BY DEF LockKey, Others, HasKey, KeysApart, Keyed
  <2>3. \A q \in Caller : QuotasApart(stage[q], want[q], "checked", want[r])
    BY DEF QuotasApart, Counting
  <2>4. Step(r, "checked") /\ UNCHANGED <<want, playable, ended, made, inst, ops>>
    BY <1>2 DEF LockKey
  <2> QED BY <2>1, <2>2, <2>3, <2>4, GoesOn
<1> QED BY <1>1, <1>2

LEMMA KeyStays ==
    ASSUME Inv, NEW r \in Caller, stage[r] \in Keyed, NEW l \in Keyed
    PROVE  /\ KeyHeld(l, want[r])
           /\ \A q \in Caller \ {r} : KeysApart(stage[q], want[q], l, want[r])
<1>1. KeyHeld(stage[r], want[r])
  BY DEF Inv, Held
<1>2. \A q \in Caller \ {r} : KeysApart(stage[q], want[q], stage[r], want[r])
  BY DEF Inv, Apart
<1> QED BY <1>1, <1>2 DEF KeyHeld, KeysApart

LEMMA LockChallengeKeeps ==
    ASSUME AdmissionAssumption, Inv, NEW r \in Caller, LockChallenge(r) PROVE Inv'
<1>1. CASE want[r].op = "stop" \/ want[r].chal \in playable \ ended
  <2>1. Step(r, "shared") /\ UNCHANGED <<want, playable, ended, made, inst, ops>>
    BY <1>1 DEF LockChallenge
  <2>2. KeyHeld("shared", want[r]) /\ \A q \in Caller \ {r} : KeysApart(stage[q], want[q], "shared", want[r])
    BY KeyStays DEF LockChallenge, Keyed
  <2>3. PlayableHeld("shared", want[r]) /\ RoomLeft("shared", want[r])
    BY <1>1 DEF PlayableHeld, RoomLeft
  <2>4. \A q \in Caller : QuotasApart(stage[q], want[q], "shared", want[r])
    BY DEF QuotasApart, Counting
  <2> QED BY <2>1, <2>2, <2>3, <2>4, GoesOn
<1>2. CASE ~(want[r].op = "stop" \/ want[r].chal \in playable \ ended)
  BY <1>2, Ends DEF LockChallenge
<1> QED BY <1>1, <1>2

LEMMA LockQuotaKeeps ==
    ASSUME AdmissionAssumption, Inv, NEW r \in Caller, LockQuota(r) PROVE Inv'
<1>1. Step(r, "quota") /\ UNCHANGED <<want, playable, ended, made, inst, ops>>
  BY DEF LockQuota
<1>2. KeyHeld("quota", want[r]) /\ \A q \in Caller \ {r} : KeysApart(stage[q], want[q], "quota", want[r])
  BY KeyStays DEF LockQuota, Keyed
<1>3. PlayableHeld("quota", want[r]) /\ RoomLeft("quota", want[r])
  <2>1. PlayableHeld(stage[r], want[r]) /\ stage[r] = "shared"
    BY DEF Inv, Held, LockQuota
  <2> QED BY <2>1 DEF PlayableHeld, RoomLeft, Playing
<1>4. \A q \in Caller \ {r} : QuotasApart(stage[q], want[q], "quota", want[r])
  BY DEF LockQuota, Others, HasQuota, QuotasApart, Counting
<1> QED BY <1>1, <1>2, <1>3, <1>4, GoesOn

LEMMA LockScopeKeeps ==
    ASSUME AdmissionAssumption, Inv, NEW r \in Caller, LockScope(r) PROVE Inv'
<1>1. CASE Recorded(want[r]) # {}
  BY <1>1, Ends DEF LockScope
<1>2. CASE Recorded(want[r]) = {}
  <2>1. Step(r, "scope") /\ UNCHANGED <<want, playable, ended, made, inst, ops>>
    BY <1>2 DEF LockScope
  <2>2. stage[r] = IF want[r].op = "start" THEN "quota" ELSE "shared"
    BY DEF LockScope
  <2>3. KeyHeld("scope", want[r]) /\ \A q \in Caller \ {r} : KeysApart(stage[q], want[q], "scope", want[r])
    BY <2>2, KeyStays DEF Keyed
  <2>4. PlayableHeld("scope", want[r]) /\ RoomLeft("scope", want[r])
    <3>1. PlayableHeld(stage[r], want[r])
      BY DEF Inv, Held
    <3> QED BY <2>2, <3>1 DEF PlayableHeld, RoomLeft, Playing
  <2>5. ASSUME NEW q \in Caller \ {r} PROVE QuotasApart(stage[q], want[q], "scope", want[r])
    <3>1. QuotasApart(stage[q], want[q], stage[r], want[r])
      BY DEF Inv, Apart
    <3> QED BY <2>2, <3>1 DEF QuotasApart, Counting
  <2> QED BY <2>1, <2>3, <2>4, <2>5, GoesOn
<1> QED BY <1>1, <1>2

LEMMA CountKeeps ==
    ASSUME AdmissionAssumption, Inv, NEW r \in Caller, Count(r) PROVE Inv'
<1> DEFINE room == /\ \A n \in InstOf(want[r].owner, want[r].chal) : ~Active(n)
                   /\ Cardinality({n \in Id : Active(n) /\ inst[n].owner = want[r].owner}) < Quota[want[r].owner]
<1>1. CASE room
  <2>1. Step(r, "counted") /\ UNCHANGED <<want, playable, ended, made, inst, ops>>
    BY <1>1 DEF Count
  <2>2. stage[r] = "scope" /\ want[r].op = "start"
    BY DEF Count
  <2>3. KeyHeld("counted", want[r]) /\ \A q \in Caller \ {r} : KeysApart(stage[q], want[q], "counted", want[r])
    BY <2>2, KeyStays DEF Keyed
  <2>4. RoomLeft("counted", want[r])
    BY <1>1, <2>2 DEF RoomLeft, Load
  <2>5. PlayableHeld("counted", want[r])
    <3>1. PlayableHeld(stage[r], want[r])
      BY DEF Inv, Held
    <3> QED BY <2>2, <3>1 DEF PlayableHeld, Playing
  <2>6. ASSUME NEW q \in Caller \ {r} PROVE QuotasApart(stage[q], want[q], "counted", want[r])
    <3>1. QuotasApart(stage[q], want[q], stage[r], want[r])
      BY DEF Inv, Apart
    <3> QED BY <2>2, <3>1 DEF QuotasApart, Counting
  <2> QED BY <2>1, <2>3, <2>4, <2>5, <2>6, GoesOn
<1>2. CASE ~room
  BY <1>2, Ends DEF Count
<1> QED BY <1>1, <1>2

-----------------------------------------------------------------------------
(* What is recorded.                                                       *)

\* No instance becomes active that was not, so that no load grows and the newest stay so.
LEMMA LoadFalls ==
    ASSUME AdmissionAssumption, AdmissionTypeOK, AdmissionSound, made' = made,
           \A n \in Id : /\ inst'[n].owner = inst[n].owner /\ inst'[n].chal = inst[n].chal
                         /\ Active(n)' => Active(n)
    PROVE  /\ AdmissionSound' /\ (HasNewest => HasNewest')
           /\ \A o : Load(o)' \subseteq Load(o) /\ Cardinality(Load(o)') <= Cardinality(Load(o))
           /\ \A o : Cardinality(Load(o)') \in Nat
<1>1. ASSUME NEW o PROVE /\ Load(o)' \subseteq Load(o) /\ Cardinality(Load(o)') <= Cardinality(Load(o))
                         /\ Cardinality(Load(o)') \in Nat
  <2>1. Load(o)' \subseteq Load(o)
    BY DEF Load
  <2>2. IsFiniteSet(Load(o))
    BY LoadFinite
  <2> QED BY <2>1, <2>2, FS_Subset, FS_CardinalityType
<1>2. ASSUME NEW o \in Owner PROVE Cardinality(Load(o)') <= Quota[o]
  <2>1. Cardinality(Load(o)) <= Quota[o]
    BY DEF AdmissionSound, Load
  <2>2. Cardinality(Load(o)) \in Nat /\ Quota[o] \in Nat
    BY LoadFinite DEF AdmissionAssumption
  <2> QED BY <1>1, <2>1, <2>2
<1>3. ASSUME NEW n \in Made', NEW m \in Made', Active(n)', m \in InstOf(inst[n].owner, inst[n].chal)'
      PROVE  m <= n
  <2>1. n \in Made /\ m \in Made /\ n \in Id /\ m \in Id
    BY DEF Made, Id, AdmissionTypeOK, AdmissionAssumption
  <2>2. Active(n) /\ m \in InstOf(inst[n].owner, inst[n].chal)
    BY <1>3, <2>1 DEF InstOf
  <2> QED BY <2>1, <2>2 DEF AdmissionSound
<1>4. \A o \in Owner : Cardinality({n \in Id : Active(n) /\ inst[n].owner = o})' <= Quota[o]
  BY <1>2 DEF Load
<1>5. HasNewest => HasNewest'
  <2>1. \A o, c : InstOf(o, c)' = InstOf(o, c)
    BY DEF InstOf, Made, Id, AdmissionTypeOK, AdmissionAssumption
  <2> QED BY <2>1 DEF HasNewest
<1> QED BY <1>1, <1>3, <1>4, <1>5 DEF AdmissionSound

\* A row of another version.
LEMMA MovedType ==
    ASSUME AdmissionTypeOK, NEW q \in Caller, NEW n \in Id
    PROVE  /\ Moved(q, n) \in CallRow
           /\ Moved(q, n).op = want[q].op /\ Moved(q, n).actor = want[q].actor
           /\ Moved(q, n).key = want[q].key /\ Moved(q, n).owner = want[q].owner
           /\ Moved(q, n).chal = want[q].chal /\ Moved(q, n).inst = want[q].inst
<1>1. want[q] \in CallRow
  BY DEF AdmissionTypeOK
<1> QED BY <1>1 DEF Moved, CallRow

\* r, which holds the lock of its key, records its operation and is done; of the others
\* those that counted a load which may have grown hold another quota.
LEMMA Recording ==
    ASSUME AdmissionAssumption, Inv, NEW r \in Caller, stage[r] \in Keyed, NEW n \in Id, Record(r, n),
           UNCHANGED <<playable, ended>>, made' \in 0..MaxInstances, inst' \in [Id -> InstRow], AdmissionSound', HasNewest',
           \A o : \/ Cardinality(Load(o)') <= Cardinality(Load(o)) /\ Cardinality(Load(o)') \in Nat
                  \/ stage[r] \in Counting /\ want[r].op = "start" /\ want[r].owner = o
    PROVE  Inv'
<1>1. want[r] \in CallRow /\ NoCall \in CallRow /\ NoCall.inst = NoId
  BY NoInstType DEF Inv, AdmissionTypeOK, NoCall
<1>2. \A q \in Caller : /\ stage'[q] = IF q = r THEN "idle" ELSE stage[q]
                        /\ want'[q] = IF q = r THEN NoCall ELSE Moved(q, n)
  BY DEF Record, Step, Inv, AdmissionTypeOK
<1>3. AdmissionTypeOK'
  <2>1. ops' \subseteq Operation
    BY <1>1 DEF Record, Inv, AdmissionTypeOK, Operation, CallRow
  <2>2. stage' \in [Caller -> {"idle", "asked", "checked", "shared", "quota", "scope", "counted", "refused"}]
    BY DEF Record, Step, Inv, AdmissionTypeOK
  <2>3. want' \in [Caller -> CallRow]
    <3>1. \A q \in Caller : (IF q = r THEN NoCall ELSE Moved(q, n)) \in CallRow
      BY <1>1, MovedType DEF Inv
    <3> QED BY <3>1 DEF Record
  <2> QED BY <2>1, <2>2, <2>3 DEF Inv, AdmissionTypeOK
<1>4. ASSUME NEW q \in Caller PROVE Held(q)'
  <2>1. CASE q = r
    <3>1. stage'[q] = "idle" /\ want'[q] = NoCall
      BY <1>2, <2>1
    <3> QED BY <1>1, <3>1 DEF Held, KeyHeld, PlayableHeld, RoomLeft, OnOne, Keyed, Playing
  <2>2. CASE q # r
    <3>1. PICK v : v = want[q]
      OBVIOUS
    <3>2. /\ stage'[q] = stage[q] /\ want'[q].op = v.op /\ want'[q].actor = v.actor /\ want'[q].key = v.key
          /\ want'[q].owner = v.owner /\ want'[q].chal = v.chal /\ want'[q].inst = v.inst /\ v \in CallRow
      BY <1>2, <2>2, <3>1, MovedType DEF Inv, AdmissionTypeOK
    <3>3. Held(q) /\ Apart(q, r)
      BY <2>2 DEF Inv
    <3>4. KeyHeld(stage[q], want[q])'
      <4>1. ops' = ops \cup {[actor |-> want[r].actor, key |-> want[r].key, op |-> want[r].op, inst |-> n]}
        BY DEF Record
      <4>2. stage[q] \in Keyed => ~(v.actor = want[r].actor /\ v.key = want[r].key)
        BY <3>1, <3>3 DEF Apart, KeysApart
      <4>3. stage[q] \in Keyed => \A o \in ops : ~(o.actor = v.actor /\ o.key = v.key)
        BY <3>1, <3>3 DEF Held, KeyHeld
      <4>4. stage[q] \in Keyed => \A o \in ops' : ~(o.actor = v.actor /\ o.key = v.key)
        BY <4>1, <4>2, <4>3
      <4> QED BY <3>2, <4>4 DEF KeyHeld
    <3>5. PlayableHeld(stage[q], want[q])'
      BY <3>1, <3>2, <3>3 DEF Held, PlayableHeld
    <3>6. RoomLeft(stage[q], want[q])'
      <4>1. SUFFICES ASSUME stage[q] = "counted"
                     PROVE  v.op = "start" /\ Cardinality(Load(v.owner)') < Quota[v.owner]
        BY <3>2 DEF RoomLeft, Load
      <4>2. v.op = "start" /\ Cardinality(Load(v.owner)) < Quota[v.owner]
        BY <3>1, <3>3, <4>1 DEF Held, RoomLeft
      <4>3. ~(stage[r] \in Counting /\ want[r].op = "start" /\ want[r].owner = v.owner)
        BY <3>1, <3>3, <4>1, <4>2 DEF Apart, QuotasApart, Counting
      <4>4. Cardinality(Load(v.owner)') <= Cardinality(Load(v.owner)) /\ Cardinality(Load(v.owner)') \in Nat
        BY <4>3
      <4>5. Cardinality(Load(v.owner)) \in Nat /\ Quota[v.owner] \in Nat
        BY <3>2, LoadFinite DEF Inv, AdmissionAssumption, CallRow
      <4> QED BY <4>2, <4>4, <4>5
    <3>7. OnOne(want'[q])
      BY <3>1, <3>2, <3>3 DEF Held, OnOne
    <3> QED BY <3>4, <3>5, <3>6, <3>7 DEF Held
  <2> QED BY <2>1, <2>2
<1>5. ASSUME NEW q \in Caller, NEW s \in Caller, q # s PROVE Apart(q, s)'
  <2>1. CASE q = r \/ s = r
    <3>1. stage'[q] = "idle" \/ stage'[s] = "idle"
      BY <1>2, <2>1
    <3> QED BY <3>1 DEF Apart, KeysApart, QuotasApart, Keyed, Counting
  <2>2. CASE q # r /\ s # r
    <3>1. Apart(q, s) /\ stage'[q] = stage[q] /\ stage'[s] = stage[s]
      BY <1>2, <1>5, <2>2 DEF Inv
    <3>2. /\ want'[q].op = want[q].op /\ want'[q].actor = want[q].actor /\ want'[q].key = want[q].key
          /\ want'[q].owner = want[q].owner
          /\ want'[s].op = want[s].op /\ want'[s].actor = want[s].actor /\ want'[s].key = want[s].key
          /\ want'[s].owner = want[s].owner
      BY <1>2, <2>2, MovedType DEF Inv
    <3> QED BY <3>1, <3>2 DEF Apart, KeysApart, QuotasApart
  <2> QED BY <2>1, <2>2
<1> QED BY <1>3, <1>4, <1>5 DEF Inv

LEMMA StartKeeps ==
    ASSUME AdmissionAssumption, Inv, NEW r \in Caller, Start(r) PROVE Inv'
<1>1. stage[r] = "counted" /\ made < MaxInstances /\ UNCHANGED <<playable, ended>>
  BY DEF Start
<1>2. CASE Recorded(want[r]) # {}
  BY <1>2, Ends DEF Start
<1>3. CASE Recorded(want[r]) = {}
  <2> DEFINE w == want[r]
             new == [owner |-> w.owner, chal |-> w.chal, by |-> w.actor, st |-> To("start")]
  <2>1. /\ \A n \in InstOf(w.owner, w.chal) : ~Active(n)
        /\ made' = made + 1 /\ inst' = [inst EXCEPT ![made + 1] = new] /\ Record(r, made + 1)
    BY <1>3 DEF Start
  <2>2. w \in CallRow /\ made \in Nat /\ made + 1 \in Id /\ made + 1 \in 0..MaxInstances
    BY <1>1 DEF Inv, AdmissionTypeOK, Id, AdmissionAssumption
  <2>3. new \in InstRow /\ inst \in [Id -> InstRow]
    BY <2>2 DEF InstRow, CallRow, To, Status, ActiveStatus, Inv, AdmissionTypeOK
  <2>4. PICK k : k = made + 1
    OBVIOUS
  <2>5. /\ inst'[k] = new /\ \A n \in Id \ {k} : inst'[n] = inst[n]
        /\ k \in Id /\ k \notin Made /\ Made' = Made \cup {k}
    BY <2>1, <2>2, <2>3, <2>4 DEF Made, Id
  <2>6. \A n \in Id \ {k} : Active(n)' <=> Active(n)
    BY <2>5 DEF Active
  <2>7. w.op = "start" /\ Cardinality(Load(w.owner)) < Quota[w.owner]
    BY <1>1 DEF Inv, Held, RoomLeft
  <2>8. ASSUME NEW o, o # w.owner
        PROVE  Load(o)' = Load(o)
    <3>1. k \notin Load(o) /\ k \notin Load(o)'
      BY <2>5, <2>8 DEF Load, Active
    <3>2. \A n \in Id \ {k} : n \in Load(o)' <=> n \in Load(o)
      BY <2>5, <2>6 DEF Load
    <3> QED BY <3>1, <3>2 DEF Load
  <2>9. PICK o : o = w.owner
    OBVIOUS
  <2>10. Load(o)' \subseteq Load(o) \cup {k}
    <3>1. \A n \in Id \ {k} : n \in Load(o)' => n \in Load(o)
      BY <2>5, <2>6 DEF Load
    <3> QED BY <3>1 DEF Load
  <2>11. IsFiniteSet(Load(o)) /\ Cardinality(Load(o)) \in Nat /\ Quota[o] \in Nat /\ o \in Owner
    BY <2>2, <2>9, LoadFinite DEF Inv, AdmissionAssumption, CallRow
  <2>12. Cardinality(Load(o)') <= Quota[o] /\ Cardinality(Load(o)') \in Nat
    <3>1. k \notin Load(o)
      BY <2>5 DEF Load, Active
    <3>2. Cardinality(Load(o) \cup {k}) = Cardinality(Load(o)) + 1 /\ IsFiniteSet(Load(o) \cup {k})
      BY <2>11, <3>1, FS_AddElement
    <3>3. Cardinality(Load(o)') <= Cardinality(Load(o) \cup {k}) /\ Cardinality(Load(o)') \in Nat
      BY <2>10, <3>2, FS_Subset, FS_CardinalityType
    <3> QED BY <2>7, <2>9, <2>11, <3>2, <3>3
  <2>13. \A p \in Owner : Cardinality(Load(p)') <= Quota[p]
    <3>1. \A p \in Owner : Cardinality(Load(p)) <= Quota[p]
      BY DEF Inv, AdmissionSound, Load
    <3> QED BY <2>8, <2>9, <2>12, <3>1
  <2>14. ASSUME NEW n \in Made', NEW m \in Made', Active(n)', m \in InstOf(inst[n].owner, inst[n].chal)'
         PROVE  m <= n
    <3>1. n \in Id /\ m \in Id /\ \A i \in Made : i \in Id /\ i < k
      <4>1. MaxInstances \in Nat /\ made <= MaxInstances
        BY DEF AdmissionAssumption, Inv, AdmissionTypeOK
      <4>2. \A i \in Made : i \in Id /\ i < k
        BY <4>1, <2>2, <2>4 DEF Made, Id
      <4> QED BY <4>2, <2>5
    <3>2. CASE n = k
      BY <2>5, <3>1, <3>2, <2>2, <2>4 DEF Id
    <3>3. CASE n # k /\ m = k
      <4>1. inst[n].owner = w.owner /\ inst[n].chal = w.chal /\ n \in Made
        BY <2>5, <2>14, <3>1, <3>3 DEF InstOf
      <4>2. n \in InstOf(w.owner, w.chal)
        BY <4>1 DEF InstOf
      <4> QED BY <2>1, <2>6, <2>14, <3>1, <3>3, <4>2
    <3>4. CASE n # k /\ m # k
      <4>1. n \in Made /\ m \in Made /\ Active(n) /\ m \in InstOf(inst[n].owner, inst[n].chal)
        BY <2>5, <2>6, <2>14, <3>1, <3>4 DEF InstOf
      <4> QED BY <4>1 DEF Inv, AdmissionSound
    <3> QED BY <3>2, <3>3, <3>4
  <2>19. HasNewest'
    <3> SUFFICES ASSUME NEW p \in Owner, NEW c \in Challenge, InstOf(p, c)' # {}
                 PROVE  \E n \in InstOf(p, c)' : \A m \in InstOf(p, c)' : m <= n
      BY DEF HasNewest
    <3>1. \A i \in Made : i \in Id \ {k} /\ i <= k
      <4>1. MaxInstances \in Nat /\ made <= MaxInstances
        BY DEF AdmissionAssumption, Inv, AdmissionTypeOK
      <4> QED BY <4>1, <2>2, <2>4 DEF Made, Id
    <3>2. CASE k \in InstOf(p, c)'
      <4>1. \A m \in Made' : m <= k
        BY <2>2, <2>4, <2>5, <3>1
      <4> QED BY <3>2, <4>1 DEF InstOf
    <3>3. CASE k \notin InstOf(p, c)'
      <4>1. InstOf(p, c)' = InstOf(p, c)
        <5>1. \A n \in Made : n \in InstOf(p, c)' <=> n \in InstOf(p, c)
          BY <2>5, <3>1 DEF InstOf
        <5> QED BY <2>5, <3>3, <5>1 DEF InstOf
      <4> QED BY <4>1 DEF Inv, HasNewest
    <3> QED BY <3>2, <3>3
  <2>15. AdmissionSound'
    <3>1. \A p \in Owner : Cardinality({n \in Id : Active(n) /\ inst[n].owner = p})' <= Quota[p]
      BY <2>13 DEF Load
    <3> QED BY <2>14, <3>1 DEF AdmissionSound
  <2>16. \A p : \/ Cardinality(Load(p)') <= Cardinality(Load(p)) /\ Cardinality(Load(p)') \in Nat
                \/ stage[r] \in Counting /\ want[r].op = "start" /\ want[r].owner = p
    <3>1. \A p : Cardinality(Load(p)) \in Nat
      BY LoadFinite DEF Inv
    <3>2. stage[r] \in Counting
      BY <1>1 DEF Counting
    <3>3. \A p : p # w.owner => Cardinality(Load(p)') <= Cardinality(Load(p)) /\ Cardinality(Load(p)') \in Nat
      BY <2>8, <3>1
    <3> QED BY <2>7, <3>2, <3>3
  <2>17. inst' \in [Id -> InstRow] /\ made' \in 0..MaxInstances /\ stage[r] \in Keyed
    BY <1>1, <2>1, <2>2, <2>3 DEF Keyed
  <2> HIDE DEF w, new
  <2>18. Record(r, k) /\ k \in Id
    BY <2>1, <2>4, <2>5
  <2> QED BY <1>1, <2>15, <2>16, <2>17, <2>18, <2>19, Recording
<1> QED BY <1>2, <1>3

LEMMA ChangeKeeps ==
    ASSUME AdmissionAssumption, Inv, NEW r \in Caller, stage[r] \in Keyed, NEW n \in Id, Change(r, n),
           want[r].op # "start", UNCHANGED <<playable, ended, made>>
    PROVE  Inv'
<1>1. CASE ~NextAllowed(want[r].op, inst[n].st)
  BY <1>1, Ends DEF Change
<1>2. CASE NextAllowed(want[r].op, inst[n].st)
  <2>1. PICK s : s = To(want[r].op)
    OBVIOUS
  <2>2. Record(r, n) /\ inst' = [inst EXCEPT ![n].st = s]
    BY <1>2, <2>1 DEF Change
  <2>3. want[r].op \in {"restart", "stop", "reset", "expire"} /\ inst \in [Id -> InstRow] /\ made \in 0..MaxInstances
    BY DEF Inv, AdmissionTypeOK, CallRow, JobKind
  <2>4. inst[n].st \in ActiveStatus
    BY <1>2, <2>3 DEF NextAllowed, From, ActiveStatus
  <2>5. s \in Status
    BY <2>1, <2>3 DEF To, Status, ActiveStatus
  <2>6. inst[n] \in InstRow /\ [inst[n] EXCEPT !.st = s] \in InstRow
    BY <2>3, <2>5 DEF InstRow
  <2>7. \A i \in Id : inst'[i] = IF i = n THEN [inst[n] EXCEPT !.st = s] ELSE inst[i]
    BY <2>2, <2>3
  <2>8. inst' \in [Id -> InstRow]
    BY <2>2, <2>3, <2>6
  <2>9. \A i \in Id : /\ inst'[i].owner = inst[i].owner /\ inst'[i].chal = inst[i].chal
                      /\ Active(i)' => Active(i)
    BY <2>4, <2>6, <2>7 DEF Active, Made, InstRow
  <2>10. /\ AdmissionSound' /\ HasNewest'
         /\ \A o : Cardinality(Load(o)') <= Cardinality(Load(o)) /\ Cardinality(Load(o)') \in Nat
    BY <2>9, LoadFalls DEF Inv
  <2> QED BY <2>2, <2>3, <2>8, <2>10, Recording
<1> QED BY <1>1, <1>2

LEMMA TransitionKeeps ==
    ASSUME AdmissionAssumption, Inv, NEW r \in Caller, Transition(r) PROVE Inv'
<1> DEFINE S == InstOf(want[r].owner, want[r].chal)
<1>1. CASE S = {}
  BY <1>1, Ends DEF Transition
<1>2. CASE S # {}
  <2>1. S \subseteq Id
    BY DEF InstOf, Made, Id, Inv, AdmissionTypeOK, AdmissionAssumption
  <2>2. \E n \in S : \A m \in S : m <= n
    <3>1. want[r].owner \in Owner /\ want[r].chal \in Challenge
      BY DEF Inv, AdmissionTypeOK, CallRow
    <3> QED BY <1>2, <3>1 DEF Inv, HasNewest
  <2>3. Newest(S) \in Id
    BY <2>1, <2>2 DEF Newest
  <2>4. Change(r, Newest(S)) /\ stage[r] \in Keyed /\ want[r].op # "start" /\ UNCHANGED <<playable, ended, made>>
    BY <1>2 DEF Transition, Keyed
  <2> QED BY <2>3, <2>4, ChangeKeeps
<1> QED BY <1>1, <1>2

LEMMA OperateKeeps ==
    ASSUME AdmissionAssumption, Inv, NEW r \in Caller, Operate(r) PROVE Inv'
<1>1. CASE Recorded(want[r]) # {}
  BY <1>1, Ends DEF Operate
<1>2. CASE Recorded(want[r]) = {} /\ ~(want[r].op = "expire" \/ want[r].current)
  BY <1>2, Ends DEF Operate
<1>3. CASE Recorded(want[r]) = {} /\ (want[r].op = "expire" \/ want[r].current)
  <2>1. Change(r, want[r].inst) /\ UNCHANGED <<playable, ended, made>> /\ want[r].inst # NoId /\ stage[r] \in Keyed
    BY <1>3 DEF Operate, Keyed
  <2>2. want[r].inst \in Id /\ want[r].op # "start"
    BY <2>1 DEF Inv, Held, OnOne, AdmissionTypeOK, CallRow
  <2> QED BY <2>1, <2>2, ChangeKeeps
<1> QED BY <1>1, <1>2, <1>3

-----------------------------------------------------------------------------
(* Archival and the worker.                                                *)

LEMMA ArchiveKeeps ==
    ASSUME AdmissionAssumption, Inv, NEW c \in Challenge, Archive(c) PROVE Inv'
<1>1. UNCHANGED <<ended, made, inst, ops, stage, want>> /\ playable' = playable \ {c}
  BY DEF Archive
<1>2. AdmissionTypeOK' /\ HasNewest' /\ AdmissionSound'
  BY <1>1 DEF Inv, AdmissionTypeOK, HasNewest, AdmissionSound, InstOf, Made, Active
<1>3. \A o : Load(o)' = Load(o)
  BY <1>1 DEF Load, Active, Made
<1>4. ASSUME NEW q \in Caller PROVE Held(q)'
  <2>1. Held(q)
    BY DEF Inv
  <2>2. PlayableHeld(stage[q], want[q])'
    BY <1>1, <2>1 DEF Held, PlayableHeld, Archive, HasChallenge, Playing
  <2>3. KeyHeld(stage[q], want[q])' /\ RoomLeft(stage[q], want[q])' /\ OnOne(want[q])'
    BY <1>1, <1>3, <2>1 DEF Held, KeyHeld, RoomLeft, OnOne
  <2> QED BY <2>2, <2>3 DEF Held
<1>5. \A q, s \in Caller : Apart(q, s)' = Apart(q, s)
  BY <1>1 DEF Apart
<1> QED BY <1>2, <1>4, <1>5 DEF Inv

LEMMA CloseKeeps ==
    ASSUME AdmissionAssumption, Inv, NEW c \in Challenge, Close(c) PROVE Inv'
<1>1. UNCHANGED <<playable, made, inst, ops, stage, want>> /\ ended' = ended \cup {c}
  BY DEF Close
<1>2. AdmissionTypeOK' /\ HasNewest' /\ AdmissionSound'
  BY <1>1 DEF Inv, AdmissionTypeOK, HasNewest, AdmissionSound, InstOf, Made, Active
<1>3. \A q \in Caller : Held(q)'
  BY <1>1 DEF Inv, Held, KeyHeld, PlayableHeld, RoomLeft, OnOne, Load, Active, Made
<1>4. \A q, s \in Caller : q # s => Apart(q, s)'
  BY <1>1 DEF Inv, Apart, KeysApart, QuotasApart
<1> QED BY <1>2, <1>3, <1>4 DEF Inv

LEMMA WorkedKeeps ==
    ASSUME AdmissionAssumption, Inv, NEW n \in Id, Worked(n) PROVE Inv'
<1>1. PICK st \in {"running", "stopped"} : inst' = [inst EXCEPT ![n].st = st]
  BY DEF Worked
<1>2. /\ Active(n) /\ want' = [q \in Caller |-> Moved(q, n)] /\ UNCHANGED <<playable, ended, made, ops, stage>>
  BY DEF Worked
<1>3. inst \in [Id -> InstRow] /\ inst[n] \in InstRow /\ [inst[n] EXCEPT !.st = st] \in InstRow
  <2>1. st \in Status
    BY DEF Status, ActiveStatus, InactiveStatus
  <2>2. inst[n] \in InstRow
    BY DEF Inv, AdmissionTypeOK
  <2> QED BY <2>1, <2>2 DEF InstRow, Inv, AdmissionTypeOK
<1>4. \A i \in Id : inst'[i] = IF i = n THEN [inst[n] EXCEPT !.st = st] ELSE inst[i]
  BY <1>1, <1>3
<1>5. \A i \in Id : /\ inst'[i].owner = inst[i].owner /\ inst'[i].chal = inst[i].chal
                    /\ Active(i)' => Active(i)
  BY <1>2, <1>3, <1>4 DEF Active, Made, InstRow
<1>6. /\ AdmissionSound' /\ HasNewest'
      /\ \A o : Cardinality(Load(o)') <= Cardinality(Load(o)) /\ Cardinality(Load(o)') \in Nat
  BY <1>2, <1>5, LoadFalls DEF Inv
<1>7. \A q \in Caller : /\ want'[q] \in CallRow /\ want'[q].op = want[q].op /\ want'[q].actor = want[q].actor
                        /\ want'[q].key = want[q].key /\ want'[q].owner = want[q].owner
                        /\ want'[q].chal = want[q].chal /\ want'[q].inst = want[q].inst
  BY <1>2, MovedType DEF Inv
<1>8. AdmissionTypeOK'
  <2>1. inst' \in [Id -> InstRow] /\ want' \in [Caller -> CallRow]
    BY <1>1, <1>2, <1>3, <1>7
  <2> QED BY <1>2, <2>1 DEF Inv, AdmissionTypeOK
<1>9. ASSUME NEW q \in Caller PROVE Held(q)'
  <2>1. Held(q) /\ stage'[q] = stage[q] /\ ops' = ops /\ playable' = playable
    BY <1>2 DEF Inv
  <2>2. KeyHeld(stage[q], want[q])' /\ PlayableHeld(stage[q], want[q])' /\ OnOne(want[q])'
    BY <1>7, <2>1 DEF Held, KeyHeld, PlayableHeld, OnOne
  <2>3. PICK o : o = want[q].owner
    OBVIOUS
  <2>4. stage[q] = "counted" => want[q].op = "start" /\ Cardinality(Load(o)) < Quota[o]
    BY <2>1, <2>3 DEF Held, RoomLeft
  <2>5. Cardinality(Load(o)') <= Cardinality(Load(o)) /\ Cardinality(Load(o)') \in Nat
    BY <1>6
  <2>6. Cardinality(Load(o)) \in Nat /\ Quota[o] \in Nat
    BY <2>3, LoadFinite DEF Inv, AdmissionTypeOK, CallRow, AdmissionAssumption
  <2>7. want'[q].owner = o /\ want'[q].op = want[q].op
    BY <1>7, <2>3
  <2>8. stage'[q] = "counted" => want'[q].op = "start" /\ Cardinality(Load(o)') < Quota[o]
    BY <2>1, <2>4, <2>5, <2>6, <2>7
  <2>9. RoomLeft(stage[q], want[q])'
    BY <2>7, <2>8 DEF RoomLeft, Load
  <2> QED BY <2>2, <2>9 DEF Held
<1>10. ASSUME NEW q \in Caller, NEW s \in Caller, q # s PROVE Apart(q, s)'
  <2>1. Apart(q, s) /\ stage'[q] = stage[q] /\ stage'[s] = stage[s]
    BY <1>2, <1>10 DEF Inv
  <2> QED BY <1>7, <2>1 DEF Apart, KeysApart, QuotasApart
<1> QED BY <1>6, <1>8, <1>9, <1>10 DEF Inv

-----------------------------------------------------------------------------
(* Together.                                                               *)

LEMMA InvInit == ASSUME AdmissionAssumption, AdmissionInit PROVE Inv
<1>1. /\ playable = Challenge /\ ended = {} /\ made = 0 /\ inst = [n \in Id |-> NoInst] /\ ops = {}
      /\ stage = [r \in Caller |-> "idle"] /\ want = [r \in Caller |-> NoCall]
  BY DEF AdmissionInit
<1>2. AdmissionTypeOK
  BY <1>1, NoInstType DEF AdmissionTypeOK, AdmissionAssumption
<1>3. Made = {}
  BY <1>1 DEF Made
<1>4. HasNewest
  BY <1>3 DEF HasNewest, InstOf
<1>5. AdmissionSound
  <2>1. ASSUME NEW o \in Owner PROVE Cardinality({n \in Id : Active(n) /\ inst[n].owner = o}) <= Quota[o]
    <3>1. {n \in Id : Active(n) /\ inst[n].owner = o} = {}
      BY <1>3 DEF Active
    <3>2. Cardinality({}) <= Quota[o]
      BY FS_EmptySet DEF AdmissionAssumption
    <3>3. ASSUME NEW S, S = {} PROVE Cardinality(S) <= Quota[o]
      BY <3>2, <3>3
    <3> QED BY <3>1, <3>3
  <2> QED BY <1>3, <2>1 DEF AdmissionSound
<1>6. ASSUME NEW q \in Caller PROVE Held(q)
  <2>1. stage[q] = "idle" /\ want[q].inst = NoId
    BY <1>1 DEF NoCall
  <2> QED BY <2>1, IdleKnows DEF Held
<1>7. ASSUME NEW q \in Caller, NEW s \in Caller PROVE Apart(q, s)
  <2>1. stage[q] = "idle"
    BY <1>1
  <2> QED BY <2>1 DEF Apart, KeysApart, QuotasApart, Keyed, Counting
<1> QED BY <1>2, <1>4, <1>5, <1>6, <1>7 DEF Inv

LEMMA InvStep == ASSUME AdmissionAssumption, Inv, [AdmissionNext]_admissionVars PROVE Inv'
<1>1. CASE UNCHANGED admissionVars
  <2>1. AdmissionTypeOK' /\ HasNewest' /\ AdmissionSound'
    BY <1>1 DEF admissionVars, Inv, AdmissionTypeOK, HasNewest, AdmissionSound, Load, Active, Made, InstOf
  <2>2. \A r \in Caller : Held(r)'
    BY <1>1 DEF admissionVars, Inv, Held, KeyHeld, PlayableHeld, RoomLeft, OnOne, Load, Active, Made, InstOf
  <2>3. \A r, q \in Caller : r # q => Apart(r, q)'
    BY <1>1 DEF admissionVars, Inv, Apart, KeysApart, QuotasApart, Keyed, Counting
  <2> QED BY <2>1, <2>2, <2>3 DEF Inv
<1>2. ASSUME NEW r \in Caller,
             LockKey(r) \/ LockChallenge(r) \/ LockQuota(r) \/ LockScope(r) \/ Count(r) \/ Start(r)
             \/ Transition(r) \/ Operate(r)
      PROVE  Inv'
  BY <1>2, LockKeyKeeps, LockChallengeKeeps, LockQuotaKeeps, LockScopeKeeps, CountKeeps, StartKeeps,
     TransitionKeeps, OperateKeeps
<1>3. ASSUME NEW r \in Caller, Leave(r) \/ Fail(r) PROVE Inv'
  BY <1>3, Ends DEF Leave, Fail
<1>4. ASSUME NEW r \in Caller, NEW n \in Id, AskExpiry(r, n) PROVE Inv'
  <2>1. AskOf(r, inst[n].by, n, n, "expire")
    BY <1>4 DEF AskExpiry
  <2>2. inst[n].by \in Member
    BY DEF Inv, AdmissionTypeOK, InstRow
  <2>3. "expire" \in {"stop", "reset", "expire"} /\ n \in Key \cup Id
    OBVIOUS
  <2> QED BY <2>1, <2>2, <2>3, AskOfKeeps
<1>5. ASSUME NEW r \in Caller, NEW u \in Member, NEW k \in Key, NEW n \in Id, AskAdmin(r, u, k, n)
      PROVE  Inv'
  <2>1. PICK op \in Operations \cap {"stop", "reset"} : AskOf(r, u, k, n, op)
    BY <1>5 DEF AskAdmin
  <2>2. op \in {"stop", "reset", "expire"} /\ k \in Key \cup Id
    OBVIOUS
  <2> QED BY <2>1, <2>2, AskOfKeeps
<1>6. ASSUME NEW r \in Caller, NEW u \in Member, NEW k \in Key, NEW o \in Owner, NEW c \in Challenge,
             AskUser(r, u, k, o, c)
      PROVE  Inv'
  BY <1>6, AskUserKeeps
<1>7. ASSUME NEW c \in Challenge, Archive(c) \/ Close(c) PROVE Inv'
  BY <1>7, ArchiveKeeps, CloseKeeps
<1>8. ASSUME NEW n \in Id, Worked(n) PROVE Inv'
  BY <1>8, WorkedKeeps
<1> HIDE DEF Inv
<1> QED BY <1>1, <1>2, <1>3, <1>4, <1>5, <1>6, <1>7, <1>8 DEF AdmissionNext

-----------------------------------------------------------------------------
(* Theorems.                                                               *)

THEOREM Invariance == ASSUME AdmissionAssumption PROVE AdmissionSpec => []Inv
<1>1. AdmissionInit => Inv
  BY InvInit
<1>2. Inv /\ [AdmissionNext]_admissionVars => Inv'
  BY InvStep
<1> QED BY <1>1, <1>2, PTL DEF AdmissionSpec

\* No quota is exceeded by users who start different challenges for one owner at once,
\* and the instance that is active is the newest, the one that Stop reaches.
THEOREM QuotasHold == ASSUME AdmissionAssumption PROVE AdmissionSpec => []AdmissionSound
<1>1. Inv => AdmissionSound
  BY DEF Inv
<1> QED BY <1>1, Invariance, PTL

\* A request is refused by a check that finds its key used otherwise or, when it holds
\* the lock of its key, not used.
LEMMA OnlyRefused ==
    ASSUME Inv, AdmissionNext, NEW r \in Caller, stage[r] # "refused", stage'[r] = "refused"
    PROVE  ~\E o \in Recorded(want[r]) : Same(o, want[r])
<1>1. \A q \in Caller : \A l : Step(q, l) => stage'[q] = l /\ \A s \in Caller \ {q} : stage'[s] = stage[s]
  BY DEF Step, Inv, AdmissionTypeOK
<1>2. stage[r] \in Keyed => Recorded(want[r]) = {}
  BY DEF Inv, Held, KeyHeld, Recorded
<1>3. \/ LockKey(r) \/ LockChallenge(r) \/ LockQuota(r) \/ LockScope(r) \/ Count(r) \/ Start(r)
      \/ Transition(r) \/ Operate(r)
  <2>1. ASSUME NEW q \in Caller, NEW w, AskFor(q, w) PROVE FALSE
    BY <1>1, <2>1 DEF AskFor
  <2>2. ASSUME NEW q \in Caller, Leave(q) \/ Fail(q) PROVE FALSE
    BY <1>1, <2>2 DEF Leave, Fail, Served
  <2>3. ASSUME NEW q \in Caller, q # r,
               \/ LockKey(q) \/ LockChallenge(q) \/ LockQuota(q) \/ LockScope(q) \/ Count(q) \/ Start(q)
               \/ Transition(q) \/ Operate(q)
        PROVE  FALSE
    BY <1>1, <2>3 DEF LockKey, LockChallenge, LockQuota, LockScope, Count, Start, Transition, Operate,
       AnswerAgain, Refuse, Served, Change, Record
  <2>4. ASSUME (\E c \in Challenge : Archive(c) \/ Close(c)) \/ \E n \in Id : Worked(n) PROVE FALSE
    BY <2>4 DEF Archive, Close, Worked
  <2> QED BY <2>1, <2>2, <2>3, <2>4 DEF AdmissionNext, AskExpiry, AskAdmin, AskUser, AskOf
<1>4. CASE Recorded(want[r]) = {}
  BY <1>4
<1>5. CASE Recorded(want[r]) # {}
  <2>1. LockKey(r)
    BY <1>2, <1>3, <1>5 DEF LockChallenge, LockQuota, LockScope, Count, Start, Transition, Operate, Keyed
  <2>2. AnswerAgain(r)
    BY <1>5, <2>1 DEF LockKey
  <2> QED BY <1>1, <2>2 DEF AnswerAgain, Served
<1> QED BY <1>4, <1>5

\* Who records an operation of a user has the challenge locked.
LEMMA OnlyRecorded ==
    ASSUME Inv, AdmissionNext, NEW r \in Caller, ops' # ops, stage[r] # "idle", stage'[r] = "idle",
           want[r].inst = NoId, want[r].op # "stop"
    PROVE  want[r].chal \in playable'
<1>1. \A q \in Caller : \A l : Step(q, l) => stage'[q] = l /\ \A s \in Caller \ {q} : stage'[s] = stage[s]
  BY DEF Step, Inv, AdmissionTypeOK
<1>2. PICK q \in Caller : Start(q) \/ Transition(q) \/ Operate(q)
  BY ZenonT(30) DEF AdmissionNext, LockKey, LockChallenge, LockQuota, LockScope, Count, Leave, Fail, AskExpiry,
     AskAdmin, AskUser, AskOf, AskFor, Archive, Close, Worked
<1>3. q = r
  BY <1>1, <1>2 DEF Start, Transition, Operate, AnswerAgain, Refuse, Served, Change, Record
<1>4. stage[r] \in Playing /\ playable' = playable
  BY <1>2, <1>3 DEF Start, Transition, Operate, Playing
<1> QED BY <1>4 DEF Inv, Held, PlayableHeld

\* No request is refused whose operation is recorded; and a user's operation, but for a
\* stop, is recorded only while the challenge is published or its competition running
\* (not only while the window is open, which nothing holds open).
THEOREM RetriesAreAnswered == ASSUME AdmissionAssumption PROVE AdmissionSpec => VerdictsSound
<1>1. Inv /\ [AdmissionNext]_admissionVars => [Verdicts]_admissionVars
  <2> SUFFICES ASSUME Inv, AdmissionNext PROVE Verdicts
    OBVIOUS
  <2>1. ASSUME NEW r \in Caller, stage[r] # "refused", stage'[r] = "refused"
        PROVE  ~\E o \in Recorded(want[r]) : Same(o, want[r])
    BY <2>1, OnlyRefused
  <2>2. ASSUME NEW r \in Caller, ops' # ops, stage[r] # "idle", stage'[r] = "idle",
               want[r].inst = NoId, want[r].op # "stop"
        PROVE  want[r].chal \in playable'
    BY <2>2, OnlyRecorded
  <2> QED BY <2>1, <2>2 DEF Verdicts
<1> QED BY <1>1, Invariance, PTL DEF AdmissionSpec, VerdictsSound
=============================================================================
