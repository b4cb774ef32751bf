--------------------------- MODULE Sessions_proofs ---------------------------
(***************************************************************************)
(* ClaimsCurrent, RevocationHolds and OneUsablePerFamily hold of Sessions   *)
(* for any number of users, requests and tokens.                            *)
(*                                                                          *)
(* Whatever a request has read of a user is of a version that is not newer  *)
(* than that of the user and, if it still is that of the user, current.     *)
(* A revocation makes a version that no token of before has.  Whoever       *)
(* rotates a token holds the only one of its family that was neither used   *)
(* nor revoked.                                                             *)
(***************************************************************************)
EXTENDS Sessions, TLAPS

-----------------------------------------------------------------------------
(* The inductive invariant.                                                *)

Alive(t) == ~token[t].used /\ ~token[t].revoked

\* What a request at s with the data w knows and holds.
KnowsToken(s, w) ==
    s \in {"user", "session", "rotate", "rotating", "rotated", "replay", "kill"} =>
        w.token \in Issued /\ w.owner = token[w.token].owner
KnowsUser(s, w) ==
    /\ s \in {"roles", "store", "stored", "session", "rotate", "rotating", "rotated", "answer"} =>
          w.ver <= user[w.owner].ver
    /\ s \in {"store", "stored"} /\ w.ver = user[w.owner].ver => w.super = user[w.owner].super
    /\ s \in {"stored", "rotated"} => w.session <= user[w.owner].ver
KnowsLate(s, w) ==
    w.late => /\ s \notin {"rotating", "rotated", "answer"}
              /\ s = "user" => token[w.token].ver < user[w.owner].ver
              /\ s = "session" => token[w.token].ver < w.ver
              /\ s = "rotate" => Stale(w.token)
KnowsAlive(s, w) == s \in {"rotating", "rotated"} => Alive(w.token)
KnowsRoom(s, w) == s = "sweep" => user[w.owner].ver < MaxEvents
KnowsOld(w) == w.seen \cup w.open \subseteq Issued
Knows(s, w) ==
    /\ KnowsToken(s, w) /\ KnowsUser(s, w) /\ KnowsLate(s, w)
    /\ KnowsAlive(s, w) /\ KnowsRoom(s, w) /\ KnowsOld(w)

Locks(s, w, t) ==
    \/ s \in {"rotating", "rotated", "replay", "kill"} /\ t = w.token
    \/ s = "kill" /\ t \in w.seen
Apart(s, w, z, v) ==
    /\ \A t \in Token : ~(Locks(s, w, t) /\ Locks(z, v, t))
    /\ ~(s = "sweep" /\ z = "sweep" /\ w.owner = v.owner)

DataTypeOK ==
    /\ user \in [User -> Account] /\ issued \in 0..MaxEvents /\ token \in [Token -> Row]
    /\ \A t \in Issued : token[t].root \in Issued
    /\ access \subseteq Access /\ barred \subseteq Issued
Dated(t) ==
    /\ token[t].ver <= user[token[t].owner].ver
    /\ t \in barred => token[t].ver < user[token[t].owner].ver
Honest(a) ==
    /\ a.ver <= user[a.owner].ver
    /\ a.ver = user[a.owner].ver => a.super = user[a.owner].super
OneAlive == \A s, t \in Issued : Alive(s) /\ Alive(t) /\ token[s].root = token[t].root => s = t
DataInv ==
    /\ DataTypeOK /\ (\A t \in Issued : Dated(t)) /\ (\A a \in access : Honest(a)) /\ OneAlive
RequestsInv ==
    /\ pc \in [Request -> PC] /\ req \in [Request -> Work]
    /\ \A r \in Request : Knows(pc[r], req[r])
    /\ \A q, r \in Request : q # r => Apart(pc[q], req[q], pc[r], req[r])
Inv == DataInv /\ RequestsInv

LEMMA NoWorkType ==
    ASSUME SessionsAssumption
    PROVE  /\ NoWork \in Work /\ NoWork.seen = {} /\ NoWork.open = {} /\ NoWork.late = FALSE
           /\ 1 \in Version /\ Issued \subseteq Nat /\ NoWork.ver = 1
<1>1. 1 \in Version
  BY DEF SessionsAssumption, Version
<1>2. NoWork.owner \in User
  BY DEF SessionsAssumption, NoWork
<1>3. NoWork \in Work
  BY <1>1, <1>2 DEF NoWork, Work
<1> QED BY <1>1, <1>3 DEF NoWork, Issued

LEMMA IssuedTokens == ASSUME SessionsAssumption, DataTypeOK PROVE Issued \subseteq Token
  BY DEF SessionsAssumption, DataTypeOK, Issued, Token

\* An idle request knows nothing and is apart from all.
LEMMA IdleKnows ==
    ASSUME SessionsAssumption PROVE Knows("idle", NoWork)
  BY NoWorkType DEF Knows, KnowsToken, KnowsUser, KnowsLate, KnowsAlive, KnowsRoom, KnowsOld
LEMMA IdleApart == ASSUME NEW w, NEW z, NEW v PROVE Apart("idle", w, z, v) /\ Apart(z, v, "idle", w)
  BY DEF Apart, Locks
LEMMA ApartBoth == ASSUME NEW s, NEW w, NEW z, NEW v, Apart(s, w, z, v) PROVE Apart(z, v, s, w)
  BY DEF Apart

-----------------------------------------------------------------------------
(* Requests that move.                                                     *)

LEMMA Moves ==
    ASSUME RequestsInv, NEW r \in Request, NEW s \in PC, NEW w \in Work,
           pc' = [pc EXCEPT ![r] = s], req' = [req EXCEPT ![r] = w], Knows(s, w)',
           \A q \in Request \ {r} : Knows(pc[q], req[q])',
           \A q \in Request \ {r} : Apart(pc[q], req[q], s, w)
    PROVE  RequestsInv'
<1>1. pc \in [Request -> PC] /\ req \in [Request -> Work]
  BY DEF RequestsInv
<1>2. /\ pc' \in [Request -> PC] /\ req' \in [Request -> Work] /\ pc'[r] = s /\ req'[r] = w
      /\ \A q \in Request : q # r => pc'[q] = pc[q] /\ req'[q] = req[q]
  BY <1>1
<1>3. ASSUME NEW q \in Request PROVE Knows(pc[q], req[q])'
  <2>1. CASE q = r
    BY <1>2, <2>1 DEF Knows, KnowsToken, KnowsUser, KnowsLate, KnowsAlive, KnowsRoom, KnowsOld
  <2>2. CASE q # r
    BY <2>2
  <2> QED BY <2>1, <2>2
<1>4. ASSUME NEW p \in Request, NEW q \in Request, p # q PROVE Apart(pc[p], req[p], pc[q], req[q])'
  <2>1. CASE p = r
    <3>1. Apart(pc[q], req[q], s, w) /\ pc'[q] = pc[q] /\ req'[q] = req[q] /\ pc'[p] = s /\ req'[p] = w
      BY <1>2, <1>4, <2>1
    <3> QED BY <3>1 DEF Apart, Locks
  <2>2. CASE q = r
    <3>1. Apart(pc[p], req[p], s, w) /\ pc'[p] = pc[p] /\ req'[p] = req[p] /\ pc'[q] = s /\ req'[q] = w
      BY <1>2, <1>4, <2>2
    <3> QED BY <3>1 DEF Apart, Locks
  <2>3. CASE p # r /\ q # r
    <3>1. /\ Apart(pc[p], req[p], pc[q], req[q])
          /\ pc'[p] = pc[p] /\ req'[p] = req[p] /\ pc'[q] = pc[q] /\ req'[q] = req[q]
      BY <1>2, <1>4, <2>3 DEF RequestsInv
    <3> QED BY <3>1 DEF Apart, Locks
  <2> QED BY <2>1, <2>2, <2>3
<1> QED BY <1>2, <1>3, <1>4 DEF RequestsInv

dataVars == <<user, issued, token, access, barred>>

LEMMA DataKept == ASSUME DataInv, UNCHANGED dataVars PROVE DataInv'
  BY DEF DataInv, dataVars, DataTypeOK, Dated, Honest, OneAlive, Alive, Issued

\* While the data stays, a request needs to know what its own step found.
LEMMA Step ==
    ASSUME Inv, UNCHANGED dataVars, NEW r \in Request, NEW s \in PC, NEW w \in Work,
           pc' = [pc EXCEPT ![r] = s], req' = [req EXCEPT ![r] = w], Knows(s, w),
           \A q \in Request \ {r} : Apart(pc[q], req[q], s, w)
    PROVE  Inv'
<1>1. pc \in [Request -> PC] /\ req \in [Request -> Work] /\ RequestsInv /\ DataInv
  BY DEF Inv, RequestsInv
<1>2. Knows(s, w)'
  BY DEF dataVars, Knows, KnowsToken, KnowsUser, KnowsLate, KnowsAlive, KnowsRoom, KnowsOld, Issued, Stale, Alive
<1>3. ASSUME NEW q \in Request \ {r} PROVE Knows(pc[q], req[q])'
  <2>1. pc'[q] = pc[q] /\ req'[q] = req[q] /\ Knows(pc[q], req[q])
    BY <1>1 DEF RequestsInv
  <2> QED BY <2>1 DEF dataVars, Knows, KnowsToken, KnowsUser, KnowsLate, KnowsAlive, KnowsRoom, KnowsOld,
                      Issued, Stale, Alive
<1>4. RequestsInv'
  BY <1>1, <1>2, <1>3, Moves
<1> QED BY <1>1, <1>4, DataKept DEF Inv

\* A step that ends a request, and one that keeps what it knows, need not say so.
LEMMA StepEnds ==
    ASSUME SessionsAssumption, Inv, UNCHANGED dataVars, NEW r \in Request, End(r)
    PROVE  Inv'
<1>1. pc' = [pc EXCEPT ![r] = "idle"] /\ req' = [req EXCEPT ![r] = NoWork]
  BY DEF End, Goto
<1>2. "idle" \in PC /\ NoWork \in Work
  BY NoWorkType DEF PC
<1>3. \A q \in Request \ {r} : Apart(pc[q], req[q], "idle", NoWork)
  BY IdleApart
<1> QED BY <1>1, <1>2, <1>3, IdleKnows, Step

-----------------------------------------------------------------------------
(* Requests that read.                                                     *)

LEMMA LoginMoves == ASSUME SessionsAssumption, Inv, NEW r \in Request, NEW u \in User, Login(r, u) PROVE Inv'
<1>1. PICK w : w = [NoWork EXCEPT !.owner = u, !.ver = user[u].ver]
  OBVIOUS
<1>2. user[u] \in Account /\ Issued \subseteq Nat
  BY NoWorkType DEF Inv, DataInv, DataTypeOK
<1>3. /\ w \in Work /\ w.owner = u /\ w.ver = user[u].ver /\ w.seen = {} /\ w.open = {} /\ ~w.late
      /\ user[u].ver \in Nat
  <2>1. user[u].ver \in Version /\ user[u].ver \in Nat
    BY <1>2 DEF Account, Version
  <2> QED BY <1>1, <2>1, NoWorkType DEF Work
<1>4. Knows("roles", w)
  BY <1>3 DEF Knows, KnowsToken, KnowsUser, KnowsLate, KnowsAlive, KnowsRoom, KnowsOld
<1>5. \A q \in Request \ {r} : Apart(pc[q], req[q], "roles", w)
  BY DEF Apart, Locks
<1>6. pc' = [pc EXCEPT ![r] = "roles"] /\ req' = [req EXCEPT ![r] = w] /\ UNCHANGED dataVars
  BY <1>1 DEF Login, Goto, dataVars
<1>7. "roles" \in PC
  BY DEF PC
<1> QED BY <1>3, <1>4, <1>5, <1>6, <1>7, Step

\* The request of r, and what it is of.
LEMMA Known ==
    ASSUME SessionsAssumption, Inv, NEW r \in Request
    PROVE  /\ req[r] \in Work /\ req[r].owner \in User /\ Knows(pc[r], req[r]) /\ user[req[r].owner] \in Account
           /\ req[r].ver \in Nat /\ req[r].session \in Nat /\ user[req[r].owner].ver \in Nat
  BY DEF Inv, RequestsInv, DataInv, DataTypeOK, Work, Account, Version

LEMMA RolesMoves == ASSUME SessionsAssumption, Inv, NEW r \in Request, Roles(r) PROVE Inv'
<1>1. PICK v, w : v = req[r] /\ w = [v EXCEPT !.super = user[v.owner].super]
  OBVIOUS
<1>2. v \in Work /\ v.owner \in User /\ Knows("roles", v) /\ user[v.owner] \in Account /\ req \in [Request -> Work]
  BY <1>1, Known DEF Roles, Inv, RequestsInv
<1>3. /\ w \in Work /\ w.owner = v.owner /\ w.ver = v.ver /\ w.super = user[v.owner].super
      /\ w.seen = v.seen /\ w.open = v.open /\ w.late = v.late
  BY <1>1, <1>2 DEF Work, Account
<1>4. Knows("store", w)
  BY <1>2, <1>3 DEF Knows, KnowsToken, KnowsUser, KnowsLate, KnowsAlive, KnowsRoom, KnowsOld
<1>5. \A q \in Request \ {r} : Apart(pc[q], req[q], "store", w)
  BY DEF Apart, Locks
<1>6. pc' = [pc EXCEPT ![r] = "store"] /\ req' = [req EXCEPT ![r] = w] /\ UNCHANGED dataVars
  BY <1>1, <1>2 DEF Roles, Goto, dataVars
<1>7. "store" \in PC
  BY DEF PC
<1> QED BY <1>3, <1>4, <1>5, <1>6, <1>7, Step

LEMMA StoreMoves == ASSUME SessionsAssumption, Inv, NEW r \in Request, StoreRefresh(r) PROVE Inv'
<1>1. PICK v, w : v = req[r] /\ w = [v EXCEPT !.session = user[v.owner].ver]
  OBVIOUS
<1>2. /\ v \in Work /\ v.owner \in User /\ Knows("store", v) /\ user[v.owner] \in Account
      /\ req \in [Request -> Work] /\ user[v.owner].ver \in Nat
  BY <1>1, Known DEF StoreRefresh, Inv, RequestsInv
<1>3. /\ w \in Work /\ w.owner = v.owner /\ w.ver = v.ver /\ w.super = v.super
      /\ w.session = user[v.owner].ver /\ w.seen = v.seen /\ w.open = v.open /\ w.late = v.late
  BY <1>1, <1>2 DEF Work, Account
<1>4. Knows("stored", w)
  BY <1>2, <1>3 DEF Knows, KnowsToken, KnowsUser, KnowsLate, KnowsAlive, KnowsRoom, KnowsOld
<1>5. \A q \in Request \ {r} : Apart(pc[q], req[q], "stored", w)
  BY DEF Apart, Locks
<1>6. pc' = [pc EXCEPT ![r] = "stored"] /\ req' = [req EXCEPT ![r] = w] /\ UNCHANGED dataVars
  BY <1>1, <1>2 DEF StoreRefresh, Goto, dataVars
<1>7. "stored" \in PC
  BY DEF PC, Open
<1> QED BY <1>3, <1>4, <1>5, <1>6, <1>7, Step

\* A token that was barred is stale or has an old version.
LEMMA RefreshMoves == ASSUME SessionsAssumption, Inv, NEW r \in Request, NEW t \in Token, Refresh(r, t) PROVE Inv'
<1>1. PICK w, s : /\ w = [NoWork EXCEPT !.kind = "refresh", !.token = t, !.owner = token[t].owner, !.late = t \in barred]
                  /\ s = IF Stale(t) THEN "rotate" ELSE "user"
  OBVIOUS
<1>2. token[t] \in Row /\ t \in Issued /\ Dated(t) /\ user[token[t].owner] \in Account
  BY DEF Refresh, Inv, DataInv, DataTypeOK, Row
<1>3. /\ w \in Work /\ w.owner = token[t].owner /\ w.token = t /\ w.ver = 1 /\ w.seen = {} /\ w.open = {}
      /\ w.late => t \in barred
  <2>1. (t \in barred) \in BOOLEAN /\ token[t].owner \in User
    BY <1>2 DEF Row
  <2> QED BY <1>1, <2>1, NoWorkType DEF Work
<1>4. user[w.owner].ver \in Nat /\ 1 <= user[w.owner].ver
  BY <1>2, <1>3 DEF Account, Version
<1>5. s \in {"rotate", "user"} /\ (s = "rotate" => Stale(t)) /\ s \in PC
  BY <1>1 DEF PC
<1>6. Knows(s, w)
  BY <1>2, <1>3, <1>4, <1>5 DEF Knows, KnowsToken, KnowsUser, KnowsLate, KnowsAlive, KnowsRoom, KnowsOld, Dated
<1>7. \A q \in Request \ {r} : Apart(pc[q], req[q], s, w)
  BY <1>5 DEF Apart, Locks
<1>8. pc' = [pc EXCEPT ![r] = s] /\ req' = [req EXCEPT ![r] = w] /\ UNCHANGED dataVars
  BY <1>1 DEF Refresh, Goto, dataVars
<1> QED BY <1>3, <1>5, <1>6, <1>7, <1>8, Step

LEMMA ReadMoves == ASSUME SessionsAssumption, Inv, NEW r \in Request, ReadUser(r) PROVE Inv'
<1>1. PICK v, w : v = req[r] /\ w = [v EXCEPT !.ver = user[v.owner].ver]
  OBVIOUS
<1>2. UNCHANGED dataVars
  BY DEF ReadUser, dataVars
<1>3. CASE End(r)
  BY <1>2, <1>3, StepEnds
<1>4. CASE pc' = [pc EXCEPT ![r] = "session"] /\ req' = [req EXCEPT ![r] = w]
  <2>1. /\ v \in Work /\ v.owner \in User /\ Knows("user", v) /\ user[v.owner] \in Account
        /\ user[v.owner].ver \in Nat
    BY <1>1, Known DEF ReadUser
  <2>2. /\ w \in Work /\ w.owner = v.owner /\ w.ver = user[v.owner].ver /\ w.token = v.token
        /\ w.seen = v.seen /\ w.open = v.open /\ w.late = v.late
    BY <1>1, <2>1 DEF Work, Account
  <2>3. Knows("session", w)
    BY <2>1, <2>2 DEF Knows, KnowsToken, KnowsUser, KnowsLate, KnowsAlive, KnowsRoom, KnowsOld
  <2>4. \A q \in Request \ {r} : Apart(pc[q], req[q], "session", w)
    BY DEF Apart, Locks
  <2>5. "session" \in PC
    BY DEF PC
  <2> QED BY <1>2, <1>4, <2>2, <2>3, <2>4, <2>5, Step
<1> QED BY <1>1, <1>3, <1>4, Known DEF ReadUser, Goto, Inv, RequestsInv

\* A request that goes on with what it has.
LEMMA GoesOn ==
    ASSUME SessionsAssumption, Inv, UNCHANGED <<dataVars, req>>, NEW r \in Request, NEW s \in PC, Goto(r, s),
           Knows(s, req[r]), \A q \in Request \ {r} : Apart(pc[q], req[q], s, req[r])
    PROVE  Inv'
<1>1. PICK v : v = req[r]
  OBVIOUS
<1>2. v \in Work /\ req \in [Request -> Work]
  BY <1>1 DEF Inv, RequestsInv
<1>3. req' = [req EXCEPT ![r] = v] /\ pc' = [pc EXCEPT ![r] = s]
  BY <1>1, <1>2 DEF Goto
<1> QED BY <1>1, <1>2, <1>3, Step

LEMMA ValidateMoves == ASSUME SessionsAssumption, Inv, NEW r \in Request, ValidateRefreshSession(r) PROVE Inv'
<1>1. UNCHANGED dataVars /\ pc[r] = "session"
  BY DEF ValidateRefreshSession, dataVars
<1>2. CASE End(r)
  BY <1>1, <1>2, StepEnds
<1>3. CASE Goto(r, "rotate") /\ UNCHANGED req /\ token[req[r].token].ver = req[r].ver
  <2>1. Knows("session", req[r]) /\ req[r].ver \in Nat
    BY <1>1, Known
  <2>2. Knows("rotate", req[r])
    BY <1>3, <2>1 DEF Knows, KnowsToken, KnowsUser, KnowsLate, KnowsAlive, KnowsRoom, KnowsOld
  <2>3. \A q \in Request \ {r} : Apart(pc[q], req[q], "rotate", req[r])
    BY DEF Apart, Locks
  <2>4. "rotate" \in PC
    BY DEF PC
  <2> QED BY <1>1, <1>3, <2>2, <2>3, <2>4, GoesOn
<1> QED BY <1>2, <1>3 DEF ValidateRefreshSession

\* The lock of the token keeps off who would use or revoke it.
LEMMA RotateMoves == ASSUME SessionsAssumption, Inv, NEW r \in Request, Rotate(r) PROVE Inv'
<1>1. PICK v, t : v = req[r] /\ t = v.token
  OBVIOUS
<1>2. /\ v \in Work /\ Knows("rotate", v) /\ req \in [Request -> Work] /\ UNCHANGED dataVars
      /\ Issued \subseteq Token
  BY <1>1, Known, IssuedTokens DEF Rotate, dataVars, Inv, RequestsInv, DataInv
<1>3. ASSUME NEW q \in Request \ {r} PROVE ~Locks(pc[q], req[q], t)
  BY <1>1 DEF Rotate, TokenFree, HasToken, Locks
<1>4. CASE Stale(t)
  <2>1. PICK old : old = {s \in Family(t) : ~token[s].revoked}
    OBVIOUS
  <2>2. PICK w : w = [v EXCEPT !.seen = old]
    OBVIOUS
  <2>3. old \subseteq Issued
    BY <2>1 DEF Family
  <2>4. /\ w \in Work /\ w.owner = v.owner /\ w.token = t /\ w.seen = old /\ w.open = v.open
        /\ w.late = v.late
    BY <1>1, <1>2, <2>2, <2>3 DEF Work
  <2>5. Knows("replay", w)
    BY <1>1, <1>2, <2>3, <2>4 DEF Knows, KnowsToken, KnowsUser, KnowsLate, KnowsAlive, KnowsRoom, KnowsOld
  <2>6. \A q \in Request \ {r} : Apart(pc[q], req[q], "replay", w)
    BY <1>3, <2>4 DEF Apart, Locks
  <2>7. "replay" \in PC /\ pc' = [pc EXCEPT ![r] = "replay"]
    BY <1>1, <1>4 DEF PC, Open, Rotate, Goto
  <2>8. req' = [req EXCEPT ![r] = w]
    <3>1. req' = [req EXCEPT ![r].seen = old]
      BY <1>1, <1>4, <2>1 DEF Rotate
    <3> QED BY <1>1, <1>2, <2>2, <3>1
  <2> QED BY <1>2, <2>4, <2>5, <2>6, <2>7, <2>8, Step
<1>5. CASE ~Stale(t)
  <2>1. Goto(r, "rotating") /\ UNCHANGED req
    BY <1>1, <1>5 DEF Rotate
  <2>2. Knows("rotating", v)
    BY <1>1, <1>2, <1>5 DEF Knows, KnowsToken, KnowsUser, KnowsLate, KnowsAlive, KnowsRoom, KnowsOld, Stale, Alive
  <2>3. \A q \in Request \ {r} : Apart(pc[q], req[q], "rotating", v)
    BY <1>1, <1>3 DEF Apart, Locks
  <2>4. "rotating" \in PC
    BY DEF PC, Open
  <2> QED BY <1>1, <1>2, <2>1, <2>2, <2>3, <2>4, GoesOn
<1> QED BY <1>4, <1>5

LEMMA ReplaceMoves == ASSUME SessionsAssumption, Inv, NEW r \in Request, Replace(r) PROVE Inv'
<1>1. PICK v, w : v = req[r] /\ w = [v EXCEPT !.session = user[v.owner].ver]
  OBVIOUS
<1>2. /\ v \in Work /\ v.owner \in User /\ Knows("rotating", v) /\ user[v.owner] \in Account
      /\ req \in [Request -> Work] /\ user[v.owner].ver \in Nat
  BY <1>1, Known DEF Replace, Inv, RequestsInv
<1>3. /\ w \in Work /\ w.owner = v.owner /\ w.ver = v.ver /\ w.token = v.token
      /\ w.session = user[v.owner].ver /\ w.seen = v.seen /\ w.open = v.open /\ w.late = v.late
  BY <1>1, <1>2 DEF Work, Account
<1>4. Knows("rotated", w)
  BY <1>2, <1>3 DEF Knows, KnowsToken, KnowsUser, KnowsLate, KnowsAlive, KnowsRoom, KnowsOld
<1>5. ASSUME NEW q \in Request \ {r} PROVE Apart(pc[q], req[q], "rotated", w)
  <2>1. Apart(pc[q], req[q], "rotating", v)
    BY <1>1 DEF Replace, Inv, RequestsInv
  <2> QED BY <1>3, <2>1 DEF Apart, Locks
<1>6. pc' = [pc EXCEPT ![r] = "rotated"] /\ req' = [req EXCEPT ![r] = w] /\ UNCHANGED dataVars
  BY <1>1, <1>2 DEF Replace, Goto, dataVars
<1>7. "rotated" \in PC
  BY DEF PC, Open
<1> QED BY <1>3, <1>4, <1>5, <1>6, <1>7, Step

LEMMA KillMoves == ASSUME SessionsAssumption, Inv, NEW r \in Request, Kill(r) PROVE Inv'
<1>1. PICK v, w : v = req[r] /\ w = [v EXCEPT !.open = Sessions(v.owner)]
  OBVIOUS
<1>2. /\ v \in Work /\ v.owner \in User /\ Knows("replay", v) /\ req \in [Request -> Work]
      /\ Issued \subseteq Token /\ UNCHANGED dataVars
  BY <1>1, Known, IssuedTokens DEF Kill, Inv, RequestsInv, DataInv, dataVars
<1>3. Sessions(v.owner) \subseteq Issued
  BY DEF Sessions, Of
<1>4. /\ w \in Work /\ w.owner = v.owner /\ w.token = v.token /\ w.seen = v.seen
      /\ w.open = Sessions(v.owner) /\ w.late = v.late
  BY <1>1, <1>2, <1>3 DEF Work
<1>5. Knows("kill", w)
  BY <1>2, <1>3, <1>4 DEF Knows, KnowsToken, KnowsUser, KnowsLate, KnowsAlive, KnowsRoom, KnowsOld
<1>6. ASSUME NEW q \in Request \ {r} PROVE Apart(pc[q], req[q], "kill", w)
  <2>1. Apart(pc[q], req[q], "replay", v)
    BY <1>1 DEF Kill, Inv, RequestsInv
  <2>2. \A t \in v.seen : ~Locks(pc[q], req[q], t)
    BY <1>1 DEF Kill, TokenFree, HasToken, Locks
  <2> QED BY <1>4, <2>1, <2>2 DEF Apart, Locks
<1>7. pc' = [pc EXCEPT ![r] = "kill"] /\ req' = [req EXCEPT ![r] = w]
  BY <1>1, <1>2 DEF Kill, Goto
<1>8. "kill" \in PC
  BY DEF PC, Open
<1> QED BY <1>2, <1>4, <1>5, <1>6, <1>7, <1>8, Step

-----------------------------------------------------------------------------
(* Changes of an account, up to their commit.                              *)

LEMMA BeginMoves ==
    ASSUME SessionsAssumption, Inv, NEW r \in Request, NEW u \in User, NEW k \in Kinds, Begin(r, u, k)
    PROVE  Inv'
<1>1. PICK w, s : /\ w = [NoWork EXCEPT !.kind = k, !.owner = u]
                  /\ s = IF k \in {"remove", "ban"} /\ user[u].super THEN "admins" ELSE "bump"
  OBVIOUS
<1>2. w \in Work /\ w.seen = {} /\ w.open = {} /\ ~w.late
  BY <1>1, NoWorkType DEF Work
<1>3. s \in {"admins", "bump"} /\ s \in PC
  BY <1>1 DEF PC, Open
<1>4. Knows(s, w)
  BY <1>2, <1>3 DEF Knows, KnowsToken, KnowsUser, KnowsLate, KnowsAlive, KnowsRoom, KnowsOld
<1>5. \A q \in Request \ {r} : Apart(pc[q], req[q], s, w)
  BY <1>3 DEF Apart, Locks
<1>6. pc' = [pc EXCEPT ![r] = s] /\ req' = [req EXCEPT ![r] = w] /\ UNCHANGED dataVars
  BY <1>1 DEF Begin, Goto, dataVars
<1> QED BY <1>2, <1>3, <1>4, <1>5, <1>6, Step

LEMMA ListMoves == ASSUME SessionsAssumption, Inv, NEW r \in Request, ListAdmins(r) PROVE Inv'
<1>1. PICK v, all : v = req[r] /\ all = {u \in User : user[u].super /\ user[u].status = "active"}
  OBVIOUS
<1>2. PICK w : w = [v EXCEPT !.admins = all]
  OBVIOUS
<1>3. v \in Work /\ Knows("admins", v) /\ req \in [Request -> Work]
  BY <1>1, Known DEF ListAdmins, Inv, RequestsInv
<1>4. all \subseteq User
  BY <1>1
<1>5. /\ w \in Work /\ w.owner = v.owner /\ w.ver = v.ver /\ w.token = v.token
      /\ w.seen = v.seen /\ w.open = v.open /\ w.late = v.late
  BY <1>2, <1>3, <1>4 DEF Work
<1>6. Knows("guard", w)
  BY <1>3, <1>5 DEF Knows, KnowsToken, KnowsUser, KnowsLate, KnowsAlive, KnowsRoom, KnowsOld
<1>7. \A q \in Request \ {r} : Apart(pc[q], req[q], "guard", w)
  BY DEF Apart, Locks
<1>8. pc' = [pc EXCEPT ![r] = "guard"] /\ req' = [req EXCEPT ![r] = w] /\ UNCHANGED dataVars
  BY <1>1, <1>2, <1>3 DEF ListAdmins, Goto, dataVars
<1>9. "guard" \in PC
  BY DEF PC, Open
<1> QED BY <1>5, <1>6, <1>7, <1>8, <1>9, Step

LEMMA GuardMoves == ASSUME SessionsAssumption, Inv, NEW r \in Request, Guard(r) PROVE Inv'
<1>1. PICK v, left : v = req[r] /\ left = {u \in v.admins : user[u].status = "active"}
  OBVIOUS
<1>2. UNCHANGED dataVars
  BY DEF Guard, dataVars
<1>3. CASE End(r)
  BY <1>2, <1>3, StepEnds
<1>4. CASE Goto(r, "bump") /\ req' = [req EXCEPT ![r].admins = left]
  <2>1. PICK w : w = [v EXCEPT !.admins = left]
    OBVIOUS
  <2>2. v \in Work /\ Knows("guard", v) /\ req \in [Request -> Work]
    BY <1>1, Known DEF Guard, Inv, RequestsInv
  <2>3. left \subseteq User
    BY <1>1, <2>2 DEF Work
  <2>4. /\ w \in Work /\ w.owner = v.owner /\ w.ver = v.ver /\ w.token = v.token
        /\ w.seen = v.seen /\ w.open = v.open /\ w.late = v.late
    BY <2>1, <2>2, <2>3 DEF Work
  <2>5. Knows("bump", w)
    BY <2>2, <2>4 DEF Knows, KnowsToken, KnowsUser, KnowsLate, KnowsAlive, KnowsRoom, KnowsOld
  <2>6. \A q \in Request \ {r} : Apart(pc[q], req[q], "bump", w)
    BY DEF Apart, Locks
  <2>7. pc' = [pc EXCEPT ![r] = "bump"] /\ req' = [req EXCEPT ![r] = w]
    BY <1>1, <1>4, <2>1, <2>2 DEF Goto
  <2>8. "bump" \in PC
    BY DEF PC, Open
  <2> QED BY <1>2, <2>4, <2>5, <2>6, <2>7, <2>8, Step
<1> QED BY <1>1, <1>3, <1>4 DEF Guard

\* The lock of the users row keeps off other changes of the user.
LEMMA BumpMoves == ASSUME SessionsAssumption, Inv, NEW r \in Request, Bump(r) PROVE Inv'
<1>1. PICK v, old : v = req[r] /\ old = {t \in Of(v.owner) : ~token[t].revoked}
  OBVIOUS
<1>2. PICK w : w = [v EXCEPT !.seen = old]
  OBVIOUS
<1>3. /\ v \in Work /\ v.owner \in User /\ Knows("bump", v) /\ req \in [Request -> Work]
      /\ user[v.owner].ver \in Nat /\ Issued \subseteq Token /\ UNCHANGED dataVars /\ issued \in Nat
      /\ MaxEvents \in Nat
  BY <1>1, Known, IssuedTokens DEF Bump, Inv, RequestsInv, DataInv, DataTypeOK, dataVars, SessionsAssumption
<1>4. old \subseteq Issued
  BY <1>1 DEF Of
<1>5. /\ w \in Work /\ w.owner = v.owner /\ w.token = v.token /\ w.seen = old
      /\ w.open = v.open /\ w.late = v.late
  BY <1>2, <1>3, <1>4 DEF Work
<1>6. user[v.owner].ver < MaxEvents
  BY <1>1, <1>3 DEF Bump, Room
<1>7. Knows("sweep", w)
  BY <1>3, <1>4, <1>5, <1>6 DEF Knows, KnowsToken, KnowsUser, KnowsLate, KnowsAlive, KnowsRoom, KnowsOld
<1>8. ASSUME NEW q \in Request \ {r} PROVE Apart(pc[q], req[q], "sweep", w)
  <2>1. ~(pc[q] = "sweep" /\ req[q].owner = v.owner)
    BY <1>1 DEF Bump, UserFree, WritesUser
  <2> QED BY <1>5, <2>1 DEF Apart, Locks
<1>9. pc' = [pc EXCEPT ![r] = "sweep"] /\ req' = [req EXCEPT ![r] = w]
  BY <1>1, <1>2, <1>3 DEF Bump, Goto
<1>10. "sweep" \in PC
  BY DEF PC, Open
<1> QED BY <1>3, <1>5, <1>7, <1>8, <1>9, <1>10, Step

-----------------------------------------------------------------------------
(* Steps that change the data.                                             *)

\* Versions go up, what a token is stays, and it does not become fresh again.
Grows ==
    /\ Issued \subseteq Issued'
    /\ \A u \in User : /\ user[u].ver <= user'[u].ver
                       /\ user[u].ver = user'[u].ver => user'[u].super = user[u].super
    /\ \A t \in Issued : /\ token'[t].owner = token[t].owner /\ token'[t].ver = token[t].ver
                         /\ Stale(t) => Stale(t)'

\* A request keeps what it knows as long as nobody touches the token it has locked
\* or changes the user whose row it has written.
LEMMA Keeps ==
    ASSUME SessionsAssumption, DataInv, DataInv', Grows, NEW s \in PC, NEW w \in Work, Knows(s, w),
           s \in {"rotating", "rotated"} /\ Alive(w.token) => Alive(w.token)',
           s = "sweep" => user'[w.owner] = user[w.owner]
    PROVE  Knows(s, w)'
<1>1. PICK o : o = w.owner
  OBVIOUS
<1>2. PICK t : t = w.token
  OBVIOUS
<1>3. /\ o \in User /\ w.ver \in Nat /\ w.session \in Nat
      /\ user[o].ver \in Nat /\ user'[o].ver \in Nat
  BY <1>1 DEF Work, Version, DataInv, DataTypeOK, Account
<1>4. user[o].ver <= user'[o].ver /\ (user[o].ver = user'[o].ver => user'[o].super = user[o].super)
  BY <1>3 DEF Grows
<1>5. t \in Issued => token[t].ver \in Nat
  BY IssuedTokens DEF DataInv, DataTypeOK, Row, Version
<1>6. t \in Issued => /\ t \in Issued' /\ token'[t].owner = token[t].owner /\ token'[t].ver = token[t].ver
                      /\ Stale(t) => Stale(t)'
  BY DEF Grows
<1>7. KnowsToken(s, w)'
  BY <1>1, <1>2, <1>6 DEF Knows, KnowsToken
<1>8. KnowsUser(s, w)'
  BY <1>1, <1>3, <1>4 DEF Knows, KnowsUser
<1>9. KnowsLate(s, w)'
  <2>1. w.late => s \notin {"rotating", "rotated", "answer"}
    BY DEF Knows, KnowsLate
  <2>2. ASSUME w.late, s = "user" PROVE token'[t].ver < user'[o].ver
    <3>1. token[t].ver < user[o].ver /\ t \in Issued
      BY <1>1, <1>2, <2>2 DEF Knows, KnowsLate, KnowsToken
    <3> QED BY <1>3, <1>4, <1>5, <1>6, <3>1
  <2>3. ASSUME w.late, s = "session" PROVE token'[t].ver < w.ver
    <3>1. token[t].ver < w.ver /\ t \in Issued
      BY <1>2, <2>3 DEF Knows, KnowsLate, KnowsToken
    <3> QED BY <1>6, <3>1
  <2>4. ASSUME w.late, s = "rotate" PROVE Stale(t)'
    <3>1. Stale(t) /\ t \in Issued
      BY <1>2, <2>4 DEF Knows, KnowsLate, KnowsToken
    <3> QED BY <1>6, <3>1
  <2> QED BY <1>1, <1>2, <2>1, <2>2, <2>3, <2>4 DEF KnowsLate, Stale
<1>10. KnowsAlive(s, w)'
  BY DEF Knows, KnowsAlive, Alive
<1>11. KnowsRoom(s, w)'
  BY DEF Knows, KnowsRoom
<1>12. KnowsOld(w)'
  BY DEF Knows, KnowsOld, Grows
<1> QED BY <1>7, <1>8, <1>9, <1>10, <1>11, <1>12 DEF Knows

\* What a step of r, or of nobody, has to leave to the others.
Leaves(r) ==
    \A q \in Request \ {r} :
        /\ \A t : Locks(pc[q], req[q], t) /\ Alive(t) => Alive(t)'
        /\ pc[q] = "sweep" => user'[req[q].owner] = user[req[q].owner]

LEMMA OthersKeep ==
    ASSUME SessionsAssumption, Inv, DataInv', Grows, NEW r, Leaves(r), NEW q \in Request \ {r}
    PROVE  Knows(pc[q], req[q])' \/ pc'[q] # pc[q] \/ req'[q] # req[q]
<1>1. PICK s, w : s = pc[q] /\ w = req[q]
  OBVIOUS
<1>2. s \in PC /\ w \in Work /\ Knows(s, w)
  BY <1>1 DEF Inv, RequestsInv
<1>3. s = "sweep" => user'[w.owner] = user[w.owner]
  BY <1>1 DEF Leaves
<1>4. s \in {"rotating", "rotated"} /\ Alive(w.token) => Alive(w.token)'
  <2>1. \A t : Locks(s, w, t) /\ Alive(t) => Alive(t)'
    BY <1>1 DEF Leaves
  <2>2. PICK t : t = w.token
    OBVIOUS
  <2>3. s \in {"rotating", "rotated"} => Locks(s, w, t)
    BY <2>2 DEF Locks
  <2> QED BY <2>1, <2>2, <2>3 DEF Alive
<1>5. Knows(s, w)'
  BY <1>2, <1>3, <1>4, Keeps DEF Inv
<1> QED BY <1>1, <1>5

LEMMA DataStep ==
    ASSUME SessionsAssumption, Inv, DataInv', Grows, NEW r \in Request, Leaves(r), NEW s \in PC, NEW w \in Work,
           pc' = [pc EXCEPT ![r] = s], req' = [req EXCEPT ![r] = w], Knows(s, w)',
           \A q \in Request \ {r} : Apart(pc[q], req[q], s, w)
    PROVE  Inv'
<1>1. RequestsInv /\ pc \in [Request -> PC] /\ req \in [Request -> Work]
  BY DEF Inv, RequestsInv
<1>2. ASSUME NEW q \in Request \ {r} PROVE Knows(pc[q], req[q])'
  <2>1. pc'[q] = pc[q] /\ req'[q] = req[q]
    BY <1>1
  <2> QED BY <2>1, OthersKeep
<1> QED BY <1>1, <1>2, Moves DEF Inv

LEMMA DataEnds ==
    ASSUME SessionsAssumption, Inv, DataInv', Grows, NEW r \in Request, Leaves(r), End(r)
    PROVE  Inv'
<1>1. pc' = [pc EXCEPT ![r] = "idle"] /\ req' = [req EXCEPT ![r] = NoWork]
  BY DEF End, Goto
<1>2. "idle" \in PC /\ NoWork \in Work
  BY NoWorkType DEF PC
<1>3. \A q \in Request \ {r} : Apart(pc[q], req[q], "idle", NoWork)
  BY IdleApart
<1>4. Knows("idle", NoWork)'
  BY NoWorkType DEF Knows, KnowsToken, KnowsUser, KnowsLate, KnowsAlive, KnowsRoom, KnowsOld
<1> QED BY <1>1, <1>2, <1>3, <1>4, DataStep

\* A step of nobody that is served.
LEMMA DataElse ==
    ASSUME SessionsAssumption, Inv, DataInv', Grows, UNCHANGED <<pc, req>>, \A r : r \notin Request => Leaves(r)
    PROVE  Inv'
<1>1. PICK r : r \notin Request
  BY NoSetContainsEverything
<1>2. \A q \in Request : Knows(pc[q], req[q])'
  BY <1>1, OthersKeep
<1>3. RequestsInv
  BY DEF Inv
<1>4. \A p, q \in Request : p # q => Apart(pc[p], req[p], pc[q], req[q])'
  BY <1>3 DEF RequestsInv, Apart, Locks
<1> QED BY <1>2, <1>3, <1>4 DEF Inv, RequestsInv

-----------------------------------------------------------------------------
(* The commits of logins and rotations.                                    *)

\* A new token is of a version that is not newer than that of its owner.
LEMMA NewToken ==
    ASSUME SessionsAssumption, Inv, NEW r \in Request, pc[r] \in {"stored", "rotated"},
           Room(req[r].owner), NEW root \in 1..(issued + 1), NEW n, n = NewRow(r, root)
    PROVE  /\ n \in Row /\ n.owner = req[r].owner /\ n.ver = req[r].session /\ n.root = root
           /\ n.ver <= user[n.owner].ver
           /\ issued + 1 \in Token /\ issued + 1 \notin Issued /\ issued + 1 \in 0..MaxEvents
           /\ issued \in Nat /\ 1..(issued + 1) = Issued \cup {issued + 1}
<1>1. PICK w : w = req[r]
  OBVIOUS
<1>2. w \in Work /\ w.owner \in User /\ user[w.owner].ver \in Nat /\ user[w.owner].ver >= 1
      /\ w.session <= user[w.owner].ver
  BY <1>1, Known DEF Knows, KnowsUser, Account, Version
<1>3. issued \in Nat /\ issued <= MaxEvents /\ MaxEvents \in Nat
  BY DEF Inv, DataInv, DataTypeOK, SessionsAssumption
<1>4. issued + user[w.owner].ver < MaxEvents
  BY <1>1 DEF Room
<1>5. issued + 1 <= MaxEvents
  BY <1>2, <1>3, <1>4
<1>6. /\ issued + 1 \in Token /\ issued + 1 \notin Issued /\ issued + 1 \in 0..MaxEvents
      /\ 1..(issued + 1) = Issued \cup {issued + 1} /\ root \in Token
  BY <1>3, <1>5 DEF Token, Issued
<1>7. n \in Row /\ n.owner = w.owner /\ n.ver = w.session /\ n.root = root
  BY <1>1, <1>2, <1>6 DEF NewRow, Row, Work
<1> QED BY <1>1, <1>2, <1>3, <1>6, <1>7

LEMMA LoginData ==
    ASSUME SessionsAssumption, Inv, NEW r \in Request, LoginDone(r)
    PROVE  DataInv' /\ Grows /\ Leaves(r)
<1>1. PICK i, n : i = issued + 1 /\ n = NewRow(r, i)
  OBVIOUS
<1>2. PICK w, a : w = req[r] /\ a = Claims(r, w.super)
  OBVIOUS
<1>3. /\ issued' = i /\ token' = [token EXCEPT ![i] = n] /\ access' = access \cup {a}
      /\ user' = user /\ barred' = barred /\ pc[r] = "stored" /\ Room(w.owner)
  BY <1>1, <1>2 DEF LoginDone
<1>4. /\ n \in Row /\ n.owner = w.owner /\ n.root = i /\ n.ver <= user[n.owner].ver
      /\ i \in Token /\ i \notin Issued /\ i \in 0..MaxEvents /\ issued \in Nat
      /\ 1..i = Issued \cup {i}
  <2>1. i \in 1..(issued + 1)
    BY <1>1 DEF Inv, DataInv, DataTypeOK
  <2> QED BY <1>1, <1>2, <1>3, <2>1, NewToken
<1>5. DataInv /\ DataTypeOK /\ Issued \subseteq Token /\ Issued' = Issued \cup {i}
  BY <1>3, <1>4, IssuedTokens DEF Inv, DataInv, Issued
<1>6. /\ w \in Work /\ w.owner \in User /\ w.ver <= user[w.owner].ver
      /\ w.ver = user[w.owner].ver => w.super = user[w.owner].super
  BY <1>2, <1>3, Known DEF Knows, KnowsUser
<1>7. a \in Access /\ Honest(a)
  BY <1>2, <1>6 DEF Claims, Access, Work, Honest
<1>8. /\ token'[i] = n /\ \A t \in Issued : token'[t] = token[t] /\ t # i
      /\ token' \in [Token -> Row]
  BY <1>3, <1>4, <1>5 DEF DataTypeOK
<1>9. DataTypeOK'
  <2>1. \A t \in Issued' : token'[t].root \in Issued'
    BY <1>4, <1>5, <1>8 DEF DataTypeOK
  <2> QED BY <1>3, <1>4, <1>5, <1>7, <1>8, <2>1 DEF DataTypeOK
<1>10. \A t \in Issued' : Dated(t)'
  <2>1. i \notin barred
    BY <1>4, <1>5 DEF DataTypeOK
  <2>2. Dated(i)'
    BY <1>3, <1>4, <1>8, <2>1 DEF Dated
  <2>3. \A t \in Issued : Dated(t)'
    BY <1>3, <1>5, <1>8 DEF Dated, DataInv
  <2> QED BY <1>5, <2>2, <2>3
<1>11. \A b \in access' : Honest(b)'
  BY <1>3, <1>5, <1>7 DEF Honest, DataInv
<1>12. OneAlive'
  <2>1. \A t \in Issued : token'[t].root # i
    BY <1>4, <1>5, <1>8 DEF DataTypeOK
  <2>2. \A s, t \in Issued : Alive(s)' /\ Alive(t)' /\ token'[s].root = token'[t].root => s = t
    BY <1>5, <1>8 DEF Alive, OneAlive, DataInv
  <2> QED BY <1>4, <1>5, <1>8, <2>1, <2>2 DEF OneAlive
<1>13. Grows
  BY <1>3, <1>5, <1>6, <1>8 DEF Grows, Stale, Inv, DataInv, DataTypeOK, Account, Version
<1>14. ASSUME NEW q \in Request \ {r}, NEW t, Locks(pc[q], req[q], t), Alive(t) PROVE Alive(t)'
  <2>1. t \in Issued
    BY <1>14, Known DEF Locks, Knows, KnowsToken, KnowsOld
  <2> QED BY <1>8, <1>14, <2>1 DEF Alive
<1>15. Leaves(r)
  BY <1>3, <1>14 DEF Leaves
<1> QED BY <1>9, <1>10, <1>11, <1>12, <1>13, <1>15 DEF DataInv

\* The token that is replaced was the only one alive of its family.
LEMMA RotatedData ==
    ASSUME SessionsAssumption, Inv, NEW r \in Request, Rotated(r)
    PROVE  DataInv' /\ Grows /\ Leaves(r)
<1>1. PICK w, c, root : w = req[r] /\ c = w.token /\ root = token[c].root
  OBVIOUS
<1>2. PICK i, n : i = issued + 1 /\ n = NewRow(r, root)
  OBVIOUS
<1>3. /\ issued' = i /\ token' = [token EXCEPT ![c].used = TRUE, ![c].open = FALSE, ![i] = n]
      /\ access' = access /\ user' = user /\ barred' = barred /\ pc[r] = "rotated" /\ Room(w.owner)
  BY <1>1, <1>2 DEF Rotated
<1>4. w \in Work /\ Knows("rotated", w) /\ DataInv /\ DataTypeOK /\ Issued \subseteq Token
  BY <1>1, <1>3, Known, IssuedTokens DEF Inv, DataInv
<1>5. c \in Issued /\ Alive(c) /\ root \in Issued
  BY <1>1, <1>4 DEF Knows, KnowsToken, KnowsAlive, DataTypeOK
<1>6. root \in 1..(issued + 1)
  BY <1>4, <1>5 DEF Issued, DataTypeOK
<1>7. /\ n \in Row /\ n.owner = w.owner /\ n.root = root /\ n.ver <= user[n.owner].ver
      /\ i \in Token /\ i \notin Issued /\ i \in 0..MaxEvents /\ issued \in Nat
      /\ 1..i = Issued \cup {i}
  <2>1. pc[r] \in {"stored", "rotated"} /\ Room(req[r].owner)
    BY <1>1, <1>3
  <2>2. /\ n \in Row /\ n.owner = req[r].owner /\ n.root = root /\ n.ver <= user[n.owner].ver
        /\ issued + 1 \in Token /\ issued + 1 \notin Issued /\ issued + 1 \in 0..MaxEvents
        /\ issued \in Nat /\ 1..(issued + 1) = Issued \cup {issued + 1}
    BY <1>2, <1>6, <2>1, NewToken
  <2> QED BY <1>1, <1>2, <2>2
<1>8. Issued' = Issued \cup {i}
  BY <1>3, <1>7 DEF Issued
<1>9. PICK d : d = [token[c] EXCEPT !.used = TRUE, !.open = FALSE]
  OBVIOUS
<1>10. token[c] \in Row /\ token \in [Token -> Row] /\ c \in Token /\ c # i
  BY <1>4, <1>5, <1>7 DEF DataTypeOK
<1>11. /\ d \in Row /\ d.owner = token[c].owner /\ d.ver = token[c].ver /\ d.root = root
       /\ d.used /\ d.revoked = token[c].revoked /\ d.expired = token[c].expired
  BY <1>1, <1>9, <1>10 DEF Row
<1>12. token' = [token EXCEPT ![c] = d, ![i] = n]
  BY <1>3, <1>9, <1>10
<1>13. /\ token'[i] = n /\ token'[c] = d /\ \A t \in Issued : t # c => token'[t] = token[t] /\ t # i
       /\ token' \in [Token -> Row]
  BY <1>4, <1>7, <1>10, <1>11, <1>12
<1>14. \A t \in Issued : /\ token'[t].owner = token[t].owner /\ token'[t].ver = token[t].ver
                         /\ token'[t].root = token[t].root /\ (Stale(t) => Stale(t)')
                         /\ Alive(t)' => Alive(t)
  BY <1>1, <1>11, <1>13 DEF Stale, Alive
<1>15. DataTypeOK'
  <2>1. \A t \in Issued' : token'[t].root \in Issued'
    BY <1>4, <1>5, <1>7, <1>8, <1>13, <1>14 DEF DataTypeOK
  <2> QED BY <1>3, <1>4, <1>7, <1>8, <1>13, <2>1 DEF DataTypeOK
<1>16. \A t \in Issued' : Dated(t)'
  <2>1. i \notin barred
    BY <1>4, <1>7 DEF DataTypeOK
  <2>2. Dated(i)'
    BY <1>3, <1>7, <1>13, <2>1 DEF Dated
  <2>3. \A t \in Issued : Dated(t)'
    BY <1>3, <1>4, <1>14 DEF Dated, DataInv
  <2> QED BY <1>8, <2>2, <2>3
<1>17. \A b \in access' : Honest(b)'
  BY <1>3, <1>4 DEF Honest, DataInv
<1>18. OneAlive'
  <2>1. ASSUME NEW t \in Issued, Alive(t)' PROVE token'[t].root # root /\ t # c
    <3>1. t # c
      BY <1>11, <1>13, <2>1 DEF Alive
    <3> QED BY <1>1, <1>4, <1>5, <1>14, <2>1, <3>1 DEF DataInv, OneAlive
  <2>2. \A s, t \in Issued : Alive(s)' /\ Alive(t)' /\ token'[s].root = token'[t].root => s = t
    BY <1>4, <1>14 DEF OneAlive, DataInv
  <2> QED BY <1>7, <1>8, <1>13, <2>1, <2>2 DEF OneAlive
<1>19. Grows
  <2>1. \A u \in User : user[u].ver <= user'[u].ver /\ user'[u].super = user[u].super
    BY <1>3, <1>4 DEF DataTypeOK, Account, Version
  <2> QED BY <1>8, <1>14, <2>1 DEF Grows
<1>20. ASSUME NEW q \in Request \ {r}, NEW t, Locks(pc[q], req[q], t), Alive(t) PROVE Alive(t)'
  <2>1. t \in Issued
    BY <1>20, Known DEF Locks, Knows, KnowsToken, KnowsOld
  <2>2. t # c
    <3>1. Apart(pc[q], req[q], "rotated", w) /\ t \in Token
      BY <1>1, <1>3, <1>4, <2>1 DEF Inv, RequestsInv
    <3>2. Locks("rotated", w, c)
      BY <1>1 DEF Locks
    <3> QED BY <1>20, <3>1, <3>2 DEF Apart
  <2> QED BY <1>13, <1>20, <2>1, <2>2 DEF Alive
<1>21. Leaves(r)
  BY <1>3, <1>20 DEF Leaves
<1> QED BY <1>15, <1>16, <1>17, <1>18, <1>19, <1>21 DEF DataInv

LEMMA LoginEnds == ASSUME SessionsAssumption, Inv, NEW r \in Request, LoginDone(r) PROVE Inv'
<1>1. End(r)
  BY DEF LoginDone
<1> QED BY <1>1, LoginData, DataEnds

LEMMA RotatedMoves == ASSUME SessionsAssumption, Inv, NEW r \in Request, Rotated(r) PROVE Inv'
<1>1. DataInv' /\ Grows /\ Leaves(r)
  BY RotatedData
<1>2. PICK w : w = req[r]
  OBVIOUS
<1>3. w \in Work /\ Knows("rotated", w) /\ req \in [Request -> Work] /\ "answer" \in PC
  BY <1>2, Known DEF Rotated, Inv, RequestsInv, PC
<1>4. Knows("answer", w)
  BY <1>3 DEF Knows, KnowsToken, KnowsUser, KnowsLate, KnowsAlive, KnowsRoom, KnowsOld
<1>5. Knows("answer", w)'
  BY <1>1, <1>3, <1>4, Keeps DEF Inv
<1>6. \A q \in Request \ {r} : Apart(pc[q], req[q], "answer", w)
  BY DEF Apart, Locks
<1>7. pc' = [pc EXCEPT ![r] = "answer"] /\ req' = [req EXCEPT ![r] = w]
  BY <1>2, <1>3 DEF Rotated, Goto
<1> QED BY <1>1, <1>3, <1>5, <1>6, <1>7, DataStep

\* The roles are those of now; the version may be an older one, which claims nothing.
LEMMA AnswerEnds == ASSUME SessionsAssumption, Inv, NEW r \in Request, Answer(r) PROVE Inv'
<1>1. PICK w, a : w = req[r] /\ a = Claims(r, user[w.owner].super)
  OBVIOUS
<1>2. /\ access' = access \cup {a} /\ UNCHANGED <<user, issued, token, barred>> /\ End(r)
      /\ pc[r] = "answer"
  BY <1>1 DEF Answer
<1>3. w \in Work /\ w.owner \in User /\ user[w.owner] \in Account /\ w.ver <= user[w.owner].ver
  BY <1>1, <1>2, Known DEF Knows, KnowsUser
<1>4. a \in Access /\ Honest(a)
  BY <1>1, <1>3 DEF Claims, Access, Work, Honest, Account
<1>5. DataInv
  BY DEF Inv
<1>6. DataTypeOK'
  BY <1>2, <1>4, <1>5 DEF DataInv, DataTypeOK, Issued
<1>7. \A t \in Issued' : Dated(t)'
  BY <1>2, <1>5 DEF DataInv, Dated, Issued
<1>8. \A b \in access' : Honest(b)'
  BY <1>2, <1>4, <1>5 DEF DataInv, Honest
<1>9. OneAlive'
  BY <1>2, <1>5 DEF DataInv, OneAlive, Alive, Issued
<1>10. Grows
  <2>1. \A u \in User : user[u].ver <= user'[u].ver /\ user'[u].super = user[u].super
    BY <1>2, <1>5 DEF DataInv, DataTypeOK, Account, Version
  <2> QED BY <1>2, <2>1 DEF Grows, Issued, Stale
<1>11. Leaves(r)
  BY <1>2 DEF Leaves, Alive
<1> QED BY <1>2, <1>6, <1>7, <1>8, <1>9, <1>10, <1>11, DataEnds DEF DataInv

-----------------------------------------------------------------------------
(* Revocations.                                                            *)

\* No token is another one, or becomes fresh.
Weakens ==
    /\ token' \in [Token -> Row]
    /\ \A t \in Issued : /\ token'[t].owner = token[t].owner /\ token'[t].ver = token[t].ver
                         /\ token'[t].root = token[t].root
                         /\ Stale(t) => Stale(t)'
                         /\ Alive(t)' => Alive(t)

LEMMA WeakenedData ==
    ASSUME SessionsAssumption, Inv, Weakens, UNCHANGED <<user, issued, access, barred>>
    PROVE  DataInv' /\ Grows
<1>1. DataInv /\ Issued' = Issued
  BY DEF Inv, Issued
<1>2. DataTypeOK'
  BY <1>1 DEF DataInv, DataTypeOK, Weakens
<1>3. \A t \in Issued' : Dated(t)'
  BY <1>1 DEF DataInv, Dated, Weakens
<1>4. \A b \in access' : Honest(b)'
  BY <1>1 DEF DataInv, Honest
<1>5. OneAlive'
  BY <1>1 DEF DataInv, OneAlive, Weakens
<1>6. \A u \in User : user[u].ver <= user'[u].ver /\ user'[u].super = user[u].super
  BY <1>1 DEF DataInv, DataTypeOK, Account, Version
<1>7. Grows
  BY <1>1, <1>6 DEF Grows, Weakens
<1> QED BY <1>2, <1>3, <1>4, <1>5, <1>7 DEF DataInv

\* With the new version every token of before is one of an older version.
LEMMA RevokedData ==
    ASSUME SessionsAssumption, Inv, Weakens, UNCHANGED <<issued, access>>,
           NEW u \in User, NEW a \in Account, a.ver = user[u].ver + 1,
           user' = [user EXCEPT ![u] = a], barred' = barred \cup Of(u)
    PROVE  DataInv' /\ Grows
<1>1. DataInv /\ DataTypeOK /\ Issued' = Issued
  BY DEF Inv, DataInv, Issued
<1>2. Of(u) \subseteq Issued
  BY DEF Of
<1>3. \A x \in User : /\ user[x].ver \in Nat /\ user'[x].ver \in Nat
                      /\ user'[x] = IF x = u THEN a ELSE user[x]
                      /\ user'[x].ver = IF x = u THEN user[x].ver + 1 ELSE user[x].ver
  BY <1>1 DEF DataTypeOK, Account, Version
<1>4. user' \in [User -> Account]
  BY <1>1 DEF DataTypeOK
<1>5. DataTypeOK'
  BY <1>1, <1>2, <1>4 DEF DataTypeOK, Weakens
<1>6. ASSUME NEW t \in Issued PROVE Dated(t)'
  <2>1. PICK o : o = token[t].owner
    OBVIOUS
  <2>2. o \in User /\ token[t].ver \in Nat /\ token[t].ver <= user[o].ver
        /\ (t \in barred => token[t].ver < user[o].ver)
    BY <1>1, <2>1, IssuedTokens DEF DataInv, DataTypeOK, Row, Version, Dated
  <2>3. t \in Of(u) <=> o = u
    BY <2>1 DEF Of
  <2>4. token'[t].ver <= user'[o].ver /\ (t \in barred' => token'[t].ver < user'[o].ver)
    BY <1>3, <2>2, <2>3 DEF Weakens
  <2> QED BY <2>1, <2>4 DEF Dated, Weakens
<1>7. ASSUME NEW b \in access PROVE Honest(b)'
  <2>1. b.owner \in User /\ b.ver \in Nat /\ Honest(b)
    BY <1>1 DEF DataInv, DataTypeOK, Access, Version
  <2> QED BY <1>3, <2>1 DEF Honest
<1>8. OneAlive'
  BY <1>1 DEF DataInv, OneAlive, Weakens
<1>9. Grows
  <2>1. \A x \in User : /\ user[x].ver <= user'[x].ver
                        /\ user[x].ver = user'[x].ver => user'[x].super = user[x].super
    BY <1>3
  <2> QED BY <1>1, <2>1 DEF Grows, Weakens
<1> QED BY <1>1, <1>5, <1>6, <1>7, <1>8, <1>9 DEF DataInv

LEMMA RevokedRow ==
    ASSUME NEW t \in Token, token[t] \in Row, NEW tokens, NEW sessions, NEW n, n = Revoked(t, tokens, sessions)
    PROVE  /\ n \in Row /\ n.owner = token[t].owner /\ n.ver = token[t].ver /\ n.root = token[t].root
           /\ n.used = token[t].used /\ n.expired = token[t].expired
           /\ n.revoked = (token[t].revoked \/ t \in tokens)
<1>1. PICK a, b : a = (token[t].revoked \/ t \in tokens) /\ b = (token[t].open /\ t \notin sessions)
  OBVIOUS
<1>2. a \in BOOLEAN /\ b \in BOOLEAN
  BY <1>1
<1>3. n = [token[t] EXCEPT !.revoked = a, !.open = b]
  BY <1>1 DEF Revoked
<1> QED BY <1>1, <1>2, <1>3 DEF Row

\* Revoking weakens, and leaves the tokens alive that are not of it.
LEMMA RevokedAll ==
    ASSUME SessionsAssumption, Inv, NEW tokens, NEW sessions,
           token' = [t \in Token |-> Revoked(t, tokens, sessions)]
    PROVE  Weakens /\ \A t \in Issued \ tokens : Alive(t) => Alive(t)'
<1>1. Issued \subseteq Token /\ \A t \in Token : token[t] \in Row
  BY IssuedTokens DEF Inv, DataInv, DataTypeOK
<1>2. ASSUME NEW t \in Token
      PROVE  /\ token'[t] \in Row /\ token'[t].owner = token[t].owner /\ token'[t].ver = token[t].ver
             /\ token'[t].root = token[t].root /\ token'[t].used = token[t].used
             /\ token'[t].expired = token[t].expired
             /\ token'[t].revoked = (token[t].revoked \/ t \in tokens)
  <2>1. PICK n : n = Revoked(t, tokens, sessions)
    OBVIOUS
  <2>2. token'[t] = n
    BY <2>1
  <2> QED BY <1>1, <2>1, <2>2, RevokedRow
<1>3. token' \in [Token -> Row]
  BY <1>2
<1>4. \A t \in Issued : (Stale(t) => Stale(t)') /\ (Alive(t)' => Alive(t))
  BY <1>1, <1>2 DEF Stale, Alive
<1>5. \A t \in Issued \ tokens : Alive(t) => Alive(t)'
  BY <1>1, <1>2 DEF Alive
<1> QED BY <1>1, <1>2, <1>3, <1>4, <1>5 DEF Weakens

LEMMA ReplayedEnds == ASSUME SessionsAssumption, Inv, NEW r \in Request, Replayed(r) PROVE Inv'
<1>1. PICK w, u, a : w = req[r] /\ u = w.owner /\ a = [user[u] EXCEPT !.ver = @ + 1]
  OBVIOUS
<1>2. /\ pc[r] = "kill" /\ UserFree(r, u) /\ Room(u) /\ End(r)
      /\ token' = [t \in Token |-> Revoked(t, w.seen, w.open)]
      /\ user' = [user EXCEPT ![u] = a] /\ barred' = barred \cup Of(u) /\ UNCHANGED <<issued, access>>
  BY <1>1 DEF Replayed
<1>3. w \in Work /\ u \in User /\ user[u] \in Account /\ user \in [User -> Account]
  BY <1>1, Known DEF Inv, DataInv, DataTypeOK
<1>4. a \in Account /\ a.ver = user[u].ver + 1
  <2>1. user[u].ver \in Nat /\ issued \in Nat /\ MaxEvents \in Nat /\ user[u].ver >= 1
    BY <1>3 DEF Account, Version, Inv, DataInv, DataTypeOK, SessionsAssumption
  <2>2. user[u].ver + 1 \in Version
    BY <1>2, <2>1 DEF Room, Version
  <2> QED BY <1>1, <1>3, <2>2 DEF Account
<1>5. Weakens /\ \A t \in Issued \ w.seen : Alive(t) => Alive(t)'
  BY <1>2, RevokedAll
<1>6. DataInv' /\ Grows
  BY <1>2, <1>3, <1>4, <1>5, RevokedData
<1>7. ASSUME NEW q \in Request \ {r}, NEW t, Locks(pc[q], req[q], t), Alive(t) PROVE Alive(t)'
  <2>1. t \in Issued
    BY <1>7, Known DEF Locks, Knows, KnowsToken, KnowsOld
  <2>2. t \in Token
    BY <2>1, IssuedTokens DEF Inv, DataInv
  <2>3. Apart(pc[q], req[q], "kill", w)
    BY <1>1, <1>2 DEF Inv, RequestsInv
  <2>4. t \notin w.seen
    BY <1>7, <2>2, <2>3 DEF Apart, Locks
  <2> QED BY <1>5, <1>7, <2>1, <2>4
<1>8. ASSUME NEW q \in Request \ {r}, pc[q] = "sweep" PROVE user'[req[q].owner] = user[req[q].owner]
  <2>1. req[q].owner # u
    BY <1>2, <1>8 DEF UserFree, WritesUser
  <2> QED BY <1>2, <1>3, <2>1
<1>9. Leaves(r)
  BY <1>7, <1>8 DEF Leaves
<1> QED BY <1>2, <1>6, <1>9, DataEnds

LEMMA SweepEnds == ASSUME SessionsAssumption, Inv, NEW r \in Request, Sweep(r) PROVE Inv'
<1>1. PICK w, u, a : w = req[r] /\ u = w.owner /\ a = Changed(u, w.kind)
  OBVIOUS
<1>2. /\ pc[r] = "sweep" /\ End(r) /\ \A t \in w.seen : TokenFree(r, t)
      /\ token' = [t \in Token |-> Revoked(t, w.seen, Sessions(u))]
      /\ user' = [user EXCEPT ![u] = a] /\ barred' = barred \cup Of(u) /\ UNCHANGED <<issued, access>>
  BY <1>1 DEF Sweep
<1>3. /\ w \in Work /\ u \in User /\ user[u] \in Account /\ user \in [User -> Account]
      /\ user[u].ver < MaxEvents
  BY <1>1, <1>2, Known DEF Inv, DataInv, DataTypeOK, Knows, KnowsRoom
<1>4. a \in Account /\ a.ver = user[u].ver + 1
  <2>1. user[u].ver + 1 \in Version
    BY <1>3 DEF Account, Version, SessionsAssumption
  <2>2. PICK v, s, b : /\ v = user[u].ver + 1 /\ s = (IF w.kind = "ban" THEN "banned" ELSE user[u].status)
                       /\ b = (w.kind = "grant" \/ (user[u].super /\ w.kind # "remove"))
    OBVIOUS
  <2>3. s \in {"active", "banned"} /\ b \in BOOLEAN
    BY <1>3, <2>2 DEF Account
  <2>4. a = [user[u] EXCEPT !.ver = v, !.status = s, !.super = b]
    BY <1>1, <2>2 DEF Changed
  <2> QED BY <1>3, <2>1, <2>2, <2>3, <2>4 DEF Account
<1>5. Weakens /\ \A t \in Issued \ w.seen : Alive(t) => Alive(t)'
  BY <1>2, RevokedAll
<1>6. DataInv' /\ Grows
  BY <1>2, <1>3, <1>4, <1>5, RevokedData
<1>7. ASSUME NEW q \in Request \ {r}, NEW t, Locks(pc[q], req[q], t), Alive(t) PROVE Alive(t)'
  <2>1. t \in Issued
    BY <1>7, Known DEF Locks, Knows, KnowsToken, KnowsOld
  <2>2. t \notin w.seen
    BY <1>2, <1>7 DEF TokenFree, HasToken, Locks
  <2> QED BY <1>5, <1>7, <2>1, <2>2
<1>8. ASSUME NEW q \in Request \ {r}, pc[q] = "sweep" PROVE user'[req[q].owner] = user[req[q].owner]
  <2>1. Apart(pc[q], req[q], "sweep", w)
    BY <1>1, <1>2 DEF Inv, RequestsInv
  <2>2. req[q].owner # u
    BY <1>1, <1>8, <2>1 DEF Apart
  <2> QED BY <1>2, <1>3, <2>2
<1>9. Leaves(r)
  BY <1>7, <1>8 DEF Leaves
<1> QED BY <1>2, <1>6, <1>9, DataEnds

LEMMA LogoutKeeps == ASSUME SessionsAssumption, Inv, NEW t \in Token, Logout(t) PROVE Inv'
<1>1. /\ UNCHANGED <<pc, req>> /\ UNCHANGED <<user, issued, access, barred>>
      /\ \A r \in Request : ~HasToken(r, t)
      /\ token' = IF t \in Issued THEN [token EXCEPT ![t] = Revoked(t, {t}, {t})] ELSE token
  BY DEF Logout
<1>2. Issued \subseteq Token /\ token \in [Token -> Row]
  BY IssuedTokens DEF Inv, DataInv, DataTypeOK
<1>3. PICK n : n = Revoked(t, {t}, {t})
  OBVIOUS
<1>4. /\ n \in Row /\ n.owner = token[t].owner /\ n.ver = token[t].ver /\ n.root = token[t].root
      /\ n.used = token[t].used /\ n.expired = token[t].expired /\ n.revoked
  <2>1. token[t] \in Row
    BY <1>2
  <2>2. PICK one : one = {t}
    OBVIOUS
  <2>3. /\ n \in Row /\ n.owner = token[t].owner /\ n.ver = token[t].ver /\ n.root = token[t].root
        /\ n.used = token[t].used /\ n.expired = token[t].expired
        /\ n.revoked = (token[t].revoked \/ t \in one)
    BY <1>3, <2>1, <2>2, RevokedRow
  <2> QED BY <2>2, <2>3
<1>5. token' \in [Token -> Row] /\ \A s \in Token : token'[s] = token[s] \/ (s = t /\ token'[s] = n)
  BY <1>1, <1>2, <1>3, <1>4
<1>6. Weakens
  BY <1>2, <1>4, <1>5 DEF Weakens, Stale, Alive
<1>7. DataInv' /\ Grows
  BY <1>1, <1>6, WeakenedData
<1>8. ASSUME NEW q \in Request, NEW s, Locks(pc[q], req[q], s), Alive(s) PROVE Alive(s)'
  <2>1. s # t
    BY <1>1, <1>8 DEF HasToken, Locks
  <2>2. s \in Token
    BY <1>2, <1>8, Known DEF Locks, Knows, KnowsToken, KnowsOld
  <2> QED BY <1>5, <1>8, <2>1, <2>2 DEF Alive
<1>9. \A r : r \notin Request => Leaves(r)
  BY <1>1, <1>8 DEF Leaves
<1> QED BY <1>1, <1>7, <1>9, DataElse

LEMMA ExpireKeeps == ASSUME SessionsAssumption, Inv, NEW t \in Token, Expire(t) PROVE Inv'
<1>1. /\ UNCHANGED <<pc, req>> /\ UNCHANGED <<user, issued, access, barred>> /\ t \in Issued
      /\ token' = [token EXCEPT ![t].expired = TRUE]
  BY DEF Expire
<1>2. Issued \subseteq Token /\ token \in [Token -> Row] /\ token[t] \in Row
  BY IssuedTokens DEF Inv, DataInv, DataTypeOK
<1>3. PICK n : n = [token[t] EXCEPT !.expired = TRUE]
  OBVIOUS
<1>4. /\ n \in Row /\ n.owner = token[t].owner /\ n.ver = token[t].ver /\ n.root = token[t].root
      /\ n.used = token[t].used /\ n.expired /\ n.revoked = token[t].revoked
  BY <1>2, <1>3 DEF Row
<1>5. token' \in [Token -> Row] /\ \A s \in Token : token'[s] = token[s] \/ (s = t /\ token'[s] = n)
  BY <1>1, <1>2, <1>3, <1>4
<1>6. Weakens
  BY <1>2, <1>4, <1>5 DEF Weakens, Stale, Alive
<1>7. DataInv' /\ Grows
  BY <1>1, <1>6, WeakenedData
<1>8. ASSUME NEW q \in Request, NEW s, Locks(pc[q], req[q], s), Alive(s) PROVE Alive(s)'
  <2>1. s \in Token
    BY <1>2, <1>8, Known DEF Locks, Knows, KnowsToken, KnowsOld
  <2> QED BY <1>4, <1>5, <1>8, <2>1 DEF Alive
<1>9. \A r : r \notin Request => Leaves(r)
  BY <1>1, <1>8 DEF Leaves
<1> QED BY <1>1, <1>7, <1>9, DataElse

-----------------------------------------------------------------------------
(* The invariant holds, and what follows from it.                          *)

LEMMA InitInv == ASSUME SessionsAssumption, Init PROVE Inv
<1>1. PICK super \in Supers :
        user = [u \in User |-> [status |-> "active", ver |-> 1, super |-> u \in super]]
  BY DEF Init
<1>2. /\ issued = 0 /\ token = [t \in Token |-> NoRow] /\ access = {} /\ barred = {}
      /\ pc = [r \in Request |-> "idle"] /\ req = [r \in Request |-> NoWork]
  BY DEF Init
<1>3. Issued = {} /\ issued \in 0..MaxEvents /\ 1 \in Token
  BY <1>2 DEF Issued, SessionsAssumption, Token
<1>4. NoRow \in Row
  <2>1. NoRow.owner \in User
    BY DEF NoRow, SessionsAssumption
  <2> QED BY <1>3, <2>1, NoWorkType DEF NoRow, Row
<1>5. user \in [User -> Account]
  <2>1. \A u \in User : (u \in super) \in BOOLEAN
    OBVIOUS
  <2>2. \A u \in User : [status |-> "active", ver |-> 1, super |-> u \in super] \in Account
    BY <2>1, NoWorkType DEF Account
  <2> QED BY <1>1, <2>2
<1>6. DataInv
  BY <1>2, <1>3, <1>4, <1>5 DEF DataInv, DataTypeOK, OneAlive
<1>7. "idle" \in PC /\ NoWork \in Work
  BY NoWorkType DEF PC
<1>8. \A r \in Request : pc[r] = "idle" /\ req[r] = NoWork
  BY <1>2
<1>9. \A r \in Request : Knows(pc[r], req[r])
  BY <1>8, IdleKnows
<1>10. \A q, r \in Request : q # r => Apart(pc[q], req[q], pc[r], req[r])
  BY <1>8, IdleApart
<1> QED BY <1>2, <1>6, <1>7, <1>9, <1>10 DEF Inv, RequestsInv

LEMMA AbortEnds == ASSUME SessionsAssumption, Inv, NEW r \in Request, Abort(r) PROVE Inv'
<1>1. End(r) /\ UNCHANGED dataVars
  BY DEF Abort, dataVars
<1> QED BY <1>1, StepEnds

LEMMA NextInv == ASSUME SessionsAssumption, Inv, [Next]_vars PROVE Inv'
<1>1. ASSUME NEW r \in Request, Serve(r) PROVE Inv'
  <2>1. CASE \E u \in User : Login(r, u)
    BY <2>1, LoginMoves
  <2>2. CASE \E u \in User : \E k \in Kinds : Begin(r, u, k)
    BY <2>2, BeginMoves
  <2>3. CASE \E t \in Token : Refresh(r, t)
    BY <2>3, RefreshMoves
  <2>4. CASE Roles(r)
    BY <2>4, RolesMoves
  <2>5. CASE StoreRefresh(r)
    BY <2>5, StoreMoves
  <2>6. CASE LoginDone(r)
    BY <2>6, LoginEnds
  <2>7. CASE ReadUser(r)
    BY <2>7, ReadMoves
  <2>8. CASE ValidateRefreshSession(r)
    BY <2>8, ValidateMoves
  <2>9. CASE Rotate(r)
    BY <2>9, RotateMoves
  <2>10. CASE Replace(r)
    BY <2>10, ReplaceMoves
  <2>11. CASE Rotated(r)
    BY <2>11, RotatedMoves
  <2>12. CASE Answer(r)
    BY <2>12, AnswerEnds
  <2>13. CASE Kill(r)
    BY <2>13, KillMoves
  <2>14. CASE Replayed(r)
    BY <2>14, ReplayedEnds
  <2>15. CASE ListAdmins(r)
    BY <2>15, ListMoves
  <2>16. CASE Guard(r)
    BY <2>16, GuardMoves
  <2>17. CASE Bump(r)
    BY <2>17, BumpMoves
  <2>18. CASE Sweep(r)
    BY <2>18, SweepEnds
  <2>19. CASE Abort(r)
    BY <2>19, AbortEnds
  <2> QED BY <1>1, <2>1, <2>2, <2>3, <2>4, <2>5, <2>6, <2>7, <2>8, <2>9, <2>10, <2>11, <2>12, <2>13,
             <2>14, <2>15, <2>16, <2>17, <2>18, <2>19 DEF Serve
<1>2. CASE UNCHANGED vars
  <2>1. /\ UNCHANGED dataVars /\ UNCHANGED <<pc, req>> /\ RequestsInv /\ DataInv
    BY <1>2 DEF vars, dataVars, Inv
  <2>2. RequestsInv'
    BY <2>1 DEF RequestsInv, dataVars, Knows, KnowsToken, KnowsUser, KnowsLate, KnowsAlive, KnowsRoom,
                KnowsOld, Issued, Stale, Alive, Apart, Locks
  <2> QED BY <2>1, <2>2, DataKept DEF Inv
<1> QED BY <1>1, <1>2, LogoutKeeps, ExpireKeeps DEF Next

\* What requests know and hold, and what the rows say, in every reachable state.
THEOREM InvHolds == Spec => []Inv
<1>1. Init => Inv
  BY InitInv, SessionsAssumption
<1>2. Inv /\ [Next]_vars => Inv'
  BY NextInv, SessionsAssumption
<1> QED BY <1>1, <1>2, PTL DEF Spec

\* Users, tokens and requests are of their types, and what a request holds exists.
THEOREM TypeCorrect == Spec => []TypeOK
<1>1. Inv => TypeOK
  BY DEF Inv, DataInv, DataTypeOK, RequestsInv, Knows, KnowsToken, KnowsOld, TypeOK
<1> QED BY <1>1, InvHolds, PTL

\* Roles change with the version: what a valid access token claims is what the user is.
THEOREM ClaimsAreCurrent == Spec => []ClaimsCurrent
<1>1. Inv => ClaimsCurrent
  BY DEF Inv, DataInv, Honest, Valid, ClaimsCurrent
<1> QED BY <1>1, InvHolds, PTL

\* No refresh that began after a revocation gets past the check of version and token.
THEOREM RevocationsHold == Spec => []RevocationHolds
<1>1. Inv => RevocationHolds
  BY DEF Inv, RequestsInv, Knows, KnowsLate, RevocationHolds
<1> QED BY <1>1, InvHolds, PTL

\* Of the tokens of a family at most one is neither used nor revoked, let alone usable.
THEOREM FamiliesHaveOne == Spec => []OneUsablePerFamily
<1>1. Inv => OneUsablePerFamily
  BY DEF Inv, DataInv, OneAlive, Alive, Usable, Stale, OneUsablePerFamily
<1> QED BY <1>1, InvHolds, PTL
=============================================================================
