------------------------------ MODULE Sessions ------------------------------
(***************************************************************************)
(* Sessions and account state: login, refresh tokens with rotation and     *)
(* replay detection, the token version of a user, the changes that revoke  *)
(* everything (password, role, ban, logout of all devices, the operator's  *)
(* commands) and the protection of the last super administrator            *)
(* (auth/service.go, auth/repository.go, admin/service.go, command.go).    *)
(*                                                                         *)
(* A refresh token and its user_sessions row are one record.  Transactions *)
(* run under READ COMMITTED: what a statement reads is what was committed  *)
(* when it began, row locks are held to the commit, and the effect of a    *)
(* transaction is its last step.  A transaction may fail at any moment     *)
(* (Abort): deadlocks between revocations and replays end that way.  An    *)
(* account, once banned, stays banned: the UPDATE of user_bans in          *)
(* SetUserStatus misses the value of its placeholder, which aborts every   *)
(* activation.                                                             *)
(***************************************************************************)
EXTENDS Integers, FiniteSets

CONSTANTS User, Request,
          Supers,       \* who may be super administrator to begin with
          Kinds,        \* bound: what requests change
          MaxEvents     \* bound: refresh tokens issued and token versions of a user

ASSUME SessionsAssumption ==
    /\ User # {} /\ Supers \subseteq SUBSET User
    /\ Kinds \subseteq {"revoke", "grant", "remove", "ban"}
    /\ MaxEvents \in Nat \ {0}

VARIABLES
    user,     \* users, and whether user_roles has super_admin
    issued,   \* refresh tokens so far
    token,    \* refresh_tokens and user_sessions of those
    access,   \* access tokens handed out: user, version and role claimed
    pc, req,  \* requests that are being served
    barred    \* history: tokens issued before a change or a replay that revoked them

vars == <<user, issued, token, access, pc, req, barred>>

Token == 1..MaxEvents
Version == 1..MaxEvents

Account == [status : {"active", "banned"}, ver : Version, super : BOOLEAN]
\* Family, version of the session, and whether the token was used, revoked or
\* expired and its session is not revoked.
Row == [owner : User, root : Token, ver : Version, used : BOOLEAN, revoked : BOOLEAN,
        expired : BOOLEAN, open : BOOLEAN]
Access == [owner : User, ver : Version, super : BOOLEAN]

Work == [kind : {"login", "refresh"} \cup Kinds, owner : User, token : Token \cup {0},
         ver : Version, session : Version, super : BOOLEAN,
         seen : SUBSET Token, open : SUBSET Token, admins : SUBSET User,
         late : BOOLEAN]  \* history: the token was barred when the request came

\* Where a request is: before, in and after its transaction.
Open == {"stored", "rotating", "rotated", "replay", "kill", "admins", "guard", "bump", "sweep"}
PC == {"idle", "roles", "store", "user", "session", "rotate", "answer"} \cup Open

Issued == 1..issued
NoRow == [owner |-> CHOOSE u \in User : TRUE, root |-> 1, ver |-> 1, used |-> TRUE,
          revoked |-> TRUE, expired |-> TRUE, open |-> FALSE]

TypeOK ==
    /\ user \in [User -> Account]
    /\ issued \in 0..MaxEvents
    /\ token \in [Token -> Row] /\ \A t \in Issued : token[t].root \in Issued
    /\ access \subseteq Access
    /\ pc \in [Request -> PC] /\ req \in [Request -> Work]
    /\ barred \subseteq Issued
    /\ \A r \in Request :
         /\ pc[r] \in {"user", "session", "rotate", "rotating", "rotated", "replay", "kill"} =>
               req[r].token \in Issued /\ req[r].owner = token[req[r].token].owner
         /\ req[r].seen \cup req[r].open \subseteq Issued

NoWork == [kind |-> "login", owner |-> CHOOSE u \in User : TRUE, token |-> 0, ver |-> 1,
           session |-> 1, super |-> FALSE, seen |-> {}, open |-> {}, admins |-> {},
           late |-> FALSE]

Init ==
    /\ \E super \in Supers :
         user = [u \in User |-> [status |-> "active", ver |-> 1, super |-> u \in super]]
    /\ issued = 0 /\ token = [t \in Token |-> NoRow]
    /\ access = {} /\ barred = {}
    /\ pc = [r \in Request |-> "idle"] /\ req = [r \in Request |-> NoWork]

-----------------------------------------------------------------------------
(* Row locks.                                                              *)

HasToken(r, t) ==
    \/ pc[r] \in {"rotating", "rotated", "replay", "kill"} /\ t = req[r].token
    \/ pc[r] = "kill" /\ t \in req[r].seen

\* FOR UPDATE of a users row, a plain UPDATE of it, and FOR KEY SHARE, which the
\* foreign keys of a new token and session take.
HasUser(r, u) ==
    \/ pc[r] \in {"admins", "guard", "bump", "sweep"} /\ req[r].kind = "ban" /\ u = req[r].owner
    \/ pc[r] \in {"bump", "sweep"} /\ u \in req[r].admins
WritesUser(r, u) == pc[r] = "sweep" /\ u = req[r].owner
RefersTo(r, u) == pc[r] \in {"rotated", "stored"} /\ u = req[r].owner

TokenFree(r, t) == \A q \in Request \ {r} : ~HasToken(q, t)
UserFree(r, u) == \A q \in Request \ {r} : ~HasUser(q, u) /\ ~WritesUser(q, u)
Unreferenced(r, u) == \A q \in Request \ {r} : ~RefersTo(q, u)
Referable(r, u) == \A q \in Request \ {r} : ~HasUser(q, u)
SessionsFree(r, u) == \A q \in Request \ {r} : ~(pc[q] = "kill" /\ req[q].owner = u)

Stale(t) == token[t].used \/ token[t].revoked \/ token[t].expired
Family(t) == {s \in Issued : token[s].root = token[t].root}
Of(u) == {t \in Issued : token[t].owner = u}
Sessions(u) == {t \in Of(u) : token[t].open}

Room(u) == issued + user[u].ver < MaxEvents

Goto(r, l) == pc' = [pc EXCEPT ![r] = l]
End(r) == Goto(r, "idle") /\ req' = [req EXCEPT ![r] = NoWork]

-----------------------------------------------------------------------------
(* Login: the user, the roles, the tokens.                                 *)

\* The password is right and the account is active.
Login(r, u) ==
    /\ pc[r] = "idle" /\ user[u].status = "active"
    /\ req' = [req EXCEPT ![r] = [NoWork EXCEPT !.owner = u, !.ver = user[u].ver]]
    /\ Goto(r, "roles")
    /\ UNCHANGED <<user, issued, token, access, barred>>

Roles(r) ==
    /\ pc[r] = "roles"
    /\ req' = [req EXCEPT ![r].super = user[req[r].owner].super]
    /\ Goto(r, "store")
    /\ UNCHANGED <<user, issued, token, access, barred>>

\* StoreRefresh: the session has the version of now, the access token that of then.
StoreRefresh(r) ==
    /\ pc[r] = "store" /\ Referable(r, req[r].owner)
    /\ req' = [req EXCEPT ![r].session = user[req[r].owner].ver]
    /\ Goto(r, "stored")
    /\ UNCHANGED <<user, issued, token, access, barred>>

NewRow(r, root) ==
    [owner |-> req[r].owner, root |-> root, ver |-> req[r].session, used |-> FALSE,
     revoked |-> FALSE, expired |-> FALSE, open |-> TRUE]

Claims(r, super) == [owner |-> req[r].owner, ver |-> req[r].ver, super |-> super]

LoginDone(r) ==
    /\ pc[r] = "stored" /\ Room(req[r].owner)
    /\ issued' = issued + 1
    /\ token' = [token EXCEPT ![issued + 1] = NewRow(r, issued + 1)]
    /\ access' = access \cup {Claims(r, req[r].super)}
    /\ End(r)
    /\ UNCHANGED <<user, barred>>

-----------------------------------------------------------------------------
(* Refresh.                                                                *)

\* A token that was used, revoked or expired is a replay.
Refresh(r, t) ==
    /\ pc[r] = "idle" /\ t \in Issued
    /\ req' = [req EXCEPT ![r] = [NoWork EXCEPT !.kind = "refresh", !.token = t,
                                                !.owner = token[t].owner, !.late = t \in barred]]
    /\ Goto(r, IF Stale(t) THEN "rotate" ELSE "user")
    /\ UNCHANGED <<user, issued, token, access, barred>>

ReadUser(r) ==
    LET u == req[r].owner
    IN  /\ pc[r] = "user"
        /\ IF user[u].status = "active"
           THEN /\ req' = [req EXCEPT ![r].ver = user[u].ver]
                /\ Goto(r, "session")
           ELSE End(r)
        /\ UNCHANGED <<user, issued, token, access, barred>>

ValidateUnversioned(r) ==   \* mutant: the version of the session is not compared
    /\ pc[r] = "session"
    /\ IF token[req[r].token].open /\ ~token[req[r].token].expired
       THEN Goto(r, "rotate") /\ UNCHANGED req
       ELSE End(r)
    /\ UNCHANGED <<user, issued, token, access, barred>>
ValidateRefreshSession(r) ==
    LET t == req[r].token
    IN  /\ pc[r] = "session"
        /\ IF token[t].open /\ ~token[t].expired /\ token[t].ver = req[r].ver
           THEN Goto(r, "rotate") /\ UNCHANGED req
           ELSE End(r)
        /\ UNCHANGED <<user, issued, token, access, barred>>

\* RotateRefresh looks at the token again under its lock, not at the session.
RotateUnseen(r) ==   \* mutant: the token is not looked at again
    /\ pc[r] = "rotate" /\ TokenFree(r, req[r].token)
    /\ Goto(r, "rotating") /\ UNCHANGED req
    /\ UNCHANGED <<user, issued, token, access, barred>>
Rotate(r) ==
    LET t == req[r].token
    IN  /\ pc[r] = "rotate" /\ TokenFree(r, t)
        /\ IF Stale(t)
           THEN /\ req' = [req EXCEPT ![r].seen = {s \in Family(t) : ~token[s].revoked}]
                /\ Goto(r, "replay")
           ELSE Goto(r, "rotating") /\ UNCHANGED req
        /\ UNCHANGED <<user, issued, token, access, barred>>

Replace(r) ==
    /\ pc[r] = "rotating" /\ Referable(r, req[r].owner)
    /\ req' = [req EXCEPT ![r].session = user[req[r].owner].ver]
    /\ Goto(r, "rotated")
    /\ UNCHANGED <<user, issued, token, access, barred>>

Rotated(r) ==
    LET t == req[r].token
    IN  /\ pc[r] = "rotated" /\ Room(req[r].owner) /\ SessionsFree(r, req[r].owner)
        /\ issued' = issued + 1
        /\ token' = [token EXCEPT ![t].used = TRUE, ![t].open = FALSE,
                                  ![issued + 1] = NewRow(r, token[t].root)]
        /\ Goto(r, "answer")
        /\ UNCHANGED <<user, access, req, barred>>

\* The access token has the version that was read before the rotation.
Answer(r) ==
    /\ pc[r] = "answer"
    /\ access' = access \cup {Claims(r, user[req[r].owner].super)}
    /\ End(r)
    /\ UNCHANGED <<user, issued, token, barred>>

\* A replay revokes the tokens of the family, the sessions of the user ...
Kill(r) ==
    LET u == req[r].owner
    IN  /\ pc[r] = "replay" /\ SessionsFree(r, u)
        /\ \A t \in req[r].seen : TokenFree(r, t)
        /\ req' = [req EXCEPT ![r].open = Sessions(u)]
        /\ Goto(r, "kill")
        /\ UNCHANGED <<user, issued, token, access, barred>>

Revoked(t, tokens, sessions) ==
    [token[t] EXCEPT !.revoked = @ \/ t \in tokens, !.open = @ /\ t \notin sessions]

\* ... and with a new version the access tokens.
Replayed(r) ==
    LET u == req[r].owner
    IN  /\ pc[r] = "kill" /\ UserFree(r, u) /\ Room(u)
        /\ token' = [t \in Token |-> Revoked(t, req[r].seen, req[r].open)]
        /\ user' = [user EXCEPT ![u].ver = @ + 1]
        /\ barred' = barred \cup Of(u)
        /\ End(r)
        /\ UNCHANGED <<issued, access>>

-----------------------------------------------------------------------------
(* Changes that revoke every session of a user.                            *)

\* UpdatePassword, ConsumePasswordReset, ConsumeEmailChange, Revoke of all, the
\* commands reset-password and revoke-sessions ("revoke"), AssignRole ("grant",
\* "remove") and SetUserStatus ("ban", which locks the user first).
\* protectLastSuperAdmin first looks whether the user is one.
Begin(r, u, k) ==
    /\ pc[r] = "idle" /\ Room(u)
    /\ k = "ban" => UserFree(r, u) /\ Unreferenced(r, u)
    /\ req' = [req EXCEPT ![r] = [NoWork EXCEPT !.kind = k, !.owner = u]]
    /\ Goto(r, IF k \in {"remove", "ban"} /\ user[u].super THEN "admins" ELSE "bump")
    /\ UNCHANGED <<user, issued, token, access, barred>>

\* The active super administrators, FOR UPDATE of users: a row that had to be
\* waited for is looked at again, but user_roles is not.
ListAdmins(r) ==
    /\ pc[r] = "admins"
    /\ req' = [req EXCEPT ![r].admins = {u \in User : user[u].super /\ user[u].status = "active"}]
    /\ Goto(r, "guard")
    /\ UNCHANGED <<user, issued, token, access, barred>>

Guard(r) ==
    LET left == {u \in req[r].admins : user[u].status = "active"}
    IN  /\ pc[r] = "guard"
        /\ \A u \in req[r].admins : UserFree(r, u) /\ Unreferenced(r, u)
        /\ IF Cardinality(left) <= 1 THEN End(r)
           ELSE Goto(r, "bump") /\ req' = [req EXCEPT ![r].admins = left]
        /\ UNCHANGED <<user, issued, token, access, barred>>

\* The users row is updated, then the tokens that are there now.
Bump(r) ==
    LET u == req[r].owner
    IN  /\ pc[r] = "bump" /\ UserFree(r, u) /\ Room(u)
        /\ req' = [req EXCEPT ![r].seen = {t \in Of(u) : ~token[t].revoked}]
        /\ Goto(r, "sweep")
        /\ UNCHANGED <<user, issued, token, access, barred>>

ChangedRole(u, k) ==   \* mutant: a role that is granted keeps the version
    [user[u] EXCEPT !.ver = IF k = "grant" THEN @ ELSE @ + 1,
                    !.status = IF k = "ban" THEN "banned" ELSE @,
                    !.super = k = "grant" \/ (@ /\ k # "remove")]
Changed(u, k) ==
    [user[u] EXCEPT !.ver = @ + 1,
                    !.status = IF k = "ban" THEN "banned" ELSE @,
                    !.super = k = "grant" \/ (@ /\ k # "remove")]

Sweep(r) ==
    LET u == req[r].owner
    IN  /\ pc[r] = "sweep" /\ SessionsFree(r, u)
        /\ \A t \in req[r].seen : TokenFree(r, t)
        /\ token' = [t \in Token |-> Revoked(t, req[r].seen, Sessions(u))]
        /\ user' = [user EXCEPT ![u] = Changed(u, req[r].kind)]
        /\ barred' = barred \cup Of(u)
        /\ End(r)
        /\ UNCHANGED <<issued, access>>

\* Logout of one device; of a token nobody knows it changes nothing.
Logout(t) ==
    /\ \A r \in Request : ~HasToken(r, t) /\ SessionsFree(r, token[t].owner)
    /\ token' = IF t \in Issued THEN [token EXCEPT ![t] = Revoked(t, {t}, {t})] ELSE token
    /\ UNCHANGED <<user, issued, access, pc, req, barred>>

\* It makes no difference for a token that is stale.
Expire(t) ==
    /\ t \in Issued /\ ~Stale(t)
    /\ token' = [token EXCEPT ![t].expired = TRUE]
    /\ UNCHANGED <<user, issued, access, pc, req, barred>>

Abort(r) ==
    /\ pc[r] \in Open
    /\ End(r)
    /\ UNCHANGED <<user, issued, token, access, barred>>

Serve(r) ==
    \/ \E u \in User : Login(r, u) \/ \E k \in Kinds : Begin(r, u, k)
    \/ Roles(r) \/ StoreRefresh(r) \/ LoginDone(r)
    \/ \E t \in Token : Refresh(r, t)
    \/ ReadUser(r) \/ ValidateRefreshSession(r) \/ Rotate(r) \/ Replace(r) \/ Rotated(r)
    \/ Answer(r) \/ Kill(r) \/ Replayed(r)
    \/ ListAdmins(r) \/ Guard(r) \/ Bump(r) \/ Sweep(r) \/ Abort(r)

Next == (\E r \in Request : Serve(r)) \/ \E t \in Token : Logout(t) \/ Expire(t)

Spec == Init /\ [][Next]_vars

-----------------------------------------------------------------------------
(* Properties.                                                             *)

\* What Refresh and ValidateAccess accept.
Usable(t) ==
    /\ t \in Issued /\ ~Stale(t) /\ token[t].open
    /\ token[t].ver = user[token[t].owner].ver /\ user[token[t].owner].status = "active"
Valid(a) == user[a.owner].status = "active" /\ user[a.owner].ver = a.ver

\* Roles are not looked up when an access token is presented: the version must tell
\* that those it claims are still the roles of the user, though roles are changed
\* between the statements of a login or a refresh (CHANGELOG.md:151).
ClaimsCurrent == \A a \in access : Valid(a) => a.super = user[a.owner].super

\* Once a change of the account or a detected replay is committed, no refresh that
\* begins later succeeds with a token from before it: also not with one that was
\* inserted while the revocation waited and that it never saw.
RevocationHolds ==
    \A r \in Request : req[r].late => pc[r] \notin {"rotating", "rotated", "answer"}

\* Of one login at most one refresh token is usable, however often and concurrently
\* it is presented: of two rotations of a token one is a replay.
OneUsablePerFamily ==
    \A s, t \in Issued : Usable(s) /\ Usable(t) /\ token[s].root = token[t].root => s = t

\* There is an active super administrator (CHANGELOG.md:152).
SomeSuperAdmin == \E u \in User : user[u].super /\ user[u].status = "active"
=============================================================================
