----------------------------- MODULE MCAccounts -----------------------------
(* Sessions, EmailFlows and Admission for TLC: what the API does for a user.  *)
(* They share no variable, so what one of them promises depends on its own    *)
(* steps only: in a behaviour, focus says which of them moves.  Refresh       *)
(* tokens expire where no account changes.  Verifications and changes of the  *)
(* address are followed with one dispatcher that never fails, those of one    *)
(* user or the changes of two; two that fail send the mail of a registration  *)
(* and of a reset.                                                            *)
EXTENDS Sessions, EmailFlows, Admission, TLC

CONSTANTS u1, u2,
          Focus     \* bound: what may move

VARIABLE focus

MCActsFor == [u \in Member |-> Owner]
MCQuota == [o \in Owner |-> 1]

ASSUME FlowsHold == FlowsAssumption
ASSUME AdmissionHolds == AdmissionAssumption

MCNone == {{}}
MCBoth == {{u1, u2}}

MCInit ==
    /\ Init /\ FlowsInit /\ AdmissionInit /\ focus \in Focus

NoneExpires == \A t \in Issued : token'[t].expired = token[t].expired
NothingChanges == \A r \in Request : req'[r].kind \notin Kinds

OneDispatcher ==
    /\ \A d \in Dispatcher : hand'[d].st # "error"
    /\ \A d, e \in Dispatcher : hand'[d].st # "idle" /\ hand'[e].st # "idle" => d = e
    /\ \A l \in 1..links : mail'[l].due => mail[l].due
One == CHOOSE p \in Person : TRUE
OnePerson ==   \* with two addresses and three links
    /\ \A p \in Person \ {One} : account'[p].email = NoAddress
    /\ links' < MaxLinks
    /\ Cardinality({link'[l].target : l \in 1..links'} \cup
                   {call'[c].target : c \in {b \in Call : at'[b] \in {"store", "stored"}}}) <= 2
TwoChange ==   \* their addresses, each in one call; one registers before the other; a mail is sent as soon
              \* as it is due, no call fails and no link expires
    /\ account' # account => account'[One].email # NoAddress
    /\ \A b, c \in Call : at'[b] # "idle" /\ at'[c] # "idle" /\ call'[b].owner = call'[c].owner => b = c
    /\ \A c \in Call : at[c] # "idle" /\ at'[c] = "idle" => at[c] # "store"
    /\ \A c \in Call : at[c] = "stored" /\ at'[c] = "idle" => links' > links
    /\ links' = links => \A l \in 1..links : link'[l].used => link[l].used \/ acted'[l] > 0
    /\ \A c \in Call : at'[c] # "idle" => call'[c].purpose = "change"
    /\ Due # {} \/ (\E d \in Dispatcher : hand[d].mail # NoMail) => UNCHANGED apiVars
    /\ \A d \in Dispatcher : hand[d].mail # NoMail => mail'[hand[d].mail].st # "sending" \/ hand'[d] # hand[d]
    /\ \A d \in Dispatcher : hand[d].st = "send" => hand'[d].st = "ok"
OneReset ==   \* and no link expires
    /\ \A l \in 1..links : link'[l].used = link[l].used
    /\ \A b, c \in Call : at'[b] # "idle" /\ at'[c] # "idle" => b = c
    /\ \A c \in Call : at'[c] # "idle" => call'[c].purpose = "reset" /\ call'[c].link = 0
    /\ links' < MaxLinks - 1

\* Of two challenges one may be archived and the window of the other may end; requests
\* for one challenge are those of one user and of two administrators, the user included.
Lone == CHOOSE c \in Challenge : TRUE
QuotaOnly ==
    /\ \A r \in Caller : want'[r].op \in {"start", "stop"} /\ want'[r].inst = 0
    /\ ended' \subseteq {Lone} /\ Lone \in playable'
RetriesOnly ==
    /\ \A r \in Caller : want'[r].chal = Lone
    /\ \A r \in Caller : want'[r].inst = 0 => want'[r].actor = CHOOSE u \in Member : TRUE

MCNext ==
    /\ \/ /\ focus \in {"sessions", "logins"} /\ Next /\ UNCHANGED <<flowVars, admissionVars>>
          /\ IF focus = "sessions" THEN NoneExpires ELSE NothingChanges
       \/ /\ focus \in {"quota", "retries"} /\ AdmissionNext /\ UNCHANGED <<vars, flowVars>>
          /\ IF focus = "quota" THEN QuotaOnly ELSE RetriesOnly
       \/ /\ focus \in {"links", "taken", "outbox"} /\ FlowsNext /\ UNCHANGED <<vars, admissionVars>>
          /\ focus = "links" => OneDispatcher /\ OnePerson /\ \A c \in Call : call'[c].purpose # "reset"
          /\ focus = "taken" => OneDispatcher /\ TwoChange
          /\ focus = "outbox" => OnePerson /\ OneReset
    /\ UNCHANGED focus

MCSpec == MCInit /\ [][MCNext]_<<vars, flowVars, admissionVars, focus>>

\* Requests, callers and dispatchers, two of each, never move in the same behaviour, so
\* that they are exchanged together.
Other(S, x) == CHOOSE y \in S : y # x
MCSwap == [x \in Request \cup Caller \cup Dispatcher |->
             Other(CHOOSE S \in {Request, Caller, Dispatcher} : x \in S, x)]
MCSymmetry == {MCSwap} \cup Permutations(Call) \cup Permutations(Address)

TypesOK == TypeOK /\ FlowsTypeOK /\ AdmissionTypeOK
=============================================================================
