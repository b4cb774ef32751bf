----------------------------- MODULE PortOwner -----------------------------
(***************************************************************************)
(* What the lease table promises of the host ports of one worker, with     *)
(* nothing of leases, rows, Docker or clocks: a port has one owner, an     *)
(* owner is an active instance that has no other port when it is given     *)
(* one, and a port changes hands by being free in between.                 *)
(***************************************************************************)
CONSTANTS Instance, Port, Nobody

VARIABLES owner,    \* who owns each port
          active    \* the instances that may be given a port

vars == <<owner, active>>

TypeOK == owner \in [Port -> Instance \cup {Nobody}] /\ active \subseteq Instance

Owns(i) == {p \in Port : owner[p] = i}

\* Some active instances have a port already.
Init ==
    /\ owner \in [Port -> active \cup {Nobody}] /\ active \in SUBSET Instance
    /\ \A p, q \in Port : owner[p] = owner[q] => p = q \/ owner[p] = Nobody

\* A new instance owns nothing.
Begin(i) ==
    /\ i \notin active /\ Owns(i) = {}
    /\ active' = active \cup {i}
    /\ UNCHANGED owner

Take(i, p) ==
    /\ i \in active /\ Owns(i) = {} /\ owner[p] = Nobody
    /\ owner' = [owner EXCEPT ![p] = i]
    /\ UNCHANGED active

\* Instances end and ports are freed, together or apart.
Release(gone, free) ==
    /\ active' = active \ gone
    /\ owner' = [p \in Port |-> IF p \in free THEN Nobody ELSE owner[p]]

Next ==
    \/ \E i \in Instance : Begin(i)
    \/ \E i \in Instance, p \in Port : Take(i, p)
    \/ \E gone \in SUBSET Instance, free \in SUBSET Port : Release(gone, free)

\* The port of an instance that has ended is freed.
FreeEnded(p) ==
    /\ owner[p] \notin active
    /\ \E gone \in SUBSET Instance, free \in SUBSET Port : p \in free /\ Release(gone, free)

Safe == Init /\ [][Next]_vars
Spec == Safe /\ \A p \in Port : WF_vars(owner[p] # Nobody /\ FreeEnded(p))
=============================================================================
