---------------------------- MODULE InstanceLife ----------------------------
(***************************************************************************)
(* A challenge instance as its user sees it, with nothing of jobs, messages*)
(* workers or containers.  An instance waits for one operation at most, the*)
(* last that was asked for.  That operation takes effect in the step that  *)
(* gives it its outcome: it succeeds, and the instance runs or has ended,  *)
(* or it fails, and the instance has ended.  Or it is lost: it has failed, *)
(* and the instance goes on waiting for it, until something else is asked  *)
(* for.  An operation that was overtaken never takes effect; its outcome,  *)
(* if it ever gets one, is that it failed, was lost or was cancelled.      *)
(* Nothing overtakes a stop.                                               *)
(***************************************************************************)
CONSTANTS Instance, Operation, None

VARIABLES phase,    \* of each instance
          waits,    \* the operation each instance waits for
          outcome   \* of each operation

vars == <<phase, waits, outcome>>

TypeOK ==
    /\ phase \in [Instance -> {"absent", "starting", "running", "changing", "stopping", "ended"}]
    /\ waits \in [Instance -> Operation \cup {None}]
    /\ outcome \in [Operation -> {"none", "open", "done", "failed", "lost", "cancelled"}]

Init ==
    /\ phase = [i \in Instance |-> "absent"]
    /\ waits = [i \in Instance |-> None]
    /\ outcome = [o \in Operation |-> "none"]

\* In which phases an operation may be asked for, by the one it leads to.
Before(to) ==
    CASE to = "starting" -> {"absent"}
      [] to = "changing" -> {"running"}
      [] to = "stopping" -> {"starting", "running", "changing"}

Ask(i, o, to) ==
    /\ outcome[o] = "none" /\ phase[i] \in Before(to)
    /\ phase' = [phase EXCEPT ![i] = to]
    /\ waits' = [waits EXCEPT ![i] = o]
    /\ outcome' = [outcome EXCEPT ![o] = "open"]

\* The operation that i waits for comes to its end.
Settle(i, to, result) ==
    /\ waits[i] # None /\ outcome[waits[i]] = "open"
    /\ phase' = [phase EXCEPT ![i] = to]
    /\ waits' = [waits EXCEPT ![i] = None]
    /\ outcome' = [outcome EXCEPT ![waits[i]] = result]

Succeed(i) == Settle(i, IF phase[i] = "stopping" THEN "ended" ELSE "running", "done")
Fail(i)    == Settle(i, "ended", "failed")

\* It fails without a word to i.
Lose(i) ==
    /\ waits[i] # None /\ outcome[waits[i]] = "open"
    /\ outcome' = [outcome EXCEPT ![waits[i]] = "lost"]
    /\ UNCHANGED <<phase, waits>>

\* An operation that nothing waits for any more is closed.
Drop(o, result) ==
    /\ outcome[o] = "open" /\ \A i \in Instance : waits[i] # o
    /\ outcome' = [outcome EXCEPT ![o] = result]
    /\ UNCHANGED <<phase, waits>>

\* Instances that run are found dead.
Interrupt(dead) ==
    /\ \A i \in dead : phase[i] = "running"
    /\ phase' = [i \in Instance |-> IF i \in dead THEN "ended" ELSE phase[i]]
    /\ UNCHANGED <<waits, outcome>>

Next ==
    \/ \E i \in Instance :
         \/ Succeed(i) \/ Fail(i) \/ Lose(i)
         \/ \E o \in Operation, to \in {"starting", "changing", "stopping"} : Ask(i, o, to)
    \/ \E o \in Operation, result \in {"failed", "lost", "cancelled"} : Drop(o, result)
    \/ \E dead \in SUBSET Instance : Interrupt(dead)

Safe == Init /\ [][Next]_vars

\* Every operation that is neither overtaken nor lost comes to its end.
Progress == \A i \in Instance : WF_vars(Succeed(i) \/ Fail(i))
=============================================================================
