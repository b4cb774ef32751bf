----------------------------- MODULE PortLeases -----------------------------
(***************************************************************************)
(* The host ports of one worker: the lease table (runtime_port_leases),    *)
(* the host_port column of its instances, the containers that listen, and  *)
(* the worker that allocates, confirms, quarantines, renews and recovers   *)
(* ports (worker.go, docker.go).                                           *)
(*                                                                         *)
(* A lease row is unique per instance and per port while it is live, so    *)
(* lease maps an instance to its live lease.  Moments are booleans: the    *)
(* heartbeat_at of a row is younger than three minutes (fresh), a          *)
(* reservation is older than five (overdue), a conflict is younger than    *)
(* five (quarantined).  heartbeat_at is written whenever an active lease   *)
(* is renewed, for two minutes, so a row that is not fresh has an active   *)
(* lease that ran out.  Delivery and attempts of jobs are RuntimeJobs:     *)
(* here a job is queued, locked by a worker, or lost with its message      *)
(* while the operation stays open.                                         *)
(***************************************************************************)
EXTENDS Integers, FiniteSets

CONSTANTS Instance, Port, Nobody,
          Requests,     \* bound: what is requested of an instance once started
          MaxFaults     \* bound: failing calls, lost containers, crashes

ASSUME PortsAssumption ==
    /\ Port \subseteq Nat \ {0} /\ Nobody \notin Instance
    /\ Requests \in [Instance -> SUBSET {"restarting", "resetting", "stopping"}]
    /\ MaxFaults \in Nat

NoPort == 0
NoLease == [port |-> NoPort, st |-> "none"]
NoContainer == [port |-> NoPort, up |-> FALSE]

VARIABLES
    \* challenge_instances: status, host_port and, of a row that has not ended,
    \* whether runtime_id names the container there is and heartbeat_at is young
    status, hostPort, known, fresh,
    \* runtime_port_leases: the live lease of an instance; ports in conflict
    lease, quarantined,
    \* instance_runtime_jobs: the job of the current operation
    job,
    \* Docker: the container of an instance and the port it is bound to
    container,
    \* the worker: control point, why it reconciles, the call it handles
    pc, pass, cur,
    faults

rowVars == <<status, hostPort, known, fresh>>
leaseVars == <<lease, quarantined>>
procVars == <<pc, pass, cur>>
vars == <<rowVars, leaseVars, job, container, procVars, faults>>

OpStatus == {"starting", "restarting", "resetting", "stopping"}
RowStatus == {"ended", "running"} \cup OpStatus
Kind == {"start", "restart", "reset", "stop"}
Passing == {"reconcile", "maintain", "sweep"}
\* the worker has a message in hand
Handling == {"alloc", "again", "docker", "quarantine", "commit", "retry", "giveup"}

NoCall == [inst |-> Nobody, kind |-> "start", port |-> NoPort, lost |-> FALSE]
Call == [inst : Instance \cup {Nobody}, kind : Kind, port : Port \cup {NoPort},
         lost : BOOLEAN]   \* another operation has taken the row over
Lease == [port : Port, st : {"reserved", "overdue", "active"}]
Container == [port : Port \cup {NoPort}, up : BOOLEAN]

RowTypeOK ==
    /\ status \in [Instance -> RowStatus]
    /\ hostPort \in [Instance -> Port \cup {NoPort}]
    /\ known \in [Instance -> BOOLEAN] /\ fresh \in [Instance -> BOOLEAN]
    /\ job \in [Instance -> {"none", "queued", "locked", "lost"}]
LeaseTypeOK ==
    /\ lease \in [Instance -> Lease \cup {NoLease}]
    /\ quarantined \subseteq Port
    /\ container \in [Instance -> Container]
WorkerTypeOK ==
    /\ pc \in {"down", "beat", "idle"} \cup Passing \cup Handling
    /\ pass \in {"boot", "tick", "recovery"}
    /\ cur \in Call
    /\ pc \in Handling => cur.inst # Nobody
    /\ faults \in 0..MaxFaults

TypeOK == RowTypeOK /\ LeaseTypeOK /\ WorkerTypeOK

\* The worker starts on a database in which some instances run, on ports of their
\* own; the containers of those that are not in up are gone.
InitWith(at, up) ==
    /\ status = [i \in Instance |-> IF at[i] = NoPort THEN "ended" ELSE "running"]
    /\ hostPort = at
    /\ known = [i \in Instance |-> i \in up] /\ fresh = [i \in Instance |-> TRUE]
    /\ lease = [i \in Instance |-> IF at[i] = NoPort THEN NoLease
                                   ELSE [port |-> at[i], st |-> "active"]]
    /\ container = [i \in Instance |-> IF i \in up THEN [port |-> at[i], up |-> TRUE]
                                       ELSE NoContainer]
    /\ quarantined = {}
    /\ job = [i \in Instance |-> "none"]
    /\ pc = "down" /\ pass = "boot" /\ cur = NoCall
    /\ faults = 0

Init ==
    \E at \in [Instance -> Port \cup {NoPort}], up \in SUBSET Instance :
        /\ \A i, j \in Instance : at[i] = at[j] => i = j \/ at[i] = NoPort
        /\ \A i \in up : at[i] # NoPort
        /\ InitWith(at, up)

-----------------------------------------------------------------------------
(* Helpers.                                                                *)

Fault == faults < MaxFaults /\ faults' = faults + 1

Leased(p) == \E i \in Instance : lease[i].port = p
Listens(i, p) == container[i].up /\ container[i].port = p

\* The query of allocatePortOnce, lowest port first.
FreeUnreserved == {p \in Port : \A i \in Instance : lease[i].port = p => lease[i].st = "reserved"} \* mutant
FreePorts == {p \in Port : ~Leased(p) /\ p \notin quarantined}
Lowest(ports) == CHOOSE p \in ports : \A q \in ports : p <= q

\* The process runs and its heartbeat goroutine has been started.
Beating == pc # "down" /\ ~(pass = "boot" /\ pc \in Passing \cup {"beat"})

\* The rows that a heartbeat renews.
Renewed(i) ==
    \/ status[i] = "running" /\ known[i]
    \/ status[i] \in OpStatus /\ job[i] = "locked"

KindOf(s) == CASE s = "starting" -> "start" [] s = "restarting" -> "restart"
               [] s = "resetting" -> "reset" [] s = "stopping" -> "stop"

\* Rows end; what they knew of containers and heartbeats matters no more.
End(ended) ==
    /\ status' = [i \in Instance |-> IF i \in ended THEN "ended" ELSE status[i]]
    /\ known' = [i \in Instance |-> known[i] /\ i \notin ended]
    /\ fresh' = [i \in Instance |-> fresh[i] \/ i \in ended]

-----------------------------------------------------------------------------
(* Users and administrators; ExpireDue requests a stop.                    *)

NewJob(i) == job' = [job EXCEPT ![i] = "queued"]

\* The worker that handles an earlier operation of i will find it lost the row.
TakeOver(i) == cur' = [cur EXCEPT !.lost = @ \/ cur.inst = i]

\* Start inserts a row; a row that ended and left nothing behind is used again.
Start(i) ==
    /\ status[i] = "ended" /\ lease[i] = NoLease /\ hostPort[i] = NoPort
    /\ container[i] = NoContainer /\ cur.inst # i
    /\ status' = [status EXCEPT ![i] = "starting"]
    /\ known' = [known EXCEPT ![i] = FALSE]
    /\ fresh' = [fresh EXCEPT ![i] = TRUE]
    /\ NewJob(i)
    /\ UNCHANGED <<hostPort, leaseVars, container, procVars, faults>>

\* Restart, Reset and Stop (of the owner, an administrator or the expiry).
Request(i, s) ==
    /\ s \in Requests[i]
    /\ \/ status[i] = "running"
       \/ status[i] \in OpStatus \ {"stopping"} /\ s = "stopping"
    /\ status' = [status EXCEPT ![i] = s]
    /\ NewJob(i) /\ TakeOver(i)
    /\ UNCHANGED <<hostPort, known, fresh, leaseVars, container, pc, pass, faults>>

-----------------------------------------------------------------------------
(* One message: handle.                                                    *)

PickAllocating(i) ==   \* mutant: host_port is not looked at
    LET k == KindOf(status[i])
    IN  /\ pc = "idle" /\ job[i] = "queued"
        /\ job' = [job EXCEPT ![i] = "locked"]
        /\ fresh' = [fresh EXCEPT ![i] = TRUE]
        /\ cur' = [inst |-> i, kind |-> k, port |-> hostPort[i], lost |-> FALSE]
        /\ pc' = IF k \in {"start", "reset"} THEN "alloc" ELSE "docker"
        /\ UNCHANGED <<status, hostPort, known, leaseVars, container, pass, faults>>

\* Lock the job, read the row and claim it, which renews heartbeat_at.
Pick(i) ==
    LET k == KindOf(status[i])
    IN  /\ pc = "idle" /\ job[i] = "queued"
        /\ job' = [job EXCEPT ![i] = "locked"]
        /\ fresh' = [fresh EXCEPT ![i] = TRUE]
        /\ cur' = [inst |-> i, kind |-> k, port |-> hostPort[i], lost |-> FALSE]
        /\ pc' = IF k \in {"start", "reset"} /\ hostPort[i] = NoPort THEN "alloc" ELSE "docker"
        /\ UNCHANGED <<status, hostPort, known, leaseVars, container, pass, faults>>

\* process: a failure is recorded for a retry or, after the last attempt or when
\* it is not retryable, for good.
FailsInto(retryable) == \/ retryable /\ pc' = "retry"
                        \/ pc' = "giveup"

\* allocatePortOnce: the lease and, when the operation still owns the row, its
\* host_port.  A second live lease of the instance violates a unique index.
AllocateFrom(ports) ==
    LET i == cur.inst
    IN  /\ pc \in {"alloc", "again"} /\ ports # {} /\ lease[i] = NoLease
        /\ lease' = [lease EXCEPT ![i] =
                        [port |-> Lowest(ports), st |-> "reserved"]]
        /\ hostPort' = IF cur.lost THEN hostPort ELSE [hostPort EXCEPT ![i] = Lowest(ports)]
        /\ cur' = [cur EXCEPT !.port = Lowest(ports)]
        /\ pc' = "docker"
        /\ UNCHANGED <<status, known, fresh, quarantined, job, container, pass, faults>>

Allocate == AllocateFrom(FreePorts)

AllocateFails ==
    /\ pc \in {"alloc", "again"}
    /\ \/ FreePorts # {} /\ lease[cur.inst] # NoLease /\ UNCHANGED faults
       \/ Fault
    /\ FailsInto(TRUE)
    /\ UNCHANGED <<rowVars, leaseVars, job, container, pass, cur>>

\* allocatePort: the pool looks exhausted, so recover once ...
Recover ==
    /\ pc = "alloc" /\ FreePorts = {}
    /\ pc' = "reconcile" /\ pass' = "recovery"
    /\ UNCHANGED <<rowVars, leaseVars, job, container, cur, faults>>

\* ... and then it is: PORT_EXHAUSTED.
Exhausted ==
    /\ pc = "again" /\ FreePorts = {}
    /\ FailsInto(TRUE)
    /\ UNCHANGED <<rowVars, leaseVars, job, container, pass, cur, faults>>

\* DockerProvider.Start finds a container of the instance that listens on the
\* port; Reset has removed the one that runtime_id names before.
Reusable ==
    Listens(cur.inst, cur.port) /\ (cur.kind = "start" \/ ~known[cur.inst])

Taken == \E j \in Instance \ {cur.inst} : Listens(j, cur.port)

\* Otherwise the container is removed and another created, which runtime_id does
\* not name before the commit.
Replace(c) ==
    /\ container' = [container EXCEPT ![cur.inst] = c]
    /\ known' = [known EXCEPT ![cur.inst] = FALSE]

DockerOnly == <<status, hostPort, fresh, leaseVars, job, pass, cur>>

StartContainer ==
    /\ pc = "docker" /\ cur.kind \in {"start", "reset"}
    /\ \/ Reusable /\ UNCHANGED <<container, known>>
       \/ ~Reusable /\ ~Taken /\ Replace([port |-> cur.port, up |-> TRUE])
    /\ pc' = "commit"
    /\ UNCHANGED <<DockerOnly, faults>>

\* Another container, or another program of the host, listens on the port: Docker
\* says so when the container is created or only when it is started.
PortConflict ==
    /\ pc = "docker" /\ cur.kind \in {"start", "reset"} /\ ~Reusable
    /\ \/ Taken /\ UNCHANGED faults
       \/ Fault
    /\ Replace(NoContainer)
    /\ pc' = "quarantine" \/ FailsInto(TRUE)
    /\ UNCHANGED DockerOnly

RestartContainer ==
    LET i == cur.inst
    IN  /\ pc = "docker" /\ cur.kind = "restart"
        /\ known[i] /\ container[i] # NoContainer
        /\ \A j \in Instance \ {i} : ~Listens(j, container[i].port)
        /\ container' = [container EXCEPT ![i].up = TRUE]
        /\ pc' = "commit"
        /\ UNCHANGED <<known, DockerOnly, faults>>

StopContainer ==
    LET i == cur.inst
    IN  /\ pc = "docker" /\ cur.kind = "stop"
        /\ container' = [container EXCEPT ![i] = IF known[i] THEN NoContainer ELSE @]
        /\ pc' = "commit"
        /\ UNCHANGED <<known, DockerOnly, faults>>

\* A Docker call fails: a restart for certain when there is nothing to restart or
\* the port is taken.  What the calls before it did to the container remains.
DockerFails ==
    LET i == cur.inst
        doomed == /\ cur.kind = "restart"
                  /\ \/ ~known[i] \/ container[i] = NoContainer
                     \/ \E j \in Instance \ {i} : Listens(j, container[i].port)
    IN  /\ pc = "docker"
        /\ IF doomed THEN UNCHANGED faults ELSE Fault
        /\ \/ UNCHANGED <<container, known>>
           \/ cur.kind # "restart" /\ (cur.kind = "stop" => known[i]) /\ Replace(NoContainer)
           \/ container' = [container EXCEPT ![i].up = FALSE] /\ UNCHANGED known
        /\ \E retryable \in BOOLEAN :
             (cur.kind = "restart" => ~retryable) /\ FailsInto(retryable)
        /\ UNCHANGED DockerOnly

\* quarantinePort, a transaction that fails when the operation lost the row.
Quarantine ==
    LET i == cur.inst
    IN  /\ pc = "quarantine" /\ ~cur.lost
        /\ IF lease[i].port = cur.port
           THEN /\ quarantined' = quarantined \cup {cur.port}
                /\ lease' = [lease EXCEPT ![i] = NoLease]
           ELSE UNCHANGED leaseVars
        /\ hostPort' = [hostPort EXCEPT ![i] = NoPort]
        /\ FailsInto(TRUE)
        /\ UNCHANGED <<status, known, fresh, job, container, pass, cur, faults>>

QuarantineFails ==
    /\ pc = "quarantine"
    /\ \/ cur.lost /\ UNCHANGED faults
       \/ Fault
    /\ FailsInto(TRUE)
    /\ UNCHANGED <<rowVars, leaseVars, job, container, pass, cur>>

Idle == pc' = "idle" /\ cur' = NoCall /\ pass' = "tick"

\* The transaction at the end of handle, guarded by operation_id.
Commit ==
    LET i == cur.inst
    IN  /\ pc = "commit" /\ ~cur.lost
        /\ IF cur.kind = "stop"
           THEN /\ End({i})
                /\ hostPort' = [hostPort EXCEPT ![i] = NoPort]
                /\ lease' = [lease EXCEPT ![i] = NoLease]
           ELSE /\ status' = [status EXCEPT ![i] = "running"]
                /\ known' = [known EXCEPT ![i] = TRUE]
                /\ fresh' = [fresh EXCEPT ![i] = TRUE]
                /\ lease' = IF cur.kind \in {"start", "reset"} /\ lease[i] # NoLease
                            THEN [lease EXCEPT ![i].st = "active"]
                            ELSE lease
                /\ UNCHANGED hostPort
        /\ job' = [job EXCEPT ![i] = "none"]
        /\ Idle
        /\ UNCHANGED <<quarantined, container, faults>>

\* The row is lost or the transaction fails: a plain error, so that the message
\* goes to the dead letters and nothing is recorded.
CommitFails ==
    /\ pc = "commit"
    /\ \/ cur.lost /\ UNCHANGED <<job, faults>>
       \/ ~cur.lost /\ Fault /\ job' = [job EXCEPT ![cur.inst] = "lost"]
    /\ Idle
    /\ UNCHANGED <<rowVars, leaseVars, container>>

\* recordRetry and Retry; the error of a lost operation is not written to the row.
Retry ==
    LET i == cur.inst
    IN  /\ pc = "retry"
        /\ IF cur.lost THEN UNCHANGED <<fresh, job>>
           ELSE /\ fresh' = [fresh EXCEPT ![i] = TRUE]
                /\ job' = [job EXCEPT ![i] = "queued"]
        /\ Idle
        /\ UNCHANGED <<status, hostPort, known, leaseVars, container, faults>>

\* recordFailure: the row of the operation, but the leases of the instance.
GiveUp ==
    LET i == cur.inst
    IN  /\ pc = "giveup"
        /\ lease' = [lease EXCEPT ![i] = NoLease]
        /\ IF cur.lost THEN UNCHANGED <<rowVars, job>>
           ELSE /\ End({i})
                /\ hostPort' = [hostPort EXCEPT ![i] = NoPort]
                /\ job' = [job EXCEPT ![i] = "none"]
        /\ Idle
        /\ UNCHANGED <<quarantined, container, faults>>

\* A failure that cannot be recorded leaves the message pending.
RecordFails ==
    /\ pc \in {"retry", "giveup"} /\ Fault
    /\ Idle
    /\ UNCHANGED <<rowVars, leaseVars, job, container>>

-----------------------------------------------------------------------------
(* The passes: at boot, in every tick, and to recover from exhaustion.     *)

Boot ==
    /\ pc = "down"
    /\ pc' = "reconcile"
    /\ UNCHANGED <<rowVars, leaseVars, job, container, pass, cur, faults>>

Tick ==
    /\ pc = "idle"
    /\ pc' = "reconcile"
    /\ UNCHANGED <<rowVars, leaseVars, job, container, pass, cur, faults>>

BrokenOn == pc' = "maintain"   \* mutant: leases are maintained all the same
\* A pass that ends early: a recovery fails the allocation.
Broken == IF pass = "recovery" THEN FailsInto(TRUE) ELSE pc' = "sweep"

Gone(i) == ~container[i].up \/ ~known[i]

\* Reconcile: rows whose container is gone are interrupted, the others are fresh.
\* An inspection that fails ends the pass after the rows before it (seen).
Reconcile ==
    LET rows == {i \in Instance : status[i] = "running"}
    IN  /\ pc = "reconcile"
        /\ \E seen \in SUBSET rows :
             /\ status' = [i \in Instance |-> IF i \in seen /\ Gone(i) THEN "ended" ELSE status[i]]
             /\ known' = [i \in Instance |-> known[i] /\ ~(i \in seen /\ Gone(i))]
             /\ fresh' = [i \in Instance |-> fresh[i] \/ i \in seen]
             /\ \/ seen = rows /\ pc' = "maintain" /\ UNCHANGED faults
                \/ Fault /\ Broken
        /\ UNCHANGED <<hostPort, leaseVars, job, container, pass, cur>>

\* MaintainLeases: reservations that ran out, leases of instances that ended, and
\* active leases that ran out with the heartbeat of their instance; then the ports
\* of rows that ended or went stale and have no lease left.
ExpiredUnlessEnded(i) ==   \* mutant
    \/ lease[i].st = "overdue"
    \/ lease[i].st = "active" /\ ~fresh[i]
ExpiredUnlessActive(i) ==   \* mutant
    lease[i].st = "overdue" \/ status[i] = "ended"
Expired(i) ==
    \/ lease[i].st = "overdue"
    \/ status[i] = "ended"
    \/ lease[i].st = "active" /\ ~fresh[i]

MaintainLeases ==
    /\ pc = "maintain"
    /\ lease' = [i \in Instance |-> IF Expired(i) THEN NoLease ELSE lease[i]]
    /\ hostPort' = [i \in Instance |->
           IF (status[i] = "ended" \/ ~fresh[i]) /\ lease'[i] = NoLease THEN NoPort ELSE hostPort[i]]
    /\ pc' = "sweep"
    /\ UNCHANGED <<status, known, fresh, quarantined, job, container, pass, cur, faults>>

MaintainFails ==
    /\ pc = "maintain" /\ Fault
    /\ Broken
    /\ UNCHANGED <<rowVars, leaseVars, job, container, pass, cur>>

\* CleanupOrphans; a removal that fails ends it (kept) and changes nothing else.
CleanupOrphans ==
    LET orphans == {i \in Instance : status[i] = "ended" /\ container[i] # NoContainer}
    IN  /\ pc = "sweep"
        /\ \E kept \in SUBSET orphans :
             /\ container' = [i \in Instance |->
                    IF i \in orphans \ kept THEN NoContainer ELSE container[i]]
             /\ \/ kept = {} /\ UNCHANGED faults
                \/ kept # {} /\ Fault
        /\ pc' = CASE pass = "boot" -> "beat" [] pass = "tick" -> "idle"
                   [] pass = "recovery" -> "again"
        /\ UNCHANGED <<rowVars, leaseVars, job, pass, cur>>

\* A heartbeat; it renews the active leases of these rows as well.
Beat == fresh' = [i \in Instance |-> fresh[i] \/ Renewed(i)]

\* The first one registers the worker, the others come from a goroutine.
FirstHeartbeat ==
    /\ pc = "beat" /\ Beat
    /\ Idle
    /\ UNCHANGED <<status, hostPort, known, leaseVars, job, container, faults>>

Heartbeat ==
    /\ Beating /\ Beat
    /\ UNCHANGED <<status, hostPort, known, leaseVars, job, container, procVars, faults>>

-----------------------------------------------------------------------------
(* Crashes, Docker and time.                                               *)

\* The job that was in hand stays locked and its message pending.
Crash ==
    /\ pc # "down" /\ Fault
    /\ pc' = "down" /\ cur' = NoCall /\ pass' = "boot"
    /\ UNCHANGED <<rowVars, leaseVars, job, container>>

\* A container dies, or is removed with the host's Docker state.
ContainerLost(i) ==
    /\ container[i].up /\ Fault
    /\ \/ /\ container' = [container EXCEPT ![i] = NoContainer]
          /\ known' = [known EXCEPT ![i] = FALSE]
       \/ container' = [container EXCEPT ![i].up = FALSE] /\ UNCHANGED known
    /\ UNCHANGED <<status, hostPort, fresh, leaseVars, job, procVars>>

\* The message of a crashed worker is delivered again, and its lock is too old.
LockRunsOut(i) ==
    /\ job[i] = "locked" /\ cur.inst # i
    /\ job' = [job EXCEPT ![i] = "queued"]
    /\ UNCHANGED <<rowVars, leaseVars, container, procVars, faults>>

\* No heartbeat for three minutes: nobody sends one that renews the row.
Unrenewed(i) == ~(Beating /\ Renewed(i))

BeatRunsOut(i) ==
    /\ fresh[i] /\ status[i] # "ended" /\ Unrenewed(i)
    /\ pc # "maintain"     \* which follows the reconciliation at once
    /\ fresh' = [fresh EXCEPT ![i] = FALSE]
    /\ UNCHANGED <<status, hostPort, known, leaseVars, job, container, procVars, faults>>

\* A reservation lasts five minutes, whoever works on it.
ReservationRunsOut(i) ==
    /\ lease[i].st = "reserved"
    /\ lease' = [lease EXCEPT ![i].st = "overdue"]
    /\ UNCHANGED <<rowVars, quarantined, job, container, procVars, faults>>

QuarantineEnds(p) ==
    /\ p \in quarantined
    /\ quarantined' = quarantined \ {p}
    /\ UNCHANGED <<rowVars, lease, job, container, procVars, faults>>

-----------------------------------------------------------------------------
Users == \E i \in Instance : Start(i) \/ \E s \in OpStatus : Request(i, s)

Handle ==
    \/ Allocate \/ AllocateFails \/ Recover \/ Exhausted
    \/ StartContainer \/ PortConflict \/ RestartContainer \/ StopContainer \/ DockerFails
    \/ Quarantine \/ QuarantineFails \/ Commit \/ CommitFails
    \/ Retry \/ GiveUp \/ RecordFails

Pass ==
    \/ Reconcile \/ MaintainLeases \/ MaintainFails \/ CleanupOrphans \/ FirstHeartbeat

Time ==
    \/ \E i \in Instance : LockRunsOut(i) \/ BeatRunsOut(i) \/ ReservationRunsOut(i)
    \/ \E p \in Port : QuarantineEnds(p)

Next ==
    \/ Users \/ Handle \/ Pass \/ Boot \/ Tick \/ Heartbeat \/ Crash \/ Time
    \/ \E i \in Instance : Pick(i) \/ ContainerLost(i)

\* The worker is restarted, finishes what it is at, and its select prefers a tick
\* that is due to another message; no message is sure to be delivered, and no
\* heartbeat to come.
Fairness ==
    /\ WF_vars(Boot) /\ WF_vars(Handle) /\ WF_vars(Pass) /\ SF_vars(Tick)
    /\ \A i \in Instance : SF_vars(BeatRunsOut(i)) /\ WF_vars(ReservationRunsOut(i))

Spec == Init /\ [][Next]_vars
FairSpec == Spec /\ Fairness

-----------------------------------------------------------------------------
(* Properties.                                                             *)

\* The lease table implements PortOwner: a port has one live lease at a time and
\* is given only to an instance that is active and has none, whatever heartbeats,
\* expiries, failed operations and take-overs do; and the port of an instance that
\* ended comes back, since every pass that can inspect Docker releases it.
owner  == [p \in Port |-> IF Leased(p) THEN CHOOSE i \in Instance : lease[i].port = p ELSE Nobody]
active == {i \in Instance : status[i] # "ended"}
PO == INSTANCE PortOwner
Ownership == PO!Spec

\* The port the users of an instance are shown is the port of its live lease: the
\* row and the lease are changed by different statements, some guarded by the
\* operation and some not.
LeaseMatchesRow ==
    \A i \in Instance : lease[i] # NoLease /\ hostPort[i] # NoPort => hostPort[i] = lease[i].port

\* PORT_EXHAUSTED is reported only when every port is in quarantine or leased for an
\* instance that has not ended, also after containers vanished behind the worker's
\* back (CHANGELOG.md:58).
NoFalseExhaustion ==
    pc = "again" /\ FreePorts = {} =>
        \A p \in Port : p \in quarantined \/ \E i \in Instance :
            lease[i].port = p /\ status[i] # "ended"

\* Maintenance never takes the port of a running instance whose container is up,
\* however long the worker was down and its heartbeats with it (worker.go:91).
VerifiedKept ==
    [][pc = "maintain" =>
          \A i \in Instance : status[i] = "running" /\ ~Gone(i) =>
              lease'[i].port = lease[i].port /\ hostPort'[i] = hostPort[i]]_vars

\* The port of an operation that was lost with its message (the row stays in its
\* status for good) is not lost: its lease runs out with the heartbeat.
LostOperationFrees == \A i \in Instance : job[i] = "lost" ~> (job[i] # "lost" \/ lease[i] = NoLease)
=============================================================================
