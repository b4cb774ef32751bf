---------------------------- MODULE RuntimeJobs ----------------------------
(***************************************************************************)
(* From a request on a challenge instance to the container that answers it.*)
(*                                                                         *)
(* The API (internal/modules/instance/service.go) changes an instance and  *)
(* queues a job for it in one transaction; the outbox of that transaction  *)
(* is published to the job stream; a worker                                *)
(* (apps/worker/internal/worker/worker.go) locks the job, claims the       *)
(* instance, drives Docker and commits the outcome.  A database transaction*)
(* that locks the row it changes is one action; everything a worker does   *)
(* between two of its transactions interleaves with users, with the other  *)
(* workers, with crashes and with containers that die.                     *)
(*                                                                         *)
(* Not here: ports and their leases (PortLeases), the advisory locks,      *)
(* idempotency keys and quota with which the API admits a start            *)
(* (Admission).  All instances belong to one owner.                        *)
(***************************************************************************)
EXTENDS InstanceState, JobStream

CONSTANTS Instance,     \* rows of challenge_instances that may be created
          ChallengeOf,  \* the challenge an instance is of
          Capacity,     \* RUNTIME_WORKER_MAX_INSTANCES
          NoWorker,     \* worker_id = ''
          NoContainer,
          MaxCrashes,   \* bound: worker processes killed
          MaxFaults,    \* bound: Docker and Redis errors, refusals, lost containers
          MaxDbFaults   \* bound: transactions of a worker that fail

\* A container carries the flag of the generation it was created for; its id is
\* the job that created it (a job that replaces its own container never
\* committed the first one, so the two need not be told apart).
Container == [id : Job, gen : Nat, up : BOOLEAN]

ASSUME ConstantsAssumption ==
    /\ Instance # {}
    /\ Job \subseteq Nat \ {0}
    /\ NoWorker \notin Consumer
    /\ NoContainer \notin Container
    /\ Capacity \in Nat
    /\ MaxCrashes \in Nat /\ MaxFaults \in Nat /\ MaxDbFaults \in Nat

Worker == Consumer
NoJob  == 0   \* operation_id IS NULL; also the runtime_id '' of an instance

VARIABLES
    \* challenge_instances; due: expires_at is in the past
    status, opOf, workerOf, sv, rid, gen, due,
    \* instance_runtime_jobs and runtime_operations, which share their id here
    jobInst, jobKind, jobStatus, lock, opStatus,
    \* the message whose delivery led to the lock, until the lock is renewed
    taker,
    \* unpublished rows of outbox_events
    outbox,
    \* the worker processes: control point, the instance row as read, the
    \* container id a Docker call returned, the instances left to expire
    pc, row, result, todo,
    \* the Docker hosts, one per worker
    container,
    \* runtime_usage_counters.active_instances of the owner
    usage,
    \* bounds
    crashes, faults, dbFaults

instVars  == <<status, opOf, workerOf, sv, rid, gen, due>>
jobVars   == <<jobInst, jobKind, jobStatus, lock, opStatus, taker>>
procVars  == <<pc, row, result, todo>>
boundVars == <<crashes, faults, dbFaults>>
vars == <<instVars, jobVars, outbox, streamVars, procVars, container, usage, boundVars>>

Absent == "absent"   \* the row does not exist yet

\* Control points of Run, process and handle.
PC == {"down", "boot", "bootsweep", "idle", "expire", "sweep",
       "reclaim", "check", "begin", "read", "claim", "exec", "create", "launch",
       "recover", "commit", "recordRetry", "recordFailure", "requeue", "retry",
       "ack"}

\* A Docker call is being made, or its outcome is about to be committed.
Executing == {"exec", "create", "launch", "recover", "commit"}

\* handle holds the job: keepJobLockAlive renews locked_at, or the outcome of
\* the failed call is about to be recorded.
Holding == Executing \cup {"read", "claim", "recordRetry", "recordFailure"}

\* process works on a message.
Processing ==
    Holding \cup {"check", "begin", "requeue", "retry", "ack"}

\* missing: the status is failed and the error code INSTANCE_MISSING.
JobStatus == {"none", "queued", "running", "completed", "failed"}
OpFinal   == {"completed", "failed", "missing", "cancelled"}
OpStatus  == {"none", "pending", "running", "retrying"} \cup OpFinal
Lock      == {"none", "fresh", "stale"}   \* stale: locked_at is 90 s old

Row   == [status : Status \cup {Absent}, sv : Nat, rid : Job \cup {NoJob}, gen : Nat]
NoRow == [status |-> Absent, sv |-> 0, rid |-> NoJob, gen |-> 0]

InstanceTypeOK ==
    /\ status \in [Instance -> Status \cup {Absent}]
    /\ opOf \in [Instance -> Job \cup {NoJob}]
    /\ workerOf \in [Instance -> Worker \cup {NoWorker}]
    /\ sv \in [Instance -> Nat]
    /\ rid \in [Instance -> Job \cup {NoJob}]
    /\ gen \in [Instance -> Nat]
    /\ due \in [Instance -> BOOLEAN]

JobTypeOK ==
    /\ jobInst \in [Job -> Instance]
    /\ jobKind \in [Job -> JobKind]
    /\ jobStatus \in [Job -> JobStatus]
    /\ lock \in [Job -> Lock]
    /\ opStatus \in [Job -> OpStatus]
    /\ taker \in [Job -> Message \cup {NoMessage}]
    /\ outbox \in SUBSET Job

WorkerTypeOK ==
    /\ pc \in [Worker -> PC]
    /\ row \in [Worker -> Row]
    /\ result \in [Worker -> Job \cup {NoJob}]
    /\ todo \in [Worker -> SUBSET Instance]
    /\ \A w \in Worker :
         /\ pc[w] \in Processing => hand[w] # NoMessage
         /\ pc[w] \in {"recordRetry", "retry"} => hand[w].attempts < MaxAttempts

HostTypeOK == container \in [Worker -> [Instance -> Container \cup {NoContainer}]]

CounterTypeOK == usage \in Nat /\ crashes \in Nat /\ faults \in Nat /\ dbFaults \in Nat

TypeOK ==
    /\ StreamTypeOK /\ InstanceTypeOK /\ JobTypeOK /\ WorkerTypeOK
    /\ HostTypeOK /\ CounterTypeOK

\* Nothing was requested yet; the columns of rows that do not exist are idle.
Init ==
    /\ StreamInit
    /\ status = [i \in Instance |-> Absent]
    /\ opOf = [i \in Instance |-> NoJob]
    /\ workerOf = [i \in Instance |-> NoWorker]
    /\ sv = [i \in Instance |-> 0]
    /\ rid = [i \in Instance |-> NoJob]
    /\ gen = [i \in Instance |-> 0]
    /\ due = [i \in Instance |-> FALSE]
    /\ jobInst = [j \in Job |-> CHOOSE i \in Instance : TRUE]
    /\ jobKind = [j \in Job |-> "start"]
    /\ jobStatus = [j \in Job |-> "none"]
    /\ lock = [j \in Job |-> "none"]
    /\ opStatus = [j \in Job |-> "none"]
    /\ taker = [j \in Job |-> NoMessage]
    /\ outbox = {}
    /\ pc = [w \in Worker |-> "boot"]
    /\ row = [w \in Worker |-> NoRow]
    /\ result = [w \in Worker |-> NoJob]
    /\ todo = [w \in Worker |-> {}]
    /\ container = [w \in Worker |-> [i \in Instance |-> NoContainer]]
    /\ usage = 0
    /\ crashes = 0 /\ faults = 0 /\ dbFaults = 0

-----------------------------------------------------------------------------
(* Helpers.                                                                *)

JobAt(w)  == hand[w].job
InstAt(w) == jobInst[JobAt(w)]
KindAt(w) == jobKind[JobAt(w)]
Active(i) == status[i] \in ActiveStatus
Up(c)     == c # NoContainer /\ c.up

Goto(w, p)  == pc' = [pc EXCEPT ![w] = p]
Fault       == faults < MaxFaults /\ faults' = faults + 1 /\ UNCHANGED <<crashes, dbFaults>>
DbFault     == dbFaults < MaxDbFaults /\ dbFaults' = dbFaults + 1 /\ UNCHANGED <<crashes, faults>>

\* UPDATE ... GREATEST(active_instances-1, 0)
ReleasedBelowZero(n) == n - 1   \* mutant
Released(n) == IF n = 0 THEN 0 ELSE n - 1

-----------------------------------------------------------------------------
(* The API: requests of users and administrators, the expiry of a lease.   *)

\* createJob: the operation, the job and the outbox event of a request, and the
\* operation written into the instance, whose status_version grows.
CreateJob(i, j, kind, newSv) ==
    /\ jobStatus[j] = "none"
    /\ \A k \in Job : k < j => jobStatus[k] # "none"
    /\ opOf' = [opOf EXCEPT ![i] = j]
    /\ sv' = [sv EXCEPT ![i] = newSv]
    /\ jobInst' = [jobInst EXCEPT ![j] = i]
    /\ jobKind' = [jobKind EXCEPT ![j] = kind]
    /\ jobStatus' = [jobStatus EXCEPT ![j] = "queued"]
    /\ opStatus' = [opStatus EXCEPT ![j] = "pending"]
    /\ outbox' = outbox \cup {j}
    /\ UNCHANGED <<lock, taker>>

\* Start: a new row, when the owner has no active instance of the challenge.
NoneActive(i)  == \A k \in Instance : Active(k) => ChallengeOf[k] # ChallengeOf[i]

Start(i, j) ==
    /\ status[i] = Absent
    /\ NoneActive(i)
    /\ status' = [status EXCEPT ![i] = To("start")]
    /\ gen' = [gen EXCEPT ![i] = 1]
    /\ CreateJob(i, j, "start", 1)
    /\ usage' = usage + 1
    /\ UNCHANGED <<workerOf, rid, due, streamVars, procVars, container, boundVars>>

\* What transition, AdminTransition and ExpireInstance do under the row lock: the
\* status of the operation at once, for a reset a new flag, and the job.
Transition(i, j, kind) ==
    /\ status[i] # Absent
    /\ NextAllowed(kind, status[i])
    /\ status' = [status EXCEPT ![i] = To(kind)]
    /\ gen' = [gen EXCEPT ![i] = IF kind = "reset" THEN @ + 1 ELSE @]
    /\ CreateJob(i, j, kind, sv[i] + 1)
    /\ UNCHANGED <<workerOf, rid, due, usage, streamVars, container, boundVars>>

\* Restart, Stop, Reset of the owner; stop and reset of an administrator, whose
\* expected version is current.  Only the newest instance of a challenge can be
\* in a status that NextAllowed accepts.
Request(i, j, kind) ==
    /\ kind \in {"restart", "stop", "reset"}
    /\ Transition(i, j, kind)
    /\ UNCHANGED procVars

\* Extend moves expires_at into the future.
Extend(i) ==
    /\ status[i] \in From("extend")
    /\ due' = [due EXCEPT ![i] = FALSE]
    /\ UNCHANGED <<status, opOf, workerOf, sv, rid, gen, jobVars, outbox, streamVars,
                   procVars, container, usage, boundVars>>

\* Time reaches expires_at of a running instance.
TtlElapses(i) ==
    /\ status[i] = "running" /\ ~due[i]
    /\ due' = [due EXCEPT ![i] = TRUE]
    /\ UNCHANGED <<status, opOf, workerOf, sv, rid, gen, jobVars, outbox, streamVars,
                   procVars, container, usage, boundVars>>

-----------------------------------------------------------------------------
(* The worker's loop: Run.                                                 *)

WorkerOnly == <<instVars, jobVars, outbox, streamVars, container, usage, boundVars>>

\* PublishOutbox: the oldest unpublished event goes to the stream.  The event is
\* marked published in the transaction that calls XADD, so a commit that fails
\* leaves a message and an unpublished event behind.
PublishOutbox(w) ==
    /\ pc[w] = "idle"
    /\ \E j \in outbox :
         /\ \A k \in outbox : j <= k
         /\ Publish(j, 0)
         /\ \/ outbox' = outbox \ {j} /\ UNCHANGED boundVars
            \/ DbFault /\ UNCHANGED outbox
    /\ UNCHANGED <<instVars, jobVars, pending, hand, procVars, container, usage>>

\* The maintenance tick starts with ExpireDue, which reads the due instances of
\* every worker ...
Tick(w) ==
    /\ pc[w] = "idle"
    /\ todo' = [todo EXCEPT ![w] = {i \in Instance : status[i] = "running" /\ due[i]}]
    /\ Goto(w, "expire")
    /\ UNCHANGED <<WorkerOnly, row, result>>

\* ... and has each of them expired in a transaction of its own, which looks at
\* the status again but not at expires_at.
ExpireInstance(w, i) ==
    /\ pc[w] = "expire" /\ i \in todo[w]
    /\ todo' = [todo EXCEPT ![w] = @ \ {i}]
    /\ \/ \E j \in Job : Transition(i, j, "expire")
       \/ /\ ~NextAllowed("expire", status[i])
          /\ UNCHANGED WorkerOnly
    /\ UNCHANGED <<pc, row, result>>

\* Rows of w that cannot describe a healthy runtime ...
Invalid(w, i) ==
    /\ workerOf[i] = w
    /\ \/ status[i] = "running" /\ rid[i] = NoJob
       \/ status[i] \in InOperation /\ opOf[i] = NoJob

DriftedAnyStatus(w, i) ==   \* mutant: the status is not looked at
    workerOf[i] = w /\ rid[i] # NoJob
      /\ ~(Up(container[w][i]) /\ container[w][i].id = rid[i])

\* ... and rows of w whose container is gone or down, by the inspected id.
Drifted(w, i) ==
    LET c == container[w][i]
    IN  /\ workerOf[i] = w /\ status[i] = "running" /\ rid[i] # NoJob
        /\ ~(Up(c) /\ c.id = rid[i])

\* Reconcile, at boot and in every tick.  An inspection that fails for another
\* reason than a missing container ends the pass: the rows before it (seen) are
\* done.  Rows changed by the API between the read and the update are guarded by
\* status and status_version, so the pass is one step.
Reconcile(w) ==
    /\ \/ pc[w] = "boot" /\ Goto(w, "bootsweep")
       \/ pc[w] = "expire" /\ todo[w] = {} /\ Goto(w, "sweep")
    /\ \E seen \in SUBSET {i \in Instance : Drifted(w, i)} :
         LET hit(i) == Invalid(w, i) \/ i \in seen
         IN  /\ status' = [i \in Instance |-> IF hit(i) THEN "interrupted" ELSE status[i]]
             /\ sv' = [i \in Instance |-> IF hit(i) THEN sv[i] + 1 ELSE sv[i]]
             /\ \/ seen = {i \in Instance : Drifted(w, i)} /\ UNCHANGED boundVars
                \/ seen # {i \in Instance : Drifted(w, i)} /\ Fault
    /\ UNCHANGED <<opOf, workerOf, rid, gen, due, jobVars, outbox, streamVars,
                   row, result, todo, container, usage>>

\* CleanupOrphans removes what w's Docker host runs for instances that are not
\* active instances of w.  A removal that fails ends the sweep (kept).
ForeignOnly(w, i) == container[w][i] # NoContainer /\ workerOf[i] # w   \* mutant
Orphan(w, i) == container[w][i] # NoContainer /\ ~(workerOf[i] = w /\ Active(i))

CleanupOrphans(w) ==
    /\ \/ pc[w] = "bootsweep" /\ Goto(w, "idle")
       \/ pc[w] = "sweep" /\ Goto(w, "reclaim")
    /\ \E kept \in SUBSET {i \in Instance : Orphan(w, i)} :
         /\ container' = [container EXCEPT ![w] =
               [i \in Instance |-> IF Orphan(w, i) /\ i \notin kept
                                   THEN NoContainer ELSE container[w][i]]]
         /\ \/ kept = {} /\ UNCHANGED boundVars
            \/ kept # {} /\ Fault
    /\ UNCHANGED <<instVars, jobVars, outbox, streamVars, row, result, todo, usage>>

\* The tick ends with one message that has been pending for two minutes, if any.
\* Until it claims or requeues, a worker makes a few queries and no Docker call, so
\* its message is not that old; nor is one that led to a lock which is younger than
\* 90 seconds and was never renewed.
Recent == {hand[v] : v \in {u \in Worker :
                       pc[u] \in {"check", "requeue", "begin", "read", "claim"}}}
            \cup {taker[j] : j \in Job}

Reclaim(w) ==
    /\ pc[w] = "reclaim"
    /\ ClaimStale(w, Recent)
    /\ Goto(w, "check")
    /\ UNCHANGED <<instVars, jobVars, outbox, row, result, todo, container, usage, boundVars>>

ReclaimNothing(w) ==
    /\ pc[w] = "reclaim"
    /\ Goto(w, "idle")
    /\ UNCHANGED <<WorkerOnly, row, result, todo>>

Take(w) ==
    /\ pc[w] = "idle"
    /\ Receive(w)
    /\ Goto(w, "check")
    /\ UNCHANGED <<instVars, jobVars, outbox, row, result, todo, container, usage, boundVars>>

-----------------------------------------------------------------------------
(* The worker and one message: process and handle.                         *)

\* canProcess: a job whose instance belongs to a worker is for that worker; a
\* start of an unassigned instance needs a worker with room for it.
LoadRunning(w) == Cardinality({i \in Instance : workerOf[i] = w /\ status[i] = "running"}) \* mutant
LoadOf(w) == Cardinality({i \in Instance :
                 workerOf[i] = w /\ status[i] \in InOperation \cup {"running"}})

PinnedNever(w) == FALSE   \* mutant
Pinned(w) == workerOf[InstAt(w)] \notin {NoWorker, w}
NewHere(w) == KindAt(w) = "start" /\ workerOf[InstAt(w)] # w

CheckAccept(w) ==
    /\ pc[w] = "check"
    /\ ~Pinned(w)
    /\ NewHere(w) => LoadOf(w) < Capacity
    /\ Goto(w, "begin")
    /\ UNCHANGED <<WorkerOnly, row, result, todo>>

\* Besides, a new start is refused while the worker drains, has no fresh
\* heartbeat, lacks the protocol, or another worker has the image.
CheckRefuse(w) ==
    /\ pc[w] = "check"
    /\ \/ Pinned(w) /\ UNCHANGED boundVars
       \/ ~Pinned(w) /\ NewHere(w) /\ LoadOf(w) >= Capacity /\ UNCHANGED boundVars
       \/ ~Pinned(w) /\ NewHere(w) /\ Fault
    /\ Goto(w, "requeue")
    /\ UNCHANGED <<instVars, jobVars, outbox, streamVars, row, result, todo, container, usage>>

\* The message stays pending for w when a query fails (CheckFails), a failure
\* cannot be recorded (RecordFails) or Redis does not answer (RedisFails).
ForgetCall(w) ==   \* the locals of handle
    /\ row' = [row EXCEPT ![w] = NoRow]
    /\ result' = [result EXCEPT ![w] = NoJob]

LeavePending(w) ==
    /\ Abandon(w)
    /\ Goto(w, "idle")
    /\ ForgetCall(w)
    /\ UNCHANGED <<instVars, jobVars, outbox, todo, container, usage>>

CheckFails(w)  == pc[w] = "check" /\ DbFault /\ LeavePending(w)
RecordFails(w) == pc[w] \in {"recordRetry", "recordFailure"} /\ DbFault /\ LeavePending(w)
RedisFails(w)  == pc[w] \in {"requeue", "retry", "ack"} /\ Fault /\ LeavePending(w)

\* First transaction of handle: lock the job, unless it is finished or somebody
\* has it; then the message is acknowledged all the same.
SkipFinished(j) == jobStatus[j] \in {"completed", "failed"}   \* mutant: no lock
SkipLocked(j) == jobStatus[j] = "running" /\ lock[j] = "fresh" \* mutant: lock only
Skip(j) ==
    \/ jobStatus[j] \in {"completed", "failed"}
    \/ jobStatus[j] = "running" /\ lock[j] = "fresh"

SkipJob(w) ==
    /\ pc[w] = "begin" /\ Skip(JobAt(w))
    /\ Goto(w, "ack")
    /\ UNCHANGED <<WorkerOnly, row, result, todo>>

LockJob(w) ==
    LET j == JobAt(w)
    IN  /\ pc[w] = "begin" /\ ~Skip(j)
        /\ jobStatus' = [jobStatus EXCEPT ![j] = "running"]
        /\ lock' = [lock EXCEPT ![j] = "fresh"]
        /\ taker' = [taker EXCEPT ![j] = hand[w]]
        /\ opStatus' = [opStatus EXCEPT ![j] = IF @ \in OpFinal THEN @ ELSE "running"]
        /\ Goto(w, "read")
        /\ UNCHANGED <<instVars, jobInst, jobKind, outbox, streamVars, row, result,
                       todo, container, usage, boundVars>>

\* A transaction that fails with a plain error: dead letter, nothing recorded.
BeginFails(w) ==
    /\ pc[w] = "begin" /\ DbFault
    /\ Goto(w, "ack")
    /\ UNCHANGED <<instVars, jobVars, outbox, streamVars, row, result, todo, container, usage>>

ReadInstance(w) ==
    LET i == InstAt(w)
    IN  /\ pc[w] = "read"
        /\ row' = [row EXCEPT ![w] = [status |-> status[i], sv |-> sv[i],
                                      rid |-> rid[i], gen |-> gen[i]]]
        /\ Goto(w, "claim")
        /\ UNCHANGED <<WorkerOnly, result, todo>>

\* The SELECT fails, for whatever reason: INSTANCE_MISSING, which is not retryable,
\* with an empty instance.
ReadFails(w) ==
    /\ pc[w] = "read" /\ DbFault
    /\ Goto(w, "recordFailure")
    /\ UNCHANGED <<instVars, jobVars, outbox, streamVars, row, result, todo, container, usage>>

\* The claim writes worker_id if the row is as read and still wants this job ...
OwnedBlindly(w) == TRUE   \* mutant: optimistic check dropped
Owned(w) == sv[InstAt(w)] = row[w].sv /\ opOf[InstAt(w)] = JobAt(w)

Claim(w) ==
    LET i == InstAt(w)
    IN  /\ pc[w] = "claim" /\ Owned(w)
        /\ workerOf' = [workerOf EXCEPT ![i] = w]
        /\ sv' = [sv EXCEPT ![i] = @ + 1]
        /\ row' = [row EXCEPT ![w].sv = @ + 1]
        /\ status' = [status EXCEPT ![i] =
              IF KindAt(w) = "start" /\ row[w].status = "pending" THEN "pulling" ELSE @]
        /\ Goto(w, IF KindAt(w) = "start" THEN "create" ELSE "exec")
        /\ UNCHANGED <<opOf, rid, gen, due, jobVars, outbox, streamVars, result,
                       todo, container, usage, boundVars>>

\* ... otherwise supersede closes the job.  (The lock of a job that is not
\* running is never looked at again: none.)
Close(j, js, os) ==
    /\ jobStatus' = [jobStatus EXCEPT ![j] = js]
    /\ opStatus' = [opStatus EXCEPT ![j] = os]
    /\ lock' = [lock EXCEPT ![j] = "none"]
    /\ taker' = [taker EXCEPT ![j] = NoMessage]
    /\ UNCHANGED <<jobInst, jobKind>>

Supersede(w) ==
    /\ pc[w] = "claim" /\ ~Owned(w)
    /\ Close(JobAt(w), "failed", "cancelled")
    /\ Goto(w, "ack")
    /\ UNCHANGED <<instVars, outbox, streamVars, row, result, todo, container,
                   usage, boundVars>>

SupersedeFails(w) ==
    /\ pc[w] = "claim" /\ ~Owned(w) /\ DbFault
    /\ Goto(w, "ack")
    /\ UNCHANGED <<instVars, jobVars, outbox, streamVars, row, result, todo, container, usage>>

\* An operationFailure: retryable ones are retried while attempts remain.
FailedTo(w, retryable) ==
    Goto(w, IF retryable /\ hand[w].attempts < MaxAttempts
            THEN "recordRetry" ELSE "recordFailure")

ClaimFails(w) ==
    /\ pc[w] = "claim" /\ DbFault
    /\ FailedTo(w, TRUE)
    /\ UNCHANGED <<instVars, jobVars, outbox, streamVars, row, result, todo, container, usage>>

-----------------------------------------------------------------------------
(* Docker calls (internal/runtime/docker.go), by the instance as it was read.*)

Here(w)        == container[w][InstAt(w)]
SetHere(w, c)  == container' = [container EXCEPT ![w][InstAt(w)] = c]
OldUnknown(w)  == FALSE   \* mutant: the runtime id is not handed to Docker
IsOld(w)       == Here(w) # NoContainer /\ Here(w).id = row[w].rid
DockerOnly     == <<instVars, jobVars, outbox, streamVars, row, todo, usage>>
Returns(w, id) == result' = [result EXCEPT ![w] = id]

\* Restart of the container that was read; one that is gone fails for good.
ExecRestart(w) ==
    /\ pc[w] = "exec" /\ KindAt(w) = "restart"
    /\ \/ /\ IsOld(w)
          /\ SetHere(w, [Here(w) EXCEPT !.up = TRUE])
          /\ Returns(w, row[w].rid)
          /\ Goto(w, "commit")
       \/ /\ ~IsOld(w)
          /\ FailedTo(w, FALSE)
          /\ UNCHANGED <<container, result>>
    /\ UNCHANGED <<DockerOnly, boundVars>>

\* Stop removes the container that was read, if it is there; a stop or an expiry
\* is then done, a reset goes on with Start.
ExecStop(w) ==
    /\ pc[w] = "exec" /\ KindAt(w) \in {"stop", "expire", "reset"}
    /\ SetHere(w, IF IsOld(w) THEN NoContainer ELSE Here(w))
    /\ Returns(w, row[w].rid)
    /\ Goto(w, IF KindAt(w) = "reset" THEN "create" ELSE "commit")
    /\ UNCHANGED <<DockerOnly, boundVars>>

\* What precedes the Docker call fails, or the call does; it may have stopped the
\* container.  No failure of a restart is retryable.
ExecFails(w) ==
    /\ pc[w] = "exec" /\ Fault
    /\ \/ UNCHANGED container
       \/ IsOld(w) /\ SetHere(w, [Here(w) EXCEPT !.up = FALSE])
    /\ \E retryable \in (IF KindAt(w) = "restart" THEN {FALSE} ELSE BOOLEAN) :
          FailedTo(w, retryable)
    /\ UNCHANGED <<DockerOnly, result>>

\* Start: a container with the instance's name is reused if its port bindings
\* match, started first if it is down; one whose bindings do not match is replaced.
New(w) == [id |-> JobAt(w), gen |-> row[w].gen, up |-> FALSE]

ReuseContainer(w) ==
    /\ pc[w] = "create" /\ Here(w) # NoContainer
    /\ \/ Here(w).up /\ Goto(w, "commit")
       \/ ~Here(w).up /\ Goto(w, "recover")
    /\ Returns(w, Here(w).id)
    /\ UNCHANGED <<DockerOnly, container, boundVars>>

CreateContainer(w) ==
    /\ pc[w] = "create"
    /\ SetHere(w, New(w))
    /\ Returns(w, JobAt(w))
    /\ Goto(w, "launch")
    /\ UNCHANGED <<DockerOnly, boundVars>>

CreateFails(w) ==
    /\ pc[w] = "create" /\ Fault
    /\ \E left \in {Here(w), NoContainer} : SetHere(w, left)
    /\ \E retryable \in BOOLEAN : FailedTo(w, retryable)
    /\ UNCHANGED <<DockerOnly, result>>

\* ContainerStart of the container just created (launch) or found down (recover).
StartContainer(w) ==
    /\ pc[w] \in {"launch", "recover"} /\ Here(w) # NoContainer
    /\ SetHere(w, [Here(w) EXCEPT !.up = TRUE])
    /\ Goto(w, "commit")
    /\ UNCHANGED <<DockerOnly, result, boundVars>>

\* A created container that does not start is removed, if that works.
StartFails(w) ==
    /\ pc[w] \in {"launch", "recover"}
    /\ \/ Here(w) = NoContainer /\ UNCHANGED <<container, boundVars>>
       \/ Here(w) # NoContainer /\ UNCHANGED container /\ Fault
       \/ pc[w] = "launch" /\ SetHere(w, NoContainer) /\ Fault
    /\ FailedTo(w, TRUE)
    /\ UNCHANGED <<DockerOnly, result>>

-----------------------------------------------------------------------------
(* The outcome.                                                            *)

\* Last transaction of handle, if the row is still owned by this worker for this
\* job, at the version of the claim.
Commit(w) ==
    LET i == InstAt(w)
        j == JobAt(w)
        stops == KindAt(w) \in {"stop", "expire"}
    IN  /\ pc[w] = "commit" /\ Owned(w) /\ workerOf[i] = w
        /\ status' = [status EXCEPT ![i] = IF stops THEN "stopped" ELSE "running"]
        /\ rid' = [rid EXCEPT ![i] = IF stops THEN NoJob ELSE result[w]]
        /\ due' = [due EXCEPT ![i] = IF KindAt(w) = "restart" THEN @ ELSE FALSE]
        /\ opOf' = [opOf EXCEPT ![i] = NoJob]
        /\ sv' = [sv EXCEPT ![i] = @ + 1]
        /\ usage' = IF stops THEN Released(usage) ELSE usage
        /\ Close(j, "completed", "completed")
        /\ Goto(w, "ack")
        /\ UNCHANGED <<workerOf, gen, outbox, streamVars, row, result, todo,
                       container, boundVars>>

\* "runtime operation lost instance ownership", or the database fails: a plain
\* error, so the message becomes a dead letter and nothing is recorded.
CommitFails(w) ==
    /\ pc[w] = "commit"
    /\ \/ ~(Owned(w) /\ workerOf[InstAt(w)] = w) /\ UNCHANGED boundVars
       \/ Owned(w) /\ workerOf[InstAt(w)] = w /\ DbFault
    /\ Goto(w, "ack")
    /\ UNCHANGED <<DockerOnly, result, container>>

RecordRetry(w) ==
    LET j == JobAt(w)
    IN  /\ pc[w] = "recordRetry"
        /\ jobStatus' = [jobStatus EXCEPT ![j] = "queued"]
        /\ lock' = [lock EXCEPT ![j] = "none"]
        /\ taker' = [taker EXCEPT ![j] = NoMessage]
        /\ opStatus' = [opStatus EXCEPT ![j] = "retrying"]
        /\ Goto(w, "retry")
        /\ UNCHANGED <<instVars, jobInst, jobKind, outbox, streamVars, row, result,
                       todo, container, usage, boundVars>>

\* recordFailure: the instance fails only if it still wants this job; the usage
\* of the owner is released whatever the instance wants.
RecordFailure(w) ==
    LET i == InstAt(w)
        j == JobAt(w)
    IN  /\ pc[w] = "recordFailure" /\ row[w] # NoRow
        /\ IF opOf[i] = j
           THEN /\ status' = [status EXCEPT ![i] = "failed"]
                /\ opOf' = [opOf EXCEPT ![i] = NoJob]
                /\ sv' = [sv EXCEPT ![i] = @ + 1]
           ELSE UNCHANGED <<status, opOf, sv>>
        /\ usage' = Released(usage)
        /\ Close(j, "failed", "failed")
        /\ Goto(w, "ack")
        /\ UNCHANGED <<workerOf, rid, gen, due, outbox, streamVars, row, result,
                       todo, container, boundVars>>

\* Without an instance (ID = uuid.Nil) only the job and the operation are closed: the
\* row goes on waiting for an operation that has failed, and its usage counts.
RecordMissing(w) ==
    /\ pc[w] = "recordFailure" /\ row[w] = NoRow
    /\ Close(JobAt(w), "failed", "missing")
    /\ Goto(w, "ack")
    /\ UNCHANGED <<instVars, outbox, streamVars, row, result, todo, container, usage, boundVars>>

\* What happens to the message: Requeue and Retry publish it again and then
\* acknowledge it; DeadLetter copies it to the dead-letter stream, which nothing
\* reads, and acknowledges it.
StreamOnly == <<instVars, jobVars, outbox, row, result, todo, container, usage, boundVars>>

RequeueDrops(w) ==   \* mutant: acknowledged without being published
    pc[w] = "requeue" /\ Goto(w, "ack") /\ UNCHANGED <<streamVars, StreamOnly>>

Requeue(w) ==
    pc[w] = "requeue" /\ Republish(w, 0) /\ Goto(w, "ack") /\ UNCHANGED StreamOnly

Retry(w) ==
    pc[w] = "retry" /\ Republish(w, 1) /\ Goto(w, "ack") /\ UNCHANGED StreamOnly

AckMessage(w) ==
    /\ pc[w] = "ack"
    /\ Ack(w)
    /\ Goto(w, "idle")
    /\ ForgetCall(w)
    /\ taker' = [j \in Job |-> IF taker[j] = hand[w] THEN NoMessage ELSE taker[j]]
    /\ UNCHANGED <<instVars, jobInst, jobKind, jobStatus, lock, opStatus, outbox, todo,
                   container, usage, boundVars>>

-----------------------------------------------------------------------------
(* The environment.                                                        *)

\* A worker process dies and is started again; its containers live on.
Crash(w) ==
    /\ pc[w] # "down" /\ crashes < MaxCrashes
    /\ crashes' = crashes + 1
    /\ pc' = [pc EXCEPT ![w] = "down"]
    /\ hand' = [hand EXCEPT ![w] = NoMessage]
    /\ row' = [row EXCEPT ![w] = NoRow]
    /\ result' = [result EXCEPT ![w] = NoJob]
    /\ todo' = [todo EXCEPT ![w] = {}]
    /\ UNCHANGED <<instVars, jobVars, outbox, stream, pending, container,
                   usage, faults, dbFaults>>

Boot(w) ==
    /\ pc[w] = "down"
    /\ Goto(w, "boot")
    /\ UNCHANGED <<WorkerOnly, row, result, todo>>

\* keepJobLockAlive renews locked_at during a Docker call of 30 seconds or more.
RenewLock(w) ==
    /\ pc[w] \in Executing \ {"commit"} /\ taker[JobAt(w)] # NoMessage
    /\ taker' = [taker EXCEPT ![JobAt(w)] = NoMessage]
    /\ UNCHANGED <<instVars, jobInst, jobKind, jobStatus, lock, opStatus, outbox,
                   streamVars, procVars, container, usage, boundVars>>

\* Ninety seconds pass without a renewal of locked_at.  It is renewed three times
\* in that time for a job that is held, so only jobs nobody holds lose their lock;
\* and a worker that has checked a job does not take that long to try its lock.
Held(j) == \E w \in Worker : pc[w] \in Holding \cup {"begin"} /\ JobAt(w) = j

LockExpires(j) ==
    /\ jobStatus[j] = "running" /\ lock[j] = "fresh" /\ ~Held(j)
    /\ lock' = [lock EXCEPT ![j] = "stale"]
    /\ taker' = [taker EXCEPT ![j] = NoMessage]
    /\ UNCHANGED <<instVars, jobInst, jobKind, jobStatus, opStatus, outbox, streamVars,
                   procVars, container, usage, boundVars>>

\* A container stops by itself or is removed behind the worker's back.
ContainerLost(w, i) ==
    /\ container[w][i] # NoContainer /\ Fault
    /\ \E c \in {NoContainer, [container[w][i] EXCEPT !.up = FALSE]} :
          container' = [container EXCEPT ![w][i] = c]
    /\ UNCHANGED <<instVars, jobVars, outbox, streamVars, procVars, usage>>

-----------------------------------------------------------------------------
API ==
    \/ \E i \in Instance, j \in Job :
         \/ Start(i, j)
         \/ \E kind \in JobKind : Request(i, j, kind)
    \/ \E i \in Instance : Extend(i)

\* What a worker does with its message.
Handle(w) ==
    \/ CheckAccept(w) \/ CheckRefuse(w) \/ SkipJob(w) \/ LockJob(w) \/ ReadInstance(w)
    \/ Claim(w) \/ Supersede(w)
    \/ ExecRestart(w) \/ ExecStop(w) \/ ReuseContainer(w) \/ CreateContainer(w)
    \/ StartContainer(w) \/ StartFails(w)
    \/ Commit(w) \/ CommitFails(w) \/ RecordRetry(w) \/ RecordFailure(w) \/ RecordMissing(w)
    \/ Requeue(w) \/ Retry(w) \/ AckMessage(w)

Fails(w) ==
    \/ CheckFails(w) \/ RecordFails(w) \/ RedisFails(w) \/ BeginFails(w)
    \/ ReadFails(w) \/ SupersedeFails(w) \/ ClaimFails(w) \/ ExecFails(w) \/ CreateFails(w)

\* What it does between two messages.
Maintain(w) ==
    \/ \E i \in Instance : ExpireInstance(w, i)
    \/ Reconcile(w) \/ CleanupOrphans(w) \/ ReclaimNothing(w)

Environment ==
    \/ \E w \in Worker : Crash(w) \/ Boot(w) \/ RenewLock(w)
    \/ \E w \in Worker, i \in Instance : ContainerLost(w, i)
    \/ \E j \in Job : LockExpires(j)
    \/ \E i \in Instance : TtlElapses(i)

Next ==
    \/ API
    \/ \E w \in Worker :
         \/ PublishOutbox(w) \/ Tick(w) \/ Take(w) \/ Reclaim(w)
         \/ Maintain(w) \/ Handle(w) \/ Fails(w)
    \/ Environment

Spec == Init /\ [][Next]_vars

\* What the code and its runtime schedule guarantee: a worker that is up goes on
\* with its message and its maintenance pass; the two tickers and the stream each
\* get their turn in Run's select, a ticker that fired before the default case; a
\* message that stays pending is found by XAUTOCLAIM; a dead worker is started
\* again (restart: unless-stopped); time passes.  Users, crashes and faults promise nothing.
Fairness ==
    /\ \A w \in Worker :
         /\ WF_vars(Handle(w)) /\ WF_vars(Maintain(w)) /\ WF_vars(Boot(w))
         /\ SF_vars(PublishOutbox(w)) /\ SF_vars(Tick(w)) /\ SF_vars(Take(w))
         /\ SF_vars(Reclaim(w))
    /\ \A j \in Job : WF_vars(LockExpires(j))

FairSpec == Spec /\ Fairness

-----------------------------------------------------------------------------
(* Safety.                                                                 *)

\* An instance in operation is waiting for an operation whose job is open, or that
\* failed since the instance could not be read (nothing but a new request ends that
\* wait); a running one has a container id and waits for none, an inactive one waits
\* for none.  (Reconcile calls the other states impossible for a healthy runtime.)
ValidRuntimeState ==
    \A i \in Instance :
      CASE status[i] = "running"      -> opOf[i] = NoJob /\ rid[i] # NoJob
        [] status[i] \in InOperation \cup {"pending"} ->
             /\ opOf[i] # NoJob
             /\ \/ jobStatus[opOf[i]] \in {"queued", "running"}
                \/ opStatus[opOf[i]] = "missing"
             /\ jobInst[opOf[i]] = i
             /\ status[i] = "stopping" <=> jobKind[opOf[i]] \in {"stop", "expire"}
        [] OTHER -> opOf[i] = NoJob

\* Two workers never handle the same job at the same time, however often its
\* message is delivered, reclaimed, requeued or retried.
JobMutex ==
    \A v, w \in Worker :
      v # w /\ pc[v] \in Holding /\ pc[w] \in Holding => JobAt(v) # JobAt(w)

\* Two workers never drive Docker for the same instance at the same time, even
\* for different jobs (a stop that overtakes a start in progress).
InstanceMutex ==
    \A v, w \in Worker :
      v # w /\ pc[v] \in Executing /\ pc[w] \in Executing => InstAt(v) # InstAt(w)

\* The container a running instance points to carries the flag the API accepts:
\* a reset never leaves the old container behind its new flag.
FlagCurrent ==
    \A i \in Instance, w \in Worker :
      LET c == container[w][i]
      IN  status[i] = "running" /\ workerOf[i] = w /\ Up(c) /\ c.id = rid[i] =>
            c.gen = gen[i]

\* At most one host has a container of an active instance.
OneHost ==
    \A i \in Instance, v, w \in Worker :
      Active(i) /\ container[v][i] # NoContainer /\ container[w][i] # NoContainer => v = w

\* A worker has no more containers of its active instances than it may.
CapacityRespected ==
    \A w \in Worker :
      Cardinality({i \in Instance : workerOf[i] = w /\ Active(i)
                                    /\ container[w][i] # NoContainer}) <= Capacity

\* A queued job is still on its way: in the outbox, in the stream, pending, or
\* in the hand of the worker about to publish it again.
QueuedOnItsWay ==
    \A j \in Job : jobStatus[j] = "queued" =>
      \/ j \in outbox
      \/ InFlight(j)
      \/ \E w \in Worker : pc[w] \in Processing /\ JobAt(w) = j

\* An instance that is being stopped never runs again: a start, restart or reset
\* that was in progress cannot commit over the stop.
StopSticks ==
    [][\A i \in Instance : status[i] = "stopping" =>
          status'[i] \in {"stopping", "stopped", "failed"}]_vars

\* What was recorded as the outcome of an operation is never revised.
OutcomeFinal ==
    [][\A j \in Job : opStatus[j] \in OpFinal => opStatus'[j] = opStatus[j]]_vars

-----------------------------------------------------------------------------
(* Why the safety properties are invariant: the facts that the code relies on    *)
(* from one transaction to the next.  RuntimeJobs_proofs shows that Inv is      *)
(* inductive.                                                              *)

\* Only jobs that were created are published.
PublishedExist ==
    /\ \A j \in outbox : jobStatus[j] # "none"
    /\ \A n \in DOMAIN stream : jobStatus[stream[n].job] # "none"
    /\ \A m \in pending : jobStatus[m.job] # "none"
    /\ \A w \in Worker : hand[w] # NoMessage => jobStatus[JobAt(w)] # "none"

\* While a worker holds a job, the job's row says so.
HolderHasLock ==
    \A w \in Worker : pc[w] \in Holding =>
      jobStatus[JobAt(w)] = "running" /\ lock[JobAt(w)] = "fresh"

\* An operation has an outcome only when its job is closed.
OutcomeClosesJob ==
    \A j \in Job : opStatus[j] \in OpFinal => jobStatus[j] \in {"completed", "failed"}

\* The row read before a claim is stale only if the instance wants another job.
ReadCurrent ==
    \A w \in Worker : pc[w] = "claim" /\ opOf[InstAt(w)] = JobAt(w) =>
      row[w].sv = sv[InstAt(w)]

\* What is about to be committed as running has a container id.
ResultKnown ==
    \A w \in Worker :
      \/ pc[w] \in {"launch", "recover"}
      \/ pc[w] = "commit" /\ KindAt(w) \notin {"stop", "expire"}
      => result[w] # NoJob

\* Who drives Docker for an instance is its worker ...
ExecutesOwn == \A w \in Worker : pc[w] \in Executing => workerOf[InstAt(w)] = w

\* ... and whoever passed canProcess before that comes with a job that the
\* instance no longer wants, or with the same one.
NotOvertaken ==
    \A v, w \in Worker :
      /\ v # w /\ pc[w] \in Executing
      /\ pc[v] \in {"begin", "read", "claim"} /\ InstAt(v) = InstAt(w)
      => JobAt(v) = JobAt(w) \/ opOf[InstAt(v)] # JobAt(v)

Inv ==
    /\ TypeOK /\ PublishedExist
    /\ HolderHasLock /\ JobMutex /\ OutcomeClosesJob
    /\ ValidRuntimeState /\ ReadCurrent /\ ResultKnown
    /\ ExecutesOwn /\ NotOvertaken

\* Where instances run.  A worker that passed canProcess and has not claimed yet:
PastCheck == {"begin", "read", "claim"}
Wanted(w) == opOf[InstAt(w)] = JobAt(w)
Ending    == {"stopping"} \cup InactiveStatus   \* never runs again

\* An instance without a worker has no container, and is new or ending.
NowhereYet ==
    \A i \in Instance :
      /\ status[i] \in {Absent, "pending"} => workerOf[i] = NoWorker
      /\ workerOf[i] = NoWorker =>
           /\ status[i] \in {Absent, "pending"} \cup Ending
           /\ \A w \in Worker : container[w][i] = NoContainer

\* The status of an instance tells what it waits for; nothing ever writes "creating"
\* or "starting".
KindOfStatus ==
    \A i \in Instance :
      /\ status[i] \notin {"creating", "starting"}
      /\ status[i] \in {"pending", "pulling"} => jobKind[opOf[i]] = "start"
      /\ status[i] = "restarting" => jobKind[opOf[i]] = "restart"
      /\ status[i] = "resetting"  => jobKind[opOf[i]] = "reset"

\* What a worker hands to Docker is current as long as its job is wanted ...
CallCurrent ==
    \A w \in Worker : pc[w] \in {"claim"} \cup Executing /\ Wanted(w) =>
      /\ row[w].gen = gen[InstAt(w)] /\ row[w].rid = rid[InstAt(w)]
      /\ pc[w] = "claim" => row[w].status = status[InstAt(w)]

\* ... and a call that is no longer wanted is one for an instance that ends.
UnwantedEnds ==
    \A w \in Worker : pc[w] \in Executing /\ ~Wanted(w) => status[InstAt(w)] \in Ending

\* Nothing runs for i, and nobody is at work on it but for the job it wants.
Bare(i) ==
    \A u \in Worker :
      container[u][i] = NoContainer /\ (pc[u] \in Executing /\ InstAt(u) = i => Wanted(u))

\* Who is about to take an instance over from another worker comes to start it, or
\* to stop one that has never run.
TakesOverNew ==
    \A w \in Worker : pc[w] \in PastCheck /\ Wanted(w) /\ workerOf[InstAt(w)] # w =>
      \/ status[InstAt(w)] \in {"pending", "pulling"}
      \/ status[InstAt(w)] = "stopping" /\ Bare(InstAt(w))

\* The container of an instance that goes on was committed with it, or was made by
\* the job it waits for; the latter carries its flag.
ContainersKnown ==
    \A i \in Instance, w \in Worker : container[w][i] # NoContainer =>
      /\ jobStatus[container[w][i].id] # "none"
      /\ status[i] = "pulling" =>
           container[w][i].id = opOf[i] /\ container[w][i].gen = gen[i]
      /\ workerOf[i] = w /\ status[i] \in {"running", "restarting"} =>
           container[w][i].id = rid[i] /\ container[w][i].gen = gen[i]
      /\ workerOf[i] = w /\ status[i] = "resetting" =>
           /\ container[w][i].id \in {rid[i], opOf[i]}
           /\ container[w][i].id = opOf[i] => container[w][i].gen = gen[i]

\* A call returns the id of the container that is there, and a reset has removed
\* the old one before it creates.
ResultHere ==
    \A w \in Worker : pc[w] \in Executing /\ Wanted(w) /\ Here(w) # NoContainer =>
      /\ pc[w] # "exec" /\ KindAt(w) = "reset" => Here(w).id = JobAt(w)
      /\ \/ pc[w] \in {"launch", "recover"}
         \/ pc[w] = "commit" /\ KindAt(w) \notin {"stop", "expire"}
         => Here(w).id = result[w]

CreatesFor ==
    \A w \in Worker : pc[w] \in {"create", "launch", "recover"} => KindAt(w) \in {"start", "reset"}

\* The instances that have or may get a container at w: the active ones of w, save
\* those that are stopped before they ever ran.
Hosted(w) ==
    {i \in Instance :
       /\ workerOf[i] = w /\ Active(i)
       /\ \/ status[i] # "stopping" \/ container[w][i] # NoContainer
          \/ pc[w] \in Executing /\ InstAt(w) = i /\ KindAt(w) \in {"start", "reset"}}

\* There is room for them, and for the start that w has accepted.
RoomLeft ==
    /\ IsFiniteSet({i \in Instance : status[i] # Absent})
    /\ \A w \in Worker : Cardinality(Hosted(w)) <= Capacity
    /\ \A w \in Worker : pc[w] \in PastCheck /\ Wanted(w) /\ KindAt(w) = "start" =>
         Cardinality(Hosted(w) \cup {InstAt(w)}) <= Capacity

PlaceInv ==
    /\ NowhereYet /\ KindOfStatus /\ CallCurrent /\ UnwantedEnds /\ TakesOverNew
    /\ ContainersKnown /\ ResultHere /\ CreatesFor /\ RoomLeft

\* No call to Docker or Redis and no transaction of a worker has failed so far;
\* workers may have died, and messages may have been reclaimed.
Calm == faults = 0 /\ dbFaults = 0

\* Then no operation is retried, and a container that was created is there to start.
NothingFailed ==
    /\ \A w \in Worker : /\ pc[w] \notin {"recordRetry", "retry"}
                         /\ pc[w] \in {"launch", "recover"} => Here(w) # NoContainer
    /\ \A j \in Job : jobStatus[j] = "queued" => opStatus[j] = "pending"

\* Who passed canProcess before another worker claimed the instance with the same
\* job does not get the lock of the job any more.
LateSkips ==
    \A w \in Worker :
      pc[w] \in PastCheck /\ workerOf[InstAt(w)] \notin {NoWorker, w} /\ Wanted(w) =>
        pc[w] = "begin" /\ Skip(JobAt(w))

\* Containers are where their instance belongs.
AtHome ==
    \A i \in Instance, w \in Worker : container[w][i] # NoContainer => workerOf[i] = w

CalmInv == Calm => NothingFailed /\ LateSkips /\ AtHome

\* A job that nobody has locked yet is in the outbox, or some message of it is to be
\* had that nobody is about to acknowledge.
Unlocked(j) == jobStatus[j] = "queued" /\ opStatus[j] = "pending"
ToBeHad(m)  == m \in pending \/ \E n \in DOMAIN stream : stream[n] = m

NewOnItsWay ==
    dbFaults = 0 =>
      \A j \in Job : Unlocked(j) =>
        \/ j \in outbox
        \/ \E m \in Message : /\ m.job = j /\ ToBeHad(m)
                             /\ \A w \in Worker : pc[w] = "ack" => hand[w] # m

-----------------------------------------------------------------------------
(* Liveness, under FairSpec.                                               *)

\* An instance never stays in operation for good.
InstanceSettles ==
    \A i \in Instance :
      status[i] \in InOperation \cup {"pending"} ~>
        status[i] \in InactiveStatus \cup {"running"}

\* Docker hosts end up without containers of instances that ended.
ContainersReclaimed ==
    \A i \in Instance :
      (status[i] \in InactiveStatus) ~> (\A w \in Worker : container[w][i] = NoContainer)

-----------------------------------------------------------------------------
(* What all this amounts to for the user of an instance: InstanceLife.     *)

\* The status of the row, and the status of the operation, as far as they matter to him.
PhaseOf(s) ==
    CASE s = Absent -> "absent"
      [] s = "running" -> "running"
      [] s \in {"restarting", "resetting"} -> "changing"
      [] s = "stopping" -> "stopping"
      [] s \in InactiveStatus -> "ended"
      [] OTHER -> "starting"
OutcomeOf(s) ==
    CASE s \in {"pending", "running", "retrying"} -> "open"
      [] s = "completed" -> "done"
      [] s = "missing" -> "lost"
      [] OTHER -> s

phase   == [i \in Instance |-> PhaseOf(status[i])]
outcome == [j \in Job |-> OutcomeOf(opStatus[j])]
IL == INSTANCE InstanceLife WITH Operation <- Job, None <- NoJob, waits <- opOf

\* However often the message of an operation is delivered, and whatever overtakes it
\* between its transactions, each operation takes effect at most once, in one step with
\* its outcome, and only if the instance still waits for it (handle, supersede); or it
\* fails, and the instance with it unless it could not be read (recordFailure).
LifecycleSafe == IL!Safe

\* And every operation that is not overtaken comes to its end (under FairSpec), as
\* long as the database answers: an operation whose transaction fails is not tried
\* again (BeginFails, SupersedeFails, CommitFails) or is lost (RecordMissing).
Lifecycle == IL!Safe /\ ([](dbFaults = 0) => IL!Progress)
=============================================================================
