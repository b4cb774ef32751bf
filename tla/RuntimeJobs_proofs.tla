------------------------ MODULE RuntimeJobs_proofs ------------------------
(***************************************************************************)
(* What holds of RuntimeJobs for any number of workers, instances, jobs,   *)
(* copies, crashes and faults.                                             *)
(*                                                                         *)
(* TLC checks Inv on small instances; here it is shown to be inductive     *)
(* (InvInit, InvStep), and the safety properties follow from it.  The      *)
(* argument has three layers:                                              *)
(*   - a job is handled by at most one worker, because its row is locked   *)
(*     while it is (HolderHasLock, JobMutex);                              *)
(*   - the row a worker read is current as long as the instance waits for  *)
(*     the worker's job, because only the API and that worker change       *)
(*     status_version of an instance in operation (ReadCurrent);           *)
(*   - therefore the claim finds no other worker at the instance           *)
(*     (ExecutesOwn, NotOvertaken) and the outcome is written only over the*)
(*     operation that wanted it (ValidRuntimeState).                       *)
(*                                                                         *)
(* Two further invariants rest on it.  PlaceInv follows the containers: who*)
(* takes an instance over finds nothing running for it, what a Docker call *)
(* returns is what is there, and there is room for it.  NewOnItsWay follows*)
(* the messages of a job that nobody has locked yet.  What faults can break*)
(* (TLC shows how) is shown for as long as nothing has failed: CalmInv.    *)
(* At the end all this is put together: to its user an instance behaves as *)
(* InstanceLife says (LifecycleIsSafe).                                    *)
(***************************************************************************)
EXTENDS RuntimeJobs, TLAPS, SequenceTheorems, FiniteSetTheorems

-----------------------------------------------------------------------------
(* Types.                                                                  *)

\* A worker that is working on a message has a well-typed one, and through it a
\* job, an instance and a kind (process and handle never run without a message).
LEMMA MessageInHand ==
  ASSUME TypeOK, NEW w \in Worker, pc[w] \in Processing
  PROVE  /\ hand[w] \in Message /\ hand[w] # NoMessage /\ JobAt(w) \in Job
         /\ InstAt(w) \in Instance /\ KindAt(w) \in JobKind
BY DEF TypeOK, StreamTypeOK, WorkerTypeOK, JobTypeOK, Message, JobAt, InstAt, KindAt, Worker

\* XADD keeps the stream a sequence of messages.
LEMMA PublishType ==
  ASSUME StreamTypeOK, NEW j \in Job, NEW attempts \in 0..MaxAttempts, Publish(j, attempts)
  PROVE  stream' \in Seq(Message)
<1>1. PICK n \in Copy : stream' = Append(stream, [copy |-> n, job |-> j, attempts |-> attempts])
  BY DEF Publish
<1>2. [copy |-> n, job |-> j, attempts |-> attempts] \in Message
  BY DEF Message
<1> QED  BY <1>1, <1>2, AppendProperties DEF StreamTypeOK

\* A container that is started or stopped is a container.
LEMMA UpType == ASSUME NEW c \in Container, NEW b \in BOOLEAN
                PROVE  [c EXCEPT !.up = b] \in Container
BY DEF Container

\* A Docker call of w for the instance of its job keeps the hosts well-typed.
LEMMA SetHereType ==
  ASSUME HostTypeOK, NEW w \in Worker, InstAt(w) \in Instance,
         NEW c \in Container \cup {NoContainer}, SetHere(w, c)
  PROVE  HostTypeOK'
BY DEF HostTypeOK, SetHere

\* XREADGROUP takes a message off the stream and leaves a stream of messages.
LEMMA ReceiveType ==
  ASSUME StreamTypeOK, NEW c \in Consumer, Receive(c)
  PROVE  Head(stream) \in Message /\ StreamTypeOK'
<1>1. stream \in Seq(Message) /\ stream # <<>>
  BY DEF StreamTypeOK, Receive
<1>2. Head(stream) \in Message /\ Tail(stream) \in Seq(Message)
  BY <1>1, HeadTailProperties
<1> QED  BY <1>2 DEF StreamTypeOK, Receive

\* Every action of the system keeps the type invariant: one step per action, and
\* under it one step per part of TypeOK that the action writes.
LEMMA TypeOKStep == TypeOK /\ [Next]_vars => TypeOK'
<1> SUFFICES ASSUME TypeOK, [Next]_vars
             PROVE  TypeOK'
    OBVIOUS
<1> USE DEF TypeOK, vars, instVars, jobVars, procVars, boundVars, streamVars, WorkerOnly,
            DockerOnly, StreamOnly, Processing, Holding, Executing
<1>h. \A w \in Worker : pc[w] \in Processing =>
        /\ hand[w] \in Message /\ hand[w] # NoMessage
        /\ JobAt(w) \in Job /\ InstAt(w) \in Instance /\ KindAt(w) \in JobKind
  BY MessageInHand
<1>1. ASSUME NEW i \in Instance, NEW j \in Job, Start(i, j) PROVE TypeOK'
  <2>1. InstanceTypeOK'
    BY <1>1 DEF Start, CreateJob, InstanceTypeOK, Status, ActiveStatus, InactiveStatus, To,
       JobKind
  <2>2. JobTypeOK'
    BY <1>1 DEF Start, CreateJob, JobTypeOK, JobStatus, OpStatus, OpFinal, Lock, JobKind
  <2>3. CounterTypeOK'
    BY <1>1 DEF Start, CounterTypeOK
  <2> QED  BY <1>1, <2>1, <2>2, <2>3
      DEF Start, CreateJob, StreamTypeOK, WorkerTypeOK, HostTypeOK
<1>2. ASSUME NEW i \in Instance, NEW j \in Job, NEW kind \in JobKind, Request(i, j, kind)
      PROVE TypeOK'
  <2>1. InstanceTypeOK'
    BY <1>2 DEF Request, Transition, CreateJob, InstanceTypeOK, Status, ActiveStatus,
       InactiveStatus, To, JobKind
  <2>2. JobTypeOK'
    BY <1>2 DEF Request, Transition, CreateJob, JobTypeOK, JobStatus, OpStatus, OpFinal, Lock
  <2> QED  BY <1>2, <2>1, <2>2
      DEF Request, Transition, CreateJob, StreamTypeOK, WorkerTypeOK, HostTypeOK, CounterTypeOK
<1>3. ASSUME NEW i \in Instance, Extend(i) PROVE TypeOK'
  <2>1. InstanceTypeOK'
    BY <1>3 DEF Extend, InstanceTypeOK, Status, ActiveStatus, InactiveStatus
  <2> QED  BY <1>3, <2>1
      DEF Extend, StreamTypeOK, JobTypeOK, WorkerTypeOK, HostTypeOK, CounterTypeOK
<1>4. ASSUME NEW i \in Instance, TtlElapses(i) PROVE TypeOK'
  <2>1. InstanceTypeOK'
    BY <1>4 DEF TtlElapses, InstanceTypeOK, Status, ActiveStatus, InactiveStatus
  <2> QED  BY <1>4, <2>1
      DEF TtlElapses, StreamTypeOK, JobTypeOK, WorkerTypeOK, HostTypeOK, CounterTypeOK
<1>5. ASSUME NEW w \in Worker, PublishOutbox(w) PROVE TypeOK'
  <2>1. StreamTypeOK'
    <3>1. PICK j \in outbox : Publish(j, 0)
      BY <1>5 DEF PublishOutbox
    <3>2. stream' \in Seq(Message)
      BY <3>1, PublishType, StreamAssumption DEF JobTypeOK
    <3> QED  BY <1>5, <3>2 DEF PublishOutbox, StreamTypeOK
  <2>2. JobTypeOK'
    BY <1>5 DEF PublishOutbox, JobTypeOK, JobStatus, OpStatus, OpFinal, Lock
  <2>3. CounterTypeOK'
    BY <1>5 DEF PublishOutbox, DbFault, CounterTypeOK
  <2> QED  BY <1>5, <2>1, <2>2, <2>3
      DEF PublishOutbox, DbFault, InstanceTypeOK, WorkerTypeOK, HostTypeOK
<1>6. ASSUME NEW w \in Worker, Tick(w) PROVE TypeOK'
  <2>1. WorkerTypeOK'
    BY <1>6 DEF Tick, Goto, WorkerTypeOK, PC
  <2> QED  BY <1>6, <2>1
      DEF Tick, StreamTypeOK, InstanceTypeOK, JobTypeOK, HostTypeOK, CounterTypeOK
<1>7. ASSUME NEW w \in Worker, NEW i \in Instance, ExpireInstance(w, i) PROVE TypeOK'
  <2>1. InstanceTypeOK'
    BY <1>7 DEF ExpireInstance, Transition, CreateJob, InstanceTypeOK, Status, ActiveStatus,
       InactiveStatus, To, JobKind
  <2>2. JobTypeOK'
    BY <1>7 DEF ExpireInstance, Transition, CreateJob, JobTypeOK, JobStatus, OpStatus, OpFinal,
       Lock, JobKind
  <2>3. WorkerTypeOK'
    BY <1>7 DEF ExpireInstance, WorkerTypeOK, PC, Transition
  <2> QED  BY <1>7, <2>1, <2>2, <2>3
      DEF ExpireInstance, Transition, CreateJob, StreamTypeOK, HostTypeOK, CounterTypeOK
<1>8. ASSUME NEW w \in Worker, Reconcile(w) PROVE TypeOK'
  <2>1. InstanceTypeOK'
    BY <1>8 DEF Reconcile, NoJob, InstanceTypeOK, Status, ActiveStatus, InactiveStatus
  <2>2. WorkerTypeOK'
    BY <1>8 DEF Reconcile, Goto, NoJob, WorkerTypeOK, PC
  <2>3. CounterTypeOK'
    BY <1>8 DEF Reconcile, Fault, CounterTypeOK
  <2> QED  BY <1>8, <2>1, <2>2, <2>3 DEF Reconcile, Fault, StreamTypeOK, JobTypeOK, HostTypeOK
<1>9. ASSUME NEW w \in Worker, CleanupOrphans(w) PROVE TypeOK'
  <2>1. WorkerTypeOK'
    BY <1>9 DEF CleanupOrphans, Goto, WorkerTypeOK, PC
  <2>2. HostTypeOK'
    BY <1>9 DEF CleanupOrphans, HostTypeOK, Container
  <2>3. CounterTypeOK'
    BY <1>9 DEF CleanupOrphans, Fault, CounterTypeOK
  <2> QED  BY <1>9, <2>1, <2>2, <2>3
      DEF CleanupOrphans, Fault, StreamTypeOK, InstanceTypeOK, JobTypeOK
<1>10. ASSUME NEW w \in Worker, Reclaim(w) PROVE TypeOK'
  <2>1. StreamTypeOK'
    BY <1>10, <1>h DEF Reclaim, ClaimStale, StreamTypeOK, Worker
  <2>2. WorkerTypeOK'
    <3>1. PICK m \in pending : hand' = [hand EXCEPT ![w] = m]
      BY <1>10 DEF Reclaim, ClaimStale
    <3>2. hand'[w] # NoMessage /\ \A v \in Worker \ {w} : hand'[v] = hand[v]
      BY <3>1, StreamAssumption DEF StreamTypeOK, Worker
    <3> QED  BY <1>10, <3>2 DEF Reclaim, Goto, WorkerTypeOK, PC
  <2> QED  BY <1>10, <2>1, <2>2
      DEF Reclaim, ClaimStale, InstanceTypeOK, JobTypeOK, HostTypeOK, CounterTypeOK
<1>11. ASSUME NEW w \in Worker, ReclaimNothing(w) PROVE TypeOK'
  <2>1. WorkerTypeOK'
    BY <1>11 DEF ReclaimNothing, Goto, WorkerTypeOK, PC
  <2> QED  BY <1>11, <2>1
      DEF ReclaimNothing, StreamTypeOK, InstanceTypeOK, JobTypeOK, HostTypeOK, CounterTypeOK
<1>12. ASSUME NEW w \in Worker, Take(w) PROVE TypeOK'
  <2>1. StreamTypeOK'
    BY <1>12, <1>h, ReceiveType DEF Take, StreamTypeOK, Worker
  <2>2. WorkerTypeOK'
    <3>1. hand' = [hand EXCEPT ![w] = Head(stream)] /\ Head(stream) \in Message
      BY <1>12, ReceiveType DEF Take, Receive, Worker
    <3>2. hand'[w] # NoMessage /\ \A v \in Worker \ {w} : hand'[v] = hand[v]
      BY <3>1, StreamAssumption DEF StreamTypeOK, Worker
    <3> QED  BY <1>12, <3>2 DEF Take, Goto, WorkerTypeOK, PC
  <2> QED  BY <1>12, <2>1, <2>2
      DEF Take, Receive, InstanceTypeOK, JobTypeOK, HostTypeOK, CounterTypeOK
<1>13. ASSUME NEW w \in Worker, CheckAccept(w) PROVE TypeOK'
  <2>1. WorkerTypeOK'
    BY <1>13, <1>h DEF CheckAccept, Goto, WorkerTypeOK, PC
  <2> QED  BY <1>13, <2>1
      DEF CheckAccept, StreamTypeOK, InstanceTypeOK, JobTypeOK, HostTypeOK, CounterTypeOK
<1>14. ASSUME NEW w \in Worker, CheckRefuse(w) PROVE TypeOK'
  <2>1. WorkerTypeOK'
    BY <1>14, <1>h DEF CheckRefuse, Goto, WorkerTypeOK, PC
  <2>2. CounterTypeOK'
    BY <1>14, <1>h DEF CheckRefuse, Fault, CounterTypeOK
  <2> QED  BY <1>14, <2>1, <2>2
      DEF CheckRefuse, Fault, StreamTypeOK, InstanceTypeOK, JobTypeOK, HostTypeOK
<1>15. ASSUME NEW w \in Worker, CheckFails(w) PROVE TypeOK'
  <2>1. StreamTypeOK'
    BY <1>15, <1>h DEF CheckFails, LeavePending, Abandon, StreamTypeOK, Worker
  <2>2. WorkerTypeOK'
    BY <1>15, <1>h
       DEF CheckFails, LeavePending, Goto, ForgetCall, NoJob, NoRow, Abandon, WorkerTypeOK, PC,
       Row, Absent
  <2>3. CounterTypeOK'
    BY <1>15, <1>h DEF CheckFails, DbFault, LeavePending, CounterTypeOK
  <2> QED  BY <1>15, <2>1, <2>2, <2>3
      DEF CheckFails, DbFault, LeavePending, ForgetCall, Abandon, InstanceTypeOK, JobTypeOK,
      HostTypeOK
<1>16. ASSUME NEW w \in Worker, RecordFails(w) PROVE TypeOK'
  <2>1. StreamTypeOK'
    BY <1>16, <1>h DEF RecordFails, LeavePending, Abandon, StreamTypeOK, Worker
  <2>2. WorkerTypeOK'
    BY <1>16, <1>h
       DEF RecordFails, LeavePending, Goto, ForgetCall, NoJob, NoRow, Abandon, WorkerTypeOK,
       PC, Row, Absent
  <2>3. CounterTypeOK'
    BY <1>16, <1>h DEF RecordFails, DbFault, LeavePending, CounterTypeOK
  <2> QED  BY <1>16, <2>1, <2>2, <2>3
      DEF RecordFails, DbFault, LeavePending, ForgetCall, Abandon, InstanceTypeOK, JobTypeOK,
      HostTypeOK
<1>17. ASSUME NEW w \in Worker, RedisFails(w) PROVE TypeOK'
  <2>1. StreamTypeOK'
    BY <1>17, <1>h DEF RedisFails, LeavePending, Abandon, StreamTypeOK, Worker
  <2>2. WorkerTypeOK'
    BY <1>17, <1>h
       DEF RedisFails, LeavePending, Goto, ForgetCall, NoJob, NoRow, Abandon, WorkerTypeOK, PC,
       Row, Absent
  <2>3. CounterTypeOK'
    BY <1>17, <1>h DEF RedisFails, Fault, LeavePending, CounterTypeOK
  <2> QED  BY <1>17, <2>1, <2>2, <2>3
      DEF RedisFails, Fault, LeavePending, ForgetCall, Abandon, InstanceTypeOK, JobTypeOK,
      HostTypeOK
<1>18. ASSUME NEW w \in Worker, SkipJob(w) PROVE TypeOK'
  <2>1. WorkerTypeOK'
    BY <1>18, <1>h DEF SkipJob, Goto, WorkerTypeOK, PC
  <2> QED  BY <1>18, <2>1
      DEF SkipJob, StreamTypeOK, InstanceTypeOK, JobTypeOK, HostTypeOK, CounterTypeOK
<1>19. ASSUME NEW w \in Worker, LockJob(w) PROVE TypeOK'
  <2>1. JobTypeOK'
    BY <1>19, <1>h DEF LockJob, JobTypeOK, JobStatus, OpStatus, OpFinal, Lock, StreamTypeOK
  <2>2. WorkerTypeOK'
    BY <1>19, <1>h DEF LockJob, Goto, WorkerTypeOK, PC
  <2> QED  BY <1>19, <2>1, <2>2
      DEF LockJob, StreamTypeOK, InstanceTypeOK, HostTypeOK, CounterTypeOK
<1>20. ASSUME NEW w \in Worker, BeginFails(w) PROVE TypeOK'
  <2>1. WorkerTypeOK'
    BY <1>20, <1>h DEF BeginFails, Goto, WorkerTypeOK, PC
  <2>2. CounterTypeOK'
    BY <1>20, <1>h DEF BeginFails, DbFault, CounterTypeOK
  <2> QED  BY <1>20, <2>1, <2>2
      DEF BeginFails, DbFault, StreamTypeOK, InstanceTypeOK, JobTypeOK, HostTypeOK
<1>21. ASSUME NEW w \in Worker, ReadInstance(w) PROVE TypeOK'
  <2>1. WorkerTypeOK'
    BY <1>21, <1>h DEF ReadInstance, Goto, WorkerTypeOK, PC, Row, InstanceTypeOK, NoJob, Absent
  <2> QED  BY <1>21, <2>1
      DEF ReadInstance, StreamTypeOK, InstanceTypeOK, JobTypeOK, HostTypeOK, CounterTypeOK
<1>22. ASSUME NEW w \in Worker, Claim(w) PROVE TypeOK'
  <2>1. InstanceTypeOK'
    BY <1>22, <1>h DEF Claim, InstanceTypeOK, Status, ActiveStatus, InactiveStatus, Worker
  <2>2. WorkerTypeOK'
    BY SMTT(30), <1>22, <1>h DEF Claim, Goto, WorkerTypeOK, PC, Row
  <2> QED  BY <1>22, <2>1, <2>2 DEF Claim, StreamTypeOK, JobTypeOK, HostTypeOK, CounterTypeOK
<1>23. ASSUME NEW w \in Worker, Supersede(w) PROVE TypeOK'
  <2>1. JobTypeOK'
    BY <1>23, <1>h DEF Supersede, Close, JobTypeOK, JobStatus, OpStatus, OpFinal, Lock
  <2>2. WorkerTypeOK'
    BY <1>23, <1>h DEF Supersede, Goto, WorkerTypeOK, PC
  <2> QED  BY <1>23, <2>1, <2>2
      DEF Supersede, Close, StreamTypeOK, InstanceTypeOK, HostTypeOK, CounterTypeOK
<1>24. ASSUME NEW w \in Worker, SupersedeFails(w) PROVE TypeOK'
  <2>1. WorkerTypeOK'
    BY <1>24, <1>h DEF SupersedeFails, Goto, WorkerTypeOK, PC
  <2>2. CounterTypeOK'
    BY <1>24, <1>h DEF SupersedeFails, DbFault, CounterTypeOK
  <2> QED  BY <1>24, <2>1, <2>2
      DEF SupersedeFails, DbFault, StreamTypeOK, InstanceTypeOK, JobTypeOK, HostTypeOK
<1>25. ASSUME NEW w \in Worker, ClaimFails(w) PROVE TypeOK'
  <2>1. WorkerTypeOK'
    BY <1>25, <1>h DEF ClaimFails, FailedTo, Goto, WorkerTypeOK, PC
  <2>2. CounterTypeOK'
    BY <1>25, <1>h DEF ClaimFails, DbFault, CounterTypeOK
  <2> QED  BY <1>25, <2>1, <2>2
      DEF ClaimFails, DbFault, FailedTo, StreamTypeOK, InstanceTypeOK, JobTypeOK, HostTypeOK
<1>26. ASSUME NEW w \in Worker, ExecRestart(w) PROVE TypeOK'
  <2>1. WorkerTypeOK'
    BY <1>26, <1>h DEF ExecRestart, Goto, FailedTo, Returns, IsOld, Here, WorkerTypeOK, PC, Row
  <2>2. HostTypeOK'
    BY <1>26, <1>h, UpType, SetHereType DEF ExecRestart, IsOld, Here, HostTypeOK
  <2> QED  BY <1>26, <2>1, <2>2
      DEF ExecRestart, FailedTo, SetHere, Returns, StreamTypeOK, InstanceTypeOK, JobTypeOK,
      CounterTypeOK
<1>27. ASSUME NEW w \in Worker, ExecStop(w) PROVE TypeOK'
  <2>1. WorkerTypeOK'
    BY <1>27, <1>h DEF ExecStop, Goto, Returns, IsOld, Here, WorkerTypeOK, PC, Row
  <2>2. HostTypeOK'
    BY <1>27, <1>h DEF ExecStop, SetHere, IsOld, Here, HostTypeOK, Container
  <2> QED  BY <1>27, <2>1, <2>2
      DEF ExecStop, SetHere, Returns, StreamTypeOK, InstanceTypeOK, JobTypeOK, CounterTypeOK
<1>28. ASSUME NEW w \in Worker, ExecFails(w) PROVE TypeOK'
  <2>1. WorkerTypeOK'
    BY <1>28, <1>h DEF ExecFails, FailedTo, Goto, IsOld, Here, WorkerTypeOK, PC
  <2>2. HostTypeOK'
    BY <1>28, <1>h, UpType, SetHereType DEF ExecFails, IsOld, Here, HostTypeOK
  <2>3. CounterTypeOK'
    BY <1>28, <1>h DEF ExecFails, Fault, CounterTypeOK
  <2> QED  BY <1>28, <2>1, <2>2, <2>3
      DEF ExecFails, Fault, FailedTo, SetHere, StreamTypeOK, InstanceTypeOK, JobTypeOK
<1>29. ASSUME NEW w \in Worker, ReuseContainer(w) PROVE TypeOK'
  <2>1. WorkerTypeOK'
    BY SMTT(30), <1>29, <1>h
       DEF ReuseContainer, Goto, Returns, Here, WorkerTypeOK, PC, HostTypeOK, Container
  <2> QED  BY <1>29, <2>1
      DEF ReuseContainer, Returns, StreamTypeOK, InstanceTypeOK, JobTypeOK, HostTypeOK,
      CounterTypeOK
<1>30. ASSUME NEW w \in Worker, CreateContainer(w) PROVE TypeOK'
  <2>1. WorkerTypeOK'
    BY <1>30, <1>h DEF CreateContainer, Goto, Returns, New, WorkerTypeOK, PC
  <2>2. HostTypeOK'
    BY <1>30, <1>h DEF CreateContainer, SetHere, New, HostTypeOK, Container, WorkerTypeOK, Row
  <2> QED  BY <1>30, <2>1, <2>2
      DEF CreateContainer, SetHere, Returns, StreamTypeOK, InstanceTypeOK, JobTypeOK,
      CounterTypeOK
<1>31. ASSUME NEW w \in Worker, CreateFails(w) PROVE TypeOK'
  <2>1. WorkerTypeOK'
    BY <1>31, <1>h DEF CreateFails, FailedTo, Goto, Here, WorkerTypeOK, PC
  <2>2. HostTypeOK'
    BY <1>31, <1>h DEF CreateFails, SetHere, Here, HostTypeOK, Container
  <2>3. CounterTypeOK'
    BY <1>31, <1>h DEF CreateFails, Fault, CounterTypeOK
  <2> QED  BY <1>31, <2>1, <2>2, <2>3
      DEF CreateFails, Fault, FailedTo, SetHere, StreamTypeOK, InstanceTypeOK, JobTypeOK
<1>32. ASSUME NEW w \in Worker, StartContainer(w) PROVE TypeOK'
  <2>1. WorkerTypeOK'
    BY <1>32, <1>h DEF StartContainer, Goto, Here, WorkerTypeOK, PC
  <2>2. HostTypeOK'
    BY <1>32, <1>h, UpType, SetHereType DEF StartContainer, Here, HostTypeOK
  <2> QED  BY <1>32, <2>1, <2>2
      DEF StartContainer, SetHere, StreamTypeOK, InstanceTypeOK, JobTypeOK, CounterTypeOK
<1>33. ASSUME NEW w \in Worker, StartFails(w) PROVE TypeOK'
  <2>1. WorkerTypeOK'
    BY <1>33, <1>h DEF StartFails, FailedTo, Goto, Here, WorkerTypeOK, PC
  <2>2. HostTypeOK'
    BY <1>33, <1>h DEF StartFails, SetHere, Here, HostTypeOK, Container
  <2>3. CounterTypeOK'
    BY <1>33, <1>h DEF StartFails, Fault, CounterTypeOK
  <2> QED  BY <1>33, <2>1, <2>2, <2>3
      DEF StartFails, Fault, FailedTo, SetHere, StreamTypeOK, InstanceTypeOK, JobTypeOK
<1>34. ASSUME NEW w \in Worker, Commit(w) PROVE TypeOK'
  <2>1. InstanceTypeOK'
    <3>1. InstAt(w) \in Instance
      BY <1>34, <1>h DEF Commit
    <3>2. status' \in [Instance -> Status \cup {Absent}]
      BY <1>34, <3>1 DEF Commit, InstanceTypeOK, Status, ActiveStatus, InactiveStatus
    <3>3. rid' \in [Instance -> Job \cup {NoJob}]
      BY <1>34, <3>1 DEF Commit, InstanceTypeOK, WorkerTypeOK
    <3>4. due' \in [Instance -> BOOLEAN]
      BY <1>34, <3>1 DEF Commit, InstanceTypeOK
    <3>5. opOf' \in [Instance -> Job \cup {NoJob}] /\ sv' \in [Instance -> Nat]
      BY <1>34, <3>1 DEF Commit, InstanceTypeOK
    <3>6. UNCHANGED <<workerOf, gen>>
      BY <1>34 DEF Commit
    <3> QED  BY <3>2, <3>3, <3>4, <3>5, <3>6 DEF InstanceTypeOK
  <2>2. JobTypeOK'
    BY <1>34, <1>h DEF Commit, Close, JobTypeOK, JobStatus, OpStatus, OpFinal, Lock
  <2>3. WorkerTypeOK'
    BY <1>34, <1>h DEF Commit, Goto, NoJob, WorkerTypeOK, PC
  <2>4. CounterTypeOK'
    BY <1>34, <1>h DEF Commit, Released, CounterTypeOK
  <2> QED  BY <1>34, <2>1, <2>2, <2>3, <2>4 DEF Commit, Close, StreamTypeOK, HostTypeOK
<1>35. ASSUME NEW w \in Worker, CommitFails(w) PROVE TypeOK'
  <2>1. WorkerTypeOK'
    BY <1>35, <1>h DEF CommitFails, Goto, WorkerTypeOK, PC
  <2>2. CounterTypeOK'
    BY <1>35, <1>h DEF CommitFails, DbFault, CounterTypeOK
  <2> QED  BY <1>35, <2>1, <2>2
      DEF CommitFails, DbFault, StreamTypeOK, InstanceTypeOK, JobTypeOK, HostTypeOK
<1>36. ASSUME NEW w \in Worker, RecordRetry(w) PROVE TypeOK'
  <2>1. JobTypeOK'
    BY <1>36, <1>h DEF RecordRetry, JobTypeOK, JobStatus, OpStatus, OpFinal, Lock
  <2>2. WorkerTypeOK'
    BY <1>36, <1>h DEF RecordRetry, Goto, WorkerTypeOK, PC
  <2> QED  BY <1>36, <2>1, <2>2
      DEF RecordRetry, StreamTypeOK, InstanceTypeOK, HostTypeOK, CounterTypeOK
<1>37. ASSUME NEW w \in Worker, RecordFailure(w) PROVE TypeOK'
  <2>1. InstanceTypeOK'
    BY <1>37, <1>h
       DEF RecordFailure, NoJob, InstanceTypeOK, Status, ActiveStatus, InactiveStatus
  <2>2. JobTypeOK'
    BY <1>37, <1>h DEF RecordFailure, Close, JobTypeOK, JobStatus, OpStatus, OpFinal, Lock
  <2>3. WorkerTypeOK'
    BY <1>37, <1>h DEF RecordFailure, Goto, NoJob, WorkerTypeOK, PC
  <2>4. CounterTypeOK'
    BY <1>37, <1>h DEF RecordFailure, Released, CounterTypeOK
  <2> QED  BY <1>37, <2>1, <2>2, <2>3, <2>4 DEF RecordFailure, Close, StreamTypeOK, HostTypeOK
<1>38. ASSUME NEW w \in Worker, Requeue(w) PROVE TypeOK'
  <2>1. StreamTypeOK'
    <3>1. pc[w] = "requeue" /\ Publish(JobAt(w), hand[w].attempts + 0)
      BY <1>38 DEF Requeue, Republish, JobAt
    <3>2. hand[w].attempts + 0 \in 0..MaxAttempts
      BY <3>1, <1>h, StreamAssumption DEF Message
    <3>3. stream' \in Seq(Message)
      BY <3>1, <3>2, <1>h, PublishType
    <3> QED  BY <1>38, <3>3 DEF Requeue, Republish, StreamTypeOK
  <2>2. WorkerTypeOK'
    BY <1>38, <1>h DEF Requeue, Goto, Republish, WorkerTypeOK, PC
  <2> QED  BY <1>38, <2>1, <2>2
      DEF Requeue, Republish, InstanceTypeOK, JobTypeOK, HostTypeOK, CounterTypeOK
<1>39. ASSUME NEW w \in Worker, Retry(w) PROVE TypeOK'
  <2>1. StreamTypeOK'
    <3>1. pc[w] = "retry" /\ Publish(JobAt(w), hand[w].attempts + 1)
      BY <1>39 DEF Retry, Republish, JobAt
    <3>2. hand[w].attempts + 1 \in 0..MaxAttempts
      BY <3>1, <1>h, StreamAssumption DEF Message, WorkerTypeOK
    <3>3. stream' \in Seq(Message)
      BY <3>1, <3>2, <1>h, PublishType
    <3> QED  BY <1>39, <3>3 DEF Retry, Republish, StreamTypeOK
  <2>2. WorkerTypeOK'
    BY <1>39, <1>h DEF Retry, Goto, Republish, WorkerTypeOK, PC
  <2> QED  BY <1>39, <2>1, <2>2
      DEF Retry, Republish, InstanceTypeOK, JobTypeOK, HostTypeOK, CounterTypeOK
<1>40. ASSUME NEW w \in Worker, AckMessage(w) PROVE TypeOK'
  <2>1. StreamTypeOK'
    BY <1>40, <1>h DEF AckMessage, Ack, StreamTypeOK, Worker
  <2>2. JobTypeOK'
    BY <1>40, <1>h DEF AckMessage, Ack, JobTypeOK, JobStatus, OpStatus, OpFinal, Lock
  <2>3. WorkerTypeOK'
    BY <1>40, <1>h
       DEF AckMessage, Goto, ForgetCall, NoJob, NoRow, Ack, WorkerTypeOK, PC, Row, Absent
  <2> QED  BY <1>40, <2>1, <2>2, <2>3
      DEF AckMessage, ForgetCall, Ack, InstanceTypeOK, HostTypeOK, CounterTypeOK
<1>41. ASSUME NEW w \in Worker, Crash(w) PROVE TypeOK'
  <2>1. StreamTypeOK'
    BY <1>41, <1>h DEF Crash, StreamTypeOK, Worker
  <2>2. WorkerTypeOK'
    BY <1>41, <1>h DEF Crash, NoJob, NoRow, WorkerTypeOK, PC, Row, Absent
  <2>3. CounterTypeOK'
    BY <1>41, <1>h DEF Crash, CounterTypeOK
  <2> QED  BY <1>41, <2>1, <2>2, <2>3 DEF Crash, InstanceTypeOK, JobTypeOK, HostTypeOK
<1>42. ASSUME NEW w \in Worker, Boot(w) PROVE TypeOK'
  <2>1. WorkerTypeOK'
    BY <1>42 DEF Boot, Goto, WorkerTypeOK, PC
  <2> QED  BY <1>42, <2>1
      DEF Boot, StreamTypeOK, InstanceTypeOK, JobTypeOK, HostTypeOK, CounterTypeOK
<1>43. ASSUME NEW w \in Worker, RenewLock(w) PROVE TypeOK'
  <2>1. JobTypeOK'
    BY <1>43, <1>h DEF RenewLock, JobTypeOK, JobStatus, OpStatus, OpFinal, Lock
  <2> QED  BY <1>43, <2>1
      DEF RenewLock, StreamTypeOK, InstanceTypeOK, WorkerTypeOK, HostTypeOK, CounterTypeOK
<1>44. ASSUME NEW j \in Job, LockExpires(j) PROVE TypeOK'
  <2>1. JobTypeOK'
    BY <1>44 DEF LockExpires, JobTypeOK, JobStatus, OpStatus, OpFinal, Lock
  <2> QED  BY <1>44, <2>1
      DEF LockExpires, StreamTypeOK, InstanceTypeOK, WorkerTypeOK, HostTypeOK, CounterTypeOK
<1>45. ASSUME NEW w \in Worker, NEW i \in Instance, ContainerLost(w, i) PROVE TypeOK'
  <2>1. HostTypeOK'
    <3>1. PICK c \in {NoContainer, [container[w][i] EXCEPT !.up = FALSE]} :
            container' = [container EXCEPT ![w][i] = c]
      BY <1>45 DEF ContainerLost
    <3>2. container[w][i] \in Container
      BY <1>45 DEF ContainerLost, HostTypeOK
    <3>3. c \in Container \cup {NoContainer}
      BY <3>2, UpType
    <3> QED  BY <3>1, <3>3 DEF HostTypeOK
  <2>2. CounterTypeOK'
    BY <1>45 DEF ContainerLost, Fault, CounterTypeOK
  <2> QED  BY <1>45, <2>1, <2>2
      DEF ContainerLost, Fault, StreamTypeOK, InstanceTypeOK, JobTypeOK, WorkerTypeOK
<1>46. CASE UNCHANGED vars
  BY <1>46 DEF StreamTypeOK, InstanceTypeOK, JobTypeOK, WorkerTypeOK, HostTypeOK,
       CounterTypeOK
<1>47. ASSUME NEW w \in Worker, ReadFails(w) PROVE TypeOK'
  <2>1. WorkerTypeOK'
    BY <1>47, <1>h DEF ReadFails, Goto, WorkerTypeOK, PC, Processing, Holding
  <2>2. CounterTypeOK'
    BY <1>47, <1>h DEF ReadFails, DbFault, CounterTypeOK
  <2> QED  BY <1>47, <2>1, <2>2
      DEF ReadFails, DbFault, StreamTypeOK, InstanceTypeOK, JobTypeOK, HostTypeOK
<1>48. ASSUME NEW w \in Worker, RecordMissing(w) PROVE TypeOK'
  <2>1. JobTypeOK'
    BY <1>48, <1>h DEF RecordMissing, Close, JobTypeOK, JobStatus, OpStatus, OpFinal, Lock
  <2>2. WorkerTypeOK'
    BY <1>48, <1>h DEF RecordMissing, Goto, WorkerTypeOK, PC
  <2> QED  BY <1>48, <2>1, <2>2
      DEF RecordMissing, Close, StreamTypeOK, InstanceTypeOK, HostTypeOK, CounterTypeOK
<1> QED  BY <1>1, <1>2, <1>3, <1>4, <1>5, <1>6, <1>7, <1>8, <1>9, <1>10, <1>11, <1>12, <1>13,
    <1>14, <1>15, <1>16, <1>17, <1>18, <1>19, <1>20, <1>21, <1>22, <1>23, <1>24, <1>25, <1>26,
    <1>27, <1>28, <1>29, <1>30, <1>31, <1>32, <1>33, <1>34, <1>35, <1>36, <1>37, <1>38,
    <1>39, <1>40, <1>41, <1>42, <1>43, <1>44, <1>45, <1>46, <1>47, <1>48
  DEF Next, API, Handle, Fails, Maintain, Environment

-----------------------------------------------------------------------------
(* The inductive invariant, action by action.                              *)

\* Inv without the parts that are shown separately.
ControlInv ==
    /\ HolderHasLock /\ JobMutex /\ OutcomeClosesJob
    /\ ValidRuntimeState /\ ReadCurrent /\ ExecutesOwn /\ NotOvertaken

\* No worker but w moves.
Others(w) ==
    \A v \in Worker \ {w} :
      pc'[v] = pc[v] /\ hand'[v] = hand[v] /\ row'[v] = row[v] /\ result'[v] = result[v]

\* What the control part of Inv reads of the database.
Rows == <<status, opOf, workerOf, sv, rid, jobInst, jobKind, jobStatus, lock, opStatus>>

\* Steps of w that write none of these rows and at whose end w either holds no
\* job, or goes on with the call it was in, or is about to record its failure.
Quiet(w) ==
    /\ Others(w) /\ UNCHANGED Rows
    /\ \/ pc'[w] \notin Holding \cup {"begin"}
       \/ /\ pc[w] \in Holding /\ hand'[w] = hand[w]
          /\ pc'[w] \in Executing \cup {"recordRetry", "recordFailure"}
          /\ pc'[w] \in Executing => pc[w] \in Executing

\* Such a step disturbs nothing: what w may know has only become less.
LEMMA QuietStep ==
  ASSUME Inv, NEW w \in Worker, Quiet(w)
  PROVE  ControlInv'
<1> USE DEF Inv, Quiet, Others, Rows, Holding, Executing, JobAt, InstAt, KindAt
<1>1. HolderHasLock' /\ JobMutex'
  BY DEF HolderHasLock, JobMutex
<1>2. OutcomeClosesJob'
  BY DEF OutcomeClosesJob
<1>3. ValidRuntimeState'
  BY DEF ValidRuntimeState
<1>4. ReadCurrent'
  BY DEF ReadCurrent
<1>5. ExecutesOwn' /\ NotOvertaken'
  BY DEF ExecutesOwn, NotOvertaken
<1> QED  BY <1>1, <1>2, <1>3, <1>4, <1>5 DEF ControlInv

\* createJob: the new job is not handled by anybody yet, and whoever handles an
\* older job of the instance now comes with one that the instance no longer wants.
LEMMA CreateStep ==
  ASSUME Inv, TypeOK', NEW i \in Instance, NEW j \in Job, NEW kind \in JobKind, NEW n \in Nat,
         CreateJob(i, j, kind, n), status' = [status EXCEPT ![i] = To(kind)],
         UNCHANGED <<workerOf, rid, pc, hand, row, result>>
  PROVE  ControlInv' /\ ResultKnown'
<1> USE DEF Inv, TypeOK, InstanceTypeOK, JobTypeOK, WorkerTypeOK, CreateJob
<1>1. \A w \in Worker : pc[w] \in Processing =>
        /\ JobAt(w) \in Job \ {j} /\ InstAt(w) \in Instance
        /\ JobAt(w)' = JobAt(w) /\ InstAt(w)' = InstAt(w) /\ KindAt(w)' = KindAt(w)
  BY MessageInHand DEF PublishedExist, JobAt, InstAt, KindAt
<1>2. \A k \in Job \ {j} : /\ jobStatus'[k] = jobStatus[k] /\ opStatus'[k] = opStatus[k]
                           /\ jobInst'[k] = jobInst[k] /\ jobKind'[k] = jobKind[k]
  OBVIOUS
<1>3. \A k \in Instance \ {i} : opOf'[k] = opOf[k] /\ sv'[k] = sv[k] /\ status'[k] = status[k]
  OBVIOUS
<1>4. /\ opOf'[i] = j /\ status'[i] = To(kind)
      /\ jobStatus'[j] = "queued" /\ jobInst'[j] = i
      /\ jobKind'[j] = kind /\ opStatus'[j] = "pending"
  OBVIOUS
<1>5. HolderHasLock' /\ JobMutex'
  BY <1>1, <1>2 DEF HolderHasLock, JobMutex, Processing
<1>6. OutcomeClosesJob'
  BY <1>2, <1>4 DEF OutcomeClosesJob, OpFinal
<1>7. ValidRuntimeState'
  <2> SUFFICES ASSUME NEW k \in Instance PROVE ValidRuntimeState!(k)'
    BY DEF ValidRuntimeState
  <2>1. CASE k = i
    BY <1>4, <2>1, ConstantsAssumption DEF To, JobKind, InOperation, NoJob
  <2>2. CASE k # i
    <3>1. opOf[k] # j /\ opOf[k] \in Job \cup {NoJob}
      BY ConstantsAssumption DEF ValidRuntimeState, OutcomeClosesJob, OpFinal, NoJob
    <3> QED  BY <3>1, <2>2, <1>2, <1>3 DEF ValidRuntimeState
  <2> QED  BY <2>1, <2>2
<1>8. ReadCurrent'
  BY <1>1, <1>3, <1>4 DEF ReadCurrent, Processing, Holding
<1>9. ExecutesOwn'
  BY <1>1 DEF ExecutesOwn, Processing, Holding
<1>10. NotOvertaken'
  BY <1>1, <1>3, <1>4 DEF NotOvertaken, Processing, Holding
<1>11. ResultKnown'
  BY <1>1 DEF ResultKnown, Processing, Holding, Executing
<1> QED  BY <1>5, <1>6, <1>7, <1>8, <1>9, <1>10, <1>11 DEF ControlInv

\* The actions that are quiet.
QuietAction(w) ==
    \/ Tick(w) \/ CleanupOrphans(w) \/ ReclaimNothing(w) \/ Reclaim(w)
    \/ Take(w) \/ CheckRefuse(w) \/ CheckFails(w) \/ RecordFails(w)
    \/ RedisFails(w) \/ SkipJob(w) \/ BeginFails(w) \/ ReadFails(w) \/ SupersedeFails(w)
    \/ ClaimFails(w) \/ ExecRestart(w) \/ ExecStop(w) \/ ExecFails(w)
    \/ ReuseContainer(w) \/ CreateContainer(w) \/ CreateFails(w) \/ StartContainer(w)
    \/ StartFails(w) \/ CommitFails(w) \/ Requeue(w) \/ Retry(w)
    \/ AckMessage(w) \/ Crash(w) \/ Boot(w)

\* They are: each of them by its own UNCHANGED and the control point it leads to.
LEMMA QuietActions ==
  ASSUME TypeOK, TypeOK', NEW w \in Worker, QuietAction(w)
  PROVE  Quiet(w)
<1> USE DEF Quiet, Others, Rows, TypeOK, StreamTypeOK, WorkerTypeOK, Worker, Goto, Holding,
    Executing,
            instVars, jobVars, procVars, streamVars, WorkerOnly, DockerOnly, StreamOnly
<1>1. CASE Tick(w)
  BY <1>1 DEF Tick
<1>2. CASE CleanupOrphans(w)
  BY <1>2 DEF CleanupOrphans
<1>3. CASE ReclaimNothing(w)
  BY <1>3 DEF ReclaimNothing
<1>4. CASE Reclaim(w)
  BY <1>4 DEF Reclaim, ClaimStale
<1>5. CASE Take(w)
  BY <1>5 DEF Take, Receive
<1>6. CASE CheckRefuse(w)
  BY <1>6 DEF CheckRefuse
<1>7. CASE CheckFails(w)
  BY <1>7 DEF CheckFails, LeavePending, ForgetCall, Abandon
<1>8. CASE RecordFails(w)
  BY <1>8 DEF RecordFails, LeavePending, ForgetCall, Abandon
<1>9. CASE RedisFails(w)
  BY <1>9 DEF RedisFails, LeavePending, ForgetCall, Abandon
<1>10. CASE SkipJob(w)
  BY <1>10 DEF SkipJob
<1>11. CASE BeginFails(w)
  BY <1>11 DEF BeginFails
<1>12. CASE SupersedeFails(w)
  BY <1>12 DEF SupersedeFails
<1>13. CASE ClaimFails(w)
  BY <1>13 DEF ClaimFails, FailedTo
<1>14. CASE ExecRestart(w)
  BY <1>14 DEF ExecRestart, FailedTo, Returns
<1>15. CASE ExecStop(w)
  BY <1>15 DEF ExecStop, Returns
<1>16. CASE ExecFails(w)
  BY <1>16 DEF ExecFails, FailedTo
<1>17. CASE ReuseContainer(w)
  BY <1>17 DEF ReuseContainer, Returns
<1>18. CASE CreateContainer(w)
  BY <1>18 DEF CreateContainer, Returns
<1>19. CASE CreateFails(w)
  BY <1>19 DEF CreateFails, FailedTo
<1>20. CASE StartContainer(w)
  BY <1>20 DEF StartContainer
<1>21. CASE StartFails(w)
  BY <1>21 DEF StartFails, FailedTo
<1>22. CASE CommitFails(w)
  BY <1>22 DEF CommitFails
<1>23. CASE Requeue(w)
  BY <1>23 DEF Requeue, Republish
<1>24. CASE Retry(w)
  BY <1>24 DEF Retry, Republish
<1>25. CASE AckMessage(w)
  BY <1>25 DEF AckMessage, Ack, ForgetCall
<1>26. CASE Crash(w)
  BY <1>26 DEF Crash
<1>27. CASE Boot(w)
  BY <1>27 DEF Boot
<1>28. CASE ReadFails(w)
  BY <1>28 DEF ReadFails
<1> QED  BY <1>1, <1>2, <1>3, <1>4, <1>5, <1>6, <1>7, <1>8, <1>9, <1>10, <1>11, <1>12, <1>13,
    <1>14, <1>15, <1>16, <1>17, <1>18, <1>19, <1>20, <1>21, <1>22, <1>23, <1>24, <1>25, <1>26,
         <1>27, <1>28 DEF QuietAction

\* A step that moves no worker and writes none of the rows.
LEMMA StillStep ==
  ASSUME Inv, UNCHANGED <<Rows, pc, hand, row, result>>
  PROVE  ControlInv' /\ ResultKnown'
BY DEF Inv, Rows, ControlInv, HolderHasLock, JobMutex, OutcomeClosesJob, ValidRuntimeState,
   ReadCurrent,
       ExecutesOwn, NotOvertaken, ResultKnown, JobAt, InstAt, KindAt

\* Reconcile interrupts only instances that wait for no operation, so it cannot
\* invalidate a row that a worker with a wanted job has read.
LEMMA ReconcileStep ==
  ASSUME Inv, NEW w \in Worker, Reconcile(w)
  PROVE  ControlInv'
<1> USE DEF Inv, TypeOK, InstanceTypeOK, WorkerTypeOK, Reconcile, instVars, jobVars, streamVars
<1>1. Others(w) /\ pc'[w] \notin Holding \cup {"begin"}
  BY DEF Others, Goto, Holding, Executing
<1>2. HolderHasLock' /\ JobMutex'
  BY <1>1 DEF HolderHasLock, JobMutex, Others, JobAt
<1>3. OutcomeClosesJob'
  BY DEF OutcomeClosesJob
<1>4. \A i \in Instance :
        \/ status'[i] = status[i] /\ sv'[i] = sv[i]
        \/ status'[i] = "interrupted" /\ opOf[i] = NoJob
  <2>1. \A i \in Instance : Invalid(w, i) \/ Drifted(w, i) => opOf[i] = NoJob
    BY DEF ValidRuntimeState, Invalid, Drifted, InOperation
  <2> QED  BY <2>1
<1>5. ValidRuntimeState'
  BY <1>4 DEF ValidRuntimeState, InOperation
<1>6. ReadCurrent'
  <2> SUFFICES ASSUME NEW v \in Worker, pc'[v] = "claim", (opOf[InstAt(v)] = JobAt(v))'
               PROVE  (row[v].sv = sv[InstAt(v)])'
    BY DEF ReadCurrent
  <2>1. /\ v # w /\ pc[v] = "claim" /\ row'[v] = row[v]
        /\ InstAt(v)' = InstAt(v) /\ JobAt(v)' = JobAt(v)
    BY <1>1 DEF Others, Holding, JobAt, InstAt
  <2>2. JobAt(v) \in Job /\ InstAt(v) \in Instance
    BY <2>1, MessageInHand DEF Processing, Holding
  <2> QED  BY <2>1, <2>2, <1>4, ConstantsAssumption DEF ReadCurrent, NoJob
<1>7. ExecutesOwn' /\ NotOvertaken'
  BY <1>1 DEF ExecutesOwn, NotOvertaken, Others, Holding, JobAt, InstAt
<1> QED  BY <1>2, <1>3, <1>5, <1>6, <1>7 DEF ControlInv

\* canProcess passes no worker while another one drives Docker for the instance:
\* the instance is pinned to that one.
LEMMA CheckAcceptStep ==
  ASSUME Inv, NEW w \in Worker, CheckAccept(w)
  PROVE  ControlInv'
<1> USE DEF Inv, TypeOK, WorkerTypeOK, CheckAccept, Goto, WorkerOnly, instVars, jobVars,
    streamVars,
            JobAt, InstAt, KindAt
<1>1. HolderHasLock' /\ JobMutex'
  BY DEF HolderHasLock, JobMutex, Holding, Executing
<1>2. OutcomeClosesJob' /\ ValidRuntimeState'
  BY DEF OutcomeClosesJob, ValidRuntimeState
<1>3. ReadCurrent' /\ ExecutesOwn'
  BY DEF ReadCurrent, ExecutesOwn, Executing
<1>4. NotOvertaken'
  BY ConstantsAssumption DEF NotOvertaken, ExecutesOwn, Executing, Pinned, Worker
<1> QED  BY <1>1, <1>2, <1>3, <1>4 DEF ControlInv

\* The job lock is what makes handlers of one job exclude each other.
LEMMA LockJobStep ==
  ASSUME Inv, NEW w \in Worker, LockJob(w)
  PROVE  ControlInv'
<1> USE DEF Inv, TypeOK, JobTypeOK, WorkerTypeOK, LockJob, Goto, instVars, streamVars
<1>h. JobAt(w) \in Job
  BY MessageInHand DEF Processing
<1>1. /\ \A v \in Worker : JobAt(v)' = JobAt(v) /\ InstAt(v)' = InstAt(v)
      /\ \A v \in Worker : v # w /\ pc[v] \in Holding => JobAt(v) # JobAt(w)
  BY DEF HolderHasLock, Skip, JobAt, InstAt
<1>2. HolderHasLock'
  BY <1>h, <1>1 DEF HolderHasLock, Holding
<1>3. JobMutex'
  BY <1>1 DEF JobMutex
<1>4. OutcomeClosesJob'
  BY <1>h DEF OutcomeClosesJob, OpFinal, Skip
<1>5. ValidRuntimeState'
  BY <1>h DEF ValidRuntimeState, OpFinal
<1>6. ReadCurrent' /\ ExecutesOwn' /\ NotOvertaken'
  BY <1>1 DEF ReadCurrent, ExecutesOwn, NotOvertaken, Executing
<1> QED  BY <1>2, <1>3, <1>4, <1>5, <1>6 DEF ControlInv

\* Reading the instance makes the row of the reader current.
LEMMA ReadInstanceStep ==
  ASSUME Inv, NEW w \in Worker, ReadInstance(w)
  PROVE  ControlInv'
<1> USE DEF Inv, TypeOK, WorkerTypeOK, ReadInstance, Goto, WorkerOnly, instVars, jobVars,
    streamVars,
            JobAt, InstAt
<1>1. HolderHasLock' /\ JobMutex'
  BY DEF HolderHasLock, JobMutex, Holding
<1>2. OutcomeClosesJob' /\ ValidRuntimeState'
  BY DEF OutcomeClosesJob, ValidRuntimeState
<1>3. ReadCurrent'
  BY DEF ReadCurrent
<1>4. ExecutesOwn' /\ NotOvertaken'
  BY DEF ExecutesOwn, NotOvertaken, Executing
<1> QED  BY <1>1, <1>2, <1>3, <1>4 DEF ControlInv

\* The claim is the hard step: nobody else can be driving Docker for the instance,
\* because he would come with the same job (JobMutex) or w with an unwanted one.
LEMMA ClaimStep ==
  ASSUME Inv, NEW w \in Worker, Claim(w)
  PROVE  ControlInv'
<1> USE DEF Inv, TypeOK, InstanceTypeOK, WorkerTypeOK, Claim, Goto, jobVars, streamVars
<1>h. pc[w] = "claim" /\ JobAt(w) \in Job /\ InstAt(w) \in Instance /\ opOf[InstAt(w)] = JobAt(w)
  BY MessageInHand DEF Processing, Holding, Owned
<1>1. \A v \in Worker : JobAt(v)' = JobAt(v) /\ InstAt(v)' = InstAt(v) /\ KindAt(v)' = KindAt(v)
  BY DEF JobAt, InstAt, KindAt
<1>2. HolderHasLock' /\ JobMutex'
  BY <1>h, <1>1 DEF HolderHasLock, JobMutex, Holding, Executing
<1>3. OutcomeClosesJob'
  BY DEF OutcomeClosesJob
<1>4. ValidRuntimeState'
  <2>1. status[InstAt(w)] \in InOperation \cup {"pending"}
    BY <1>h, ConstantsAssumption DEF ValidRuntimeState, NoJob
  <2> QED  BY <2>1, <1>h, ConstantsAssumption DEF ValidRuntimeState, InOperation, KindAt, NoJob
<1>5. ReadCurrent'
  BY <1>h, <1>1 DEF ReadCurrent, JobMutex, Holding
<1>6. \A v \in Worker : v # w /\ pc[v] \in Executing => InstAt(v) # InstAt(w)
  BY <1>h DEF NotOvertaken, JobMutex, Holding, Executing
<1>7. ExecutesOwn'
  BY <1>h, <1>1, <1>6 DEF ExecutesOwn
<1>8. NotOvertaken'
  BY <1>h, <1>1 DEF NotOvertaken, Executing
<1> QED  BY <1>2, <1>3, <1>4, <1>5, <1>7, <1>8 DEF ControlInv

\* Closing a job that w holds: w lets go of it and nobody else held it.
LEMMA ClosingStep ==
  ASSUME Inv, NEW w \in Worker, pc[w] \in Holding, Others(w), UNCHANGED hand,
         pc'[w] \notin Holding \cup {"begin"},
         NEW js \in {"completed", "failed"}, NEW os \in OpFinal, Close(JobAt(w), js, os)
  PROVE  HolderHasLock' /\ JobMutex' /\ OutcomeClosesJob'
<1> USE DEF Inv, TypeOK, JobTypeOK, Close, Others
<1>h. JobAt(w) \in Job
  BY MessageInHand DEF Processing
<1>1. \A v \in Worker : JobAt(v)' = JobAt(v)
  BY DEF JobAt
<1>2. HolderHasLock' /\ JobMutex'
  BY <1>h, <1>1, MessageInHand DEF HolderHasLock, JobMutex, Processing
<1>3. OutcomeClosesJob'
  BY <1>h DEF OutcomeClosesJob
<1> QED  BY <1>2, <1>3

\* supersede closes a job that no instance waits for.
LEMMA SupersedeStep ==
  ASSUME Inv, NEW w \in Worker, Supersede(w)
  PROVE  ControlInv'
<1> USE DEF Inv, TypeOK, InstanceTypeOK, JobTypeOK, WorkerTypeOK, Supersede, Goto, instVars,
    streamVars
<1>h. pc[w] = "claim" /\ JobAt(w) \in Job /\ InstAt(w) \in Instance
  BY MessageInHand DEF Processing, Holding
<1>1. Others(w) /\ pc'[w] = "ack"
  BY DEF Others
<1>2. \A v \in Worker : JobAt(v)' = JobAt(v) /\ InstAt(v)' = InstAt(v)
  BY DEF JobAt, InstAt, Close
<1>3. HolderHasLock' /\ JobMutex' /\ OutcomeClosesJob'
  BY <1>h, <1>1, ClosingStep DEF Holding, Executing, OpFinal
<1>4. \A i \in Instance : opOf[i] # JobAt(w)
  <2>1. opOf[InstAt(w)] # JobAt(w)
    BY <1>h DEF Owned, ReadCurrent
  <2> QED  BY <2>1, <1>h, ConstantsAssumption DEF ValidRuntimeState, InstAt, NoJob
<1>5. ValidRuntimeState'
  BY <1>h, <1>4 DEF ValidRuntimeState, Close
<1>6. ReadCurrent'
  BY <1>1, <1>2 DEF ReadCurrent, Others
<1>7. ExecutesOwn' /\ NotOvertaken'
  BY <1>1, <1>2 DEF ExecutesOwn, NotOvertaken, Others, Executing
<1> QED  BY <1>3, <1>5, <1>6, <1>7 DEF ControlInv

\* The outcome of a job that the instance waits for ends its operation.
LEMMA CommitStep ==
  ASSUME Inv, NEW w \in Worker, Commit(w)
  PROVE  ControlInv'
<1> USE DEF Inv, TypeOK, InstanceTypeOK, JobTypeOK, WorkerTypeOK, streamVars
<1>h. /\ pc[w] = "commit" /\ JobAt(w) \in Job /\ InstAt(w) \in Instance
      /\ opOf[InstAt(w)] = JobAt(w)
  BY MessageInHand DEF Processing, Holding, Executing, Commit, Owned
<1>1. Others(w) /\ pc'[w] = "ack"
  BY DEF Others, Commit, Goto
<1>2. \A v \in Worker : JobAt(v)' = JobAt(v) /\ InstAt(v)' = InstAt(v)
  BY DEF JobAt, InstAt, Close, Commit
<1>3. HolderHasLock' /\ JobMutex' /\ OutcomeClosesJob'
  BY <1>h, <1>1, ClosingStep DEF Holding, Executing, OpFinal, Commit
<1>4. opOf' = [opOf EXCEPT ![InstAt(w)] = NoJob]
  BY DEF Commit
<1>5. ValidRuntimeState'
  <2> SUFFICES ASSUME NEW i \in Instance PROVE ValidRuntimeState!(i)'
    BY DEF ValidRuntimeState
  <2>1. CASE i = InstAt(w)
    <3>1. CASE KindAt(w) \in {"stop", "expire"}
      BY <1>h, <1>4, <2>1, <3>1 DEF Commit, InOperation
    <3>2. CASE KindAt(w) \notin {"stop", "expire"}
      <4>1. status'[i] = "running" /\ rid'[i] = result[w]
        BY <1>h, <2>1, <3>2 DEF Commit
      <4> QED  BY <1>h, <1>4, <2>1, <3>2, <4>1 DEF ResultKnown, InOperation
    <3> QED  BY <3>1, <3>2
  <2>2. CASE i # InstAt(w)
    <3>1. opOf[i] # JobAt(w)
      BY <1>h, <2>2, ConstantsAssumption DEF ValidRuntimeState, InstAt, NoJob
    <3>2. /\ status'[i] = status[i] /\ opOf'[i] = opOf[i] /\ rid'[i] = rid[i]
          /\ jobInst' = jobInst /\ jobKind' = jobKind
          /\ \A j \in Job \ {JobAt(w)} : jobStatus'[j] = jobStatus[j] /\ opStatus'[j] = opStatus[j]
      BY <1>h, <2>2 DEF Commit, Close
    <3> QED  BY <3>1, <3>2, ConstantsAssumption DEF ValidRuntimeState, NoJob
  <2> QED  BY <2>1, <2>2
<1>6. ReadCurrent'
  <2>1. \A v \in Worker : pc'[v] = "claim" =>
         JobAt(v) \in Job /\ InstAt(v) \in Instance /\ pc[v] = "claim" /\ v # w
    BY <1>1, MessageInHand DEF Others, Processing, Holding
  <2> QED  BY <1>1, <1>2, <1>4, <2>1, ConstantsAssumption DEF ReadCurrent, Others, Commit, NoJob
<1>7. ExecutesOwn'
  BY <1>1, <1>2 DEF ExecutesOwn, Others, Executing, Commit
<1>8. NotOvertaken'
  <2>1. \A v \in Worker : pc'[v] \in {"begin", "read",
        "claim"} => JobAt(v) \in Job /\ InstAt(v) \in Instance /\ pc[v] = pc'[v] /\ v # w
    BY <1>1, MessageInHand DEF Others, Processing, Holding
  <2> QED  BY <1>h, <1>1, <1>2, <1>4, <2>1, ConstantsAssumption
      DEF NotOvertaken, Others, Executing, NoJob
<1> QED  BY <1>3, <1>5, <1>6, <1>7, <1>8 DEF ControlInv

\* recordFailure ends the operation only if the instance still waits for this job.
LEMMA RecordFailureStep ==
  ASSUME Inv, NEW w \in Worker, RecordFailure(w)
  PROVE  ControlInv'
<1> USE DEF Inv, TypeOK, InstanceTypeOK, JobTypeOK, WorkerTypeOK, streamVars
<1>h. pc[w] = "recordFailure" /\ JobAt(w) \in Job /\ InstAt(w) \in Instance
  BY MessageInHand DEF Processing, Holding, RecordFailure
<1>1. Others(w) /\ pc'[w] = "ack"
  BY DEF Others, RecordFailure, Goto
<1>2. \A v \in Worker : JobAt(v)' = JobAt(v) /\ InstAt(v)' = InstAt(v)
  BY DEF JobAt, InstAt, Close, RecordFailure
<1>3. HolderHasLock' /\ JobMutex' /\ OutcomeClosesJob'
  BY <1>h, <1>1, ClosingStep DEF Holding, Executing, OpFinal, RecordFailure
<1>4. \A i \in Instance :
        \/ opOf[i] # JobAt(w) /\ status'[i] = status[i] /\ opOf'[i] = opOf[i] /\ sv'[i] = sv[i]
        \/ status'[i] = "failed" /\ opOf'[i] = NoJob
  BY <1>h, ConstantsAssumption DEF RecordFailure, ValidRuntimeState, InstAt, NoJob
<1>5. ValidRuntimeState'
  <2>1. /\ rid' = rid /\ jobInst' = jobInst /\ jobKind' = jobKind
        /\ \A j \in Job \ {JobAt(w)} : jobStatus'[j] = jobStatus[j] /\ opStatus'[j] = opStatus[j]
    BY <1>h DEF RecordFailure, Close
  <2> QED  BY <1>4, <2>1, ConstantsAssumption DEF ValidRuntimeState, InOperation, NoJob
<1>6. ReadCurrent'
  <2>1. \A v \in Worker : pc'[v] = "claim" =>
         JobAt(v) \in Job /\ InstAt(v) \in Instance /\ pc[v] = "claim" /\ v # w
    BY <1>1, MessageInHand DEF Others, Processing, Holding
  <2> QED  BY <1>1, <1>2, <1>4, <2>1, ConstantsAssumption DEF ReadCurrent, Others, NoJob
<1>7. ExecutesOwn'
  BY <1>1, <1>2 DEF ExecutesOwn, Others, Executing, RecordFailure
<1>8. NotOvertaken'
  <2>1. \A v \in Worker : pc'[v] \in {"begin", "read",
        "claim"} => JobAt(v) \in Job /\ InstAt(v) \in Instance /\ pc[v] = pc'[v] /\ v # w
    BY <1>1, MessageInHand DEF Others, Processing, Holding
  <2> QED  BY <1>1, <1>2, <1>4, <2>1, ConstantsAssumption
      DEF NotOvertaken, Others, Executing, NoJob
<1> QED  BY <1>3, <1>5, <1>6, <1>7, <1>8 DEF ControlInv

\* Without an instance it closes the job, and the instance may go on waiting for it.
LEMMA RecordMissingStep ==
  ASSUME Inv, NEW w \in Worker, RecordMissing(w)
  PROVE  ControlInv'
<1> USE DEF Inv, TypeOK, InstanceTypeOK, JobTypeOK, WorkerTypeOK, RecordMissing, Goto, instVars,
    streamVars
<1>h. pc[w] = "recordFailure" /\ JobAt(w) \in Job /\ InstAt(w) \in Instance
  BY MessageInHand DEF Processing, Holding
<1>1. Others(w) /\ pc'[w] = "ack"
  BY DEF Others
<1>2. \A v \in Worker : JobAt(v)' = JobAt(v) /\ InstAt(v)' = InstAt(v)
  BY DEF JobAt, InstAt, Close
<1>3. HolderHasLock' /\ JobMutex' /\ OutcomeClosesJob'
  BY <1>h, <1>1, ClosingStep DEF Holding, Executing, OpFinal
<1>4. ValidRuntimeState'
  BY <1>h DEF ValidRuntimeState, Close
<1>5. ReadCurrent'
  BY <1>1, <1>2 DEF ReadCurrent, Others
<1>6. ExecutesOwn' /\ NotOvertaken'
  BY <1>1, <1>2 DEF ExecutesOwn, NotOvertaken, Others, Executing
<1> QED  BY <1>3, <1>4, <1>5, <1>6 DEF ControlInv

\* recordRetry gives the job back: nobody holds it any more.
LEMMA RecordRetryStep ==
  ASSUME Inv, NEW w \in Worker, RecordRetry(w)
  PROVE  ControlInv'
<1> USE DEF Inv, TypeOK, JobTypeOK, WorkerTypeOK, RecordRetry, Goto, instVars, streamVars
<1>h. pc[w] = "recordRetry" /\ JobAt(w) \in Job
  BY MessageInHand DEF Processing, Holding
<1>1. \A v \in Worker : JobAt(v)' = JobAt(v) /\ InstAt(v)' = InstAt(v)
  BY DEF JobAt, InstAt
<1>2. HolderHasLock' /\ JobMutex'
  BY <1>h, <1>1, MessageInHand DEF HolderHasLock, JobMutex, Holding, Executing, Processing
<1>3. OutcomeClosesJob'
  BY <1>h DEF OutcomeClosesJob, OpFinal
<1>4. ValidRuntimeState'
  BY <1>h DEF ValidRuntimeState
<1>5. ReadCurrent' /\ ExecutesOwn' /\ NotOvertaken'
  BY <1>1 DEF ReadCurrent, ExecutesOwn, NotOvertaken, Executing
<1> QED  BY <1>2, <1>3, <1>4, <1>5 DEF ControlInv

\* A lock only expires when nobody holds the job.
LEMMA LockExpiresStep ==
  ASSUME Inv, NEW j \in Job, LockExpires(j)
  PROVE  ControlInv'
<1> USE DEF Inv, LockExpires, instVars, procVars, streamVars, JobAt, InstAt
<1>1. HolderHasLock' /\ JobMutex'
  BY DEF HolderHasLock, JobMutex, Held, TypeOK, JobTypeOK
<1>2. OutcomeClosesJob' /\ ValidRuntimeState'
  BY DEF OutcomeClosesJob, ValidRuntimeState
<1>3. ReadCurrent' /\ ExecutesOwn' /\ NotOvertaken'
  BY DEF ReadCurrent, ExecutesOwn, NotOvertaken
<1> QED  BY <1>1, <1>2, <1>3 DEF ControlInv

\* Where a commit as "running" can follow, a Docker call has returned an id.
LEMMA ResultKnownStep ==
  ASSUME Inv, TypeOK', NEW w \in Worker,
         QuietAction(w) \/ Reconcile(w) \/ CheckAccept(w) \/ LockJob(w) \/ ReadInstance(w)
           \/ Claim(w) \/ Supersede(w) \/ Commit(w) \/ RecordRetry(w) \/ RecordFailure(w)
           \/ RecordMissing(w)
  PROVE  ResultKnown'
<1> USE DEF Inv, TypeOK, WorkerTypeOK, Goto, instVars, jobVars, procVars, streamVars,
    WorkerOnly, DockerOnly, StreamOnly
<1>1. Others(w) /\ UNCHANGED <<jobInst, jobKind>>
  <2>1. CASE QuietAction(w)
    BY <2>1, QuietActions DEF Quiet, Rows
  <2>2. CASE Reconcile(w) \/ CheckAccept(w) \/ LockJob(w) \/ ReadInstance(w)
    BY <2>2 DEF Others, Reconcile, CheckAccept, LockJob, ReadInstance
  <2>3. CASE \/ Claim(w) \/ Supersede(w) \/ Commit(w) \/ RecordRetry(w) \/ RecordFailure(w)
             \/ RecordMissing(w)
    BY <2>3 DEF Others, Claim, Supersede, Commit, RecordRetry, RecordFailure, RecordMissing, Close
  <2> QED  BY <2>1, <2>2, <2>3
<1>2. \A v \in Worker \ {w} : KindAt(v)' = KindAt(v) /\ pc'[v] = pc[v] /\ result'[v] = result[v]
  BY <1>1 DEF Others, KindAt, JobAt
<1>3. SUFFICES ASSUME \/ pc'[w] \in {"launch", "recover"}
                      \/ pc'[w] = "commit" /\ KindAt(w)' \notin {"stop", "expire"}
               PROVE  result'[w] # NoJob
  BY <1>2 DEF ResultKnown
<1>4. CASE ExecRestart(w)
  <2>1. result'[w] = Here(w).id /\ Here(w) \in Container
    BY <1>3, <1>4, MessageInHand DEF ExecRestart, IsOld, Here, HostTypeOK, Returns, FailedTo,
       Processing, Holding, Executing
  <2> QED  BY <2>1, ConstantsAssumption DEF Container, NoJob
<1>5. CASE ExecStop(w)
  <2>1. pc'[w] = "commit" => KindAt(w) \in {"stop", "expire"}
    BY <1>5 DEF ExecStop
  <2>2. KindAt(w)' = KindAt(w)
    BY <1>1, <1>5 DEF ExecStop, KindAt, JobAt
  <2> QED  BY <1>3, <1>5, <2>1, <2>2 DEF ExecStop
<1>6. CASE ReuseContainer(w)
  <2>1. result'[w] = Here(w).id /\ Here(w) \in Container
    BY <1>6, MessageInHand
       DEF ReuseContainer, Here, HostTypeOK, Returns, Processing, Holding, Executing
  <2> QED  BY <2>1, ConstantsAssumption DEF Container, NoJob
<1>7. CASE CreateContainer(w)
  <2>1. result'[w] = JobAt(w) /\ JobAt(w) \in Job
    BY <1>7, MessageInHand DEF CreateContainer, Returns, Processing, Holding, Executing
  <2> QED  BY <2>1, ConstantsAssumption DEF NoJob
<1>8. CASE StartContainer(w)
  BY <1>8 DEF StartContainer, ResultKnown
<1>9. CASE \/ Tick(w) \/ CleanupOrphans(w) \/ ReclaimNothing(w) \/ Reclaim(w) \/ Take(w)
           \/ CheckRefuse(w) \/ CheckFails(w) \/ RecordFails(w) \/ RedisFails(w) \/ SkipJob(w)
           \/ BeginFails(w) \/ SupersedeFails(w) \/ ClaimFails(w) \/ ExecFails(w) \/ CreateFails(w)
           \/ StartFails(w) \/ CommitFails(w) \/ ReadFails(w)
  BY <1>3, <1>9
     DEF ReadFails, Tick, CleanupOrphans, ReclaimNothing, Reclaim, Take, CheckRefuse, CheckFails,
     RecordFails, RedisFails, SkipJob, BeginFails, SupersedeFails, ClaimFails, ExecFails,
     CreateFails, StartFails, CommitFails, LeavePending, FailedTo
<1>10. CASE \/ Requeue(w) \/ Retry(w) \/ AckMessage(w) \/ Crash(w) \/ Boot(w) \/ Reconcile(w)
            \/ CheckAccept(w) \/ LockJob(w) \/ ReadInstance(w) \/ Claim(w) \/ Supersede(w)
            \/ Commit(w) \/ RecordRetry(w) \/ RecordFailure(w) \/ RecordMissing(w)
  BY <1>3, <1>10 DEF RecordMissing, Requeue, Retry, AckMessage, Crash, Boot, Reconcile, CheckAccept, LockJob,
     ReadInstance, Claim, Supersede, Commit, RecordRetry, RecordFailure
<1> QED  BY <1>4, <1>5, <1>6, <1>7, <1>8, <1>9, <1>10 DEF QuietAction

\* XADD of a job that was created adds no message of one that was not.
LEMMA AppendedExist ==
  ASSUME Inv, NEW j \in Job, NEW attempts \in Nat, jobStatus[j] # "none", Publish(j, attempts)
  PROVE  \A n \in DOMAIN stream' : jobStatus[stream'[n].job] # "none"
<1>1. PICK c \in Copy : stream' = Append(stream, [copy |-> c, job |-> j, attempts |-> attempts])
  BY DEF Publish
<1>2. stream \in Seq(Message)
  BY DEF Inv, TypeOK, StreamTypeOK
<1>3. ASSUME NEW n \in DOMAIN stream' PROVE jobStatus[stream'[n].job] # "none"
  <2>1. CASE n = Len(stream) + 1
    BY <1>1, <1>2, <2>1
  <2>2. CASE n \in DOMAIN stream
    BY <1>1, <1>2, <2>2 DEF Inv, PublishedExist
  <2> QED  BY <1>1, <1>2, <1>3, <2>1, <2>2
<1> QED  BY <1>3

\* Jobs are only published, delivered and republished after they were created.
LEMMA PublishedStep ==
  ASSUME Inv, [Next]_vars
  PROVE  PublishedExist'
<1> USE DEF Inv, TypeOK, StreamTypeOK, JobTypeOK, Worker, vars, instVars, jobVars, procVars,
    streamVars,
        WorkerOnly, DockerOnly, StreamOnly, JobAt
<1>h. \A w \in Worker : pc[w] \in Processing => JobAt(w) \in Job
  BY MessageInHand
<1>j. /\ \A n \in DOMAIN stream : stream[n].job \in Job
      /\ \A m \in pending : m.job \in Job
      /\ \A w \in Worker : hand[w] # NoMessage => hand[w].job \in Job
  <2>1. \A n \in DOMAIN stream : stream[n] \in Message
    OBVIOUS
  <2> QED  BY <2>1 DEF Message
<1>1. ASSUME NEW i \in Instance, NEW j \in Job, NEW kind \in JobKind, NEW n \in Nat,
             CreateJob(i, j, kind, n), UNCHANGED streamVars
      PROVE  PublishedExist'
  <2>1. /\ outbox' = outbox \cup {j} /\ jobStatus'[j] = "queued"
        /\ \A k \in Job : jobStatus[k] # "none" => jobStatus'[k] # "none"
    BY <1>1 DEF CreateJob
  <2> QED  BY <1>1, <2>1, <1>j DEF PublishedExist
<1>2. ASSUME NEW w \in Worker,
      \/ LockJob(w) \/ Supersede(w) \/ Commit(w) \/ RecordRetry(w) \/ RecordFailure(w)
      \/ RecordMissing(w)
      PROVE  PublishedExist'
  <2>1. /\ UNCHANGED <<outbox, streamVars>>
        /\ \A k \in Job : jobStatus[k] # "none" => jobStatus'[k] # "none"
    BY <1>2, <1>h
       DEF LockJob, Supersede, Commit, RecordRetry, RecordFailure, RecordMissing, Close, Processing,
       Holding, Executing
  <2> QED  BY <2>1, <1>j DEF PublishedExist
<1>3. ASSUME NEW w \in Worker, PublishOutbox(w) PROVE PublishedExist'
  <2>1. PICK j \in outbox : Publish(j, 0)
    BY <1>3 DEF PublishOutbox
  <2>2. \A n \in DOMAIN stream' : jobStatus[stream'[n].job] # "none"
    BY <2>1, AppendedExist DEF PublishedExist
  <2> QED  BY <1>3, <2>2 DEF PublishOutbox, PublishedExist
<1>4. ASSUME NEW w \in Worker, Requeue(w) \/ Retry(w) PROVE PublishedExist'
  <2>1. hand[w] \in Message /\ hand[w] # NoMessage /\ UNCHANGED <<outbox, pending, hand,
        jobStatus>>
    BY <1>4, MessageInHand DEF Requeue, Retry, Republish, Processing
  <2>2. \E more \in {0, 1} : Publish(hand[w].job, hand[w].attempts + more)
    BY <1>4 DEF Requeue, Retry, Republish
  <2>3. \A n \in DOMAIN stream' : jobStatus[stream'[n].job] # "none"
    BY <2>1, <2>2, AppendedExist, StreamAssumption DEF PublishedExist, Message
  <2> QED  BY <2>1, <2>3 DEF PublishedExist
<1>5. ASSUME NEW w \in Worker, Take(w) PROVE PublishedExist'
  <2>1. /\ stream \in Seq(Message) /\ stream # <<>> /\ stream' = Tail(stream)
        /\ pending' = pending \cup {Head(stream)} /\ hand' = [hand EXCEPT ![w] = Head(stream)]
        /\ UNCHANGED <<outbox, jobStatus>>
    BY <1>5 DEF Take, Receive
  <2>2. jobStatus[Head(stream).job] # "none"
    BY <2>1 DEF PublishedExist
  <2>3. \A n \in DOMAIN stream' : n + 1 \in DOMAIN stream /\ stream'[n] = stream[n + 1]
    BY <2>1
  <2> QED  BY <2>1, <2>2, <2>3 DEF PublishedExist
<1>6. ASSUME NEW w \in Worker,
      \/ Reclaim(w) \/ AckMessage(w) \/ Crash(w) \/ CheckFails(w) \/ RecordFails(w) \/ RedisFails(w)
      PROVE  PublishedExist'
  <2>1. /\ UNCHANGED <<outbox, stream, jobStatus>> /\ pending' \in SUBSET pending
        /\ \A v \in Worker : hand'[v] \in {hand[v], NoMessage} \cup pending
    BY <1>6 DEF Reclaim, ClaimStale, AckMessage, Ack, Crash, CheckFails, RecordFails,
       RedisFails, LeavePending, Abandon
  <2> QED  BY <2>1 DEF PublishedExist
<1>7. CASE UNCHANGED <<outbox, stream, pending, hand, jobStatus>>
  BY <1>7 DEF PublishedExist
<1>8. ASSUME NEW w \in Worker,
             \/ Tick(w) \/ Reconcile(w) \/ CleanupOrphans(w) \/ ReclaimNothing(w) \/ CheckAccept(w)
             \/ CheckRefuse(w) \/ SkipJob(w) \/ BeginFails(w) \/ ReadInstance(w) \/ Claim(w)
             \/ SupersedeFails(w) \/ ClaimFails(w) \/ ExecRestart(w) \/ ExecStop(w) \/ ExecFails(w)
             \/ ReuseContainer(w) \/ CreateContainer(w) \/ CreateFails(w) \/ StartContainer(w)
             \/ StartFails(w) \/ CommitFails(w) \/ Boot(w) \/ RenewLock(w) \/ ReadFails(w)
      PROVE  PublishedExist'
  BY <1>7, <1>8
     DEF Tick, Reconcile, CleanupOrphans, ReclaimNothing, CheckAccept, CheckRefuse, SkipJob,
     BeginFails, ReadInstance, Claim, SupersedeFails, ClaimFails, ExecRestart, ExecStop,
     ExecFails,
     ReuseContainer, CreateContainer, CreateFails, StartContainer, StartFails, CommitFails,
     Boot, ReadFails,
     RenewLock
<1>9. ASSUME NEW i \in Instance, NEW j \in Job, NEW kind \in JobKind, Start(i, j) \/ Request(i,
      j, kind)
      PROVE  PublishedExist'
  <2>1. Start(i, j) => CreateJob(i, j, "start", 1) /\ UNCHANGED streamVars
    BY DEF Start
  <2>2. Request(i, j, kind) => CreateJob(i, j, kind, sv[i] + 1) /\ UNCHANGED streamVars
    BY DEF Request, Transition
  <2>3. "start" \in JobKind /\ sv[i] + 1 \in Nat
    BY DEF JobKind, InstanceTypeOK
  <2> QED  BY <1>1, <1>9, <2>1, <2>2, <2>3
<1>10. ASSUME NEW w \in Worker, NEW i \in Instance, ExpireInstance(w, i) PROVE PublishedExist'
  <2>1. CASE \E j \in Job : Transition(i, j, "expire")
    BY <1>1, <2>1 DEF Transition, JobKind, InstanceTypeOK
  <2>2. CASE UNCHANGED WorkerOnly
    BY <1>7, <2>2
  <2> QED  BY <1>10, <2>1, <2>2 DEF ExpireInstance
<1>11. ASSUME NEW i \in Instance, Extend(i) \/ TtlElapses(i) PROVE PublishedExist'
  BY <1>7, <1>11 DEF Extend, TtlElapses
<1>12. ASSUME NEW w \in Worker, NEW i \in Instance, ContainerLost(w, i) PROVE PublishedExist'
  BY <1>7, <1>12 DEF ContainerLost
<1>13. ASSUME NEW j \in Job, LockExpires(j) PROVE PublishedExist'
  BY <1>7, <1>13 DEF LockExpires
<1>14. CASE UNCHANGED vars
  BY <1>7, <1>14
<1>15. ASSUME NEW w \in Worker, Handle(w) PROVE PublishedExist'
  BY <1>2, <1>4, <1>6, <1>8, <1>15 DEF Handle
<1>16. ASSUME NEW w \in Worker, Fails(w) PROVE PublishedExist'
  BY <1>6, <1>8, <1>16 DEF Fails
<1>17. ASSUME NEW w \in Worker, Maintain(w) PROVE PublishedExist'
  BY <1>8, <1>10, <1>17 DEF Maintain
<1>18. CASE API
  BY <1>9, <1>11, <1>18 DEF API, JobKind
<1>19. CASE Environment
  BY <1>6, <1>8, <1>11, <1>12, <1>13, <1>19 DEF Environment
<1> QED  BY <1>3, <1>5, <1>6, <1>8, <1>14, <1>15, <1>16, <1>17, <1>18, <1>19 DEF Next

-----------------------------------------------------------------------------
(* The invariant and what follows from it.                                 *)

\* Inv is inductive.
LEMMA InvStep == Inv /\ [Next]_vars => Inv'
<1> SUFFICES ASSUME Inv, [Next]_vars
             PROVE  Inv'
  OBVIOUS
<1>1. TypeOK'
  BY TypeOKStep DEF Inv
<1>2. PublishedExist'
  BY PublishedStep
<1>3. ControlInv' /\ ResultKnown'
  <2>1. ASSUME NEW i \in Instance, NEW j \in Job, Start(i, j) PROVE ControlInv' /\ ResultKnown'
    <3>1. "start" \in JobKind /\ 1 \in Nat
      BY DEF JobKind
    <3> QED  BY <1>1, <2>1, <3>1, CreateStep DEF Start, procVars, streamVars
  <2>2. ASSUME NEW i \in Instance, NEW j \in Job, NEW kind \in JobKind, Request(i, j, kind)
        PROVE  ControlInv' /\ ResultKnown'
    <3>1. sv[i] + 1 \in Nat
      BY DEF Inv, TypeOK, InstanceTypeOK
    <3> QED  BY <1>1, <2>2, <3>1, CreateStep DEF Request, Transition, procVars, streamVars
  <2>3. ASSUME NEW w \in Worker, NEW i \in Instance, ExpireInstance(w, i)
        PROVE  ControlInv' /\ ResultKnown'
    <3>1. sv[i] + 1 \in Nat /\ "expire" \in JobKind
      BY DEF Inv, TypeOK, InstanceTypeOK, JobKind
    <3>2. CASE \E j \in Job : Transition(i, j, "expire")
      BY <1>1, <2>3, <3>1, <3>2, CreateStep DEF ExpireInstance, Transition, streamVars
    <3>3. CASE UNCHANGED WorkerOnly
      BY <2>3, <3>3, StillStep
         DEF ExpireInstance, WorkerOnly, instVars, jobVars, streamVars, Rows
    <3> QED  BY <2>3, <3>2, <3>3 DEF ExpireInstance
  <2>4. ASSUME NEW w \in Worker, QuietAction(w) PROVE ControlInv' /\ ResultKnown'
    BY <1>1, <2>4, QuietActions, QuietStep, ResultKnownStep DEF Inv
  <2>5. ASSUME NEW w \in Worker, Reconcile(w) PROVE ControlInv' /\ ResultKnown'
    BY <1>1, <2>5, ReconcileStep, ResultKnownStep
  <2>6. ASSUME NEW w \in Worker, CheckAccept(w) PROVE ControlInv' /\ ResultKnown'
    BY <1>1, <2>6, CheckAcceptStep, ResultKnownStep
  <2>7. ASSUME NEW w \in Worker, LockJob(w) PROVE ControlInv' /\ ResultKnown'
    BY <1>1, <2>7, LockJobStep, ResultKnownStep
  <2>8. ASSUME NEW w \in Worker, ReadInstance(w) PROVE ControlInv' /\ ResultKnown'
    BY <1>1, <2>8, ReadInstanceStep, ResultKnownStep
  <2>9. ASSUME NEW w \in Worker, Claim(w) PROVE ControlInv' /\ ResultKnown'
    BY <1>1, <2>9, ClaimStep, ResultKnownStep
  <2>10. ASSUME NEW w \in Worker, Supersede(w) PROVE ControlInv' /\ ResultKnown'
    BY <1>1, <2>10, SupersedeStep, ResultKnownStep
  <2>11. ASSUME NEW w \in Worker, Commit(w) PROVE ControlInv' /\ ResultKnown'
    BY <1>1, <2>11, CommitStep, ResultKnownStep
  <2>12. ASSUME NEW w \in Worker, RecordRetry(w) PROVE ControlInv' /\ ResultKnown'
    BY <1>1, <2>12, RecordRetryStep, ResultKnownStep
  <2>13. ASSUME NEW w \in Worker, RecordFailure(w) PROVE ControlInv' /\ ResultKnown'
    BY <1>1, <2>13, RecordFailureStep, ResultKnownStep
  <2>13a. ASSUME NEW w \in Worker, RecordMissing(w) PROVE ControlInv' /\ ResultKnown'
    BY <1>1, <2>13a, RecordMissingStep, ResultKnownStep
  <2>14. ASSUME NEW j \in Job, LockExpires(j) PROVE ControlInv' /\ ResultKnown'
    <3>1. ResultKnown'
      BY <2>14 DEF Inv, ResultKnown, LockExpires, procVars, streamVars, KindAt, JobAt
    <3> QED  BY <2>14, <3>1, LockExpiresStep
  <2>15. ASSUME NEW w \in Worker, PublishOutbox(w) \/ RenewLock(w)
         PROVE  ControlInv' /\ ResultKnown'
    BY <2>15, StillStep
       DEF PublishOutbox, RenewLock, instVars, jobVars, procVars, streamVars, Rows
  <2>16. ASSUME NEW i \in Instance, Extend(i) \/ TtlElapses(i) PROVE ControlInv' /\ ResultKnown'
    BY <2>16, StillStep DEF Extend, TtlElapses, jobVars, procVars, streamVars, Rows
  <2>17. ASSUME NEW w \in Worker, NEW i \in Instance, ContainerLost(w, i)
         PROVE  ControlInv' /\ ResultKnown'
    BY <2>17, StillStep DEF ContainerLost, instVars, jobVars, procVars, streamVars, Rows
  <2>18. CASE UNCHANGED vars
    BY <2>18, StillStep DEF vars, instVars, jobVars, procVars, streamVars, Rows
  <2>19. ASSUME NEW w \in Worker, Handle(w) PROVE ControlInv' /\ ResultKnown'
    BY <2>19, <2>4, <2>6, <2>7, <2>8, <2>9, <2>10, <2>11, <2>12, <2>13, <2>13a
       DEF Handle, QuietAction
  <2>20. ASSUME NEW w \in Worker, Fails(w) PROVE ControlInv' /\ ResultKnown'
    BY <2>20, <2>4 DEF Fails, QuietAction
  <2>21. ASSUME NEW w \in Worker, Maintain(w) PROVE ControlInv' /\ ResultKnown'
    BY <2>21, <2>3, <2>4, <2>5 DEF Maintain, QuietAction
  <2>22. CASE API
    BY <2>22, <2>1, <2>2, <2>16 DEF API
  <2>23. CASE Environment
    BY <2>23, <2>4, <2>14, <2>15, <2>16, <2>17 DEF Environment, QuietAction
  <2> QED  BY <2>4, <2>15, <2>18, <2>19, <2>20, <2>21, <2>22, <2>23 DEF Next, QuietAction
<1> QED  BY <1>1, <1>2, <1>3 DEF Inv, ControlInv

\* It holds of an empty database and workers that have just been started.
LEMMA InvInit == Init => Inv
<1> SUFFICES ASSUME Init
             PROVE  Inv
  OBVIOUS
<1> USE ConstantsAssumption DEF Init, StreamInit, Worker
<1>1. (CHOOSE i \in Instance : TRUE) \in Instance
  OBVIOUS
<1>2. TypeOK
  <2>1. StreamTypeOK
    BY DEF StreamTypeOK
  <2>2. InstanceTypeOK /\ HostTypeOK /\ CounterTypeOK
    BY DEF InstanceTypeOK, HostTypeOK, CounterTypeOK, NoJob
  <2>3. JobTypeOK
    BY <1>1 DEF JobTypeOK, JobKind, JobStatus, OpStatus, Lock
  <2>4. WorkerTypeOK
    BY DEF WorkerTypeOK, PC, Row, NoRow, NoJob, Processing, Holding, Executing
  <2> QED  BY <2>1, <2>2, <2>3, <2>4 DEF TypeOK
<1>3. PublishedExist
  BY DEF PublishedExist
<1>4. HolderHasLock /\ JobMutex /\ OutcomeClosesJob
  BY DEF HolderHasLock, JobMutex, OutcomeClosesJob, OpFinal, Holding, Executing
<1>5. ValidRuntimeState /\ ReadCurrent /\ ResultKnown
  BY DEF ValidRuntimeState, ReadCurrent, ResultKnown, InOperation, Absent
<1>6. ExecutesOwn /\ NotOvertaken
  BY DEF ExecutesOwn, NotOvertaken, Executing
<1> QED  BY <1>2, <1>3, <1>4, <1>5, <1>6 DEF Inv

\* It therefore always holds.
LEMMA InvInvariant == Spec => []Inv
BY InvInit, InvStep, PTL DEF Spec

\* Every row, message and worker is always of its type; in particular whoever is
\* working on a message has one, and the GREATEST(active_instances-1, 0) of the
\* worker keeps the usage counter a natural number.
THEOREM TypeCorrect == Spec => []TypeOK
<1>1. Inv => TypeOK
  BY DEF Inv
<1> QED  BY <1>1, InvInvariant, PTL

\* The states that Reconcile calls impossible never arise, whatever the number of
\* workers, instances and jobs, crashes and faults: an instance in operation waits
\* for a job of its own that is open, or that failed since the instance could not be
\* read (INSTANCE_MISSING); a running one has a container id.
THEOREM RuntimeStatesValid == Spec => []ValidRuntimeState
<1>1. Inv => ValidRuntimeState
  BY DEF Inv
<1> QED  BY <1>1, InvInvariant, PTL

\* Two workers never handle the same job at once (handle's first transaction and
\* keepJobLockAlive), however often the job was published, delivered or reclaimed.
THEOREM JobsExclusive == Spec => []JobMutex
<1>1. Inv => JobMutex
  BY DEF Inv
<1> QED  BY <1>1, InvInvariant, PTL

\* Two workers never drive Docker for the same instance at once, not even for two
\* different jobs of it (canProcess, the claim and its status_version).
THEOREM InstancesExclusive == Spec => []InstanceMutex
<1>1. Inv => InstanceMutex
  BY DEF Inv, InstanceMutex, ExecutesOwn
<1> QED  BY <1>1, InvInvariant, PTL

\* What StopSticks says of one step.
StopSticksStep ==
    \A i \in Instance : status[i] = "stopping" => status'[i] \in {"stopping", "stopped",
    "failed"}

\* Only a job that the instance waits for can end "stopping", and that one is a
\* stop or an expiry (ValidRuntimeState).
LEMMA StopSticksNext == Inv /\ [Next]_vars => StopSticksStep
<1> SUFFICES ASSUME Inv, [Next]_vars, NEW i \in Instance, status[i] = "stopping"
             PROVE  status'[i] \in {"stopping", "stopped", "failed"}
  BY DEF StopSticksStep
<1> USE DEF Inv, TypeOK, InstanceTypeOK
<1>1. ASSUME NEW k \in Instance, NEW j \in Job, Start(k, j) PROVE status'[i] = "stopping"
  BY <1>1 DEF Start, Absent
<1>2. ASSUME NEW k \in Instance, NEW j \in Job, NEW kind \in JobKind, Transition(k, j, kind)
      PROVE  status'[i] = "stopping"
  BY <1>2 DEF Transition, NextAllowed, From, JobKind
<1>3. ASSUME NEW w \in Worker, Reconcile(w) PROVE status'[i] = "stopping"
  BY <1>3 DEF Reconcile, Invalid, Drifted, ValidRuntimeState, InOperation
<1>4. ASSUME NEW w \in Worker, Claim(w) PROVE status'[i] = "stopping"
  BY <1>4 DEF Claim, Owned, ValidRuntimeState, InOperation, KindAt
<1>5. ASSUME NEW w \in Worker, Commit(w) PROVE status'[i] \in {"stopping", "stopped"}
  BY <1>5 DEF Commit, Owned, ValidRuntimeState, InOperation, KindAt
<1>6. ASSUME NEW w \in Worker, RecordFailure(w) PROVE status'[i] \in {"stopping", "failed"}
  BY <1>6 DEF RecordFailure
<1>7. ASSUME NEW w \in Worker, QuietAction(w) PROVE status'[i] = "stopping"
  BY <1>7, TypeOKStep, QuietActions DEF Quiet, Rows
<1>8. ASSUME NEW w \in Worker,
      \/ CheckAccept(w) \/ LockJob(w) \/ ReadInstance(w) \/ Supersede(w)
                              \/ RecordRetry(w) \/ RecordMissing(w) \/ PublishOutbox(w) \/ RenewLock(w)
      PROVE  status'[i] = "stopping"
  BY <1>8 DEF CheckAccept, LockJob, ReadInstance, Supersede, RecordRetry, RecordMissing, PublishOutbox,
     RenewLock,
         WorkerOnly, instVars
<1>9. ASSUME NEW w \in Worker, NEW k \in Instance, ExpireInstance(w, k)
      PROVE  status'[i] = "stopping"
  <2>1. CASE \E j \in Job : Transition(k, j, "expire")
    BY <2>1, <1>2 DEF JobKind
  <2>2. CASE UNCHANGED WorkerOnly
    BY <2>2 DEF WorkerOnly, instVars
  <2> QED  BY <1>9, <2>1, <2>2 DEF ExpireInstance
<1>10. ASSUME NEW k \in Instance, Extend(k) \/ TtlElapses(k) PROVE status'[i] = "stopping"
  BY <1>10 DEF Extend, TtlElapses
<1>11. ASSUME NEW w \in Worker, NEW k \in Instance, ContainerLost(w, k)
       PROVE  status'[i] = "stopping"
  BY <1>11 DEF ContainerLost, instVars
<1>12. ASSUME NEW j \in Job, LockExpires(j) PROVE status'[i] = "stopping"
  BY <1>12 DEF LockExpires, instVars
<1>13. CASE UNCHANGED vars
  BY <1>13 DEF vars, instVars
<1>14. CASE API
  BY <1>14, <1>1, <1>2, <1>10 DEF API, Request
<1>15. ASSUME NEW w \in Worker, Maintain(w) \/ Handle(w) \/ Fails(w)
       PROVE  status'[i] \in {"stopping", "stopped", "failed"}
  BY <1>15, <1>3, <1>4, <1>5, <1>6, <1>7, <1>8, <1>9 DEF Maintain, Handle, Fails, QuietAction
<1>16. CASE Environment
  BY <1>16, <1>7, <1>8, <1>10, <1>11, <1>12 DEF Environment, QuietAction
<1> QED  BY <1>7, <1>8, <1>13, <1>14, <1>15, <1>16 DEF Next, QuietAction

\* A stop is final: no start, restart or reset that was under way when the API wrote
\* "stopping" can bring the instance back.
THEOREM StopStays == Spec => StopSticks
<1>1. Inv /\ [Next]_vars => [StopSticksStep]_vars
  BY StopSticksNext
<1> QED  BY <1>1, InvInvariant, PTL DEF Spec, StopSticks, StopSticksStep

\* What OutcomeFinal says of one step.
OutcomeFinalStep ==
    \A j \in Job : opStatus[j] \in OpFinal => opStatus'[j] = opStatus[j]

\* Who writes an outcome holds the job, which is therefore still open.
LEMMA OutcomeFinalNext == Inv /\ [Next]_vars => OutcomeFinalStep
<1> SUFFICES ASSUME Inv, [Next]_vars, NEW o \in Job, opStatus[o] \in OpFinal
             PROVE  opStatus'[o] = opStatus[o]
  BY DEF OutcomeFinalStep
<1> USE DEF Inv, TypeOK
<1>h. jobStatus[o] \in {"completed", "failed"}
  BY DEF OutcomeClosesJob
<1>1. ASSUME NEW k \in Instance, NEW j \in Job, NEW kind \in JobKind, NEW n \in Nat,
             CreateJob(k, j, kind, n)
      PROVE  opStatus'[o] = opStatus[o]
  BY <1>1, <1>h DEF CreateJob, JobTypeOK
<1>2. ASSUME NEW w \in Worker, LockJob(w) PROVE opStatus'[o] = opStatus[o]
  BY <1>2 DEF LockJob, JobTypeOK
<1>3. ASSUME NEW w \in Worker,
             \/ Supersede(w) \/ Commit(w) \/ RecordFailure(w) \/ RecordMissing(w) \/ RecordRetry(w)
      PROVE  opStatus'[o] = opStatus[o]
  <2>1. jobStatus[JobAt(w)] = "running"
    BY <1>3 DEF HolderHasLock, Supersede, Commit, RecordFailure, RecordMissing, RecordRetry, Holding,
                Executing
  <2> QED  BY <2>1, <1>3, <1>h
           DEF Supersede, Commit, RecordFailure, RecordMissing, RecordRetry, Close, JobTypeOK
<1>4. ASSUME NEW k \in Instance, NEW j \in Job, Start(k, j) PROVE opStatus'[o] = opStatus[o]
  BY <1>4, <1>1 DEF Start, JobKind
<1>5. ASSUME NEW k \in Instance, NEW j \in Job, NEW kind \in JobKind, Transition(k, j, kind)
      PROVE  opStatus'[o] = opStatus[o]
  <2>1. sv[k] + 1 \in Nat
    BY DEF InstanceTypeOK
  <2> QED  BY <2>1, <1>5, <1>1 DEF Transition
<1>6. ASSUME NEW w \in Worker, NEW k \in Instance, ExpireInstance(w, k)
      PROVE  opStatus'[o] = opStatus[o]
  <2>1. CASE \E j \in Job : Transition(k, j, "expire")
    BY <2>1, <1>5 DEF JobKind
  <2>2. CASE UNCHANGED WorkerOnly
    BY <2>2 DEF WorkerOnly, jobVars
  <2> QED  BY <1>6, <2>1, <2>2 DEF ExpireInstance
<1>7. ASSUME NEW w \in Worker, QuietAction(w) PROVE opStatus'[o] = opStatus[o]
  BY <1>7, TypeOKStep, QuietActions DEF Quiet, Rows
<1>8. ASSUME NEW w \in Worker, \/ CheckAccept(w) \/ ReadInstance(w) \/ Reconcile(w) \/ Claim(w)
                              \/ PublishOutbox(w) \/ RenewLock(w)
      PROVE  opStatus'[o] = opStatus[o]
  BY <1>8 DEF CheckAccept, ReadInstance, Reconcile, Claim, PublishOutbox, RenewLock,
         WorkerOnly, jobVars
<1>9. ASSUME NEW k \in Instance, Extend(k) \/ TtlElapses(k) PROVE opStatus'[o] = opStatus[o]
  BY <1>9 DEF Extend, TtlElapses, jobVars
<1>10. ASSUME NEW w \in Worker, NEW k \in Instance, ContainerLost(w, k)
       PROVE  opStatus'[o] = opStatus[o]
  BY <1>10 DEF ContainerLost, jobVars
<1>11. ASSUME NEW j \in Job, LockExpires(j) PROVE opStatus'[o] = opStatus[o]
  BY <1>11 DEF LockExpires
<1>12. CASE UNCHANGED vars
  BY <1>12 DEF vars, jobVars
<1>13. CASE API
  BY <1>13, <1>4, <1>5, <1>9 DEF API, Request
<1>14. ASSUME NEW w \in Worker, Maintain(w) \/ Handle(w) \/ Fails(w)
       PROVE  opStatus'[o] = opStatus[o]
  BY <1>14, <1>2, <1>3, <1>6, <1>7, <1>8 DEF Maintain, Handle, Fails, QuietAction
<1>15. CASE Environment
  BY <1>15, <1>7, <1>8, <1>9, <1>10, <1>11 DEF Environment, QuietAction
<1> QED  BY <1>7, <1>8, <1>12, <1>13, <1>14, <1>15 DEF Next, QuietAction

\* The recorded outcome of an operation is never revised, however often the message
\* of its job is delivered again.
THEOREM OutcomesFinal == Spec => OutcomeFinal
<1>1. Inv /\ [Next]_vars => [OutcomeFinalStep]_vars
  BY OutcomeFinalNext
<1> QED  BY <1>1, InvInvariant, PTL DEF Spec, OutcomeFinal, OutcomeFinalStep

-----------------------------------------------------------------------------
(* Where instances run: PlaceInv, action by action.                        *)

\* Containers are at most removed, or switched on or off.
Fewer ==
    \A u \in Worker, i \in Instance : container'[u][i] # NoContainer =>
      /\ container[u][i] # NoContainer
      /\ container'[u][i].id = container[u][i].id
      /\ container'[u][i].gen = container[u][i].gen

\* Worker v does not move.
Rests(v) == pc'[v] = pc[v] /\ hand'[v] = hand[v] /\ row'[v] = row[v] /\ result'[v] = result[v]

\* Steps after which nobody is further on the way to a container than before, and
\* instances are as they were or have ended.
Subsides ==
    /\ UNCHANGED <<workerOf, gen, jobInst, jobKind>> /\ Fewer
    /\ \A j \in Job : jobStatus[j] # "none" => jobStatus'[j] # "none"
    /\ \A i \in Instance :
         \/ status'[i] = status[i] /\ opOf'[i] = opOf[i] /\ rid'[i] = rid[i]
         \/ status[i] # Absent /\ status'[i] \in InactiveStatus /\ opOf'[i] = NoJob
    /\ \A v \in Worker : Rests(v) \/ pc'[v] \notin PastCheck \cup Executing

\* A worker on its way to a container has a message, and with it a job.
LEMMA OnItsWay ==
  ASSUME Inv, NEW w \in Worker, pc[w] \in PastCheck \cup Executing
  PROVE  /\ hand[w] # NoMessage /\ JobAt(w) \in Job /\ InstAt(w) \in Instance /\ KindAt(w) \in JobKind
         /\ jobStatus[JobAt(w)] # "none" /\ JobAt(w) # NoJob
<1>1. pc[w] \in Processing
  BY DEF PastCheck, Processing, Holding, Executing
<1>2. JobAt(w) # NoJob
  BY <1>1, MessageInHand, ConstantsAssumption DEF Inv, NoJob
<1> QED  BY <1>1, <1>2, MessageInHand DEF Inv, PublishedExist

\* The instances of a worker are finitely many.
LEMMA HostedFinite ==
  ASSUME RoomLeft, NEW w \in Worker
  PROVE  IsFiniteSet(Hosted(w)) /\ Cardinality(Hosted(w)) \in Nat
<1>1. Hosted(w) \subseteq {i \in Instance : status[i] # Absent}
  BY DEF Hosted, Active, ActiveStatus, Absent
<1> QED  BY <1>1, FS_Subset, FS_CardinalityType DEF RoomLeft

\* A part of the instances of a worker is not more than they are.
LEMMA HostedLess ==
  ASSUME RoomLeft, NEW w \in Worker, NEW S \in SUBSET Hosted(w)
  PROVE  Cardinality(S) <= Cardinality(Hosted(w)) /\ Cardinality(S) \in Nat
BY HostedFinite, FS_Subset, FS_CardinalityType

\* Nor with one more instance.
LEMMA HostedLessOne ==
  ASSUME RoomLeft, NEW w \in Worker, NEW i, NEW S \in SUBSET (Hosted(w) \cup {i})
  PROVE  Cardinality(S) <= Cardinality(Hosted(w) \cup {i}) /\ Cardinality(S) \in Nat
<1>1. IsFiniteSet(Hosted(w) \cup {i})
  BY HostedFinite, FS_AddElement
<1> QED  BY <1>1, FS_Subset, FS_CardinalityType

\* The rows stay finitely many when one is added.
LEMMA RowsFinite ==
  ASSUME RoomLeft, NEW i, \A k \in Instance : status'[k] # Absent => status[k] # Absent \/ k = i
  PROVE  IsFiniteSet({k \in Instance : status'[k] # Absent})
<1>1. IsFiniteSet({k \in Instance : status[k] # Absent} \cup {i})
  BY FS_AddElement DEF RoomLeft
<1> QED  BY <1>1, FS_Subset

\* Where no worker has more instances than before, or only the one whose start it had
\* accepted, and none accepted another start, there is room.
LEMMA RoomStays ==
  ASSUME RoomLeft, IsFiniteSet({i \in Instance : status'[i] # Absent}),
         \A w \in Worker :
           \/ Hosted(w)' \subseteq Hosted(w)
           \/ /\ Hosted(w)' \subseteq Hosted(w) \cup {InstAt(w)}
              /\ pc[w] \in PastCheck /\ Wanted(w) /\ KindAt(w) = "start",
         \A w \in Worker : (pc[w] \in PastCheck /\ Wanted(w) /\ KindAt(w) = "start")' =>
           /\ pc[w] \in PastCheck /\ Wanted(w) /\ KindAt(w) = "start"
           /\ InstAt(w)' = InstAt(w) /\ Hosted(w)' \subseteq Hosted(w)
  PROVE  RoomLeft'
<1>1. IsFiniteSet({i \in Instance : status[i] # Absent})'
  OBVIOUS
<1>2. ASSUME NEW w \in Worker
      PROVE  (Cardinality(Hosted(w)) <= Capacity)'
  <2>1. PICK S : S = Hosted(w)'
    OBVIOUS
  <2>2. CASE S \subseteq Hosted(w)
    <3>1. Cardinality(S) <= Cardinality(Hosted(w)) /\ Cardinality(S) \in Nat
      BY <2>2, HostedLess
    <3> QED  BY <2>1, <3>1, HostedFinite, ConstantsAssumption DEF RoomLeft
  <2>3. CASE /\ S \subseteq Hosted(w) \cup {InstAt(w)}
             /\ pc[w] \in PastCheck /\ Wanted(w) /\ KindAt(w) = "start"
    <3>1. Cardinality(S) <= Cardinality(Hosted(w) \cup {InstAt(w)}) /\ Cardinality(S) \in Nat
      BY <2>3, HostedLessOne
    <3>2. Cardinality(Hosted(w) \cup {InstAt(w)}) <= Capacity
      BY <2>3 DEF RoomLeft
    <3>3. Cardinality(Hosted(w) \cup {InstAt(w)}) \in Nat
      BY HostedLessOne
    <3> QED  BY <2>1, <3>1, <3>2, <3>3, ConstantsAssumption
  <2> QED  BY <2>1, <2>2, <2>3
<1>3. ASSUME NEW w \in Worker, (pc[w] \in PastCheck /\ Wanted(w) /\ KindAt(w) = "start")'
      PROVE  (Cardinality(Hosted(w) \cup {InstAt(w)}) <= Capacity)'
  <2>1. PICK S : S = (Hosted(w) \cup {InstAt(w)})'
    OBVIOUS
  <2>2. S \subseteq Hosted(w) \cup {InstAt(w)}
    BY <2>1, <1>3
  <2>3. Cardinality(S) <= Cardinality(Hosted(w) \cup {InstAt(w)}) /\ Cardinality(S) \in Nat
    BY <2>2, HostedLessOne
  <2>4. Cardinality(Hosted(w) \cup {InstAt(w)}) <= Capacity
    BY <1>3 DEF RoomLeft
  <2>5. Cardinality(Hosted(w) \cup {InstAt(w)}) \in Nat
    BY HostedLessOne
  <2>6. Cardinality(S) <= Capacity
    BY <2>3, <2>4, <2>5, ConstantsAssumption
  <2> QED  BY <2>1, <2>6
<1> QED  BY <1>1, <1>2, <1>3 DEF RoomLeft

\* Such a step disturbs nothing: less runs than before, and less is under way.
LEMMA SubsidesStep ==
  ASSUME Inv, PlaceInv, TypeOK', Subsides
  PROVE  PlaceInv'
<1> USE DEF Subsides
<1>1. ASSUME NEW v \in Worker, pc'[v] \in PastCheck \cup Executing
      PROVE  /\ pc[v] = pc'[v] /\ row'[v] = row[v] /\ result'[v] = result[v]
             /\ JobAt(v)' = JobAt(v) /\ InstAt(v)' = InstAt(v) /\ KindAt(v)' = KindAt(v)
             /\ JobAt(v) \in Job /\ JobAt(v) # NoJob /\ InstAt(v) \in Instance
  BY <1>1, OnItsWay DEF Rests, JobAt, InstAt, KindAt
<1>2. ASSUME NEW v \in Worker, pc'[v] \in PastCheck \cup Executing, Wanted(v)'
      PROVE  /\ Wanted(v)
             /\ status'[InstAt(v)] = status[InstAt(v)] /\ rid'[InstAt(v)] = rid[InstAt(v)]
  BY <1>1, <1>2 DEF Wanted
<1>3. \A i \in Instance : status'[i] = status[i] \/ status'[i] \in InactiveStatus
  OBVIOUS
<1>4. NowhereYet'
  BY <1>3 DEF PlaceInv, NowhereYet, Fewer, Ending, InactiveStatus, Absent
<1>5. KindOfStatus'
  BY <1>3 DEF PlaceInv, KindOfStatus, InactiveStatus
<1>6. CallCurrent'
  <2>1. ASSUME NEW v \in Worker, pc'[v] \in {"claim"} \cup Executing, Wanted(v)'
        PROVE  /\ row'[v].gen = gen'[InstAt(v)'] /\ row'[v].rid = rid'[InstAt(v)']
               /\ pc'[v] = "claim" => row'[v].status = status'[InstAt(v)']
    BY <2>1, <1>1, <1>2 DEF PlaceInv, CallCurrent, PastCheck
  <2> QED  BY <2>1 DEF CallCurrent
<1>7. UnwantedEnds'
  <2>1. ASSUME NEW v \in Worker, pc'[v] \in Executing, ~Wanted(v)'
        PROVE  status'[InstAt(v)'] \in Ending
    <3>1. CASE Wanted(v)
      BY <2>1, <3>1, <1>1 DEF Wanted, Ending
    <3>2. CASE ~Wanted(v)
      BY <2>1, <3>2, <1>1, <1>3 DEF PlaceInv, UnwantedEnds, Ending
    <3> QED  BY <3>1, <3>2
  <2> QED  BY <2>1 DEF UnwantedEnds
<1>8. TakesOverNew'
  <2>1. ASSUME NEW v \in Worker, pc'[v] \in PastCheck, Wanted(v)', workerOf'[InstAt(v)'] # v
        PROVE  \/ status'[InstAt(v)'] \in {"pending", "pulling"}
               \/ status'[InstAt(v)'] = "stopping" /\ Bare(InstAt(v))'
    <3>1. /\ pc[v] \in PastCheck /\ Wanted(v) /\ workerOf[InstAt(v)] # v
          /\ InstAt(v) \in Instance /\ InstAt(v)' = InstAt(v)
          /\ status'[InstAt(v)] = status[InstAt(v)] /\ opOf'[InstAt(v)] = JobAt(v)
      BY <2>1, <1>1, <1>2 DEF Wanted
    <3>2. ASSUME Bare(InstAt(v)), NEW u \in Worker
          PROVE  /\ container'[u][InstAt(v)] = NoContainer
                 /\ pc'[u] \in Executing /\ InstAt(u)' = InstAt(v) => Wanted(u)'
      BY <3>1, <3>2, <1>1 DEF Bare, Fewer, Wanted
    <3> QED  BY <3>1, <3>2 DEF PlaceInv, TakesOverNew, Bare
  <2> QED  BY <2>1 DEF TakesOverNew
<1>9. ContainersKnown'
  <2>1. ASSUME NEW i \in Instance, NEW w \in Worker, container'[w][i] # NoContainer
        PROVE  ContainersKnown!(i, w)'
    <3>1. /\ container[w][i] # NoContainer /\ container[w][i] \in Container
          /\ container'[w][i].id = container[w][i].id
          /\ container'[w][i].gen = container[w][i].gen
      BY <2>1 DEF Fewer, Inv, TypeOK, HostTypeOK
    <3>2. jobStatus'[container'[w][i].id] # "none"
      BY <3>1 DEF PlaceInv, ContainersKnown, Container
    <3>3. CASE status'[i] = status[i] /\ opOf'[i] = opOf[i] /\ rid'[i] = rid[i]
      BY <3>1, <3>2, <3>3 DEF PlaceInv, ContainersKnown
    <3>4. CASE status'[i] \in InactiveStatus
      BY <3>2, <3>4 DEF InactiveStatus
    <3> QED  BY <3>3, <3>4
  <2> QED  BY <2>1 DEF ContainersKnown
<1>10. ResultHere'
  <2>1. ASSUME NEW v \in Worker, pc'[v] \in Executing, Wanted(v)', Here(v)' # NoContainer
        PROVE  ResultHere!(v)'
    <3>1. Here(v) # NoContainer /\ Here(v)'.id = Here(v).id
      BY <2>1, <1>1 DEF Here, Fewer
    <3> QED  BY <2>1, <3>1, <1>1, <1>2 DEF PlaceInv, ResultHere
  <2> QED  BY <2>1 DEF ResultHere
<1>11. CreatesFor'
  BY <1>1 DEF PlaceInv, CreatesFor, Executing
<1>12. RoomLeft'
  <2>1. ASSUME NEW w \in Worker PROVE Hosted(w)' \subseteq Hosted(w)
    BY <1>1, <1>3 DEF Hosted, Active, Fewer, ActiveStatus, InactiveStatus
  <2>2. IsFiniteSet({i \in Instance : status'[i] # Absent})
    BY RowsFinite DEF PlaceInv
  <2> QED  BY <2>1, <2>2, <1>1, <1>2, RoomStays DEF PlaceInv
<1> QED  BY <1>4, <1>5, <1>6, <1>7, <1>8, <1>9, <1>10, <1>11, <1>12 DEF PlaceInv

\* A worker that goes back to its loop, to the message or to recording a failure.
Returning(w) ==
    \/ Tick(w) \/ ReclaimNothing(w) \/ Reclaim(w) \/ Take(w)
    \/ CheckRefuse(w) \/ CheckFails(w) \/ RecordFails(w) \/ RedisFails(w)
    \/ SkipJob(w) \/ BeginFails(w) \/ ReadFails(w) \/ SupersedeFails(w) \/ ClaimFails(w)
    \/ CommitFails(w) \/ Requeue(w) \/ Retry(w) \/ AckMessage(w) \/ Crash(w) \/ Boot(w)

\* It touches no container, and is about to retry only after a claim that failed.
LEMMA ReturningStep ==
  ASSUME TypeOK, NEW w \in Worker, Returning(w)
  PROVE  /\ pc'[w] \notin PastCheck \cup Executing /\ UNCHANGED <<gen, container>>
         /\ pc'[w] \in {"recordRetry", "retry"} => dbFaults' = dbFaults + 1
<1> USE DEF TypeOK, WorkerTypeOK, PastCheck, Executing, Goto,
            instVars, jobVars, procVars, streamVars, WorkerOnly, DockerOnly, StreamOnly
<1>1. CASE Tick(w)
  BY <1>1 DEF Tick
<1>2. CASE ReclaimNothing(w)
  BY <1>2 DEF ReclaimNothing
<1>3. CASE Reclaim(w)
  BY <1>3 DEF Reclaim, ClaimStale
<1>4. CASE Take(w)
  BY <1>4 DEF Take, Receive
<1>5. CASE CheckRefuse(w)
  BY <1>5 DEF CheckRefuse
<1>6. CASE CheckFails(w)
  BY <1>6 DEF CheckFails, LeavePending, ForgetCall, Abandon
<1>7. CASE RecordFails(w)
  BY <1>7 DEF RecordFails, LeavePending, ForgetCall, Abandon
<1>8. CASE RedisFails(w)
  BY <1>8 DEF RedisFails, LeavePending, ForgetCall, Abandon
<1>9. CASE SkipJob(w)
  BY <1>9 DEF SkipJob
<1>10. CASE BeginFails(w)
  BY <1>10 DEF BeginFails
<1>11. CASE SupersedeFails(w)
  BY <1>11 DEF SupersedeFails
<1>12. CASE ClaimFails(w)
  BY <1>12 DEF ClaimFails, FailedTo, DbFault
<1>13. CASE CommitFails(w)
  BY <1>13 DEF CommitFails
<1>14. CASE Requeue(w)
  BY <1>14 DEF Requeue, Republish
<1>15. CASE Retry(w)
  BY <1>15 DEF Retry, Republish
<1>16. CASE AckMessage(w)
  BY <1>16 DEF AckMessage, Ack, ForgetCall
<1>17. CASE Crash(w)
  BY <1>17 DEF Crash
<1>18. CASE Boot(w)
  BY <1>18 DEF Boot
<1>19. CASE ReadFails(w)
  BY <1>19 DEF ReadFails
<1> QED  BY <1>1, <1>2, <1>3, <1>4, <1>5, <1>6, <1>7, <1>8, <1>9, <1>10, <1>11, <1>12, <1>13, <1>14, <1>15, <1>16, <1>17, <1>18,
            <1>19
         DEF Returning

\* A failed Docker call, or a sweep, at most removes or stops what is there.
LEMMA FailedCallStep ==
  ASSUME TypeOK, NEW w \in Worker,
         CleanupOrphans(w) \/ ExecFails(w) \/ CreateFails(w) \/ StartFails(w)
  PROVE  pc'[w] \notin PastCheck \cup Executing /\ UNCHANGED gen /\ Fewer
<1> USE DEF TypeOK, WorkerTypeOK, HostTypeOK, PastCheck, Executing, Goto, instVars, DockerOnly,
            FailedTo, Fewer
<1>1. CASE CleanupOrphans(w)
  BY <1>1 DEF CleanupOrphans
<1>2. CASE ExecFails(w)
  <2>1. pc[w] \in Processing
    BY <1>2 DEF ExecFails, Processing, Holding
  <2>2. InstAt(w) \in Instance
    BY <2>1, MessageInHand
  <2>3. pc'[w] \notin PastCheck \cup Executing /\ UNCHANGED gen
    BY <1>2 DEF ExecFails
  <2>4. CASE UNCHANGED container
    BY <2>3, <2>4
  <2>5. CASE IsOld(w) /\ SetHere(w, [Here(w) EXCEPT !.up = FALSE])
    <3>1. Here(w) \in Container
      BY <2>2, <2>5 DEF IsOld, Here
    <3> QED  BY <2>2, <2>3, <2>5, <3>1 DEF IsOld, SetHere, Here, Container
  <2> QED  BY <1>2, <2>4, <2>5 DEF ExecFails
<1>3. CASE CreateFails(w)
  BY <1>3 DEF CreateFails, SetHere, Here
<1>4. CASE StartFails(w)
  BY <1>4 DEF StartFails, SetHere, Here
<1> QED  BY <1>1, <1>2, <1>3, <1>4

\* These are steps of w that subside.
LEMMA ReturningSubsides ==
  ASSUME Inv, TypeOK', NEW w \in Worker,
         \/ Returning(w) \/ CleanupOrphans(w) \/ ExecFails(w) \/ CreateFails(w) \/ StartFails(w)
  PROVE  Subsides
<1>1. QuietAction(w)
  BY DEF Returning, QuietAction
<1>2. Others(w) /\ UNCHANGED Rows
  BY <1>1, QuietActions DEF Inv, Quiet
<1>3. pc'[w] \notin PastCheck \cup Executing /\ UNCHANGED gen /\ Fewer
  BY ReturningStep, FailedCallStep DEF Inv, Fewer
<1> QED  BY <1>2, <1>3 DEF Subsides, Others, Rows, Rests

\* So are these, which move no worker.
LEMMA RestingSubsides ==
  ASSUME Inv,
         \/ \E w \in Worker : PublishOutbox(w) \/ RenewLock(w)
         \/ \E i \in Instance : Extend(i) \/ TtlElapses(i)
         \/ \E w \in Worker, i \in Instance : ContainerLost(w, i)
         \/ \E j \in Job : LockExpires(j)
         \/ UNCHANGED WorkerOnly /\ UNCHANGED <<pc, row, result>>
         \/ UNCHANGED vars
  PROVE  Subsides
<1> USE DEF Inv, TypeOK, Rests, vars, instVars, jobVars, procVars, streamVars, WorkerOnly
<1>1. ASSUME NEW w \in Worker, PublishOutbox(w) \/ RenewLock(w) PROVE Subsides
  BY <1>1 DEF PublishOutbox, RenewLock, Subsides, Fewer
<1>2. ASSUME NEW i \in Instance, Extend(i) \/ TtlElapses(i) PROVE Subsides
  BY <1>2 DEF Extend, TtlElapses, Subsides, Fewer
<1>3. ASSUME NEW w \in Worker, NEW i \in Instance, ContainerLost(w, i) PROVE Subsides
  <2>1. PICK c \in {NoContainer, [container[w][i] EXCEPT !.up = FALSE]} :
          container' = [container EXCEPT ![w][i] = c]
    BY <1>3 DEF ContainerLost
  <2>2. container[w][i] \in Container /\ container[w][i] # NoContainer
    BY <1>3 DEF ContainerLost, HostTypeOK
  <2>3. c # NoContainer => c.id = container[w][i].id /\ c.gen = container[w][i].gen
    BY <2>2 DEF Container
  <2>4. Fewer
    BY <2>1, <2>2, <2>3 DEF Fewer, HostTypeOK
  <2> QED  BY <1>3, <2>4 DEF ContainerLost, Subsides
<1>4. ASSUME NEW j \in Job, LockExpires(j) PROVE Subsides
  BY <1>4 DEF LockExpires, Subsides, Fewer
<1>5. CASE UNCHANGED WorkerOnly /\ UNCHANGED <<pc, row, result>>
  BY <1>5 DEF Subsides, Fewer
<1>6. CASE UNCHANGED vars
  BY <1>6 DEF Subsides, Fewer
<1> QED  BY <1>1, <1>2, <1>3, <1>4, <1>5, <1>6

\* And these, which close a job or end an instance that waits for nothing else.
LEMMA ClosingSubsides ==
  ASSUME Inv, NEW w \in Worker,
         \/ Reconcile(w) \/ Supersede(w) \/ RecordRetry(w) \/ RecordFailure(w) \/ RecordMissing(w)
         \/ Commit(w) /\ KindAt(w) \in {"stop", "expire"}
  PROVE  Subsides
<1> USE DEF Inv, TypeOK, InstanceTypeOK, JobTypeOK, WorkerTypeOK, Rests, Goto, instVars, jobVars,
            streamVars, Subsides, Fewer, PastCheck, Executing
<1>1. CASE Reconcile(w)
  <2>1. \A i \in Instance : Invalid(w, i) \/ Drifted(w, i) => opOf[i] = NoJob /\ status[i] # Absent
    BY DEF ValidRuntimeState, Invalid, Drifted, InOperation, Absent
  <2> QED  BY <1>1, <2>1 DEF Reconcile, InactiveStatus
<1>2. CASE Supersede(w) \/ RecordRetry(w) \/ RecordMissing(w)
  BY <1>2 DEF Supersede, RecordRetry, RecordMissing, Close
<1>3. CASE RecordFailure(w)
  <2>1. opOf[InstAt(w)] = JobAt(w) => status[InstAt(w)] # Absent
    <3>1. pc[w] \in Processing
      BY <1>3 DEF RecordFailure, Processing, Holding
    <3>2. InstAt(w) \in Instance /\ JobAt(w) # NoJob
      BY <3>1, MessageInHand, ConstantsAssumption DEF NoJob
    <3> QED  BY <3>2 DEF ValidRuntimeState, Absent, InOperation
  <2> QED  BY <1>3, <2>1 DEF RecordFailure, Close, InactiveStatus
<1>4. CASE Commit(w) /\ KindAt(w) \in {"stop", "expire"}
  <2>1. status[InstAt(w)] # Absent
    <3>1. pc[w] \in PastCheck \cup Executing
      BY <1>4 DEF Commit
    <3> QED  BY <1>4, <3>1, OnItsWay DEF Commit, Owned, ValidRuntimeState, Absent, InOperation
  <2> QED  BY <1>4, <2>1 DEF Commit, Close, InactiveStatus
<1> QED  BY <1>1, <1>2, <1>3, <1>4

\* Who is on his way to a container has an older job than one that is created now, so
\* the instance of the new job waits for none of them any more.
LEMMA CreateOthers ==
  ASSUME Inv, NEW i \in Instance, NEW j \in Job, NEW kind \in JobKind, NEW n \in Nat,
         CreateJob(i, j, kind, n), UNCHANGED <<pc, hand, row, result>>
  PROVE  /\ \A w \in Worker : pc[w] \in PastCheck \cup Executing =>
              /\ JobAt(w) \in Job \ {j} /\ InstAt(w) \in Instance
              /\ JobAt(w)' = JobAt(w) /\ InstAt(w)' = InstAt(w) /\ KindAt(w)' = KindAt(w)
              /\ InstAt(w) = i => ~Wanted(w)'
              /\ InstAt(w) # i => Wanted(w)' = Wanted(w)
         /\ \A k \in Instance \ {i} : opOf'[k] = opOf[k]
         /\ opOf'[i] = j /\ jobKind'[j] = kind
         /\ \A k \in Job \ {j} : jobKind'[k] = jobKind[k]
         /\ \A k \in Job : jobStatus[k] # "none" => jobStatus'[k] # "none"
<1> USE DEF Inv, TypeOK, InstanceTypeOK, JobTypeOK, CreateJob
<1>1. ASSUME NEW w \in Worker, pc[w] \in PastCheck \cup Executing
      PROVE  /\ JobAt(w) \in Job \ {j} /\ InstAt(w) \in Instance
             /\ JobAt(w)' = JobAt(w) /\ InstAt(w)' = InstAt(w) /\ KindAt(w)' = KindAt(w)
  BY <1>1, OnItsWay DEF JobAt, InstAt, KindAt
<1>2. ASSUME NEW w \in Worker, pc[w] \in PastCheck \cup Executing
      PROVE  /\ InstAt(w) = i => ~Wanted(w)'
             /\ InstAt(w) # i => Wanted(w)' = Wanted(w)
  BY <1>1, <1>2 DEF Wanted
<1> QED  BY <1>1, <1>2

\* A request leaves instances where they are; a reset is the only one that changes
\* the flag, and from then on the old container is known by its id alone.
LEMMA CreatePlace ==
  ASSUME Inv, PlaceInv, TypeOK', NEW i \in Instance, NEW j \in Job, NEW kind \in JobKind,
         NEW n \in Nat, CreateJob(i, j, kind, n),
         status' = [status EXCEPT ![i] = To(kind)],
         UNCHANGED <<workerOf, rid, pc, hand, row, result, container>>,
         \A k \in Instance \ {i} : gen'[k] = gen[k],
         \/ kind = "start" /\ status[i] = Absent
         \/ /\ kind # "start" /\ NextAllowed(kind, status[i])
            /\ kind # "reset" => gen'[i] = gen[i]
  PROVE  PlaceInv'
<1> USE DEF Inv, TypeOK, InstanceTypeOK
<1>1. ASSUME NEW w \in Worker, pc[w] \in PastCheck \cup Executing
      PROVE  /\ JobAt(w) \in Job \ {j} /\ JobAt(w) # NoJob /\ InstAt(w) \in Instance
             /\ JobAt(w)' = JobAt(w) /\ InstAt(w)' = InstAt(w) /\ KindAt(w)' = KindAt(w)
             /\ InstAt(w) = i => ~Wanted(w)'
             /\ InstAt(w) # i => Wanted(w)' = Wanted(w)
  BY <1>1, CreateOthers, OnItsWay
<1>2. /\ \A k \in Instance \ {i} : opOf'[k] = opOf[k] /\ status'[k] = status[k]
      /\ opOf'[i] = j /\ status'[i] = To(kind) /\ jobKind'[j] = kind
      /\ \A k \in Job \ {j} : jobKind'[k] = jobKind[k]
      /\ \A k \in Job : jobStatus[k] # "none" => jobStatus'[k] # "none"
  BY CreateOthers
<1>3. \A k \in Instance : status[k] \in InOperation \cup {"pending"} => opOf[k] \in Job \ {j}
  BY DEF ValidRuntimeState, OutcomeClosesJob, OpFinal, CreateJob, InOperation, NoJob
<1>4. NowhereYet'
  <2>1. \A k \in Instance \ {i} : NowhereYet!(k)'
    BY <1>2 DEF PlaceInv, NowhereYet
  <2>2. NowhereYet!(i)'
    BY <1>2 DEF PlaceInv, NowhereYet, JobKind, To, From, NextAllowed, Ending, InactiveStatus, Absent
  <2> QED  BY <2>1, <2>2 DEF NowhereYet
<1>5. KindOfStatus'
  <2>1. \A k \in Instance \ {i} : KindOfStatus!(k)'
    BY <1>2, <1>3 DEF PlaceInv, KindOfStatus, InOperation
  <2>2. KindOfStatus!(i)'
    BY <1>2 DEF JobKind, To
  <2> QED  BY <2>1, <2>2 DEF KindOfStatus
<1>6. CallCurrent'
  <2>1. ASSUME NEW v \in Worker, pc'[v] \in {"claim"} \cup Executing, Wanted(v)'
        PROVE  CallCurrent!(v)'
    <3>1. pc[v] \in {"claim"} \cup Executing /\ pc[v] \in PastCheck \cup Executing
      BY <2>1 DEF PastCheck
    <3>2. Wanted(v) /\ InstAt(v) # i /\ InstAt(v) \in Instance /\ InstAt(v)' = InstAt(v)
      BY <2>1, <3>1, <1>1
    <3> QED  BY <3>1, <3>2, <1>2 DEF PlaceInv, CallCurrent
  <2> QED  BY <2>1 DEF CallCurrent
<1>7. UnwantedEnds'
  <2>1. ASSUME NEW v \in Worker, pc'[v] \in Executing, ~Wanted(v)'
        PROVE  status'[InstAt(v)'] \in Ending
    <3>1. InstAt(v)' = InstAt(v) /\ InstAt(v) \in Instance /\ JobAt(v) # NoJob
      BY <2>1, <1>1
    <3>2. CASE InstAt(v) # i
      BY <2>1, <3>1, <3>2, <1>1, <1>2 DEF PlaceInv, UnwantedEnds
    <3>3. CASE InstAt(v) = i /\ ~Wanted(v)
      <4>1. status[i] \in Ending
        BY <2>1, <3>3 DEF PlaceInv, UnwantedEnds
      <4> QED  BY <4>1 DEF Ending, InactiveStatus, Absent, NextAllowed, From, JobKind
    <3>4. CASE InstAt(v) = i /\ Wanted(v)
      <4>1. status[i] # "running" /\ status[i] # Absent
        BY <3>1, <3>4 DEF ValidRuntimeState, Wanted, Absent, InOperation
      <4> QED  BY <4>1, <3>1, <3>4, <1>2 DEF Ending, Absent, NextAllowed, From, To, JobKind
    <3> QED  BY <3>2, <3>3, <3>4
  <2> QED  BY <2>1 DEF UnwantedEnds
<1>8. TakesOverNew'
  <2>1. ASSUME NEW v \in Worker, pc'[v] \in PastCheck, Wanted(v)', workerOf'[InstAt(v)'] # v
        PROVE  \/ status'[InstAt(v)'] \in {"pending", "pulling"}
               \/ status'[InstAt(v)'] = "stopping" /\ Bare(InstAt(v))'
    <3>1. /\ pc[v] \in PastCheck /\ Wanted(v) /\ workerOf[InstAt(v)] # v
          /\ InstAt(v) \in Instance \ {i} /\ InstAt(v)' = InstAt(v)
      BY <2>1, <1>1
    <3>2. ASSUME Bare(InstAt(v)) PROVE Bare(InstAt(v))'
      <4>1. ASSUME NEW u \in Worker
            PROVE  /\ container'[u][InstAt(v)] = NoContainer
                   /\ pc'[u] \in Executing /\ InstAt(u)' = InstAt(v) => Wanted(u)'
        BY <3>1, <3>2, <1>1 DEF Bare
      <4> QED  BY <4>1, <3>1 DEF Bare
    <3> QED  BY <3>1, <3>2, <1>2 DEF PlaceInv, TakesOverNew
  <2> QED  BY <2>1 DEF TakesOverNew
<1>9. ContainersKnown'
  <2>1. ASSUME NEW k \in Instance, NEW w \in Worker, container'[w][k] # NoContainer
        PROVE  ContainersKnown!(k, w)'
    <3>1. container[w][k] # NoContainer /\ container[w][k] \in Container
      BY <2>1 DEF HostTypeOK
    <3>2. jobStatus'[container'[w][k].id] # "none"
      BY <3>1, <1>2 DEF PlaceInv, ContainersKnown, Container
    <3>3. CASE k # i
      BY <3>1, <3>2, <3>3, <1>2 DEF PlaceInv, ContainersKnown
    <3>4. CASE k = i
      <4>1. kind # "start"
        BY <3>1, <3>4 DEF PlaceInv, NowhereYet
      <4>2. kind \in {"restart", "reset"} => status[i] = "running"
        BY <4>1 DEF NextAllowed, From
      <4>3. container[w][i].id # j
        BY <3>1, <3>4 DEF PlaceInv, ContainersKnown, CreateJob
      <4>4. kind = "reset" /\ workerOf[i] = w => container[w][i].id = rid[i]
        BY <3>1, <3>4, <4>2 DEF PlaceInv, ContainersKnown
      <4>5. kind = "restart" /\ workerOf[i] = w =>
              container[w][i].id = rid[i] /\ container[w][i].gen = gen[i]
        BY <3>1, <3>4, <4>2 DEF PlaceInv, ContainersKnown
      <4> QED  BY <3>2, <3>4, <4>1, <4>3, <4>4, <4>5, <1>2 DEF To, JobKind
    <3> QED  BY <3>3, <3>4
  <2> QED  BY <2>1 DEF ContainersKnown
<1>10. ResultHere'
  <2>1. ASSUME NEW v \in Worker, pc'[v] \in Executing, Wanted(v)', Here(v)' # NoContainer
        PROVE  ResultHere!(v)'
    <3>1. Wanted(v) /\ InstAt(v)' = InstAt(v) /\ JobAt(v)' = JobAt(v) /\ KindAt(v)' = KindAt(v)
      BY <2>1, <1>1
    <3>2. Here(v) # NoContainer /\ Here(v)' = Here(v)
      BY <2>1, <3>1 DEF Here
    <3> QED  BY <2>1, <3>1, <3>2 DEF PlaceInv, ResultHere
  <2> QED  BY <2>1 DEF ResultHere
<1>11. CreatesFor'
  BY <1>1 DEF PlaceInv, CreatesFor, Executing
<1>12. RoomLeft'
  <2>1. ASSUME NEW w \in Worker, NEW k \in Hosted(w)' PROVE k \in Hosted(w)
    <3>1. CASE k # i
      BY <2>1, <3>1, <1>1, <1>2 DEF Hosted, Active
    <3>2. CASE k = i
      <4>1. workerOf[i] = w /\ status[i] # Absent
        BY <2>1, <3>2, ConstantsAssumption DEF Hosted, PlaceInv, NowhereYet, Worker
      <4>2. status[i] \in ActiveStatus \ {"stopping"}
        BY <4>1 DEF NextAllowed, From, JobKind, ActiveStatus
      <4> QED  BY <3>2, <4>1, <4>2 DEF Hosted, Active
    <3> QED  BY <3>1, <3>2
  <2>2. IsFiniteSet({k \in Instance : status'[k] # Absent})
    BY <1>2, RowsFinite DEF PlaceInv
  <2>3. \A w \in Worker : (pc[w] \in PastCheck /\ Wanted(w) /\ KindAt(w) = "start")' =>
           /\ pc[w] \in PastCheck /\ Wanted(w) /\ KindAt(w) = "start"
           /\ InstAt(w)' = InstAt(w)
    BY <1>1
  <2>4. \A w \in Worker : Hosted(w)' \subseteq Hosted(w)
    BY <2>1
  <2> QED  BY <2>2, <2>3, <2>4, RoomStays DEF PlaceInv
<1> QED  BY <1>4, <1>5, <1>6, <1>7, <1>8, <1>9, <1>10, <1>11, <1>12 DEF PlaceInv

\* A worker that has a message goes on towards its claim.
LEMMA ApproachStep ==
  ASSUME Inv, PlaceInv, TypeOK', NEW w \in Worker, Others(w), hand'[w] = hand[w],
         UNCHANGED <<status, opOf, workerOf, rid, gen, jobInst, jobKind, container>>,
         \A j \in Job : jobStatus[j] # "none" => jobStatus'[j] # "none",
         pc[w] \in Processing \ Executing, pc'[w] \in PastCheck,
         pc'[w] = "claim" /\ Wanted(w) =>
           /\ row'[w].gen = gen[InstAt(w)] /\ row'[w].rid = rid[InstAt(w)]
           /\ row'[w].status = status[InstAt(w)],
         Wanted(w) /\ workerOf[InstAt(w)] # w =>
           \/ status[InstAt(w)] \in {"pending", "pulling"}
           \/ status[InstAt(w)] = "stopping" /\ Bare(InstAt(w)),
         Wanted(w) /\ KindAt(w) = "start" =>
           Cardinality(Hosted(w) \cup {InstAt(w)}) <= Capacity
  PROVE  PlaceInv'
<1> USE DEF Inv, TypeOK, InstanceTypeOK, Others
<1>1. \A v \in Worker : /\ JobAt(v)' = JobAt(v) /\ InstAt(v)' = InstAt(v)
                        /\ KindAt(v)' = KindAt(v) /\ Wanted(v)' = Wanted(v)
                        /\ Here(v)' = Here(v)
  BY DEF JobAt, InstAt, KindAt, Wanted, Here
<1>2. \A v \in Worker : pc'[v] \in Executing => v # w /\ pc[v] = pc'[v]
  BY DEF PastCheck, Executing
<1>2a. \A v \in Worker : pc[v] \in Executing => v # w /\ pc[v] = pc'[v]
  OBVIOUS
<1>3. NowhereYet' /\ KindOfStatus'
  BY DEF PlaceInv, NowhereYet, KindOfStatus
<1>4. CallCurrent'
  <2>1. ASSUME NEW v \in Worker, pc'[v] \in {"claim"} \cup Executing, Wanted(v)'
        PROVE  CallCurrent!(v)'
    <3>1. CASE v = w
      BY <2>1, <3>1, <1>1, <1>2
    <3>2. CASE v # w
      BY <2>1, <3>2, <1>1 DEF PlaceInv, CallCurrent
    <3> QED  BY <3>1, <3>2
  <2> QED  BY <2>1 DEF CallCurrent
<1>5. UnwantedEnds'
  BY <1>1, <1>2 DEF PlaceInv, UnwantedEnds
<1>6. \A i \in Instance : Bare(i) => Bare(i)'
  BY <1>1, <1>2 DEF Bare
<1>7. TakesOverNew'
  <2>1. ASSUME NEW v \in Worker, pc'[v] \in PastCheck, Wanted(v)', workerOf'[InstAt(v)'] # v
        PROVE  TakesOverNew!(v)'
    <3>1. /\ Wanted(v) /\ workerOf[InstAt(v)] # v /\ InstAt(v)' = InstAt(v)
          /\ InstAt(v) \in Instance
      <4>1. CASE v = w
        BY <2>1, <4>1, <1>1, MessageInHand
      <4>2. CASE v # w
        BY <2>1, <4>2, <1>1, OnItsWay
      <4> QED  BY <4>1, <4>2
    <3> QED  BY <2>1, <3>1, <1>6 DEF PlaceInv, TakesOverNew
  <2> QED  BY <2>1 DEF TakesOverNew
<1>8. ContainersKnown'
  <2>1. ASSUME NEW i \in Instance, NEW v \in Worker, container'[v][i] # NoContainer
        PROVE  ContainersKnown!(i, v)'
    <3>1. container[v][i] \in Container
      BY <2>1 DEF HostTypeOK
    <3> QED  BY <2>1, <3>1 DEF PlaceInv, ContainersKnown, Container
  <2> QED  BY <2>1 DEF ContainersKnown
<1>9. ResultHere'
  BY <1>1, <1>2 DEF PlaceInv, ResultHere
<1>10. CreatesFor'
  BY <1>1, <1>2 DEF PlaceInv, CreatesFor, Executing
<1>11. RoomLeft'
  <2>1. \A v \in Worker : Hosted(v)' = Hosted(v)
    BY <1>1, <1>2, <1>2a DEF Hosted, Active
  <2>2. ASSUME NEW v \in Worker PROVE (Cardinality(Hosted(v)) <= Capacity)'
    BY <2>1 DEF PlaceInv, RoomLeft
  <2>3. ASSUME NEW v \in Worker, (pc[v] \in PastCheck /\ Wanted(v) /\ KindAt(v) = "start")'
        PROVE  (Cardinality(Hosted(v) \cup {InstAt(v)}) <= Capacity)'
    <3>1. (Hosted(v) \cup {InstAt(v)})' = Hosted(v) \cup {InstAt(v)}
      BY <2>1, <1>1
    <3>2. Cardinality(Hosted(v) \cup {InstAt(v)}) <= Capacity
      BY <2>3, <1>1 DEF PlaceInv, RoomLeft
    <3> QED  BY <3>1, <3>2
  <2>4. IsFiniteSet({i \in Instance : status[i] # Absent})'
    BY DEF PlaceInv, RoomLeft
  <2> QED  BY <2>2, <2>3, <2>4 DEF RoomLeft
<1> QED  BY <1>3, <1>4, <1>5, <1>7, <1>8, <1>9, <1>10, <1>11 DEF PlaceInv

\* canProcess: a job that is wanted and not pinned is for an instance without a
\* worker, which has not run, or for one that counts already.
LEMMA CheckAcceptPlace ==
  ASSUME Inv, PlaceInv, TypeOK', NEW w \in Worker, CheckAccept(w)
  PROVE  PlaceInv'
<1> USE DEF Inv, TypeOK, InstanceTypeOK
<1>1. pc[w] = "check" /\ pc'[w] = "begin" /\ ~Pinned(w) /\ Others(w) /\ hand'[w] = hand[w]
  BY DEF CheckAccept, Goto, Others, WorkerOnly, streamVars, WorkerTypeOK
<1>2. JobAt(w) \in Job /\ InstAt(w) \in Instance /\ JobAt(w) # NoJob
  BY <1>1, MessageInHand, ConstantsAssumption DEF Processing, NoJob
<1>3. Wanted(w) => /\ status[InstAt(w)] \in InOperation \cup {"pending"}
                   /\ status[InstAt(w)] = "stopping" <=> KindAt(w) \in {"stop", "expire"}
  BY <1>2 DEF Wanted, ValidRuntimeState, InOperation, KindAt
<1>4. ASSUME Wanted(w), workerOf[InstAt(w)] # w
      PROVE  \/ status[InstAt(w)] \in {"pending", "pulling"}
             \/ status[InstAt(w)] = "stopping" /\ Bare(InstAt(w))
  <2>1. workerOf[InstAt(w)] = NoWorker
    BY <1>1, <1>4 DEF Pinned
  <2>2. status[InstAt(w)] \in {"pending", "stopping"}
    BY <2>1, <1>2, <1>3, <1>4 DEF PlaceInv, NowhereYet, Ending, InOperation, InactiveStatus, Absent
  <2>3. Bare(InstAt(w))
    <3>1. \A u \in Worker : container[u][InstAt(w)] = NoContainer
      BY <2>1, <1>2 DEF PlaceInv, NowhereYet
    <3>2. \A u \in Worker : ~(pc[u] \in Executing /\ InstAt(u) = InstAt(w))
      BY <2>1, ConstantsAssumption DEF ExecutesOwn, Worker
    <3> QED  BY <3>1, <3>2 DEF Bare
  <2> QED  BY <2>2, <2>3
<1>5. ASSUME Wanted(w), KindAt(w) = "start"
      PROVE  Cardinality(Hosted(w) \cup {InstAt(w)}) <= Capacity
  <2>1. status[InstAt(w)] \in InOperation \cup {"pending"} /\ status[InstAt(w)] # "stopping"
    BY <1>3, <1>5
  <2>2. IsFiniteSet(Hosted(w)) /\ Cardinality(Hosted(w)) \in Nat
    BY HostedFinite DEF PlaceInv
  <2>3. CASE workerOf[InstAt(w)] = w
    <3>1. InstAt(w) \in Hosted(w)
      BY <1>2, <2>1, <2>3 DEF Hosted, Active, ActiveStatus, InOperation
    <3>2. Hosted(w) \cup {InstAt(w)} = Hosted(w)
      BY <3>1
    <3> QED  BY <3>2 DEF PlaceInv, RoomLeft
  <2>4. CASE workerOf[InstAt(w)] # w
    <3> DEFINE Load == {i \in Instance : workerOf[i] = w /\ status[i] \in InOperation \cup {"running"}}
    <3>1. LoadOf(w) < Capacity /\ LoadOf(w) = Cardinality(Load)
      BY <1>5, <2>4 DEF CheckAccept, NewHere, LoadOf
    <3>2. Hosted(w) \subseteq Load
      BY ConstantsAssumption
         DEF Hosted, Active, ActiveStatus, InOperation, PlaceInv, NowhereYet, Worker
    <3>3. IsFiniteSet(Load)
      <4>1. Load \subseteq {i \in Instance : status[i] # Absent}
        BY DEF InOperation, Absent
      <4> QED  BY <4>1, FS_Subset DEF PlaceInv, RoomLeft
    <3> HIDE DEF Load
    <3>4. Cardinality(Hosted(w)) <= Cardinality(Load) /\ Cardinality(Load) \in Nat
      BY <3>2, <3>3, FS_Subset, FS_CardinalityType
    <3>5. Cardinality(Hosted(w) \cup {InstAt(w)}) <= Cardinality(Hosted(w)) + 1
      <4>1. Cardinality(Hosted(w) \cup {InstAt(w)}) =
              IF InstAt(w) \in Hosted(w) THEN Cardinality(Hosted(w)) ELSE Cardinality(Hosted(w)) + 1
        BY <2>2, FS_AddElement
      <4> QED  BY <4>1, <2>2
    <3>6. Cardinality(Hosted(w) \cup {InstAt(w)}) \in Nat
      BY <2>2, FS_AddElement, FS_CardinalityType
    <3> QED  BY <3>1, <3>4, <3>5, <3>6, <2>2, ConstantsAssumption
  <2> QED  BY <2>3, <2>4
<1>6. UNCHANGED <<status, opOf, workerOf, rid, gen, jobInst, jobKind, jobStatus, container>>
  BY DEF CheckAccept, WorkerOnly, instVars, jobVars
<1>7. pc'[w] \in PastCheck /\ pc'[w] # "claim" /\ pc[w] \in Processing \ Executing
  BY <1>1 DEF PastCheck, Executing, Processing
<1> QED  BY <1>1, <1>4, <1>5, <1>6, <1>7, ApproachStep

\* The job is locked, the instance is read.
LEMMA LockReadPlace ==
  ASSUME Inv, PlaceInv, TypeOK', NEW w \in Worker, LockJob(w) \/ ReadInstance(w)
  PROVE  PlaceInv'
<1> USE DEF Inv, TypeOK
<1>1. /\ pc[w] \in PastCheck /\ pc[w] \in Processing \ Executing /\ pc'[w] \in PastCheck
      /\ pc'[w] = "claim" => ReadInstance(w)
  BY DEF LockJob, ReadInstance, Goto, PastCheck, Executing, Processing, Holding, WorkerTypeOK
<1>2. /\ Others(w) /\ hand'[w] = hand[w]
      /\ UNCHANGED <<status, opOf, workerOf, rid, gen, jobInst, jobKind, container>>
  BY DEF LockJob, ReadInstance, Goto, Others, WorkerOnly, instVars, jobVars, streamVars,
         WorkerTypeOK
<1>3. \A j \in Job : jobStatus[j] # "none" => jobStatus'[j] # "none"
  BY DEF LockJob, ReadInstance, WorkerOnly, jobVars, JobTypeOK
<1>4. pc'[w] = "claim" => /\ row'[w].gen = gen[InstAt(w)] /\ row'[w].rid = rid[InstAt(w)]
                          /\ row'[w].status = status[InstAt(w)]
  BY <1>1 DEF ReadInstance, WorkerTypeOK
<1>5. Wanted(w) /\ workerOf[InstAt(w)] # w =>
           \/ status[InstAt(w)] \in {"pending", "pulling"}
           \/ status[InstAt(w)] = "stopping" /\ Bare(InstAt(w))
  BY <1>1 DEF PlaceInv, TakesOverNew
<1>6. Wanted(w) /\ KindAt(w) = "start" => Cardinality(Hosted(w) \cup {InstAt(w)}) <= Capacity
  BY <1>1 DEF PlaceInv, RoomLeft
<1> QED  BY <1>1, <1>2, <1>3, <1>4, <1>5, <1>6, ApproachStep

\* The claim takes an instance over from another worker only when there is nothing to
\* take with it; whoever else approaches the instance with its job is left with what
\* TakesOverNew says of the claimer.
LEMMA ClaimPlace ==
  ASSUME Inv, PlaceInv, TypeOK', NEW w \in Worker, Claim(w)
  PROVE  PlaceInv'
<1> USE DEF Inv, TypeOK, InstanceTypeOK, WorkerTypeOK
<1>1. PICK i \in Instance : i = InstAt(w)
  BY OnItsWay DEF Claim, PastCheck
<1>2. /\ pc[w] = "claim" /\ Wanted(w) /\ opOf[i] = JobAt(w) /\ opOf[i] # NoJob
      /\ pc[w] \in PastCheck
  BY <1>1, OnItsWay DEF Claim, Owned, PastCheck, Wanted
<1>3. /\ \A v \in Worker \ {w} : pc'[v] = pc[v] /\ row'[v] = row[v]
      /\ row'[w].gen = row[w].gen /\ row'[w].rid = row[w].rid
      /\ pc'[w] = IF KindAt(w) = "start" THEN "create" ELSE "exec"
  BY DEF Claim, Goto, Row
<1>4. /\ UNCHANGED <<hand, result, opOf, rid, gen, jobInst, jobKind, jobStatus, container>>
      /\ workerOf'[i] = w /\ \A k \in Instance \ {i} : workerOf'[k] = workerOf[k]
      /\ \A k \in Instance \ {i} : status'[k] = status[k]
  BY <1>1 DEF Claim, jobVars, streamVars
<1>5. /\ status[i] \in InOperation \cup {"pending"}
      /\ status[i] = "stopping" <=> KindAt(w) \in {"stop", "expire"}
  BY <1>1, <1>2 DEF ValidRuntimeState, InOperation, KindAt
<1>6. /\ status[i] = "pending" => KindAt(w) = "start" /\ status'[i] = "pulling"
      /\ status[i] # "pending" => status'[i] = status[i]
  <2>1. row[w].status = status[i]
    BY <1>1, <1>2 DEF PlaceInv, CallCurrent
  <2>2. status[i] = "pending" => KindAt(w) = "start"
    BY <1>2 DEF PlaceInv, KindOfStatus, KindAt
  <2> QED  BY <1>1, <2>1, <2>2 DEF Claim
<1>7. \A v \in Worker : /\ JobAt(v)' = JobAt(v) /\ InstAt(v)' = InstAt(v)
                        /\ KindAt(v)' = KindAt(v) /\ Wanted(v)' = Wanted(v)
                        /\ Here(v)' = Here(v)
  BY <1>4 DEF JobAt, InstAt, KindAt, Wanted, Here
<1>8. \A v \in Worker \ {w} : pc[v] \in {"claim"} \cup Executing /\ Wanted(v) => InstAt(v) # i
  BY <1>1, <1>2 DEF JobMutex, Holding, Wanted
<1>9. \A v \in Worker \ {w} : pc[v] \in Executing => InstAt(v) # i
  BY <1>1, <1>2 DEF NotOvertaken, JobMutex, Holding, Executing
<1>10. \A v \in Worker : pc[v] \in PastCheck \cup Executing => InstAt(v) \in Instance
  BY OnItsWay
<1>11. workerOf[i] # w => \/ status[i] \in {"pending", "pulling"}
                          \/ status[i] = "stopping" /\ Bare(i)
  BY <1>1, <1>2 DEF PlaceInv, TakesOverNew
<1>12. w # NoWorker /\ pc'[w] \in Executing /\ pc'[w] \notin PastCheck
  BY <1>3, ConstantsAssumption DEF Executing, PastCheck, Worker
<1>13. NowhereYet'
  <2>1. \A k \in Instance \ {i} : NowhereYet!(k)'
    BY <1>4 DEF PlaceInv, NowhereYet
  <2>2. NowhereYet!(i)'
    BY <1>4, <1>5, <1>6, <1>12 DEF InOperation, Absent
  <2> QED  BY <2>1, <2>2 DEF NowhereYet
<1>14. KindOfStatus'
  <2>1. \A k \in Instance \ {i} : KindOfStatus!(k)'
    BY <1>4 DEF PlaceInv, KindOfStatus
  <2>2. KindOfStatus!(i)'
    BY <1>4, <1>6 DEF PlaceInv, KindOfStatus
  <2> QED  BY <2>1, <2>2 DEF KindOfStatus
<1>15. CallCurrent'
  <2>1. ASSUME NEW v \in Worker, pc'[v] \in {"claim"} \cup Executing, Wanted(v)'
        PROVE  CallCurrent!(v)'
    <3>1. CASE v = w
      BY <3>1, <1>1, <1>2, <1>3, <1>4, <1>7, <1>12 DEF PlaceInv, CallCurrent, PastCheck
    <3>2. CASE v # w
      <4>1. InstAt(v) \in Instance \ {i}
        BY <2>1, <3>2, <1>3, <1>7, <1>8, <1>10 DEF PastCheck
      <4> QED  BY <2>1, <3>2, <4>1, <1>3, <1>4, <1>7 DEF PlaceInv, CallCurrent
    <3> QED  BY <3>1, <3>2
  <2> QED  BY <2>1 DEF CallCurrent
<1>16. UnwantedEnds'
  <2>1. ASSUME NEW v \in Worker, pc'[v] \in Executing, ~Wanted(v)'
        PROVE  status'[InstAt(v)'] \in Ending
    <3>1. v # w /\ InstAt(v) \in Instance \ {i} /\ pc[v] \in Executing
      BY <2>1, <1>2, <1>3, <1>7, <1>9, <1>10
    <3> QED  BY <2>1, <3>1, <1>4, <1>7 DEF PlaceInv, UnwantedEnds
  <2> QED  BY <2>1 DEF UnwantedEnds
<1>17. \A k \in Instance : Bare(k) => Bare(k)'
  BY <1>2, <1>3, <1>4, <1>7 DEF Bare
<1>18. TakesOverNew'
  <2>1. ASSUME NEW v \in Worker, pc'[v] \in PastCheck, Wanted(v)', workerOf'[InstAt(v)'] # v
        PROVE  \/ status'[InstAt(v)] \in {"pending", "pulling"}
               \/ status'[InstAt(v)] = "stopping" /\ Bare(InstAt(v))'
    <3>1. v # w /\ pc[v] \in PastCheck /\ Wanted(v) /\ InstAt(v)' = InstAt(v) /\ InstAt(v) \in Instance
      BY <2>1, <1>3, <1>7, <1>10, <1>12
    <3>2. CASE InstAt(v) # i
      BY <2>1, <3>1, <3>2, <1>4, <1>17 DEF PlaceInv, TakesOverNew
    <3>3. CASE InstAt(v) = i
      <4>1. \/ status[i] \in {"pending", "pulling"}
            \/ status[i] = "stopping" /\ Bare(i)
        BY <3>1, <3>3, <1>11 DEF PlaceInv, TakesOverNew
      <4>2. Bare(i) => Bare(InstAt(v))'
        BY <3>1, <3>3, <1>17 DEF Bare
      <4> QED  BY <3>1, <3>3, <4>1, <4>2, <1>6
    <3> QED  BY <3>2, <3>3
  <2> QED  BY <2>1, <1>7 DEF TakesOverNew
<1>19. ContainersKnown'
  <2>1. ASSUME NEW k \in Instance, NEW v \in Worker, container'[v][k] # NoContainer
        PROVE  ContainersKnown!(k, v)'
    <3>1. container[v][k] # NoContainer /\ jobStatus'[container'[v][k].id] # "none"
      BY <2>1, <1>4 DEF PlaceInv, ContainersKnown
    <3>2. CASE k # i
      BY <3>1, <3>2, <1>4 DEF PlaceInv, ContainersKnown
    <3>3. CASE k = i
      <4>1. status[i] # "pending" /\ status'[i] = status[i] /\ status[i] # "running"
        BY <3>1, <3>3, <1>5, <1>6 DEF PlaceInv, NowhereYet, InOperation
      <4>2. status[i] \in {"restarting", "resetting"} => workerOf[i] = w
        BY <1>11
      <4> QED  BY <3>1, <3>3, <4>1, <4>2, <1>4 DEF PlaceInv, ContainersKnown
    <3> QED  BY <3>2, <3>3
  <2> QED  BY <2>1 DEF ContainersKnown
<1>20. ResultHere'
  <2>1. ASSUME NEW v \in Worker, pc'[v] \in Executing, Wanted(v)', Here(v)' # NoContainer
        PROVE  ResultHere!(v)'
    <3>1. CASE v = w
      BY <3>1, <1>3, <1>7
    <3>2. CASE v # w
      BY <2>1, <3>2, <1>3, <1>4, <1>7 DEF PlaceInv, ResultHere
    <3> QED  BY <3>1, <3>2
  <2> QED  BY <2>1 DEF ResultHere
<1>21. CreatesFor'
  BY <1>3, <1>7 DEF PlaceInv, CreatesFor
<1>22. RoomLeft'
  <2>1. ASSUME NEW v \in Worker \ {w}, NEW k \in Hosted(v)' PROVE k \in Hosted(v)
    <3>1. k # i
      BY <2>1, <1>4 DEF Hosted
    <3> QED  BY <2>1, <3>1, <1>3, <1>4, <1>7 DEF Hosted, Active
  <2>2. ASSUME NEW k \in Hosted(w)', k # i PROVE k \in Hosted(w)
    BY <2>2, <1>1, <1>4, <1>7 DEF Hosted, Active
  <2>3. ASSUME i \in Hosted(w)', KindAt(w) # "start" PROVE i \in Hosted(w)
    <3>1. /\ status'[i] = status[i] /\ status[i] \in ActiveStatus
          /\ status[i] # "stopping" \/ container[w][i] # NoContainer \/ KindAt(w) = "reset"
      BY <2>3, <1>4, <1>6, <1>7 DEF Hosted, Active
    <3>2. workerOf[i] = w
      <4>1. status[i] = "pulling" => KindAt(w) = "start"
        BY <1>2 DEF PlaceInv, KindOfStatus, KindAt
      <4>2. ~(status[i] = "stopping" /\ Bare(i))
        BY <3>1, <1>5 DEF Bare
      <4> QED  BY <2>3, <4>1, <4>2, <1>6, <1>11
    <3> QED  BY <3>1, <3>2, <1>5 DEF Hosted, Active
  <2>4. IsFiniteSet({k \in Instance : status'[k] # Absent})
    <3>1. \A k \in Instance : status'[k] # Absent => status[k] # Absent
      BY <1>4, <1>5 DEF InOperation, Absent
    <3> QED  BY <3>1, RowsFinite DEF PlaceInv
  <2>5. \A v \in Worker : (pc[v] \in PastCheck /\ Wanted(v) /\ KindAt(v) = "start")' =>
           /\ pc[v] \in PastCheck /\ Wanted(v) /\ KindAt(v) = "start"
           /\ InstAt(v)' = InstAt(v) /\ Hosted(v)' \subseteq Hosted(v)
    BY <2>1, <1>3, <1>7, <1>12
  <2>6. \A v \in Worker :
           \/ Hosted(v)' \subseteq Hosted(v)
           \/ /\ Hosted(v)' \subseteq Hosted(v) \cup {InstAt(v)}
              /\ pc[v] \in PastCheck /\ Wanted(v) /\ KindAt(v) = "start"
    BY <2>1, <2>2, <2>3, <1>1, <1>2
  <2> QED  BY <2>4, <2>5, <2>6, RoomStays DEF PlaceInv
<1> QED  BY <1>13, <1>14, <1>15, <1>16, <1>18, <1>19, <1>20, <1>21, <1>22 DEF PlaceInv

\* A Docker call of w that goes on: only the container of the instance changes, and
\* stays what it was, goes, or is the one that w makes.
LEMMA CallStep ==
  ASSUME Inv, PlaceInv, TypeOK', NEW w \in Worker, Others(w), hand'[w] = hand[w],
         UNCHANGED <<status, opOf, workerOf, rid, gen, jobInst, jobKind, jobStatus>>,
         pc[w] \in Executing, pc'[w] \in Executing, row'[w] = row[w],
         \A u \in Worker, i \in Instance :
           u # w \/ i # InstAt(w) => container'[u][i] = container[u][i],
         \/ Here(w)' = NoContainer
         \/ /\ Here(w) # NoContainer
            /\ Here(w)'.id = Here(w).id /\ Here(w)'.gen = Here(w).gen
         \/ pc[w] = "create" /\ Here(w)' = New(w),
         Wanted(w) /\ Here(w)' # NoContainer =>
           /\ pc'[w] # "exec" /\ KindAt(w) = "reset" => Here(w)'.id = JobAt(w)
           /\ \/ pc'[w] \in {"launch", "recover"}
              \/ pc'[w] = "commit" /\ KindAt(w) \notin {"stop", "expire"}
              => Here(w)'.id = result'[w],
         pc'[w] \in {"create", "launch", "recover"} => KindAt(w) \in {"start", "reset"}
  PROVE  PlaceInv'
<1> USE DEF Inv, TypeOK, InstanceTypeOK, Others
<1>1. PICK i \in Instance : i = InstAt(w)
  BY OnItsWay
<1>2. \A v \in Worker : /\ JobAt(v)' = JobAt(v) /\ InstAt(v)' = InstAt(v)
                        /\ KindAt(v)' = KindAt(v) /\ Wanted(v)' = Wanted(v)
                        /\ (v # w => Here(v)' = Here(v) \/ InstAt(v) \notin Instance)
  BY DEF JobAt, InstAt, KindAt, Wanted, Here
<1>3. /\ JobAt(w) # NoJob /\ JobAt(w) \in Job /\ jobStatus[JobAt(w)] # "none" /\ workerOf[i] = w
      /\ w # NoWorker
  BY <1>1, OnItsWay, ConstantsAssumption DEF ExecutesOwn, Worker
<1>4. Here(w) = container[w][i] /\ Here(w)' = container'[w][i]
  BY <1>1, <1>2 DEF Here
<1>5. pc[w] = "create" => KindAt(w) \in {"start", "reset"}
  BY DEF PlaceInv, CreatesFor
<1>6. \A v \in Worker : pc[v] \in PastCheck \cup Executing => InstAt(v) \in Instance
  BY OnItsWay
<1>7. pc[w] \notin PastCheck /\ pc'[w] \notin PastCheck
  BY DEF PastCheck, Executing
<1>8. /\ New(w).id = JobAt(w) /\ New(w).gen = row[w].gen
      /\ Wanted(w) => row[w].gen = gen[i]
  BY <1>1 DEF New, PlaceInv, CallCurrent
<1>9. NowhereYet' /\ KindOfStatus'
  <2>1. ASSUME NEW k \in Instance, workerOf[k] = NoWorker, NEW v \in Worker
        PROVE  container'[v][k] = NoContainer
    BY <2>1, <1>1, <1>3 DEF PlaceInv, NowhereYet
  <2> QED  BY <2>1 DEF PlaceInv, NowhereYet, KindOfStatus
<1>10. CallCurrent'
  <2>1. ASSUME NEW v \in Worker, pc'[v] \in {"claim"} \cup Executing, Wanted(v)'
        PROVE  CallCurrent!(v)'
    BY <2>1, <1>2, <1>7 DEF PlaceInv, CallCurrent, PastCheck
  <2> QED  BY <2>1 DEF CallCurrent
<1>11. UnwantedEnds'
  BY <1>2 DEF PlaceInv, UnwantedEnds
<1>12. TakesOverNew'
  <2>1. ASSUME NEW v \in Worker, pc'[v] \in PastCheck, Wanted(v)', workerOf'[InstAt(v)'] # v
        PROVE  \/ status'[InstAt(v)] \in {"pending", "pulling"}
               \/ status'[InstAt(v)] = "stopping" /\ Bare(InstAt(v))'
    <3>1. v # w /\ pc[v] \in PastCheck /\ Wanted(v) /\ InstAt(v)' = InstAt(v) /\ InstAt(v) \in Instance
      BY <2>1, <1>2, <1>6, <1>7
    <3>2. ASSUME status[InstAt(v)] = "stopping", Bare(InstAt(v)) PROVE Bare(InstAt(v))'
      <4>1. container'[w][i] = NoContainer \/ InstAt(v) # i
        <5>1. CASE InstAt(v) = i
          <6>1. Wanted(w) /\ Here(w) = NoContainer
            BY <3>2, <5>1, <1>1, <1>4 DEF Bare
          <6>2. KindAt(w) \in {"stop", "expire"}
            BY <3>2, <5>1, <6>1, <1>1, <1>3 DEF ValidRuntimeState, InOperation, Wanted, KindAt
          <6> QED  BY <6>1, <6>2, <1>4, <1>5
        <5> QED  BY <5>1
      <4>2. ASSUME NEW u \in Worker
            PROVE  /\ container'[u][InstAt(v)] = NoContainer
                   /\ pc'[u] \in Executing /\ InstAt(u)' = InstAt(v) => Wanted(u)'
        BY <3>1, <3>2, <4>1, <1>1, <1>2 DEF Bare
      <4> QED  BY <3>1, <4>2 DEF Bare
    <3> QED  BY <2>1, <3>1, <3>2 DEF PlaceInv, TakesOverNew
  <2> QED  BY <2>1, <1>2 DEF TakesOverNew
<1>13. ContainersKnown'
  <2>1. ASSUME NEW k \in Instance, NEW v \in Worker, container'[v][k] # NoContainer
        PROVE  ContainersKnown!(k, v)'
    <3>1. CASE v # w \/ k # i
      BY <2>1, <3>1, <1>1 DEF PlaceInv, ContainersKnown
    <3>2. CASE /\ v = w /\ k = i /\ container[w][i] # NoContainer
               /\ container'[w][i].id = container[w][i].id
               /\ container'[w][i].gen = container[w][i].gen
      BY <3>2 DEF PlaceInv, ContainersKnown
    <3>3. CASE v = w /\ k = i /\ pc[w] = "create" /\ container'[w][i] = New(w)
      <4>1. container'[w][i].id = JobAt(w) /\ container'[w][i].gen = row[w].gen
        BY <3>3, <1>8
      <4>2. CASE Wanted(w)
        <5>1. opOf[i] = JobAt(w) /\ row[w].gen = gen[i]
          BY <4>2, <1>1, <1>8 DEF Wanted
        <5>2. status[i] # "running" /\ status[i] # "restarting"
          <6>1. opOf[i] # NoJob /\ KindAt(w) \in {"start", "reset"} /\ jobKind[opOf[i]] = KindAt(w)
            BY <3>3, <5>1, <1>3, <1>5 DEF KindAt
          <6>2. status[i] = "running" => opOf[i] = NoJob
            BY DEF ValidRuntimeState, InOperation
          <6>3. status[i] = "restarting" => jobKind[opOf[i]] = "restart"
            BY DEF PlaceInv, KindOfStatus
          <6> QED  BY <6>1, <6>2, <6>3
        <5> QED  BY <3>3, <4>1, <5>1, <5>2, <1>3
      <4>3. CASE ~Wanted(w)
        <5>1. status[i] \in Ending
          BY <4>3, <1>1 DEF PlaceInv, UnwantedEnds
        <5> QED  BY <3>3, <4>1, <5>1, <1>3 DEF Ending, InactiveStatus
      <4> QED  BY <4>2, <4>3
    <3> QED  BY <2>1, <3>1, <3>2, <3>3, <1>4
  <2> QED  BY <2>1 DEF ContainersKnown
<1>14. ResultHere'
  <2>1. ASSUME NEW v \in Worker, pc'[v] \in Executing, Wanted(v)', Here(v)' # NoContainer
        PROVE  ResultHere!(v)'
    <3>1. CASE v = w
      BY <2>1, <3>1, <1>2
    <3>2. CASE v # w
      <4>1. Here(v)' = Here(v) /\ pc[v] \in Executing
        BY <2>1, <3>2, <1>2, <1>6
      <4> QED  BY <2>1, <3>2, <4>1, <1>2 DEF PlaceInv, ResultHere
    <3> QED  BY <3>1, <3>2
  <2> QED  BY <2>1 DEF ResultHere
<1>15. CreatesFor'
  BY <1>2 DEF PlaceInv, CreatesFor
<1>16. RoomLeft'
  <2>1. ASSUME NEW v \in Worker, NEW k \in Hosted(v)' PROVE k \in Hosted(v)
    <3>1. CASE v # w \/ k # i
      BY <2>1, <3>1, <1>1, <1>2 DEF Hosted, Active
    <3>2. CASE v = w /\ k = i
      BY <2>1, <3>2, <1>1, <1>2, <1>4, <1>5 DEF Hosted, Active
    <3> QED  BY <3>1, <3>2
  <2>2. IsFiniteSet({k \in Instance : status'[k] # Absent})
    BY DEF PlaceInv, RoomLeft
  <2>3. \A v \in Worker : (pc[v] \in PastCheck /\ Wanted(v) /\ KindAt(v) = "start")' =>
           /\ pc[v] \in PastCheck /\ Wanted(v) /\ KindAt(v) = "start"
           /\ InstAt(v)' = InstAt(v) /\ Hosted(v)' \subseteq Hosted(v)
    BY <2>1, <1>2, <1>7
  <2> QED  BY <2>1, <2>2, <2>3, RoomStays DEF PlaceInv
<1> QED  BY <1>9, <1>10, <1>11, <1>12, <1>13, <1>14, <1>15, <1>16 DEF PlaceInv

\* The Docker calls that go on, whole.
LEMMA CallPlace ==
  ASSUME Inv, PlaceInv, TypeOK', NEW w \in Worker,
         \/ ExecRestart(w) /\ IsOld(w)
         \/ ExecStop(w) \/ ReuseContainer(w) \/ CreateContainer(w) \/ StartContainer(w)
  PROVE  PlaceInv'
<1> USE DEF Inv, TypeOK, WorkerTypeOK, HostTypeOK
<1>1. Others(w) /\ UNCHANGED Rows
  <2>1. QuietAction(w)
    BY DEF QuietAction
  <2> QED  BY <2>1, QuietActions DEF Quiet
<1>2. pc[w] \in Executing /\ InstAt(w) \in Instance /\ JobAt(w) \in Job /\ JobAt(w) # NoJob
  <2>1. pc[w] \in Executing
    BY DEF Executing, ExecRestart, ExecStop, ReuseContainer, CreateContainer, StartContainer
  <2> QED  BY <2>1, OnItsWay
<1>3. /\ hand'[w] = hand[w] /\ row'[w] = row[w]
      /\ UNCHANGED <<status, opOf, workerOf, rid, gen, jobInst, jobKind, jobStatus, hand>>
  BY DEF ExecRestart, ExecStop, ReuseContainer, CreateContainer, StartContainer,
         DockerOnly, instVars, jobVars, streamVars
<1>4. /\ pc'[w] \in Executing
      /\ pc'[w] = "create" => ExecStop(w) /\ KindAt(w) = "reset"
      /\ pc'[w] \in {"launch", "recover"} => pc[w] = "create"
  <2>1. CASE ExecRestart(w) /\ IsOld(w)
    BY <2>1 DEF ExecRestart, Goto, Executing
  <2>2. CASE ExecStop(w)
    BY <2>2 DEF ExecStop, Goto, Executing
  <2>3. CASE ReuseContainer(w)
    BY <2>3 DEF ReuseContainer, Goto, Executing
  <2>4. CASE CreateContainer(w)
    BY <2>4 DEF CreateContainer, Goto, Executing
  <2>5. CASE StartContainer(w)
    BY <2>5 DEF StartContainer, Goto, Executing
  <2> QED  BY <2>1, <2>2, <2>3, <2>4, <2>5
<1>5. pc'[w] \in {"create", "launch", "recover"} => KindAt(w) \in {"start", "reset"}
  BY <1>4 DEF PlaceInv, CreatesFor
<1>6. Here(w)' = container'[w][InstAt(w)]
  BY <1>3 DEF Here, InstAt, JobAt
<1>7. Here(w) # NoContainer => Here(w) \in Container
  BY <1>2 DEF Here
<1>8. ASSUME Wanted(w), pc[w] = "exec", KindAt(w) = "reset", Here(w) # NoContainer, ~IsOld(w)
      PROVE  Here(w).id = JobAt(w)
  <2>1. row[w].rid = rid[InstAt(w)] /\ workerOf[InstAt(w)] = w
    BY <1>2, <1>8 DEF PlaceInv, CallCurrent, ExecutesOwn
  <2>2. status[InstAt(w)] = "resetting"
    <3>1. /\ status[InstAt(w)] \in InOperation \cup {"pending"}
          /\ status[InstAt(w)] = "stopping" <=> KindAt(w) \in {"stop", "expire"}
      BY <1>2, <1>8 DEF Wanted, ValidRuntimeState, InOperation, KindAt, InstanceTypeOK
    <3>2. jobKind[opOf[InstAt(w)]] = "reset"
      BY <1>8 DEF Wanted, KindAt
    <3> QED  BY <1>2, <1>8, <3>1, <3>2 DEF PlaceInv, KindOfStatus, InOperation
  <2> QED  BY <1>2, <1>8, <2>1, <2>2 DEF PlaceInv, ContainersKnown, Here, IsOld, Wanted
<1>9. /\ \A u \in Worker, i \in Instance :
           u # w \/ i # InstAt(w) => container'[u][i] = container[u][i]
      /\ \/ Here(w)' = NoContainer
         \/ /\ Here(w) # NoContainer
            /\ Here(w)'.id = Here(w).id /\ Here(w)'.gen = Here(w).gen
         \/ pc[w] = "create" /\ Here(w)' = New(w)
      /\ Wanted(w) /\ Here(w)' # NoContainer =>
           /\ pc'[w] # "exec" /\ KindAt(w) = "reset" => Here(w)'.id = JobAt(w)
           /\ \/ pc'[w] \in {"launch", "recover"}
              \/ pc'[w] = "commit" /\ KindAt(w) \notin {"stop", "expire"}
              => Here(w)'.id = result'[w]
  <2>1. CASE ExecRestart(w) /\ IsOld(w)
    <3>1. /\ container' = [container EXCEPT ![w][InstAt(w)] = [Here(w) EXCEPT !.up = TRUE]]
          /\ result'[w] = row[w].rid /\ Here(w) # NoContainer /\ Here(w).id = row[w].rid
          /\ pc'[w] = "commit"
      BY <2>1 DEF ExecRestart, IsOld, SetHere, Returns, Goto
    <3>2. Here(w)'.id = Here(w).id /\ Here(w)'.gen = Here(w).gen
      BY <1>2, <1>6, <1>7, <3>1 DEF Container
    <3>3. KindAt(w) = "restart"
      BY <2>1 DEF ExecRestart
    <3> QED  BY <1>2, <1>6, <3>1, <3>2, <3>3
  <2>2. CASE ExecStop(w)
    <3>1. /\ container' = [container EXCEPT ![w][InstAt(w)] =
                             IF IsOld(w) THEN NoContainer ELSE Here(w)]
          /\ pc[w] = "exec" /\ KindAt(w) \in {"stop", "expire", "reset"}
          /\ pc'[w] = IF KindAt(w) = "reset" THEN "create" ELSE "commit"
      BY <2>2 DEF ExecStop, SetHere, Goto
    <3>2. Here(w)' = IF IsOld(w) THEN NoContainer ELSE Here(w)
      BY <1>2, <1>6, <3>1
    <3> QED  BY <1>2, <1>8, <3>1, <3>2
  <2>3. CASE ReuseContainer(w)
    <3>1. /\ UNCHANGED container /\ result'[w] = Here(w).id /\ Here(w) # NoContainer
          /\ pc'[w] \in {"commit", "recover"} /\ pc[w] = "create"
      BY <2>3 DEF ReuseContainer, Returns, Goto
    <3>2. Here(w)' = Here(w)
      BY <1>6, <3>1 DEF Here
    <3>3. Wanted(w) /\ KindAt(w) = "reset" => Here(w).id = JobAt(w)
      BY <1>2, <3>1 DEF PlaceInv, ResultHere
    <3> QED  BY <3>1, <3>2, <3>3
  <2>4. CASE CreateContainer(w)
    <3>1. /\ container' = [container EXCEPT ![w][InstAt(w)] = New(w)]
          /\ result'[w] = JobAt(w) /\ pc[w] = "create" /\ pc'[w] = "launch"
      BY <2>4 DEF CreateContainer, SetHere, Returns, Goto
    <3>2. Here(w)' = New(w) /\ New(w).id = JobAt(w)
      BY <1>2, <1>6, <3>1 DEF New
    <3> QED  BY <1>2, <3>1, <3>2
  <2>5. CASE StartContainer(w)
    <3>1. /\ container' = [container EXCEPT ![w][InstAt(w)] = [Here(w) EXCEPT !.up = TRUE]]
          /\ result' = result /\ Here(w) # NoContainer
          /\ pc'[w] = "commit" /\ pc[w] \in {"launch", "recover"}
      BY <2>5 DEF StartContainer, SetHere, Goto
    <3>2. Here(w)'.id = Here(w).id /\ Here(w)'.gen = Here(w).gen
      BY <1>2, <1>6, <1>7, <3>1 DEF Container
    <3>3. Wanted(w) => /\ Here(w).id = result[w]
                       /\ KindAt(w) = "reset" => Here(w).id = JobAt(w)
      BY <1>2, <3>1 DEF PlaceInv, ResultHere
    <3> QED  BY <1>2, <3>1, <3>2, <3>3
  <2> QED  BY <2>1, <2>2, <2>3, <2>4, <2>5
<1> QED  BY <1>1, <1>2, <1>3, <1>4, <1>5, <1>9, CallStep

\* The outcome of a start, restart or reset: the container that is there, if any, was
\* committed or made by this job, so it is the one committed and carries the flag.
LEMMA CommitPlace ==
  ASSUME Inv, PlaceInv, TypeOK', NEW w \in Worker, Commit(w),
         KindAt(w) \in {"start", "restart", "reset"}
  PROVE  PlaceInv'
<1> USE DEF Inv, TypeOK, InstanceTypeOK, WorkerTypeOK
<1>1. PICK i \in Instance : i = InstAt(w)
  BY OnItsWay DEF Commit, Executing
<1>2. /\ pc[w] = "commit" /\ pc[w] \in Executing /\ Wanted(w) /\ opOf[i] = JobAt(w)
      /\ JobAt(w) # NoJob /\ JobAt(w) \in Job /\ workerOf[i] = w /\ w # NoWorker
  BY <1>1, OnItsWay, ConstantsAssumption DEF Commit, Owned, Executing, Wanted, Worker
<1>3. /\ Others(w) /\ pc'[w] = "ack"
      /\ UNCHANGED <<hand, row, result, workerOf, gen, jobInst, jobKind, container>>
      /\ status'[i] = "running" /\ rid'[i] = result[w] /\ opOf'[i] = NoJob
      /\ \A k \in Instance \ {i} :
           status'[k] = status[k] /\ rid'[k] = rid[k] /\ opOf'[k] = opOf[k]
  BY <1>1 DEF Commit, Close, Goto, Others, streamVars
<1>4. \A j \in Job : jobStatus[j] # "none" => jobStatus'[j] # "none"
  BY DEF Commit, Close, JobTypeOK
<1>5. /\ status[i] \in (InOperation \cup {"pending"}) \ {"stopping", "pending"}
  BY <1>1, <1>2 DEF ValidRuntimeState, InOperation, KindAt, PlaceInv, NowhereYet
<1>6. \A v \in Worker : /\ JobAt(v)' = JobAt(v) /\ InstAt(v)' = InstAt(v)
                        /\ KindAt(v)' = KindAt(v) /\ Here(v)' = Here(v)
                        /\ (InstAt(v) \in Instance \ {i} => Wanted(v)' = Wanted(v))
  BY <1>3 DEF JobAt, InstAt, KindAt, Here, Wanted
<1>7. ASSUME NEW v \in Worker, pc'[v] \in PastCheck \cup Executing
      PROVE  /\ v # w /\ pc[v] = pc'[v] /\ row'[v] = row[v]
             /\ InstAt(v) \in Instance /\ JobAt(v) # NoJob
             /\ pc[v] \in Executing => InstAt(v) # i
             /\ Wanted(v)' => InstAt(v) # i /\ Wanted(v)
  <2>1. v # w /\ pc[v] = pc'[v] /\ row'[v] = row[v]
    BY <1>3, <1>7 DEF Others, PastCheck, Executing
  <2>2. InstAt(v) \in Instance /\ JobAt(v) # NoJob
    BY <1>7, <2>1, OnItsWay
  <2>3. pc[v] \in Executing => InstAt(v) # i
    BY <1>2, <2>1 DEF ExecutesOwn
  <2>4. Wanted(v)' => InstAt(v) # i
    BY <1>3, <1>6, <2>2 DEF Wanted
  <2> QED  BY <1>6, <2>1, <2>2, <2>3, <2>4
<1>8. NowhereYet'
  BY <1>2, <1>3 DEF PlaceInv, NowhereYet, Absent
<1>9. KindOfStatus'
  BY <1>3 DEF PlaceInv, KindOfStatus
<1>10. CallCurrent'
  <2>1. ASSUME NEW v \in Worker, pc'[v] \in {"claim"} \cup Executing, Wanted(v)'
        PROVE  CallCurrent!(v)'
    <3>1. pc'[v] \in PastCheck \cup Executing
      BY <2>1 DEF PastCheck
    <3>2. v # w /\ pc[v] = pc'[v] /\ row'[v] = row[v] /\ InstAt(v) \in Instance \ {i} /\ Wanted(v)
      BY <2>1, <3>1, <1>7
    <3> QED  BY <2>1, <3>2, <1>3, <1>6 DEF PlaceInv, CallCurrent
  <2> QED  BY <2>1 DEF CallCurrent
<1>11. UnwantedEnds'
  <2>1. ASSUME NEW v \in Worker, pc'[v] \in Executing, ~Wanted(v)'
        PROVE  status'[InstAt(v)'] \in Ending
    BY <2>1, <1>3, <1>6, <1>7 DEF PlaceInv, UnwantedEnds
  <2> QED  BY <2>1 DEF UnwantedEnds
<1>12. \A k \in Instance \ {i} : Bare(k) => Bare(k)'
  BY <1>3, <1>6, <1>7 DEF Bare
<1>13. TakesOverNew'
  <2>1. ASSUME NEW v \in Worker, pc'[v] \in PastCheck, Wanted(v)', workerOf'[InstAt(v)'] # v
        PROVE  \/ status'[InstAt(v)] \in {"pending", "pulling"}
               \/ status'[InstAt(v)] = "stopping" /\ Bare(InstAt(v))'
    <3>1. /\ v # w /\ pc[v] \in PastCheck /\ Wanted(v) /\ InstAt(v)' = InstAt(v)
          /\ InstAt(v) \in Instance \ {i}
      BY <2>1, <1>6, <1>7
    <3>2. Bare(InstAt(v)) => Bare(InstAt(v))'
      BY <3>1, <1>12 DEF Bare
    <3> QED  BY <2>1, <3>1, <3>2, <1>3 DEF PlaceInv, TakesOverNew
  <2> QED  BY <2>1, <1>6 DEF TakesOverNew
<1>14. ContainersKnown'
  <2>1. ASSUME NEW k \in Instance, NEW v \in Worker, container'[v][k] # NoContainer
        PROVE  ContainersKnown!(k, v)'
    <3>1. container[v][k] # NoContainer /\ container[v][k] \in Container
      BY <2>1, <1>3 DEF HostTypeOK
    <3>2. jobStatus'[container'[v][k].id] # "none"
      BY <3>1, <1>3, <1>4 DEF PlaceInv, ContainersKnown, Container
    <3>3. CASE k # i
      BY <3>1, <3>2, <3>3, <1>3 DEF PlaceInv, ContainersKnown
    <3>4. CASE k = i /\ v # w
      BY <3>2, <3>4, <1>2, <1>3
    <3>5. CASE k = i /\ v = w
      <4>1. Here(w) = container[w][i] /\ Here(w) # NoContainer
        BY <3>1, <3>5, <1>1 DEF Here
      <4>2. Here(w).id = result[w] /\ (KindAt(w) = "reset" => Here(w).id = JobAt(w))
        BY <4>1, <1>2 DEF PlaceInv, ResultHere
      <4>3. status[i] = "resetting" => KindAt(w) = "reset"
        BY <1>2 DEF PlaceInv, KindOfStatus, KindAt
      <4>4. status[i] \in {"pulling", "restarting", "resetting"}
        BY <1>5 DEF InOperation, PlaceInv, KindOfStatus
      <4>5. container[w][i].gen = gen[i]
        BY <4>1, <4>2, <4>3, <4>4, <1>2 DEF PlaceInv, ContainersKnown
      <4> QED  BY <3>2, <3>5, <4>1, <4>2, <4>5, <1>3
    <3> QED  BY <3>3, <3>4, <3>5
  <2> QED  BY <2>1 DEF ContainersKnown
<1>15. ResultHere'
  <2>1. ASSUME NEW v \in Worker, pc'[v] \in Executing, Wanted(v)', Here(v)' # NoContainer
        PROVE  ResultHere!(v)'
    <3>1. pc[v] = pc'[v] /\ Wanted(v)
      BY <2>1, <1>7
    <3> QED  BY <2>1, <3>1, <1>3, <1>6 DEF PlaceInv, ResultHere
  <2> QED  BY <2>1 DEF ResultHere
<1>16. CreatesFor'
  BY <1>6, <1>7 DEF PlaceInv, CreatesFor, Executing
<1>17. RoomLeft'
  <2>1. ASSUME NEW v \in Worker, NEW k \in Hosted(v)' PROVE k \in Hosted(v)
    <3>1. CASE k # i
      <4>1. pc'[v] \in Executing => pc[v] \in Executing
        BY <1>7
      <4> QED  BY <2>1, <3>1, <4>1, <1>3, <1>6 DEF Hosted, Active
    <3>2. CASE k = i
      BY <2>1, <3>2, <1>2, <1>3, <1>5 DEF Hosted, Active, InOperation, ActiveStatus
    <3> QED  BY <3>1, <3>2
  <2>2. IsFiniteSet({k \in Instance : status'[k] # Absent})
    <3>1. \A k \in Instance : status'[k] # Absent => status[k] # Absent \/ k = i
      BY <1>3
    <3> QED  BY <3>1, RowsFinite DEF PlaceInv
  <2>3. \A v \in Worker : (pc[v] \in PastCheck /\ Wanted(v) /\ KindAt(v) = "start")' =>
           /\ pc[v] \in PastCheck /\ Wanted(v) /\ KindAt(v) = "start"
           /\ InstAt(v)' = InstAt(v) /\ Hosted(v)' \subseteq Hosted(v)
    BY <2>1, <1>6, <1>7
  <2> QED  BY <2>1, <2>2, <2>3, RoomStays DEF PlaceInv
<1> QED  BY <1>8, <1>9, <1>10, <1>11, <1>13, <1>14, <1>15, <1>16, <1>17 DEF PlaceInv

\* PlaceInv is kept by every step.
LEMMA PlaceStep == Inv /\ PlaceInv /\ [Next]_vars => PlaceInv'
<1> SUFFICES ASSUME Inv, PlaceInv, [Next]_vars
             PROVE  PlaceInv'
  OBVIOUS
<1>1. TypeOK'
  BY TypeOKStep DEF Inv
<1>2. Subsides => PlaceInv'
  BY <1>1, SubsidesStep
<1>3. ASSUME NEW i \in Instance, NEW j \in Job, Start(i, j) PROVE PlaceInv'
  <2>1. "start" \in JobKind /\ 1 \in Nat
    BY DEF JobKind
  <2>2. CreateJob(i, j, "start", 1) /\ status' = [status EXCEPT ![i] = To("start")]
    BY <1>3 DEF Start
  <2>3. /\ UNCHANGED <<workerOf, rid, pc, hand, row, result, container>>
        /\ \A k \in Instance \ {i} : gen'[k] = gen[k]
        /\ status[i] = Absent
    BY <1>3 DEF Start, procVars, streamVars, Inv, TypeOK, InstanceTypeOK
  <2> QED  BY <1>1, <2>1, <2>2, <2>3, CreatePlace
<1>4. ASSUME NEW i \in Instance, NEW j \in Job, NEW kind \in JobKind \ {"start"},
             Transition(i, j, kind), UNCHANGED <<pc, row, result>>
      PROVE  PlaceInv'
  <2>1. sv[i] + 1 \in Nat
    BY DEF Inv, TypeOK, InstanceTypeOK
  <2>2. CreateJob(i, j, kind, sv[i] + 1) /\ status' = [status EXCEPT ![i] = To(kind)]
    BY <1>4 DEF Transition
  <2>3. /\ UNCHANGED <<workerOf, rid, pc, hand, row, result, container>>
        /\ \A k \in Instance \ {i} : gen'[k] = gen[k]
        /\ NextAllowed(kind, status[i]) /\ (kind # "reset" => gen'[i] = gen[i])
    BY <1>4 DEF Transition, streamVars, Inv, TypeOK, InstanceTypeOK
  <2> QED  BY <1>1, <1>4, <2>1, <2>2, <2>3, CreatePlace
<1>5. ASSUME NEW i \in Instance, NEW j \in Job, NEW kind \in JobKind, Request(i, j, kind)
      PROVE  PlaceInv'
  BY <1>4, <1>5 DEF Request, procVars
<1>6. ASSUME NEW w \in Worker, NEW i \in Instance, ExpireInstance(w, i) PROVE PlaceInv'
  <2>1. UNCHANGED <<pc, row, result>> /\ "expire" \in JobKind \ {"start"}
    BY <1>6 DEF ExpireInstance, JobKind
  <2>2. CASE \E j \in Job : Transition(i, j, "expire")
    BY <1>4, <2>1, <2>2
  <2>3. CASE UNCHANGED WorkerOnly
    BY <1>2, <2>1, <2>3, RestingSubsides
  <2> QED  BY <1>6, <2>2, <2>3 DEF ExpireInstance
<1>7. ASSUME NEW w \in Worker,
             \/ Returning(w) \/ CleanupOrphans(w) \/ ExecFails(w) \/ CreateFails(w)
             \/ StartFails(w) \/ Reconcile(w) \/ Supersede(w) \/ RecordRetry(w)
             \/ RecordFailure(w) \/ RecordMissing(w) \/ PublishOutbox(w) \/ RenewLock(w)
      PROVE  PlaceInv'
  BY <1>1, <1>2, <1>7, ReturningSubsides, RestingSubsides, ClosingSubsides
<1>8. ASSUME NEW w \in Worker, CheckAccept(w) \/ LockJob(w) \/ ReadInstance(w) \/ Claim(w)
      PROVE  PlaceInv'
  BY <1>1, <1>8, CheckAcceptPlace, LockReadPlace, ClaimPlace
<1>9. ASSUME NEW w \in Worker, ExecRestart(w) PROVE PlaceInv'
  <2>1. CASE IsOld(w)
    BY <1>1, <1>9, <2>1, CallPlace
  <2>2. CASE ~IsOld(w)
    <3>1. QuietAction(w)
      BY <1>9 DEF QuietAction
    <3>2. Others(w) /\ UNCHANGED Rows
      BY <1>1, <3>1, QuietActions DEF Inv, Quiet
    <3>3. pc'[w] = "recordFailure" /\ UNCHANGED <<gen, container>>
      BY <1>9, <2>2
         DEF ExecRestart, FailedTo, Goto, DockerOnly, instVars, Inv, TypeOK, WorkerTypeOK
    <3>4. Subsides
      BY <3>2, <3>3 DEF Subsides, Others, Rows, Rests, Fewer, PastCheck, Executing
    <3> QED  BY <1>2, <3>4
  <2> QED  BY <2>1, <2>2
<1>10. ASSUME NEW w \in Worker,
              ExecStop(w) \/ ReuseContainer(w) \/ CreateContainer(w) \/ StartContainer(w)
       PROVE  PlaceInv'
  BY <1>1, <1>10, CallPlace
<1>11. ASSUME NEW w \in Worker, Commit(w) PROVE PlaceInv'
  <2>1. KindAt(w) \in JobKind
    BY <1>11, OnItsWay DEF Commit, Executing
  <2>2. CASE KindAt(w) \in {"stop", "expire"}
    BY <1>2, <1>11, <2>2, ClosingSubsides
  <2>3. CASE KindAt(w) \notin {"stop", "expire"}
    BY <1>1, <1>11, <2>1, <2>3, CommitPlace DEF JobKind
  <2> QED  BY <2>2, <2>3
<1>12. ASSUME NEW w \in Worker, Handle(w) PROVE PlaceInv'
  BY <1>12, <1>7, <1>8, <1>9, <1>10, <1>11 DEF Handle, Returning
<1>13. ASSUME NEW w \in Worker, Fails(w) PROVE PlaceInv'
  BY <1>13, <1>7 DEF Fails, Returning
<1>14. ASSUME NEW w \in Worker, Maintain(w) PROVE PlaceInv'
  BY <1>14, <1>6, <1>7 DEF Maintain, Returning
<1>15. CASE API
  <2>1. ASSUME NEW i \in Instance, Extend(i) PROVE PlaceInv'
    BY <1>2, <2>1, RestingSubsides
  <2> QED  BY <1>15, <1>3, <1>5, <2>1 DEF API
<1>16. CASE Environment
  <2>1. ASSUME NEW i \in Instance, TtlElapses(i) PROVE PlaceInv'
    BY <1>2, <2>1, RestingSubsides
  <2>2. ASSUME NEW w \in Worker, NEW i \in Instance, ContainerLost(w, i) PROVE PlaceInv'
    BY <1>2, <2>2, RestingSubsides
  <2>3. ASSUME NEW j \in Job, LockExpires(j) PROVE PlaceInv'
    BY <1>2, <2>3, RestingSubsides
  <2> QED  BY <1>16, <1>7, <2>1, <2>2, <2>3 DEF Environment, Returning
<1>17. CASE UNCHANGED vars
  BY <1>2, <1>17, RestingSubsides
<1>18. ASSUME NEW w \in Worker, PublishOutbox(w) \/ Tick(w) \/ Take(w) \/ Reclaim(w)
       PROVE  PlaceInv'
  BY <1>18, <1>7 DEF Returning
<1> QED  BY <1>12, <1>13, <1>14, <1>15, <1>16, <1>17, <1>18 DEF Next

\* Nothing runs at the beginning.
LEMMA PlaceInit == Init => PlaceInv
<1> SUFFICES ASSUME Init
             PROVE  PlaceInv
  OBVIOUS
<1> USE DEF Init, StreamInit, PastCheck, Executing
<1>1. NowhereYet /\ KindOfStatus /\ CallCurrent /\ UnwantedEnds /\ TakesOverNew
  BY DEF NowhereYet, KindOfStatus, CallCurrent, UnwantedEnds, TakesOverNew, Absent
<1>2. ContainersKnown /\ ResultHere /\ CreatesFor
  BY DEF ContainersKnown, ResultHere, CreatesFor
<1>3. RoomLeft
  <2>1. {i \in Instance : status[i] # Absent} = {}
    BY DEF Absent
  <2>2. \A w \in Worker : Hosted(w) = {}
    BY DEF Hosted, Active, ActiveStatus, Absent
  <2>3. IsFiniteSet({}) /\ Cardinality({}) = 0
    BY FS_EmptySet
  <2>4. ASSUME NEW w \in Worker PROVE Cardinality(Hosted(w)) <= Capacity
    <3>1. Cardinality(Hosted(w)) = 0
      BY <2>2, <2>3, Zenon
    <3> QED  BY <3>1, ConstantsAssumption
  <2> QED  BY <2>1, <2>3, <2>4 DEF RoomLeft
<1> QED  BY <1>1, <1>2, <1>3 DEF PlaceInv

\* It therefore always holds.
LEMMA PlaceInvariant == Spec => [](Inv /\ PlaceInv)
<1>1. Init => Inv /\ PlaceInv
  BY InvInit, PlaceInit
<1>2. (Inv /\ PlaceInv) /\ [Next]_vars => (Inv /\ PlaceInv)'
  BY InvStep, PlaceStep
<1> QED  BY <1>1, <1>2, PTL DEF Spec

\* The container that answers for a running instance was made for the flag that the
\* API accepts (transition raises the generation with the reset it queues; Stop and
\* Start of docker.go replace the container before the reset commits), whatever
\* crashes, retries and lost containers came in between.
THEOREM FlagsCurrent == Spec => []FlagCurrent
<1>1. Inv /\ PlaceInv => FlagCurrent
  BY DEF PlaceInv, ContainersKnown, FlagCurrent, Up
<1> QED  BY <1>1, PlaceInvariant, PTL

\* canProcess looks at the load of the worker before the job is locked and claimed, but
\* a worker handles one message at a time: its Docker host never carries more active
\* instances of its own than RUNTIME_WORKER_MAX_INSTANCES.
THEOREM CapacityKept == Spec => []CapacityRespected
<1>1. Inv /\ PlaceInv => CapacityRespected
  <2> SUFFICES ASSUME Inv, PlaceInv, NEW w \in Worker
               PROVE  Cardinality({i \in Instance : workerOf[i] = w /\ Active(i)
                                    /\ container[w][i] # NoContainer}) <= Capacity
    BY DEF CapacityRespected
  <2> DEFINE S == {i \in Instance : workerOf[i] = w /\ Active(i) /\ container[w][i] # NoContainer}
  <2>1. S \subseteq Hosted(w)
    BY DEF Hosted
  <2> HIDE DEF S
  <2>2. Cardinality(S) <= Cardinality(Hosted(w)) /\ Cardinality(S) \in Nat
    BY <2>1, HostedLess DEF PlaceInv
  <2>3. Cardinality(Hosted(w)) <= Capacity /\ Cardinality(Hosted(w)) \in Nat
    BY HostedFinite DEF PlaceInv, RoomLeft
  <2>4. Cardinality(S) <= Capacity
    BY <2>2, <2>3, ConstantsAssumption
  <2> QED  BY <2>4 DEF S
<1> QED  BY <1>1, PlaceInvariant, PTL

-----------------------------------------------------------------------------
(* As long as no call has failed: CalmInv, action by action.               *)

\* At most one call or transaction failed.
OneCounted ==
    \/ UNCHANGED <<faults, dbFaults>>
    \/ faults' = faults + 1 /\ UNCHANGED dbFaults
    \/ dbFaults' = dbFaults + 1 /\ UNCHANGED faults

\* A step either fails no call, or counts it.
LEMMA FaultsCounted ==
  ASSUME [Next]_vars
  PROVE  OneCounted
<1> USE DEF OneCounted, boundVars, vars, WorkerOnly, DbFault, Fault
<1>1. ASSUME NEW i \in Instance, NEW j \in Job, NEW kind \in JobKind,
             Start(i, j) \/ Request(i, j, kind) \/ Extend(i)
      PROVE  OneCounted
  BY <1>1 DEF Start, Request, Transition, Extend
<1>2. ASSUME NEW w \in Worker, PublishOutbox(w) \/ Tick(w) \/ Take(w) \/ Reclaim(w)
      PROVE  OneCounted
  BY <1>2 DEF PublishOutbox, Tick, Take, Reclaim
<1>3. ASSUME NEW w \in Worker, Maintain(w)
      PROVE  OneCounted
  BY <1>3 DEF Maintain, ExpireInstance, Transition, Reconcile, CleanupOrphans, ReclaimNothing
<1>4. ASSUME NEW w \in Worker,
             \/ CheckAccept(w) \/ CheckRefuse(w) \/ SkipJob(w) \/ LockJob(w) \/ ReadInstance(w)
             \/ Claim(w) \/ Supersede(w)
      PROVE  OneCounted
  BY <1>4 DEF CheckAccept, CheckRefuse, SkipJob, LockJob, ReadInstance, Claim, Supersede
<1>5. ASSUME NEW w \in Worker,
             \/ ExecRestart(w) \/ ExecStop(w) \/ ReuseContainer(w) \/ CreateContainer(w)
             \/ StartContainer(w) \/ StartFails(w)
      PROVE  OneCounted
  BY <1>5 DEF ExecRestart, ExecStop, ReuseContainer, CreateContainer, StartContainer, StartFails
<1>6. ASSUME NEW w \in Worker,
             \/ Commit(w) \/ CommitFails(w) \/ RecordRetry(w) \/ RecordFailure(w) \/ RecordMissing(w)
             \/ Requeue(w) \/ Retry(w) \/ AckMessage(w)
      PROVE  OneCounted
  BY <1>6 DEF Commit, CommitFails, RecordRetry, RecordFailure, RecordMissing, Requeue, Retry, AckMessage, StreamOnly
<1>7. ASSUME NEW w \in Worker, Fails(w)
      PROVE  OneCounted
  BY <1>7 DEF Fails, CheckFails, RecordFails, RedisFails, BeginFails, ReadFails, SupersedeFails,
              ClaimFails, ExecFails, CreateFails
<1>8. CASE Environment
  BY <1>8 DEF Environment, Crash, Boot, RenewLock, ContainerLost, LockExpires, TtlElapses
<1>9. CASE UNCHANGED vars
  BY <1>9
<1>10. ASSUME NEW w \in Worker, Handle(w)
       PROVE  OneCounted
  BY <1>10, <1>4, <1>5, <1>6 DEF Handle
<1>11. CASE API
  <2>1. "start" \in JobKind
    BY DEF JobKind
  <2>2. ASSUME NEW i \in Instance, Extend(i) PROVE OneCounted
    BY <2>2 DEF Extend
  <2> QED  BY <1>11, <1>1, <2>1, <2>2 DEF API
<1> QED  BY <1>2, <1>3, <1>7, <1>8, <1>9, <1>10, <1>11 DEF Next

\* What is calm after a step was calm before, and nothing failed in between.
LEMMA CalmBefore ==
  ASSUME TypeOK, [Next]_vars, Calm'
  PROVE  Calm /\ UNCHANGED <<faults, dbFaults>>
BY FaultsCounted DEF OneCounted, TypeOK, CounterTypeOK, Calm

\* Steps of w that take no instance over, lock nothing open and create nothing
\* elsewhere.
LEMMA CalmMoves ==
  ASSUME Inv, Calm, CalmInv, NEW w \in Worker, Others(w), UNCHANGED <<workerOf, jobInst>>,
         \A i \in Instance : opOf'[i] \in {opOf[i], NoJob},
         \A u \in Worker, i \in Instance :
           container'[u][i] # NoContainer => container[u][i] # NoContainer \/ workerOf[i] = u,
         \A v \in Worker \ {w} : container'[v] = container[v],
         \A j \in Job : Skip(j) => Skip(j)',
         \A j \in Job : jobStatus'[j] = "queued" =>
           jobStatus[j] = "queued" /\ opStatus'[j] = opStatus[j],
         pc'[w] \notin {"recordRetry", "retry"},
         pc'[w] \in {"launch", "recover"} => Here(w)' # NoContainer,
         pc'[w] \in PastCheck => ~(Wanted(w)' /\ workerOf[InstAt(w)'] \notin {NoWorker, w})
  PROVE  CalmInv'
<1> USE DEF Inv, TypeOK
<1>1. ASSUME NEW v \in Worker \ {w}, pc'[v] \in PastCheck \cup Executing
      PROVE  /\ pc[v] = pc'[v] /\ JobAt(v)' = JobAt(v) /\ InstAt(v)' = InstAt(v)
             /\ JobAt(v) \in Job /\ JobAt(v) # NoJob /\ InstAt(v) \in Instance
  BY <1>1, OnItsWay DEF Others, JobAt, InstAt
<1>2. NothingFailed'
  <2>1. ASSUME NEW v \in Worker \ {w}
        PROVE  /\ pc'[v] \notin {"recordRetry", "retry"}
               /\ pc'[v] \in {"launch", "recover"} => Here(v)' # NoContainer
    <3>1. pc'[v] = pc[v] /\ container'[v] = container[v]
      BY DEF Others
    <3>2. ASSUME pc'[v] \in {"launch", "recover"} PROVE Here(v)' = Here(v)
      <4>1. InstAt(v)' = InstAt(v)
        BY <1>1, <3>2 DEF Executing
      <4> QED  BY <3>1, <4>1 DEF Here
    <3>3. /\ pc[v] \notin {"recordRetry", "retry"}
          /\ pc[v] \in {"launch", "recover"} => Here(v) # NoContainer
      BY DEF CalmInv, NothingFailed
    <3> QED  BY <3>1, <3>2, <3>3
  <2> QED  BY <2>1 DEF CalmInv, NothingFailed
<1>3. LateSkips'
  <2>1. ASSUME NEW v \in Worker, pc'[v] \in PastCheck, workerOf'[InstAt(v)'] \notin {NoWorker, v},
               Wanted(v)'
        PROVE  pc'[v] = "begin" /\ Skip(JobAt(v))'
    <3>1. CASE v = w
      BY <2>1, <3>1
    <3>2. CASE v # w
      <4>1. Wanted(v)
        BY <2>1, <3>2, <1>1 DEF Wanted
      <4>2. pc[v] = "begin" /\ Skip(JobAt(v))
        BY <2>1, <3>2, <4>1, <1>1 DEF CalmInv, LateSkips
      <4> QED  BY <2>1, <3>2, <4>2, <1>1 DEF Skip
    <3> QED  BY <3>1, <3>2
  <2> QED  BY <2>1 DEF LateSkips
<1>4. AtHome'
  BY DEF CalmInv, AtHome
<1> QED  BY <1>2, <1>3, <1>4 DEF CalmInv

\* Steps that move no worker.
LEMMA CalmRests ==
  ASSUME Inv, Calm, CalmInv, UNCHANGED <<workerOf, pc, hand, container>>,
         \A v \in Worker : pc[v] \in PastCheck \cup Executing =>
           InstAt(v)' = InstAt(v) /\ (Wanted(v)' => Wanted(v)),
         \A v \in Worker : pc[v] = "begin" /\ Skip(JobAt(v)) => Skip(JobAt(v))',
         \A j \in Job : jobStatus'[j] = "queued" =>
           \/ opStatus'[j] = "pending"
           \/ jobStatus[j] = "queued" /\ opStatus'[j] = opStatus[j]
  PROVE  CalmInv'
<1>1. NothingFailed'
  BY DEF CalmInv, NothingFailed, Here, Executing
<1>2. LateSkips'
  BY DEF CalmInv, LateSkips
<1>3. AtHome'
  BY DEF CalmInv, AtHome
<1> QED  BY <1>1, <1>2, <1>3 DEF CalmInv

\* createJob: the new job is on nobody's hands.
LEMMA CalmCreates ==
  ASSUME Inv, Calm, CalmInv, NEW i \in Instance, NEW j \in Job, NEW kind \in JobKind, NEW n \in Nat,
         CreateJob(i, j, kind, n), UNCHANGED <<workerOf, pc, hand, row, result, container>>
  PROVE  CalmInv'
<1>1. \A v \in Worker : pc[v] \in PastCheck \cup Executing =>
        /\ JobAt(v) \in Job \ {j} /\ InstAt(v)' = InstAt(v) /\ JobAt(v)' = JobAt(v)
        /\ Wanted(v)' => Wanted(v)
  BY CreateOthers
<1>2. \A v \in Worker : pc[v] = "begin" /\ Skip(JobAt(v)) => Skip(JobAt(v))'
  BY <1>1 DEF CreateJob, Skip, PastCheck
<1>3. \A k \in Job : jobStatus'[k] = "queued" =>
           \/ opStatus'[k] = "pending"
           \/ jobStatus[k] = "queued" /\ opStatus'[k] = opStatus[k]
  BY DEF CreateJob, Inv, TypeOK, JobTypeOK
<1> QED  BY <1>1, <1>2, <1>3, CalmRests

\* A worker that goes back to its loop or to the message, and calls that go on.
LEMMA CalmQuiet ==
  ASSUME Inv, TypeOK', PlaceInv, Calm, Calm', CalmInv, NEW w \in Worker, QuietAction(w),
         UNCHANGED <<faults, dbFaults>>
  PROVE  CalmInv'
<1> USE DEF Inv, TypeOK, WorkerTypeOK, HostTypeOK, CounterTypeOK
<1>1. Others(w) /\ UNCHANGED Rows
  BY QuietActions DEF Quiet
<1>2. \A j \in Job : /\ Skip(j) => Skip(j)'
                     /\ jobStatus'[j] = jobStatus[j] /\ opStatus'[j] = opStatus[j]
  BY <1>1 DEF Rows, Skip
<1>3. ~(ExecFails(w) \/ CreateFails(w))
  BY DEF ExecFails, CreateFails, Fault, Calm
<1>4. CASE Returning(w)
  <2>1. /\ pc'[w] \notin PastCheck \cup Executing /\ UNCHANGED container
        /\ pc'[w] \notin {"recordRetry", "retry"}
    BY <1>4, ReturningStep DEF Calm
  <2> QED  BY <1>1, <1>2, <2>1, CalmMoves DEF Rows, Executing
<1>5. CASE CleanupOrphans(w)
  <2>1. /\ pc'[w] \in {"idle", "reclaim"}
        /\ \A v \in Worker \ {w} : container'[v] = container[v]
        /\ \A u \in Worker, i \in Instance :
             container'[u][i] # NoContainer => container[u][i] # NoContainer
    BY <1>5 DEF CleanupOrphans, Goto
  <2> QED  BY <1>1, <1>2, <2>1, CalmMoves DEF Rows, PastCheck
<1>6. CASE StartFails(w) \/ (ExecRestart(w) /\ ~IsOld(w))
  <2>1. pc'[w] = "recordFailure" /\ UNCHANGED container
    <3>1. CASE StartFails(w)
      BY <3>1 DEF StartFails, Fault, Calm, CalmInv, NothingFailed
    <3>2. CASE ExecRestart(w) /\ ~IsOld(w)
      BY <3>2 DEF ExecRestart, FailedTo, Goto
    <3> QED  BY <1>6, <3>1, <3>2
  <2> QED  BY <1>1, <1>2, <2>1, CalmMoves DEF Rows, PastCheck
<1>7. CASE \/ ExecRestart(w) /\ IsOld(w)
           \/ ExecStop(w) \/ ReuseContainer(w) \/ CreateContainer(w) \/ StartContainer(w)
  <2>1. pc[w] \in Executing /\ InstAt(w) \in Instance /\ workerOf[InstAt(w)] = w
    <3>1. pc[w] \in Executing
      BY <1>7 DEF Executing, ExecRestart, ExecStop, ReuseContainer, CreateContainer, StartContainer
    <3> QED  BY <3>1, OnItsWay DEF ExecutesOwn
  <2>2. PICK c : container' = [container EXCEPT ![w][InstAt(w)] = c]
    <3>1. CASE ReuseContainer(w)
      <4>1. container' = [container EXCEPT ![w][InstAt(w)] = container[w][InstAt(w)]]
        BY <2>1, <3>1 DEF ReuseContainer
      <4> QED  BY <4>1
    <3> QED  BY <1>7, <3>1 DEF ExecRestart, ExecStop, CreateContainer, StartContainer, SetHere
  <2>3. pc'[w] \in Executing \cup {"commit"}
    BY <1>7 DEF ExecRestart, ExecStop, ReuseContainer, CreateContainer, StartContainer, Goto, Executing
  <2>4. pc'[w] \in {"launch", "recover"} => Here(w)' # NoContainer
    <3>1. Here(w)' = container'[w][InstAt(w)]
      BY <1>1, <1>7 DEF Here, InstAt, JobAt, Rows, ExecRestart, ExecStop, ReuseContainer,
                        CreateContainer, StartContainer, DockerOnly, streamVars
    <3>2. CASE ReuseContainer(w)
      BY <3>1, <3>2 DEF ReuseContainer, Here
    <3>3. CASE CreateContainer(w)
      <4>1. New(w) \in Container
        BY <2>1, OnItsWay DEF New, Container, Row
      <4>2. Here(w)' = New(w)
        BY <2>1, <3>1, <3>3 DEF CreateContainer, SetHere
      <4> QED  BY <4>1, <4>2, ConstantsAssumption
    <3>4. CASE (ExecRestart(w) /\ IsOld(w)) \/ ExecStop(w) \/ StartContainer(w)
      BY <3>4 DEF ExecRestart, ExecStop, StartContainer, Goto
    <3> QED  BY <1>7, <3>2, <3>3, <3>4
  <2> QED  BY <1>1, <1>2, <2>1, <2>2, <2>3, <2>4, CalmMoves DEF Rows, Executing, PastCheck
<1> QED  BY <1>3, <1>4, <1>5, <1>6, <1>7 DEF QuietAction, Returning

\* The claim takes an instance over only from nobody: whoever comes late with the same
\* job finds it locked.
LEMMA CalmClaim ==
  ASSUME Inv, PlaceInv, Calm, CalmInv, NEW w \in Worker, Claim(w)
  PROVE  CalmInv'
<1> USE DEF Inv, TypeOK, InstanceTypeOK, JobTypeOK, WorkerTypeOK
<1>1. PICK i \in Instance : i = InstAt(w)
  BY OnItsWay DEF Claim, PastCheck
<1>2. /\ pc[w] = "claim" /\ pc[w] \in PastCheck /\ pc[w] \in Holding /\ Wanted(w)
      /\ opOf[i] = JobAt(w)
  BY <1>1 DEF Claim, Owned, PastCheck, Wanted, Holding
<1>3. /\ \A v \in Worker \ {w} : pc'[v] = pc[v]
      /\ pc'[w] \in {"create", "exec"} /\ pc'[w] \notin PastCheck
      /\ UNCHANGED <<hand, opOf, jobInst, jobStatus, lock, opStatus, container>>
      /\ workerOf'[i] = w /\ \A k \in Instance \ {i} : workerOf'[k] = workerOf[k]
  BY <1>1 DEF Claim, Goto, PastCheck, jobVars, streamVars
<1>4. workerOf[i] \in {NoWorker, w}
  BY <1>1, <1>2 DEF CalmInv, LateSkips
<1>5. \A v \in Worker : /\ JobAt(v)' = JobAt(v) /\ InstAt(v)' = InstAt(v)
                        /\ Wanted(v)' = Wanted(v) /\ Here(v)' = Here(v)
  BY <1>3 DEF JobAt, InstAt, Wanted, Here
<1>6. NothingFailed'
  BY <1>3, <1>5 DEF CalmInv, NothingFailed
<1>7. LateSkips'
  <2>1. ASSUME NEW v \in Worker, pc'[v] \in PastCheck, workerOf'[InstAt(v)'] \notin {NoWorker, v},
               Wanted(v)'
        PROVE  pc'[v] = "begin" /\ Skip(JobAt(v))'
    <3>1. v # w /\ pc[v] = pc'[v] /\ InstAt(v) \in Instance /\ Wanted(v)
      BY <2>1, <1>3, <1>5, OnItsWay
    <3>2. Skip(JobAt(v))' = Skip(JobAt(v))
      BY <1>3, <1>5 DEF Skip
    <3>3. CASE InstAt(v) # i
      BY <2>1, <3>1, <3>2, <3>3, <1>3, <1>5 DEF CalmInv, LateSkips
    <3>4. CASE InstAt(v) = i
      <4>1. JobAt(v) = JobAt(w)
        BY <3>1, <3>4, <1>2 DEF Wanted
      <4>2. pc[v] = "begin"
        BY <2>1, <3>1, <4>1, <1>2 DEF JobMutex, Holding, PastCheck
      <4>3. Skip(JobAt(v))
        BY <4>1, <1>2 DEF HolderHasLock, Skip
      <4> QED  BY <3>1, <3>2, <4>2, <4>3
    <3> QED  BY <3>3, <3>4
  <2> QED  BY <2>1 DEF LateSkips
<1>8. AtHome'
  <2>1. ASSUME NEW u \in Worker, container[u][i] # NoContainer PROVE u = w
    BY <2>1, <1>4 DEF PlaceInv, NowhereYet, CalmInv, AtHome
  <2> QED  BY <2>1, <1>3 DEF CalmInv, AtHome
<1> QED  BY <1>6, <1>7, <1>8 DEF CalmInv

\* CalmInv is kept by every step.
LEMMA CalmStep == Inv /\ PlaceInv /\ CalmInv /\ [Next]_vars => CalmInv'
<1> SUFFICES ASSUME Inv, PlaceInv, CalmInv, [Next]_vars, Calm'
             PROVE  CalmInv'
  BY DEF CalmInv
<1> USE DEF Inv, TypeOK, StreamTypeOK, InstanceTypeOK, JobTypeOK, WorkerTypeOK, CounterTypeOK
<1>1. TypeOK' /\ Calm /\ UNCHANGED <<faults, dbFaults>>
  BY TypeOKStep, CalmBefore DEF Inv
<1>2. ASSUME NEW i \in Instance, NEW j \in Job, NEW kind \in JobKind,
             Start(i, j) \/ (Transition(i, j, kind) /\ UNCHANGED <<pc, row, result>>)
      PROVE  CalmInv'
  <2>1. CASE Start(i, j)
    <3>1. "start" \in JobKind /\ 1 \in Nat /\ CreateJob(i, j, "start", 1)
      BY <2>1 DEF Start, JobKind
    <3> QED  BY <1>1, <2>1, <3>1, CalmCreates DEF Start, procVars, streamVars
  <2>2. CASE Transition(i, j, kind) /\ UNCHANGED <<pc, row, result>>
    <3>1. sv[i] + 1 \in Nat /\ CreateJob(i, j, kind, sv[i] + 1)
      BY <2>2 DEF Transition
    <3> QED  BY <1>1, <2>2, <3>1, CalmCreates DEF Transition, streamVars
  <2> QED  BY <1>2, <2>1, <2>2
<1>3. ASSUME UNCHANGED <<workerOf, opOf, pc, hand, container, jobInst, jobStatus, lock, opStatus>>
      PROVE  CalmInv'
  <2>1. \A v \in Worker : /\ InstAt(v)' = InstAt(v) /\ Wanted(v)' = Wanted(v)
                          /\ Skip(JobAt(v))' = Skip(JobAt(v))
    BY <1>3 DEF InstAt, JobAt, Wanted, Skip
  <2> QED  BY <1>1, <1>3, <2>1, CalmRests
<1>4. ASSUME NEW w \in Worker, NEW i \in Instance, ExpireInstance(w, i) PROVE CalmInv'
  <2>1. UNCHANGED <<pc, row, result>> /\ "expire" \in JobKind
    BY <1>4 DEF ExpireInstance, JobKind
  <2>2. CASE \E j \in Job : Transition(i, j, "expire")
    BY <1>2, <2>1, <2>2
  <2>3. CASE UNCHANGED WorkerOnly
    BY <1>3, <2>1, <2>3 DEF WorkerOnly, instVars, jobVars, streamVars
  <2> QED  BY <1>4, <2>2, <2>3 DEF ExpireInstance
<1>5. ASSUME NEW w \in Worker, QuietAction(w) PROVE CalmInv'
  BY <1>1, <1>5, CalmQuiet
<1>6. ASSUME NEW w \in Worker, PublishOutbox(w) \/ RenewLock(w) PROVE CalmInv'
  BY <1>3, <1>6 DEF PublishOutbox, RenewLock, instVars, jobVars, procVars, streamVars
<1>7. ASSUME NEW w \in Worker, Reconcile(w) \/ CheckAccept(w) \/ ReadInstance(w) PROVE CalmInv'
  <2>1. /\ Others(w) /\ UNCHANGED <<workerOf, opOf, hand, jobInst, jobStatus, lock, opStatus, container>>
        /\ pc'[w] \notin {"recordRetry", "retry", "launch", "recover"}
    BY <1>7 DEF Reconcile, CheckAccept, ReadInstance, Goto, Others, WorkerOnly, instVars, jobVars, streamVars
  <2>2. \A j \in Job : Skip(j) => Skip(j)'
    BY <2>1 DEF Skip
  <2>3. pc'[w] \in PastCheck => ~(Wanted(w)' /\ workerOf[InstAt(w)'] \notin {NoWorker, w})
    <3>1. InstAt(w)' = InstAt(w) /\ Wanted(w)' = Wanted(w)
      BY <2>1 DEF InstAt, JobAt, Wanted
    <3>2. CASE Reconcile(w)
      BY <3>2 DEF Reconcile, Goto, PastCheck
    <3>3. CASE CheckAccept(w)
      BY <3>1, <3>3 DEF CheckAccept, Pinned
    <3>4. CASE ReadInstance(w)
      BY <1>1, <3>1, <3>4 DEF ReadInstance, CalmInv, LateSkips, PastCheck
    <3> QED  BY <1>7, <3>2, <3>3, <3>4
  <2> QED  BY <1>1, <2>1, <2>2, <2>3, CalmMoves
<1>8. ASSUME NEW w \in Worker, LockJob(w) PROVE CalmInv'
  <2>1. /\ Others(w) /\ UNCHANGED <<workerOf, opOf, hand, jobInst, container>>
        /\ pc'[w] = "read" /\ pc[w] = "begin" /\ ~Skip(JobAt(w))
        /\ \A j \in Job : /\ jobStatus'[j] = IF j = JobAt(w) THEN "running" ELSE jobStatus[j]
                          /\ lock'[j] = IF j = JobAt(w) THEN "fresh" ELSE lock[j]
                          /\ j # JobAt(w) => opStatus'[j] = opStatus[j]
    BY <1>8 DEF LockJob, Goto, Others, instVars, streamVars
  <2>2. \A j \in Job : /\ Skip(j) => Skip(j)'
                       /\ jobStatus'[j] = "queued" =>
                            jobStatus[j] = "queued" /\ opStatus'[j] = opStatus[j]
    BY <2>1 DEF Skip
  <2>3. ~(Wanted(w)' /\ workerOf[InstAt(w)'] \notin {NoWorker, w})
    <3>1. InstAt(w)' = InstAt(w) /\ Wanted(w)' = Wanted(w)
      BY <2>1 DEF InstAt, JobAt, Wanted
    <3> QED  BY <1>1, <2>1, <3>1 DEF CalmInv, LateSkips, PastCheck
  <2> QED  BY <1>1, <2>1, <2>2, <2>3, CalmMoves
<1>9. ASSUME NEW w \in Worker, Claim(w) PROVE CalmInv'
  BY <1>1, <1>9, CalmClaim
<1>10. ASSUME NEW w \in Worker, Supersede(w) \/ Commit(w) \/ RecordFailure(w) \/ RecordMissing(w)
       PROVE  CalmInv'
  <2>1. pc[w] \in Processing
    BY <1>10 DEF Supersede, Commit, RecordFailure, RecordMissing, Processing, Holding, Executing
  <2>2. /\ JobAt(w) \in Job /\ InstAt(w) \in Instance
        /\ Others(w) /\ UNCHANGED <<workerOf, hand, jobInst, container>> /\ pc'[w] = "ack"
        /\ Close(JobAt(w), "completed", "completed") \/ Close(JobAt(w), "failed", "cancelled")
             \/ Close(JobAt(w), "failed", "failed") \/ Close(JobAt(w), "failed", "missing")
    BY <1>10, <2>1, MessageInHand
       DEF Supersede, Commit, RecordFailure, RecordMissing, Close, Goto, Others, instVars, streamVars
  <2>2a. \A i \in Instance : opOf'[i] \in {opOf[i], NoJob}
    BY <1>10, <2>2 DEF Supersede, Commit, RecordFailure, RecordMissing, instVars
  <2>2b. \A j \in Job : IF j = JobAt(w) THEN jobStatus'[j] \in {"completed", "failed"}
                         ELSE /\ jobStatus'[j] = jobStatus[j] /\ lock'[j] = lock[j]
                              /\ opStatus'[j] = opStatus[j]
    BY <2>2 DEF Close
  <2>3. \A j \in Job : /\ Skip(j) => Skip(j)'
                       /\ jobStatus'[j] = "queued" =>
                            jobStatus[j] = "queued" /\ opStatus'[j] = opStatus[j]
    BY <2>2b DEF Skip
  <2> QED  BY <1>1, <2>2, <2>2a, <2>3, CalmMoves DEF PastCheck
<1>11. ASSUME NEW w \in Worker, RecordRetry(w) PROVE FALSE
  BY <1>1, <1>11 DEF RecordRetry, CalmInv, NothingFailed
<1>12. ASSUME NEW w \in Worker, Handle(w) PROVE CalmInv'
  BY <1>12, <1>5, <1>7, <1>8, <1>9, <1>10, <1>11 DEF Handle, QuietAction
<1>13. ASSUME NEW w \in Worker, Fails(w) PROVE CalmInv'
  BY <1>13, <1>5 DEF Fails, QuietAction
<1>14. ASSUME NEW w \in Worker, Maintain(w) PROVE CalmInv'
  BY <1>14, <1>4, <1>5, <1>7 DEF Maintain, QuietAction
<1>15. CASE API
  <2>1. "start" \in JobKind
    BY DEF JobKind
  <2>2. ASSUME NEW i \in Instance, NEW j \in Job, NEW kind \in JobKind, Request(i, j, kind)
        PROVE  CalmInv'
    BY <1>2, <2>2 DEF Request, procVars
  <2>3. ASSUME NEW i \in Instance, Extend(i) PROVE CalmInv'
    BY <1>3, <2>3 DEF Extend, jobVars, streamVars, procVars
  <2> QED  BY <1>15, <1>2, <2>1, <2>2, <2>3 DEF API
<1>16. CASE Environment
  <2>1. ASSUME NEW i \in Instance, TtlElapses(i) PROVE CalmInv'
    BY <1>3, <2>1 DEF TtlElapses, jobVars, streamVars, procVars
  <2>2. ASSUME NEW w \in Worker, NEW i \in Instance, ContainerLost(w, i) PROVE FALSE
    BY <1>1, <2>2 DEF ContainerLost, Fault, Calm
  <2>3. ASSUME NEW j \in Job, LockExpires(j) PROVE CalmInv'
    <3>1. UNCHANGED <<workerOf, opOf, pc, hand, container, jobInst, jobStatus, opStatus>>
      BY <2>3 DEF LockExpires, instVars, streamVars, procVars
    <3>2. \A v \in Worker : InstAt(v)' = InstAt(v) /\ Wanted(v)' = Wanted(v) /\ JobAt(v)' = JobAt(v)
      BY <3>1 DEF InstAt, JobAt, Wanted
    <3>3. \A v \in Worker : pc[v] = "begin" /\ Skip(JobAt(v)) => Skip(JobAt(v))'
      BY <2>3, <3>1, <3>2 DEF LockExpires, Held, Skip
    <3> QED  BY <1>1, <3>1, <3>2, <3>3, CalmRests
  <2> QED  BY <1>16, <1>5, <1>6, <2>1, <2>2, <2>3 DEF Environment, QuietAction
<1>17. CASE UNCHANGED vars
  BY <1>3, <1>17 DEF vars, instVars, jobVars, streamVars, procVars
<1>18. ASSUME NEW w \in Worker, PublishOutbox(w) \/ Tick(w) \/ Take(w) \/ Reclaim(w)
       PROVE  CalmInv'
  BY <1>18, <1>5, <1>6 DEF QuietAction
<1> QED  BY <1>12, <1>13, <1>14, <1>15, <1>16, <1>17, <1>18 DEF Next

\* There are neither messages nor containers at the beginning.
LEMMA CalmInit == Init => CalmInv
BY DEF Init, CalmInv, NothingFailed, LateSkips, AtHome, PastCheck

\* It therefore always holds.
LEMMA CalmInvariant == Spec => [](Inv /\ PlaceInv /\ CalmInv)
<1>1. Init => Inv /\ PlaceInv /\ CalmInv
  BY InvInit, PlaceInit, CalmInit
<1>2. (Inv /\ PlaceInv /\ CalmInv) /\ [Next]_vars => (Inv /\ PlaceInv /\ CalmInv)'
  BY InvStep, PlaceStep, CalmStep
<1> QED  BY <1>1, <1>2, PTL DEF Spec

\* Until a call to Docker or Redis, or a transaction of a worker, fails for the first
\* time, an active instance has containers on one host only, however many workers
\* compete for its job, die, and have their messages reclaimed (canProcess, the lock of
\* the job, the claim).
THEOREM OneHostWhileCalm == Spec => [](Calm => OneHost)
<1>1. Inv /\ PlaceInv /\ CalmInv => (Calm => OneHost)
  BY DEF CalmInv, AtHome, OneHost
<1> QED  BY <1>1, CalmInvariant, PTL

-----------------------------------------------------------------------------
(* Jobs on their way: NewOnItsWay, action by action.                       *)

\* XADD takes nothing from the stream, and the new message is in nobody's hand.
LEMMA PublishedHad ==
  ASSUME TypeOK, NEW j \in Job, NEW attempts \in 0..MaxAttempts, Publish(j, attempts),
         UNCHANGED <<pending, hand>>
  PROVE  /\ \A m : ToBeHad(m) => ToBeHad(m)'
         /\ \E m \in Message : m.job = j /\ ToBeHad(m)' /\ \A v \in Worker : hand'[v] # m
<1> USE DEF TypeOK, StreamTypeOK, Worker
<1> DEFINE used == {m.copy : m \in {x \in Messages : x.job = j /\ x.attempts = attempts}}
<1>1. PICK n \in Copy \ used : stream' = Append(stream, [copy |-> n, job |-> j, attempts |-> attempts])
  BY DEF Publish
<1>2. PICK m : m = [copy |-> n, job |-> j, attempts |-> attempts]
  OBVIOUS
<1>3. m \in Message /\ m.job = j /\ m.copy = n /\ m.attempts = attempts
  BY <1>2 DEF Message
<1>4. /\ stream \in Seq(Message) /\ stream' = Append(stream, m)
      /\ DOMAIN stream' = 1 .. Len(stream) + 1
      /\ \A k \in 1 .. Len(stream) : stream'[k] = stream[k]
      /\ stream'[Len(stream) + 1] = m /\ Len(stream) \in Nat /\ DOMAIN stream = 1 .. Len(stream)
  BY <1>1, <1>2, <1>3
<1>5. \A x : ToBeHad(x) => ToBeHad(x)'
  BY <1>4 DEF ToBeHad
<1>6. ToBeHad(m)'
  BY <1>4 DEF ToBeHad
<1>7. ASSUME NEW v \in Worker, hand[v] = m PROVE FALSE
  <2>1. m \in Messages
    BY <1>3, <1>7, StreamAssumption DEF Messages
  <2>2. m.copy \in used
    BY <1>3, <2>1
  <2> QED  BY <1>3, <2>2
<1> QED  BY <1>3, <1>5, <1>6, <1>7

\* Steps of w after which a message is gone only when w has acknowledged it, and w
\* acknowledges a message only of a job that is locked or published again.
LEMMA WayMoves ==
  ASSUME TypeOK, dbFaults = 0, NewOnItsWay, NEW w \in Worker, Others(w), UNCHANGED outbox,
         \A m \in Message : ToBeHad(m) => ToBeHad(m)' \/ (pc[w] = "ack" /\ m = hand[w]),
         \A j \in Job : Unlocked(j)' => Unlocked(j),
         \A j \in Job : pc'[w] = "ack" /\ hand'[w].job = j =>
           \/ ~Unlocked(j)'
           \/ \E m \in Message : m.job = j /\ ToBeHad(m)' /\ \A v \in Worker : hand'[v] # m
  PROVE  NewOnItsWay'
<1> SUFFICES ASSUME NEW j \in Job, Unlocked(j)', j \notin outbox
             PROVE  \E m \in Message : /\ m.job = j /\ ToBeHad(m)'
                                       /\ \A v \in Worker : pc'[v] = "ack" => hand'[v] # m
  BY DEF NewOnItsWay
<1>1. PICK m \in Message : /\ m.job = j /\ ToBeHad(m)
                           /\ \A v \in Worker : pc[v] = "ack" => hand[v] # m
  BY DEF NewOnItsWay
<1>2. ToBeHad(m)'
  BY <1>1
<1>3. \A v \in Worker \ {w} : pc'[v] = "ack" => hand'[v] # m
  BY <1>1 DEF Others
<1>4. CASE pc'[w] = "ack" => hand'[w] # m
  BY <1>1, <1>2, <1>3, <1>4
<1>5. CASE pc'[w] = "ack" /\ hand'[w] = m
  <2>1. PICK x \in Message : x.job = j /\ ToBeHad(x)' /\ \A v \in Worker : hand'[v] # x
    BY <1>1, <1>5
  <2> QED  BY <2>1
<1> QED  BY <1>4, <1>5

\* Steps that neither move a worker nor touch the stream, and create at most a job
\* that goes to the outbox.
LEMMA WayRests ==
  ASSUME NewOnItsWay, UNCHANGED <<pc, streamVars, dbFaults>>, outbox \subseteq outbox',
         \A j \in Job : Unlocked(j)' => Unlocked(j) \/ j \in outbox'
  PROVE  NewOnItsWay'
BY DEF NewOnItsWay, ToBeHad, streamVars

\* NewOnItsWay is kept by every step.
LEMMA WayStep == Inv /\ NewOnItsWay /\ [Next]_vars => NewOnItsWay'
<1> SUFFICES ASSUME Inv, NewOnItsWay, [Next]_vars, dbFaults' = 0
             PROVE  NewOnItsWay'
  BY DEF NewOnItsWay
<1> USE DEF Inv, TypeOK, StreamTypeOK, InstanceTypeOK, JobTypeOK, WorkerTypeOK, CounterTypeOK, Worker
<1>1. TypeOK' /\ dbFaults = 0
  <2>1. dbFaults' \in {dbFaults, dbFaults + 1}
    BY FaultsCounted DEF OneCounted
  <2> QED  BY <2>1, TypeOKStep
<1>2. ASSUME NEW i \in Instance, NEW j \in Job, NEW kind \in JobKind,
             Start(i, j) \/ (Transition(i, j, kind) /\ UNCHANGED <<pc, row, result>>)
      PROVE  NewOnItsWay'
  <2>1. /\ \E n \in Nat, k \in JobKind : CreateJob(i, j, k, n)
        /\ UNCHANGED <<pc, streamVars>>
    BY <1>2 DEF Start, Transition, procVars, JobKind
  <2>2. \A k \in Job : Unlocked(k)' => Unlocked(k) \/ k \in outbox'
    BY <2>1 DEF CreateJob, Unlocked
  <2>3. outbox \subseteq outbox'
    BY <2>1 DEF CreateJob
  <2> QED  BY <1>1, <2>1, <2>2, <2>3, WayRests
<1>3. ASSUME UNCHANGED <<pc, streamVars, outbox, jobStatus, opStatus>> PROVE NewOnItsWay'
  BY <1>1, <1>3, WayRests DEF Unlocked
<1>4. ASSUME NEW w \in Worker, NEW i \in Instance, ExpireInstance(w, i) PROVE NewOnItsWay'
  <2>1. UNCHANGED <<pc, row, result>> /\ "expire" \in JobKind
    BY <1>4 DEF ExpireInstance, JobKind
  <2>2. CASE \E j \in Job : Transition(i, j, "expire")
    BY <1>2, <2>1, <2>2
  <2>3. CASE UNCHANGED WorkerOnly
    BY <1>3, <2>1, <2>3 DEF WorkerOnly, jobVars
  <2> QED  BY <1>4, <2>2, <2>3 DEF ExpireInstance
<1>5. ASSUME NEW w \in Worker, PublishOutbox(w) PROVE NewOnItsWay'
  <2>1. PICK j \in outbox : Publish(j, 0) /\ outbox' = outbox \ {j}
    BY <1>1, <1>5 DEF PublishOutbox, DbFault
  <2>2. UNCHANGED <<pc, hand, pending, jobStatus, opStatus>> /\ j \in Job /\ 0 \in 0..MaxAttempts
    BY <1>5, StreamAssumption DEF PublishOutbox, jobVars, procVars
  <2>3. /\ \A m : ToBeHad(m) => ToBeHad(m)'
        /\ \E m \in Message : m.job = j /\ ToBeHad(m)' /\ \A v \in Worker : hand'[v] # m
    BY <2>1, <2>2, PublishedHad
  <2>4. ASSUME NEW k \in Job, Unlocked(k)', k \notin outbox'
        PROVE  \E m \in Message : /\ m.job = k /\ ToBeHad(m)'
                                  /\ \A v \in Worker : pc'[v] = "ack" => hand'[v] # m
    <3>1. CASE k = j
      BY <2>3, <3>1
    <3>2. CASE k # j
      <4>1. Unlocked(k) /\ k \notin outbox
        BY <2>1, <2>2, <2>4, <3>2 DEF Unlocked
      <4>2. PICK m \in Message : /\ m.job = k /\ ToBeHad(m)
                                 /\ \A v \in Worker : pc[v] = "ack" => hand[v] # m
        BY <1>1, <4>1 DEF NewOnItsWay
      <4> QED  BY <2>2, <2>3, <4>2
    <3> QED  BY <3>1, <3>2
  <2> QED  BY <2>4 DEF NewOnItsWay
<1>6. ASSUME NEW w \in Worker, Others(w), UNCHANGED <<outbox, stream, pending>>,
             pc'[w] # "ack", \A j \in Job : Unlocked(j)' => Unlocked(j)
      PROVE  NewOnItsWay'
  BY <1>1, <1>6, WayMoves DEF ToBeHad
<1>7. ASSUME NEW w \in Worker,
             \/ Tick(w) \/ CleanupOrphans(w) \/ ReclaimNothing(w) \/ Reclaim(w)
             \/ CheckRefuse(w) \/ CheckFails(w) \/ RecordFails(w) \/ RedisFails(w) \/ ClaimFails(w)
             \/ ExecRestart(w) \/ ExecStop(w) \/ ExecFails(w) \/ ReuseContainer(w)
             \/ CreateContainer(w) \/ CreateFails(w) \/ StartContainer(w) \/ StartFails(w)
             \/ Crash(w) \/ Boot(w)
      PROVE  NewOnItsWay'
  <2>1. Others(w) /\ UNCHANGED Rows
    <3>1. QuietAction(w)
      BY <1>7 DEF QuietAction
    <3> QED  BY <1>1, <3>1, QuietActions DEF Quiet
  <2>2. UNCHANGED <<outbox, stream, pending>> /\ pc'[w] # "ack"
    BY <1>7 DEF Tick, CleanupOrphans, ReclaimNothing, Reclaim, CheckRefuse, CheckFails, RecordFails,
       RedisFails, ClaimFails, ExecRestart, ExecStop, ExecFails, ReuseContainer, CreateContainer,
       CreateFails, StartContainer, StartFails, Crash, Boot, Goto, WorkerOnly, DockerOnly,
       streamVars, ClaimStale, LeavePending, Abandon, FailedTo
  <2> QED  BY <1>6, <2>1, <2>2 DEF Rows, Unlocked
<1>8. ASSUME NEW w \in Worker,
             Reconcile(w) \/ CheckAccept(w) \/ LockJob(w) \/ ReadInstance(w) \/ Claim(w) \/ RecordRetry(w)
      PROVE  NewOnItsWay'
  <2>1. Others(w) /\ UNCHANGED <<outbox, stream, pending>> /\ pc'[w] # "ack"
    BY <1>8 DEF Reconcile, CheckAccept, LockJob, ReadInstance, Claim, RecordRetry, Goto, Others,
       WorkerOnly, streamVars
  <2>2. \A j \in Job : Unlocked(j)' => Unlocked(j)
    BY <1>8 DEF Reconcile, CheckAccept, LockJob, ReadInstance, Claim, RecordRetry, WorkerOnly,
       jobVars, Unlocked
  <2> QED  BY <1>6, <2>1, <2>2
<1>9. ASSUME NEW w \in Worker, Take(w) PROVE NewOnItsWay'
  <2>1. Others(w) /\ UNCHANGED <<outbox, jobStatus, opStatus>> /\ pc'[w] # "ack"
    BY <1>9 DEF Take, Receive, Goto, Others, jobVars
  <2>2. \A m \in Message : ToBeHad(m) => ToBeHad(m)'
    <3>1. /\ stream \in Seq(Message) /\ stream # <<>> /\ stream' = Tail(stream)
          /\ pending' = pending \cup {Head(stream)}
      BY <1>9 DEF Take, Receive
    <3>2. /\ stream' \in Seq(Message) /\ Len(stream') = Len(stream) - 1
          /\ \A k \in 1 .. Len(stream') : stream'[k] = stream[k + 1]
      BY <3>1, HeadTailProperties
    <3>3. ASSUME NEW m \in Message, ToBeHad(m) PROVE ToBeHad(m)'
      <4>1. CASE m \in pending
        BY <3>1, <4>1 DEF ToBeHad
      <4>2. CASE \E n \in DOMAIN stream : stream[n] = m
        <5>1. PICK n \in DOMAIN stream : stream[n] = m
          BY <4>2
        <5>2. n \in 1 .. Len(stream) /\ Len(stream) \in Nat /\ DOMAIN stream' = 1 .. Len(stream')
          BY <3>1, <3>2
        <5>3. CASE n = 1
          BY <3>1, <5>1, <5>3 DEF ToBeHad
        <5>4. CASE n # 1
          <6>1. n - 1 \in 1 .. Len(stream') /\ (n - 1) + 1 = n
            BY <3>2, <5>2, <5>4
          <6>2. n - 1 \in DOMAIN stream' /\ stream'[n - 1] = m
            BY <3>2, <5>1, <5>2, <6>1
          <6> QED  BY <6>2 DEF ToBeHad
        <5> QED  BY <5>3, <5>4
      <4> QED  BY <3>3, <4>1, <4>2 DEF ToBeHad
    <3> QED  BY <3>3
  <2> QED  BY <1>1, <2>1, <2>2, WayMoves DEF Unlocked
<1>10. ASSUME NEW w \in Worker,
              \/ SkipJob(w) \/ Supersede(w) \/ Commit(w) \/ CommitFails(w) \/ RecordFailure(w)
              \/ RecordMissing(w)
       PROVE  NewOnItsWay'
  <2>1. pc[w] \in Processing /\ (CommitFails(w) => pc[w] \in Holding)
    BY <1>10 DEF SkipJob, Supersede, Commit, CommitFails, RecordFailure, RecordMissing, Processing,
       Holding, Executing
  <2>2. hand[w] \in Message /\ JobAt(w) \in Job /\ hand[w].job = JobAt(w)
    BY <2>1, MessageInHand DEF JobAt
  <2>3. Others(w) /\ UNCHANGED <<outbox, stream, pending, hand>>
    BY <1>10 DEF SkipJob, Supersede, Commit, CommitFails, RecordFailure, RecordMissing, Goto, Others, WorkerOnly,
       DockerOnly, streamVars
  <2>4. \A j \in Job : Unlocked(j)' => Unlocked(j) /\ j # JobAt(w)
    <3>1. CASE SkipJob(w)
      BY <3>1 DEF SkipJob, Skip, WorkerOnly, jobVars, Unlocked
    <3>2. CASE CommitFails(w)
      BY <2>1, <3>2 DEF CommitFails, DockerOnly, jobVars, Unlocked, HolderHasLock
    <3>3. CASE Supersede(w) \/ Commit(w) \/ RecordFailure(w) \/ RecordMissing(w)
      BY <2>2, <3>3 DEF Supersede, Commit, RecordFailure, RecordMissing, Close, Unlocked
    <3> QED  BY <1>10, <3>1, <3>2, <3>3
  <2> QED  BY <1>1, <2>2, <2>3, <2>4, WayMoves DEF ToBeHad
<1>11. ASSUME NEW w \in Worker, Requeue(w) \/ Retry(w) PROVE NewOnItsWay'
  <2>1. pc[w] \in Processing
    BY <1>11 DEF Requeue, Retry, Processing
  <2>2. hand[w] \in Message /\ hand[w].job \in Job /\ hand[w].attempts \in 0..MaxAttempts
    BY <2>1, MessageInHand DEF Message
  <2>3. PICK a \in 0..MaxAttempts : Publish(hand[w].job, a)
    <3>1. CASE Requeue(w)
      <4>1. Publish(hand[w].job, hand[w].attempts + 0)
        BY <3>1 DEF Requeue, Republish
      <4>2. hand[w].attempts + 0 = hand[w].attempts
        BY <2>2
      <4> QED  BY <2>2, <4>1, <4>2
    <3>2. CASE Retry(w)
      <4>1. Publish(hand[w].job, hand[w].attempts + 1) /\ hand[w].attempts < MaxAttempts
        BY <3>2 DEF Retry, Republish
      <4>2. hand[w].attempts + 1 \in 0..MaxAttempts
        BY <2>2, <4>1, StreamAssumption
      <4> QED  BY <4>1, <4>2
    <3> QED  BY <1>11, <3>1, <3>2
  <2>4. Others(w) /\ UNCHANGED <<outbox, pending, hand, jobStatus, opStatus>>
    BY <1>11 DEF Requeue, Retry, Republish, Goto, Others, StreamOnly, jobVars
  <2>5. /\ \A m : ToBeHad(m) => ToBeHad(m)'
        /\ \E m \in Message : m.job = hand[w].job /\ ToBeHad(m)' /\ \A v \in Worker : hand'[v] # m
    BY <2>2, <2>3, <2>4, PublishedHad
  <2> QED  BY <1>1, <2>4, <2>5, WayMoves DEF Unlocked
<1>12. ASSUME NEW w \in Worker, AckMessage(w) PROVE NewOnItsWay'
  <2>1. Others(w) /\ UNCHANGED <<outbox, stream, jobStatus, opStatus>> /\ pc'[w] # "ack"
    BY <1>12 DEF AckMessage, Ack, ForgetCall, Goto, Others
  <2>2. \A m \in Message : ToBeHad(m) => ToBeHad(m)' \/ (pc[w] = "ack" /\ m = hand[w])
    BY <1>12, <2>1 DEF AckMessage, Ack, ToBeHad
  <2> QED  BY <1>1, <2>1, <2>2, WayMoves DEF Unlocked
<1>13. ASSUME NEW w \in Worker, BeginFails(w) \/ ReadFails(w) \/ SupersedeFails(w) PROVE FALSE
  BY <1>1, <1>13 DEF BeginFails, ReadFails, SupersedeFails, DbFault
<1>14. ASSUME NEW w \in Worker, Handle(w) PROVE NewOnItsWay'
  BY <1>14, <1>7, <1>8, <1>10, <1>11, <1>12 DEF Handle
<1>15. ASSUME NEW w \in Worker, Fails(w) PROVE NewOnItsWay'
  BY <1>15, <1>7, <1>13 DEF Fails
<1>16. ASSUME NEW w \in Worker, Maintain(w) PROVE NewOnItsWay'
  BY <1>16, <1>4, <1>7, <1>8 DEF Maintain
<1>17. CASE API
  <2>1. "start" \in JobKind
    BY DEF JobKind
  <2>2. ASSUME NEW i \in Instance, NEW j \in Job, NEW kind \in JobKind, Request(i, j, kind)
        PROVE  NewOnItsWay'
    BY <1>2, <2>2 DEF Request, procVars
  <2>3. ASSUME NEW i \in Instance, Extend(i) PROVE NewOnItsWay'
    BY <1>3, <2>3 DEF Extend, jobVars, procVars
  <2> QED  BY <1>17, <1>2, <2>1, <2>2, <2>3 DEF API
<1>18. CASE Environment
  <2>1. ASSUME NEW i \in Instance, TtlElapses(i) PROVE NewOnItsWay'
    BY <1>3, <2>1 DEF TtlElapses, jobVars, procVars
  <2>2. ASSUME NEW w \in Worker, NEW i \in Instance, ContainerLost(w, i) PROVE NewOnItsWay'
    BY <1>3, <2>2 DEF ContainerLost, jobVars, procVars
  <2>3. ASSUME NEW j \in Job, LockExpires(j) PROVE NewOnItsWay'
    BY <1>3, <2>3 DEF LockExpires, procVars
  <2>4. ASSUME NEW w \in Worker, RenewLock(w) PROVE NewOnItsWay'
    BY <1>3, <2>4 DEF RenewLock, procVars
  <2> QED  BY <1>18, <1>7, <2>1, <2>2, <2>3, <2>4 DEF Environment
<1>19. CASE UNCHANGED vars
  BY <1>3, <1>19 DEF vars, jobVars, procVars
<1> QED  BY <1>5, <1>7, <1>9, <1>14, <1>15, <1>16, <1>17, <1>18, <1>19 DEF Next

\* No job has been created at the beginning.
LEMMA WayInit == Init => NewOnItsWay
BY DEF Init, NewOnItsWay, Unlocked

\* A job that nobody has locked yet is in the outbox, in the stream or pending, and
\* stays so whatever workers crash, refuse the job, or lose their answer from Redis:
\* outbox and job are written in one transaction, Requeue publishes before it
\* acknowledges, and handle skips only a job that is locked or closed.  (As long as
\* no transaction of a worker fails: a begin that fails acknowledges the message.)
THEOREM NewJobsOnTheirWay == Spec => []NewOnItsWay
<1>1. Init => Inv /\ NewOnItsWay
  BY InvInit, WayInit
<1>2. (Inv /\ NewOnItsWay) /\ [Next]_vars => (Inv /\ NewOnItsWay)'
  BY InvStep, WayStep
<1> QED  BY <1>1, <1>2, PTL DEF Spec

\* Until a call to Docker or Redis, or a transaction of a worker, fails for the first
\* time, every queued job is on its way to a worker, through crashes, reclaimed
\* messages and requeues.
THEOREM JobsOnTheirWayWhileCalm == Spec => [](Calm => QueuedOnItsWay)
<1>1. CalmInv /\ NewOnItsWay => (Calm => QueuedOnItsWay)
  <2> SUFFICES ASSUME CalmInv, NewOnItsWay, Calm, NEW j \in Job, jobStatus[j] = "queued",
                      j \notin outbox
               PROVE  InFlight(j)
    BY DEF QueuedOnItsWay
  <2>1. Unlocked(j) /\ dbFaults = 0
    BY DEF CalmInv, NothingFailed, Calm, Unlocked
  <2> QED  BY <2>1 DEF NewOnItsWay, ToBeHad, InFlight
<1> QED  BY <1>1, CalmInvariant, NewJobsOnTheirWay, PTL

-----------------------------------------------------------------------------
(* What the user of an instance sees: the refinement of InstanceLife.      *)

\* Operations and their jobs are created together.
Paired == \A j \in Job : jobStatus[j] = "none" <=> opStatus[j] = "none"

\* At first there are neither.
LEMMA PairedInit == Init => Paired
BY DEF Init, Paired

\* Who writes the status of a job holds it, and thus a job that exists.
LEMMA PairedStep == Inv /\ Paired /\ [Next]_vars => Paired'
<1> SUFFICES ASSUME Inv, Paired, [Next]_vars, NEW o \in Job PROVE (jobStatus[o] = "none" <=> opStatus[o] = "none")'
  BY DEF Paired
<1> DEFINE Same == jobStatus'[o] = "none" <=> opStatus'[o] = "none"
<1> USE DEF Inv, TypeOK, JobTypeOK
<1>h. jobStatus[o] = "none" <=> opStatus[o] = "none"
  BY DEF Paired
<1>1. ASSUME NEW k \in Instance, NEW j \in Job, NEW kind \in JobKind, NEW n \in Nat,
             CreateJob(k, j, kind, n)
      PROVE  Same
  BY <1>1, <1>h DEF CreateJob
<1>2. ASSUME NEW w \in Worker, LockJob(w) PROVE Same
  <2>1. JobAt(w) \in Job /\ jobStatus[JobAt(w)] # "none"
    BY <1>2, MessageInHand DEF LockJob, Processing, PublishedExist
  <2> QED  BY <1>2, <1>h, <2>1 DEF LockJob, OpFinal
<1>3. ASSUME NEW w \in Worker,
             \/ Supersede(w) \/ Commit(w) \/ RecordFailure(w) \/ RecordMissing(w) \/ RecordRetry(w)
      PROVE  Same
  <2>1. JobAt(w) \in Job
    BY <1>3, MessageInHand DEF Supersede, Commit, RecordFailure, RecordMissing, RecordRetry, Processing,
       Holding, Executing
  <2> QED  BY <2>1, <1>3, <1>h DEF Supersede, Commit, RecordFailure, RecordMissing, RecordRetry, Close
<1>4. ASSUME NEW k \in Instance, NEW j \in Job, Start(k, j) PROVE Same
  BY <1>4, <1>1 DEF Start, JobKind
<1>5. ASSUME NEW k \in Instance, NEW j \in Job, NEW kind \in JobKind, Transition(k, j, kind)
      PROVE  Same
  <2>1. sv[k] + 1 \in Nat
    BY DEF InstanceTypeOK
  <2> QED  BY <2>1, <1>5, <1>1 DEF Transition
<1>6. ASSUME NEW w \in Worker, NEW k \in Instance, ExpireInstance(w, k)
      PROVE  Same
  <2>1. CASE \E j \in Job : Transition(k, j, "expire")
    BY <2>1, <1>5 DEF JobKind
  <2>2. CASE UNCHANGED WorkerOnly
    BY <1>h, <2>2 DEF WorkerOnly, jobVars
  <2> QED  BY <1>6, <2>1, <2>2 DEF ExpireInstance
<1>7. ASSUME NEW w \in Worker, QuietAction(w) PROVE Same
  BY <1>h, <1>7, TypeOKStep, QuietActions DEF Quiet, Rows
<1>8. ASSUME NEW w \in Worker, \/ CheckAccept(w) \/ ReadInstance(w) \/ Reconcile(w) \/ Claim(w)
                              \/ PublishOutbox(w) \/ RenewLock(w)
      PROVE  Same
  BY <1>h, <1>8 DEF CheckAccept, ReadInstance, Reconcile, Claim, PublishOutbox, RenewLock,
         WorkerOnly, jobVars
<1>9. ASSUME NEW k \in Instance, Extend(k) \/ TtlElapses(k) PROVE Same
  BY <1>h, <1>9 DEF Extend, TtlElapses, jobVars
<1>10. ASSUME NEW w \in Worker, NEW k \in Instance, ContainerLost(w, k)
       PROVE  Same
  BY <1>h, <1>10 DEF ContainerLost, jobVars
<1>11. ASSUME NEW j \in Job, LockExpires(j) PROVE Same
  BY <1>h, <1>11 DEF LockExpires
<1>12. CASE UNCHANGED vars
  BY <1>h, <1>12 DEF vars, jobVars
<1>13. CASE API
  BY <1>13, <1>4, <1>5, <1>9 DEF API, Request
<1>14. ASSUME NEW w \in Worker, Maintain(w) \/ Handle(w) \/ Fails(w)
       PROVE  Same
  BY <1>14, <1>2, <1>3, <1>6, <1>7, <1>8 DEF Maintain, Handle, Fails, QuietAction
<1>15. CASE Environment
  BY <1>15, <1>7, <1>8, <1>9, <1>10, <1>11 DEF Environment, QuietAction
<1> QED  BY <1>7, <1>8, <1>12, <1>13, <1>14, <1>15 DEF Next, QuietAction

-----------------------------------------------------------------------------
(* Each step is one of InstanceLife, or leaves it as it is.                *)

LifeStep == [IL!Next]_(IL!vars)

\* The first state maps to the first state.
LEMMA LifeInit == Init => IL!Init
<1> SUFFICES ASSUME Init PROVE IL!Init
  OBVIOUS
<1>1. PhaseOf(Absent) = "absent"
  BY DEF PhaseOf, Absent, InactiveStatus
<1>a. OutcomeOf("none") = "none"
  BY DEF OutcomeOf
<1>2. phase = [i \in Instance |-> "absent"] /\ outcome = [j \in Job |-> "none"]
  BY <1>1, <1>a DEF Init, phase, outcome
<1> QED  BY <1>2 DEF Init, IL!Init

\* Whatever leaves the rows alone that a user sees.
LEMMA LifeStutter ==
  ASSUME UNCHANGED <<status, opOf, opStatus>>
  PROVE  LifeStep
BY DEF LifeStep, IL!vars, phase, outcome

\* createJob, with the status it is called for.
LEMMA LifeAsk ==
  ASSUME Inv, Paired, NEW i \in Instance, NEW j \in Job, NEW kind \in JobKind, NEW n,
         CreateJob(i, j, kind, n), status' = [status EXCEPT ![i] = To(kind)],
         IF kind = "start" THEN status[i] = Absent ELSE NextAllowed(kind, status[i])
  PROVE  LifeStep
<1> USE DEF Inv, TypeOK, InstanceTypeOK, JobTypeOK
<1> DEFINE to == PhaseOf(To(kind))
<1>1. to \in {"starting", "changing", "stopping"} /\ PhaseOf(status[i]) \in IL!Before(to)
  BY DEF PhaseOf, To, JobKind, NextAllowed, From, IL!Before, Absent, InactiveStatus
<1>2. phase' = [phase EXCEPT ![i] = to]
  BY DEF phase
<1>3. outcome[j] = "none" /\ outcome' = [outcome EXCEPT ![j] = "open"]
  BY DEF outcome, OutcomeOf, CreateJob, Paired
<1>4. opOf' = [opOf EXCEPT ![i] = j]
  BY DEF CreateJob
<1>5. phase[i] \in IL!Before(to)
  BY <1>1 DEF phase
<1>6. IL!Ask(i, j, to)
  BY <1>2, <1>3, <1>4, <1>5 DEF IL!Ask
<1> QED  BY <1>1, <1>6 DEF LifeStep, IL!Next

\* A job that is held is that of an open operation, and only its own instance can wait
\* for it.
LEMMA HeldIsOpen ==
  ASSUME Inv, Paired, NEW w \in Worker, pc[w] \in Holding
  PROVE  /\ JobAt(w) \in Job /\ InstAt(w) \in Instance /\ outcome[JobAt(w)] = "open"
         /\ \A i \in Instance : opOf[i] = JobAt(w) => i = InstAt(w)
<1>1. JobAt(w) \in Job /\ InstAt(w) \in Instance
  BY MessageInHand DEF Inv, Processing
<1>2. opStatus[JobAt(w)] \notin OpFinal /\ opStatus[JobAt(w)] # "none" /\ opStatus[JobAt(w)] \in OpStatus
  BY <1>1 DEF Inv, TypeOK, JobTypeOK, HolderHasLock, OutcomeClosesJob, Paired
<1>3. outcome[JobAt(w)] = "open"
  BY <1>1, <1>2 DEF outcome, OutcomeOf, OpFinal, OpStatus
<1>4. ASSUME NEW i \in Instance, opOf[i] = JobAt(w) PROVE i = InstAt(w)
  <2>1. opOf[i] # NoJob
    BY <1>1, <1>4, ConstantsAssumption DEF NoJob
  <2> QED  BY <1>4, <2>1 DEF Inv, ValidRuntimeState, InstAt
<1> QED  BY <1>1, <1>3, <1>4

\* Whoever comes with a job that its instance no longer wants closes it.
LEMMA LifeDrop ==
  ASSUME Inv, Paired, NEW w \in Worker, pc[w] \in Holding, opOf[InstAt(w)] # JobAt(w),
         NEW end \in {"failed", "missing", "cancelled"}, UNCHANGED <<status, opOf>>,
         opStatus' = [opStatus EXCEPT ![JobAt(w)] = end]
  PROVE  LifeStep
<1>1. JobAt(w) \in Job /\ outcome[JobAt(w)] = "open" /\ \A i \in Instance : opOf[i] # JobAt(w)
  BY HeldIsOpen
<1>2. OutcomeOf(end) \in {"failed", "lost", "cancelled"}
  BY DEF OutcomeOf
<1>3. outcome' = [outcome EXCEPT ![JobAt(w)] = OutcomeOf(end)]
  BY <1>1 DEF outcome, Inv, TypeOK, JobTypeOK
<1>4. UNCHANGED phase
  BY DEF phase
<1>5. IL!Drop(JobAt(w), OutcomeOf(end))
  BY <1>1, <1>3, <1>4 DEF IL!Drop
<1> QED  BY <1>1, <1>2, <1>5 DEF LifeStep, IL!Next

\* Whoever comes with the job that is wanted settles it.
LEMMA LifeSettle ==
  ASSUME Inv, Paired, NEW w \in Worker, pc[w] \in Holding, opOf[InstAt(w)] = JobAt(w),
         NEW to \in Status, NEW end \in {"completed", "failed"},
         status' = [status EXCEPT ![InstAt(w)] = to],
         opOf' = [opOf EXCEPT ![InstAt(w)] = NoJob],
         opStatus' = [opStatus EXCEPT ![JobAt(w)] = end]
  PROVE  IL!Settle(InstAt(w), PhaseOf(to), OutcomeOf(end))
<1> USE DEF Inv, TypeOK, JobTypeOK, InstanceTypeOK
<1>1. /\ JobAt(w) \in Job /\ InstAt(w) \in Instance /\ outcome[JobAt(w)] = "open"
      /\ opOf[InstAt(w)] # NoJob
  BY HeldIsOpen, ConstantsAssumption DEF NoJob
<1>2. phase' = [phase EXCEPT ![InstAt(w)] = PhaseOf(to)]
  BY <1>1 DEF phase
<1>3. outcome' = [outcome EXCEPT ![opOf[InstAt(w)]] = OutcomeOf(end)]
  BY <1>1 DEF outcome
<1> QED  BY <1>1, <1>2, <1>3 DEF IL!Settle

\* A commit is the success of the operation.
LEMMA LifeCommit ==
  ASSUME Inv, Paired, NEW w \in Worker, Commit(w)
  PROVE  LifeStep
<1>1. pc[w] \in Holding /\ opOf[InstAt(w)] = JobAt(w)
  BY DEF Commit, Owned, Holding, Executing
<1>2. InstAt(w) \in Instance /\ JobAt(w) \in Job
  BY <1>1, HeldIsOpen
<1> DEFINE to == IF KindAt(w) \in {"stop", "expire"} THEN "stopped" ELSE "running"
<1>3. status[InstAt(w)] = "stopping" <=> KindAt(w) \in {"stop", "expire"}
  <2>1. opOf[InstAt(w)] # NoJob
    BY <1>1, <1>2, ConstantsAssumption DEF NoJob
  <2> QED  BY <1>1, <1>2, <2>1 DEF Inv, ValidRuntimeState, KindAt, InOperation
<1>4. to \in Status
  BY DEF Status, ActiveStatus, InactiveStatus
<1>5. IL!Settle(InstAt(w), PhaseOf(to), OutcomeOf("completed"))
  BY <1>1, <1>4, LifeSettle DEF Commit, Close
<1>6. OutcomeOf("completed") = "done"
  BY DEF OutcomeOf
<1>7. PhaseOf(to) = IF phase[InstAt(w)] = "stopping" THEN "ended" ELSE "running"
  BY <1>2, <1>3 DEF phase, PhaseOf, Inv, TypeOK, InstanceTypeOK, Status, ActiveStatus, InactiveStatus, Absent
<1>8. IL!Succeed(InstAt(w))
  BY <1>5, <1>6, <1>7 DEF IL!Succeed
<1> QED  BY <1>2, <1>8 DEF LifeStep, IL!Next

\* A failure that is recorded is that of the operation, or of one that was overtaken.
LEMMA LifeFailure ==
  ASSUME Inv, Paired, NEW w \in Worker, RecordFailure(w)
  PROVE  LifeStep
<1>1. pc[w] \in Holding
  BY DEF RecordFailure, Holding
<1>2. InstAt(w) \in Instance
  BY <1>1, HeldIsOpen
<1>3. CASE opOf[InstAt(w)] = JobAt(w)
  <2>1. IL!Settle(InstAt(w), PhaseOf("failed"), OutcomeOf("failed"))
    BY <1>1, <1>3, LifeSettle DEF RecordFailure, Close, Status, InactiveStatus
  <2>2. PhaseOf("failed") = "ended" /\ OutcomeOf("failed") = "failed"
    BY DEF PhaseOf, OutcomeOf, InactiveStatus, Absent
  <2>3. IL!Fail(InstAt(w))
    BY <2>1, <2>2 DEF IL!Fail
  <2> QED  BY <1>2, <2>3 DEF LifeStep, IL!Next
<1>4. CASE opOf[InstAt(w)] # JobAt(w)
  BY <1>1, <1>4, LifeDrop DEF RecordFailure, Close
<1> QED  BY <1>3, <1>4

\* Without an instance the operation is lost, if its instance still waits for it.
LEMMA LifeMissing ==
  ASSUME Inv, Paired, NEW w \in Worker, RecordMissing(w)
  PROVE  LifeStep
<1>1. pc[w] \in Holding
  BY DEF RecordMissing, Holding
<1>2. /\ InstAt(w) \in Instance /\ JobAt(w) \in Job /\ JobAt(w) # NoJob
      /\ outcome[JobAt(w)] = "open"
  BY <1>1, HeldIsOpen, ConstantsAssumption DEF NoJob
<1>3. UNCHANGED <<status, opOf>> /\ opStatus' = [opStatus EXCEPT ![JobAt(w)] = "missing"]
  BY DEF RecordMissing, Close, instVars
<1>4. CASE opOf[InstAt(w)] = JobAt(w)
  <2>1. OutcomeOf("missing") = "lost"
    BY DEF OutcomeOf
  <2>2. outcome' = [outcome EXCEPT ![opOf[InstAt(w)]] = "lost"] /\ UNCHANGED phase
    BY <1>2, <1>3, <1>4, <2>1 DEF outcome, phase, Inv, TypeOK, JobTypeOK
  <2>3. IL!Lose(InstAt(w))
    BY <1>2, <1>3, <1>4, <2>2 DEF IL!Lose
  <2> QED  BY <1>2, <2>3 DEF LifeStep, IL!Next
<1>5. CASE opOf[InstAt(w)] # JobAt(w)
  BY <1>1, <1>3, <1>5, LifeDrop
<1> QED  BY <1>4, <1>5

\* supersede closes an operation that was overtaken.
LEMMA LifeSupersede ==
  ASSUME Inv, Paired, NEW w \in Worker, Supersede(w)
  PROVE  LifeStep
<1>1. pc[w] \in Holding /\ opOf[InstAt(w)] # JobAt(w)
  BY DEF Supersede, Owned, Holding, Inv, ReadCurrent
<1> QED  BY <1>1, LifeDrop DEF Supersede, Close, instVars

\* An instance that is claimed while it is pending stays one that starts.
LEMMA LifeClaim ==
  ASSUME Inv, PlaceInv, NEW w \in Worker, Claim(w)
  PROVE  LifeStep
<1>1. InstAt(w) \in Instance /\ row[w].status = status[InstAt(w)]
  BY MessageInHand DEF Claim, Owned, Wanted, Inv, PlaceInv, CallCurrent, Processing, Holding
<1>2. \A i \in Instance : PhaseOf(status'[i]) = PhaseOf(status[i])
  BY <1>1 DEF Claim, PhaseOf, Inv, TypeOK, InstanceTypeOK, Absent, InactiveStatus
<1>3. UNCHANGED <<phase, outcome, opOf>>
  BY <1>2 DEF Claim, phase, outcome, jobVars
<1> QED  BY <1>3 DEF LifeStep, IL!vars

\* Only instances that run are interrupted.
LEMMA LifeReconcile ==
  ASSUME Inv, NEW w \in Worker, Reconcile(w)
  PROVE  LifeStep
<1>1. PICK seen \in SUBSET {i \in Instance : Drifted(w, i)} :
        status' = [i \in Instance |-> IF Invalid(w, i) \/ i \in seen THEN "interrupted" ELSE status[i]]
  BY DEF Reconcile
<1> DEFINE dead == {i \in Instance : Invalid(w, i) \/ i \in seen}
<1>2. \A i \in dead : status[i] = "running"
  BY DEF Inv, ValidRuntimeState, Invalid, Drifted
<1>3. \A i \in dead : phase[i] = "running"
  <2>1. PhaseOf("running") = "running"
    BY DEF PhaseOf, Absent, InactiveStatus
  <2> QED  BY <1>2, <2>1 DEF phase
<1>4. phase' = [i \in Instance |-> IF i \in dead THEN "ended" ELSE phase[i]]
  BY <1>1 DEF phase, PhaseOf, InactiveStatus, Absent
<1>5. UNCHANGED <<opOf, outcome>>
  BY DEF Reconcile, outcome, jobVars
<1>6. IL!Interrupt(dead)
  BY <1>3, <1>4, <1>5 DEF IL!Interrupt
<1> QED  BY <1>6 DEF LifeStep, IL!Next

\* The locks and the retries of a job do not show.
LEMMA LifeLock ==
  ASSUME Inv, Paired, NEW w \in Worker, LockJob(w) \/ RecordRetry(w)
  PROVE  LifeStep
<1>1. CASE LockJob(w)
  <2>1. JobAt(w) \in Job /\ jobStatus[JobAt(w)] # "none"
    BY <1>1, MessageInHand DEF LockJob, Processing, Inv, PublishedExist
  <2>2. opStatus[JobAt(w)] \in OpStatus \ {"none"}
    BY <2>1 DEF Paired, Inv, TypeOK, JobTypeOK
  <2>3. \A j \in Job : OutcomeOf(opStatus'[j]) = OutcomeOf(opStatus[j])
    BY <1>1, <2>1, <2>2 DEF LockJob, OutcomeOf, OpStatus, OpFinal, Inv, TypeOK, JobTypeOK
  <2> QED  BY <1>1, <2>3 DEF LockJob, LifeStep, IL!vars, phase, outcome, instVars
<1>2. CASE RecordRetry(w)
  <2>1. pc[w] \in Holding
    BY <1>2 DEF RecordRetry, Holding
  <2>2. JobAt(w) \in Job /\ outcome[JobAt(w)] = "open"
    BY <2>1, HeldIsOpen
  <2>3. \A j \in Job : OutcomeOf(opStatus'[j]) = OutcomeOf(opStatus[j])
    BY <1>2, <2>2 DEF RecordRetry, outcome, OutcomeOf, Inv, TypeOK, JobTypeOK
  <2> QED  BY <1>2, <2>3 DEF RecordRetry, LifeStep, IL!vars, phase, outcome, instVars
<1> QED  BY <1>1, <1>2

\* All steps together.
LEMMA LifeNext == Inv /\ PlaceInv /\ Paired /\ [Next]_vars => LifeStep
<1> SUFFICES ASSUME Inv, PlaceInv, Paired, [Next]_vars PROVE LifeStep
  OBVIOUS
<1>1. ASSUME NEW k \in Instance, NEW j \in Job, Start(k, j) PROVE LifeStep
  <2>1. status' = [status EXCEPT ![k] = To("start")] /\ CreateJob(k, j, "start", 1)
    BY <1>1 DEF Start
  <2> QED  BY <1>1, <2>1, LifeAsk DEF Start, JobKind
<1>2. ASSUME NEW k \in Instance, NEW j \in Job, NEW kind \in JobKind \ {"start"}, Transition(k, j, kind)
      PROVE  LifeStep
  BY <1>2, LifeAsk DEF Transition
<1>3. ASSUME NEW w \in Worker, NEW k \in Instance, ExpireInstance(w, k) PROVE LifeStep
  <2>1. CASE \E j \in Job : Transition(k, j, "expire")
    BY <2>1, <1>2 DEF JobKind
  <2>2. CASE UNCHANGED WorkerOnly
    BY <2>2, LifeStutter DEF WorkerOnly, instVars, jobVars
  <2> QED  BY <1>3, <2>1, <2>2 DEF ExpireInstance
<1>4. ASSUME NEW w \in Worker, QuietAction(w) PROVE LifeStep
  BY <1>4, TypeOKStep, QuietActions, LifeStutter DEF Quiet, Rows, Inv
<1>5. ASSUME NEW w \in Worker, \/ CheckAccept(w) \/ ReadInstance(w) \/ PublishOutbox(w) \/ RenewLock(w)
      PROVE  LifeStep
  BY <1>5, LifeStutter DEF CheckAccept, ReadInstance, PublishOutbox, RenewLock, WorkerOnly, instVars, jobVars
<1>6. ASSUME NEW k \in Instance, Extend(k) \/ TtlElapses(k) PROVE LifeStep
  BY <1>6, LifeStutter DEF Extend, TtlElapses, jobVars
<1>7. ASSUME NEW w \in Worker, NEW k \in Instance, ContainerLost(w, k) PROVE LifeStep
  BY <1>7, LifeStutter DEF ContainerLost, instVars, jobVars
<1>8. ASSUME NEW j \in Job, LockExpires(j) PROVE LifeStep
  BY <1>8, LifeStutter DEF LockExpires, instVars
<1>9. CASE UNCHANGED vars
  BY <1>9, LifeStutter DEF vars, instVars, jobVars
<1>10. CASE API
  BY <1>10, <1>1, <1>2, <1>6 DEF API, Request, JobKind
<1>11. ASSUME NEW w \in Worker, Maintain(w) \/ Handle(w) \/ Fails(w)
       PROVE  LifeStep
  BY <1>11, <1>3, <1>4, <1>5, LifeCommit, LifeFailure, LifeMissing, LifeSupersede, LifeClaim, LifeReconcile,
     LifeLock
     DEF Maintain, Handle, Fails, QuietAction
<1>12. CASE Environment
  BY <1>12, <1>4, <1>5, <1>6, <1>7, <1>8 DEF Environment, QuietAction
<1> QED  BY <1>4, <1>5, <1>9, <1>10, <1>11, <1>12 DEF Next, QuietAction

\* The runtime implements the safety part of InstanceLife: however often a message is
\* delivered, whichever worker takes it, dies with it or fails, and whatever the API does
\* meanwhile, an operation takes effect at most once, in the transaction that records its
\* outcome, and only while its instance waits for it (handle, supersede); a failure leaves
\* the instance as it is only if the worker could not read it (recordFailure).
THEOREM LifecycleIsSafe == Spec => LifecycleSafe
<1>1. Init => Paired /\ IL!Init
  BY PairedInit, LifeInit
<1>2. Inv /\ Paired /\ [Next]_vars => Paired'
  BY PairedStep
<1>3. Inv /\ PlaceInv /\ Paired /\ [Next]_vars => [IL!Next]_(IL!vars)
  BY LifeNext DEF LifeStep
<1> QED  BY <1>1, <1>2, <1>3, InvInvariant, PlaceInvariant, PTL DEF Spec, LifecycleSafe, IL!Safe
=============================================================================
