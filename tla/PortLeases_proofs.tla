-------------------------- MODULE PortLeases_proofs --------------------------
(***************************************************************************)
(* What holds of PortLeases for any instances and ports, any number of     *)
(* faults and any requests.                                                *)
(*                                                                         *)
(* Inv is inductive.  Its parts say where an operation stands: a row waits *)
(* for its job and its call (OperationOpen), a call that still owns its    *)
(* row knows the port of the row, and one that allocates found none        *)
(* (CallMatchesRow); a row without a port has no lease, unless a stop has  *)
(* taken it over (NoHiddenLease); a row that runs has no reservation and,  *)
(* once a pass has verified it, a young heartbeat (RunningRows); and the   *)
(* recovery of the pool leaves no lease to a row that ended (Recovered).   *)
(***************************************************************************)
EXTENDS PortLeases, TLAPS, WellFoundedInduction

\* The worker is about to allocate a port, or recovers the pool for that.
Allocating == pc \in {"alloc", "again"} \/ (pass = "recovery" /\ pc \in Passing)

OnePort ==
    \A i, j \in Instance : lease[i] # NoLease /\ lease[i].port = lease[j].port => i = j

OperationOpen ==
    /\ \A i \in Instance : job[i] # "none" => status[i] \in OpStatus
    /\ cur.inst # Nobody => status[cur.inst] \in OpStatus
    /\ cur.inst # Nobody /\ cur.lost => status[cur.inst] = "stopping"
    /\ cur.inst # Nobody /\ ~cur.lost => cur.kind = KindOf(status[cur.inst])
    /\ pass = "recovery" => cur.inst # Nobody
    /\ pc \in {"down", "idle", "beat"} => pass # "recovery"

CallMatchesRow ==
    /\ Allocating => /\ cur.kind \in {"start", "reset"} /\ cur.port = NoPort
                     /\ hostPort[cur.inst] = NoPort /\ lease[cur.inst] = NoLease
    /\ pc \in {"docker", "quarantine", "commit"} /\ ~cur.lost => hostPort[cur.inst] = cur.port
    /\ pc = "quarantine" => cur.kind \in {"start", "reset"}
    /\ pc \in {"docker", "quarantine"} /\ cur.kind \in {"start", "reset"} => cur.port \in Port

NoHiddenLease ==
    \A i \in Instance :
        lease[i] # NoLease /\ hostPort[i] = NoPort => status[i] \in {"stopping", "ended"}

RunningRows ==
    /\ \A i \in Instance : status[i] \in {"running", "restarting"} =>
           lease[i].st \notin {"reserved", "overdue"}
    /\ pc = "maintain" => \A i \in Instance : status[i] = "running" => fresh[i]

Recovered ==
    /\ pc = "again" => pass = "recovery"
    /\ pass = "recovery" /\ pc \in {"sweep", "again"} =>
           \A i \in Instance : lease[i] # NoLease => status[i] # "ended"

Inv ==
    /\ TypeOK
    /\ OnePort /\ LeaseMatchesRow /\ OperationOpen /\ CallMatchesRow /\ NoHiddenLease
    /\ RunningRows /\ Recovered

-----------------------------------------------------------------------------
(* Lemmas about the operators.                                             *)

\* allocatePortOnce finds a port whenever one is free.
LEMMA LowestIsFree ==
  ASSUME NEW S, S \subseteq Nat, S # {}
  PROVE  Lowest(S) \in S
<1> DEFINE Less == {pair \in Nat \X Nat : pair[1] < pair[2]}
<1>1. IsWellFoundedOn(Less, Nat)
  BY NatLessThanWellFounded DEF OpToRel
<1>2. \A m, n \in Nat : m < n => <<m, n>> \in Less
  OBVIOUS
<1> HIDE DEF Less
<1>3. PICK x \in S : \A y \in S : ~(<<y, x>> \in Less)
  BY <1>1, WFMin
<1>4. ASSUME NEW y \in S PROVE x <= y
  <2>1. x \in Nat /\ y \in Nat
    OBVIOUS
  <2>2. ~(y < x)
    BY <1>2, <1>3, <2>1, Zenon
  <2> QED  BY <2>1, <2>2
<1> QED  BY <1>4 DEF Lowest

\* A container that is started or dies is one still.
LEMMA UpType ==
  ASSUME NEW c \in Container, NEW b \in BOOLEAN
  PROVE  [c EXCEPT !.up = b] \in Container
BY DEF Container

\* Rows that end are rows still.
LEMMA EndType ==
  ASSUME RowTypeOK, NEW ended, End(ended)
  PROVE  /\ status' \in [Instance -> RowStatus] /\ known' \in [Instance -> BOOLEAN]
         /\ fresh' \in [Instance -> BOOLEAN]
<1>1. status' \in [Instance -> RowStatus]
  BY DEF RowTypeOK, End, RowStatus
<1>2. known' \in [Instance -> BOOLEAN]
  BY DEF RowTypeOK, End
<1>3. fresh' \in [Instance -> BOOLEAN]
  BY DEF RowTypeOK, End
<1> QED  BY <1>1, <1>2, <1>3

-----------------------------------------------------------------------------
LEMMA InvInit == Init => Inv
<1> SUFFICES ASSUME Init PROVE Inv
  OBVIOUS
<1>1. PICK bound \in [Instance -> Port \cup {NoPort}], up \in SUBSET Instance :
        /\ \A i, j \in Instance : bound[i] = bound[j] => i = j \/ bound[i] = NoPort
        /\ \A i \in up : bound[i] # NoPort
        /\ InitWith(bound, up)
  BY DEF Init
<1> USE <1>1, PortsAssumption DEF InitWith, NoPort, NoLease, NoContainer, NoCall
<1>2. TypeOK
  BY DEF TypeOK, RowTypeOK, LeaseTypeOK, WorkerTypeOK, RowStatus, OpStatus, Lease,
     Container, Call, Kind, Passing, Handling
<1>3. OnePort /\ LeaseMatchesRow /\ NoHiddenLease /\ RunningRows
  BY DEF OnePort, LeaseMatchesRow, NoHiddenLease, RunningRows
<1>4. OperationOpen /\ CallMatchesRow /\ Recovered
  BY DEF OperationOpen, CallMatchesRow, Recovered, Allocating, Passing
<1> QED  BY <1>2, <1>3, <1>4 DEF Inv
LEMMA InvStep == Inv /\ [Next]_vars => Inv'
<1> SUFFICES ASSUME Inv, [Next]_vars PROVE Inv'
  OBVIOUS
<1> USE PortsAssumption DEF Inv, vars, rowVars, leaseVars, procVars, DockerOnly,
            NoPort, NoLease, NoContainer, NoCall, Allocating,
            TypeOK, RowTypeOK, LeaseTypeOK, WorkerTypeOK, RowStatus, OpStatus, Lease,
            Container,
            Call, Kind, KindOf, Passing, Handling
<1>1. ASSUME NEW i \in Instance, Start(i) PROVE Inv'
  BY <1>1 DEF Start, End, NewJob, OnePort, LeaseMatchesRow, OperationOpen, CallMatchesRow,
     NoHiddenLease, RunningRows, Recovered
<1>2. ASSUME NEW i \in Instance, NEW s \in OpStatus, Request(i, s) PROVE Inv'
  <2>1. RowTypeOK'
    BY <1>2 DEF Request, NewJob, TakeOver
  <2>2. LeaseTypeOK'
    BY <1>2 DEF Request, NewJob, TakeOver, CallMatchesRow
  <2>3. WorkerTypeOK'
    BY <1>2 DEF Request, NewJob, TakeOver, OperationOpen
  <2>4. OnePort'
    BY <1>2 DEF Request, NewJob, TakeOver, OnePort
  <2>5. LeaseMatchesRow'
    BY <1>2 DEF Request, NewJob, TakeOver, LeaseMatchesRow, CallMatchesRow
  <2>6. OperationOpen'
    BY <1>2 DEF Request, NewJob, TakeOver, OperationOpen
  <2>7. CallMatchesRow'
    BY <1>2 DEF Request, NewJob, TakeOver, CallMatchesRow, OperationOpen, NoHiddenLease,
       LeaseMatchesRow
  <2>8. NoHiddenLease'
    BY <1>2 DEF Request, NewJob, TakeOver, NoHiddenLease, OperationOpen, CallMatchesRow,
       LeaseMatchesRow
  <2>9. RunningRows'
    BY <1>2 DEF Request, NewJob, TakeOver, RunningRows, OperationOpen, CallMatchesRow
  <2>10. Recovered'
    BY <1>2 DEF Request, NewJob, TakeOver, Recovered, OperationOpen
  <2> QED  BY <2>1, <2>2, <2>3, <2>4, <2>5, <2>6, <2>7, <2>8, <2>9, <2>10
<1>3. ASSUME NEW i \in Instance, Pick(i) PROVE Inv'
  BY <1>3 DEF Pick, KindOf, OnePort, LeaseMatchesRow, OperationOpen, CallMatchesRow,
     NoHiddenLease, RunningRows, Recovered
<1>4. ASSUME Allocate PROVE Inv'
  <2> DEFINE port == Lowest(FreePorts)
  <2>a. port \in FreePorts /\ port \in Port
    <3>1. FreePorts # {} /\ FreePorts \subseteq Port
      BY <1>4 DEF Allocate, AllocateFrom, FreePorts
    <3> QED  BY <3>1, LowestIsFree
  <2>b. \A i \in Instance : lease[i].port # port
    BY <2>a DEF FreePorts, Leased
  <2> HIDE DEF port
  <2>1. RowTypeOK'
    BY <1>4, <2>a, <2>b DEF Allocate, AllocateFrom, port
  <2>2. LeaseTypeOK'
    BY <1>4, <2>a, <2>b DEF Allocate, AllocateFrom, port, CallMatchesRow
  <2>3. WorkerTypeOK'
    BY <1>4, <2>a, <2>b DEF Allocate, AllocateFrom, port, OperationOpen
  <2>4. OnePort'
    BY <1>4, <2>a, <2>b DEF Allocate, AllocateFrom, port, OnePort
  <2>5. LeaseMatchesRow'
    BY <1>4, <2>a, <2>b DEF Allocate, AllocateFrom, port, LeaseMatchesRow, CallMatchesRow
  <2>6. OperationOpen'
    BY <1>4, <2>a, <2>b DEF Allocate, AllocateFrom, port, OperationOpen
  <2>7. CallMatchesRow'
    BY <1>4, <2>a, <2>b DEF Allocate, AllocateFrom, port, CallMatchesRow, OperationOpen,
       NoHiddenLease, LeaseMatchesRow
  <2>8. NoHiddenLease'
    BY <1>4, <2>a, <2>b DEF Allocate, AllocateFrom, port, NoHiddenLease, OperationOpen,
       CallMatchesRow, LeaseMatchesRow
  <2>9. RunningRows'
    BY <1>4, <2>a, <2>b DEF Allocate, AllocateFrom, port, RunningRows, OperationOpen,
       CallMatchesRow
  <2>10. Recovered'
    BY <1>4, <2>a, <2>b DEF Allocate, AllocateFrom, port, Recovered, OperationOpen
  <2> QED  BY <2>1, <2>2, <2>3, <2>4, <2>5, <2>6, <2>7, <2>8, <2>9, <2>10
<1>5. ASSUME AllocateFails PROVE Inv'
  BY <1>5 DEF AllocateFails, FailsInto, Fault, OnePort, LeaseMatchesRow, OperationOpen,
     CallMatchesRow,
     NoHiddenLease, RunningRows, Recovered
<1>6. ASSUME Recover PROVE Inv'
  BY <1>6 DEF Recover, OnePort, LeaseMatchesRow, OperationOpen, CallMatchesRow,
     NoHiddenLease, RunningRows, Recovered
<1>7. ASSUME Exhausted PROVE Inv'
  BY <1>7 DEF Exhausted, FailsInto, OnePort, LeaseMatchesRow, OperationOpen, CallMatchesRow,
     NoHiddenLease, RunningRows, Recovered
<1>8. ASSUME StartContainer PROVE Inv'
  <2>1. RowTypeOK'
    BY <1>8 DEF StartContainer, Reusable, Listens, Taken, Replace
  <2>2. LeaseTypeOK'
    <3>1. CASE Reusable
      BY <1>8, <3>1 DEF StartContainer, CallMatchesRow
    <3>2. CASE ~Reusable
      <4>1. container' = [container EXCEPT ![cur.inst] = [port |-> cur.port, up |-> TRUE]]
        BY <1>8, <3>2 DEF StartContainer, Replace, CallMatchesRow
      <4>2. [port |-> cur.port, up |-> TRUE] \in Container
        BY <1>8 DEF StartContainer, CallMatchesRow
      <4> QED  BY <1>8, <4>1, <4>2 DEF StartContainer
    <3> QED  BY <3>1, <3>2
  <2>3. WorkerTypeOK'
    BY <1>8 DEF StartContainer, Reusable, Listens, Taken, Replace, OperationOpen
  <2>4. OnePort'
    BY <1>8 DEF StartContainer, Reusable, Listens, Taken, Replace, OnePort
  <2>5. LeaseMatchesRow'
    BY <1>8 DEF StartContainer, Reusable, Listens, Taken, Replace, LeaseMatchesRow,
       CallMatchesRow
  <2>6. OperationOpen'
    BY <1>8 DEF StartContainer, Reusable, Listens, Taken, Replace, OperationOpen
  <2>7. CallMatchesRow'
    BY <1>8 DEF StartContainer, Reusable, Listens, Taken, Replace, CallMatchesRow,
       OperationOpen, NoHiddenLease, LeaseMatchesRow
  <2>8. NoHiddenLease'
    BY <1>8 DEF StartContainer, Reusable, Listens, Taken, Replace, NoHiddenLease,
       OperationOpen, CallMatchesRow, LeaseMatchesRow
  <2>9. RunningRows'
    BY <1>8 DEF StartContainer, Reusable, Listens, Taken, Replace, RunningRows,
       OperationOpen, CallMatchesRow
  <2>10. Recovered'
    BY <1>8 DEF StartContainer, Reusable, Listens, Taken, Replace, Recovered, OperationOpen
  <2> QED  BY <2>1, <2>2, <2>3, <2>4, <2>5, <2>6, <2>7, <2>8, <2>9, <2>10
<1>9. ASSUME PortConflict PROVE Inv'
  BY <1>9 DEF PortConflict, Replace, FailsInto, Fault, OnePort, LeaseMatchesRow,
     OperationOpen, CallMatchesRow,
     NoHiddenLease, RunningRows, Recovered
<1>10. ASSUME RestartContainer PROVE Inv'
  <2>1. RowTypeOK'
    BY <1>10 DEF RestartContainer
  <2>2. LeaseTypeOK'
    <3>1. [container[cur.inst] EXCEPT !.up = TRUE] \in Container
      BY <1>10, UpType DEF RestartContainer, CallMatchesRow
    <3> QED  BY <1>10, <3>1 DEF RestartContainer
  <2>3. WorkerTypeOK'
    BY <1>10 DEF RestartContainer, OperationOpen
  <2>4. OnePort'
    BY <1>10 DEF RestartContainer, OnePort
  <2>5. LeaseMatchesRow'
    BY <1>10 DEF RestartContainer, LeaseMatchesRow, CallMatchesRow
  <2>6. OperationOpen'
    BY <1>10 DEF RestartContainer, OperationOpen
  <2>7. CallMatchesRow'
    BY <1>10 DEF RestartContainer, CallMatchesRow, OperationOpen, NoHiddenLease,
       LeaseMatchesRow
  <2>8. NoHiddenLease'
    BY <1>10 DEF RestartContainer, NoHiddenLease, OperationOpen, CallMatchesRow,
       LeaseMatchesRow
  <2>9. RunningRows'
    BY <1>10 DEF RestartContainer, RunningRows, OperationOpen, CallMatchesRow
  <2>10. Recovered'
    BY <1>10 DEF RestartContainer, Recovered, OperationOpen
  <2> QED  BY <2>1, <2>2, <2>3, <2>4, <2>5, <2>6, <2>7, <2>8, <2>9, <2>10
<1>11. ASSUME StopContainer PROVE Inv'
  BY <1>11 DEF StopContainer, OnePort, LeaseMatchesRow, OperationOpen, CallMatchesRow,
     NoHiddenLease, RunningRows, Recovered
<1>12. ASSUME DockerFails PROVE Inv'
  <2>1. RowTypeOK'
    BY <1>12 DEF DockerFails, Replace, FailsInto, Fault
  <2>2. LeaseTypeOK'
    <3>1. [container[cur.inst] EXCEPT !.up = FALSE] \in Container
      BY <1>12, UpType DEF DockerFails, CallMatchesRow
    <3>2. CASE UNCHANGED container
      BY <1>12, <3>2 DEF DockerFails, CallMatchesRow
    <3>3. CASE Replace(NoContainer)
      BY <1>12, <3>3 DEF DockerFails, Replace, CallMatchesRow
    <3>4. CASE container' = [container EXCEPT ![cur.inst].up = FALSE]
      BY <1>12, <3>1, <3>4 DEF DockerFails, CallMatchesRow
    <3> QED  BY <1>12, <3>2, <3>3, <3>4 DEF DockerFails
  <2>3. WorkerTypeOK'
    BY <1>12 DEF DockerFails, Replace, FailsInto, Fault, OperationOpen
  <2>4. OnePort'
    BY <1>12 DEF DockerFails, Replace, FailsInto, Fault, OnePort
  <2>5. LeaseMatchesRow'
    BY <1>12 DEF DockerFails, Replace, FailsInto, Fault, LeaseMatchesRow, CallMatchesRow
  <2>6. OperationOpen'
    BY <1>12 DEF DockerFails, Replace, FailsInto, Fault, OperationOpen
  <2>7. CallMatchesRow'
    BY <1>12 DEF DockerFails, Replace, FailsInto, Fault, CallMatchesRow, OperationOpen,
       NoHiddenLease, LeaseMatchesRow
  <2>8. NoHiddenLease'
    BY <1>12 DEF DockerFails, Replace, FailsInto, Fault, NoHiddenLease, OperationOpen,
       CallMatchesRow, LeaseMatchesRow
  <2>9. RunningRows'
    BY <1>12 DEF DockerFails, Replace, FailsInto, Fault, RunningRows, OperationOpen,
       CallMatchesRow
  <2>10. Recovered'
    BY <1>12 DEF DockerFails, Replace, FailsInto, Fault, Recovered, OperationOpen
  <2> QED  BY <2>1, <2>2, <2>3, <2>4, <2>5, <2>6, <2>7, <2>8, <2>9, <2>10
<1>13. ASSUME Quarantine PROVE Inv'
  <2>1. RowTypeOK'
    BY <1>13 DEF Quarantine, FailsInto
  <2>2. LeaseTypeOK'
    <3>1. \/ lease' = [lease EXCEPT ![cur.inst] = NoLease] /\ quarantined' = quarantined \cup {cur.port}
          \/ UNCHANGED leaseVars
      BY <1>13 DEF Quarantine
    <3>2. cur.port \in Port /\ UNCHANGED container
      BY <1>13 DEF Quarantine, CallMatchesRow
    <3> QED  BY <3>1, <3>2
  <2>3. WorkerTypeOK'
    BY <1>13 DEF Quarantine, FailsInto, OperationOpen
  <2>4. OnePort'
    BY <1>13 DEF Quarantine, FailsInto, OnePort
  <2>5. LeaseMatchesRow'
    BY <1>13 DEF Quarantine, FailsInto, LeaseMatchesRow, CallMatchesRow
  <2>6. OperationOpen'
    BY <1>13 DEF Quarantine, FailsInto, OperationOpen
  <2>7. CallMatchesRow'
    BY <1>13 DEF Quarantine, FailsInto, CallMatchesRow, OperationOpen, NoHiddenLease,
       LeaseMatchesRow
  <2>8. NoHiddenLease'
    BY <1>13 DEF Quarantine, FailsInto, NoHiddenLease, OperationOpen, CallMatchesRow,
       LeaseMatchesRow
  <2>9. RunningRows'
    BY <1>13 DEF Quarantine, FailsInto, RunningRows, OperationOpen, CallMatchesRow
  <2>10. Recovered'
    BY <1>13 DEF Quarantine, FailsInto, Recovered, OperationOpen
  <2> QED  BY <2>1, <2>2, <2>3, <2>4, <2>5, <2>6, <2>7, <2>8, <2>9, <2>10
<1>14. ASSUME QuarantineFails PROVE Inv'
  BY <1>14 DEF QuarantineFails, FailsInto, Fault, OnePort, LeaseMatchesRow, OperationOpen,
     CallMatchesRow,
     NoHiddenLease, RunningRows, Recovered
<1>15. ASSUME Commit PROVE Inv'
  <2>1. RowTypeOK'
    <3>1. CASE cur.kind = "stop"
      BY SMTT(30), <1>15, <3>1, EndType DEF Commit
    <3>2. CASE cur.kind # "stop"
      <4>1. /\ status' = [status EXCEPT ![cur.inst] = "running"]
            /\ known' = [known EXCEPT ![cur.inst] = TRUE]
            /\ fresh' = [fresh EXCEPT ![cur.inst] = TRUE]
            /\ job' = [job EXCEPT ![cur.inst] = "none"] /\ hostPort' = hostPort
        BY <1>15, <3>2 DEF Commit
      <4> QED  BY <4>1
    <3> QED  BY <3>1, <3>2
  <2>2. LeaseTypeOK'
    <3>1. lease[cur.inst] # NoLease => [lease[cur.inst] EXCEPT !.st = "active"] \in Lease
      BY <1>15 DEF Commit
    <3>2. CASE lease' = [lease EXCEPT ![cur.inst] = NoLease]
      BY <1>15, <3>2 DEF Commit
    <3>3. CASE lease[cur.inst] # NoLease /\ lease' = [lease EXCEPT ![cur.inst].st = "active"]
      BY <1>15, <3>1, <3>3 DEF Commit
    <3> QED  BY <1>15, <3>2, <3>3 DEF Commit
  <2>3. WorkerTypeOK'
    BY <1>15 DEF Commit, End, Idle, OperationOpen
  <2>4. OnePort'
    BY SMTT(30), <1>15 DEF Commit, End, Idle, OnePort
  <2>5. LeaseMatchesRow'
    BY <1>15 DEF Commit, End, Idle, LeaseMatchesRow, CallMatchesRow
  <2>6. OperationOpen'
    BY <1>15 DEF Commit, End, Idle, OperationOpen
  <2>7. CallMatchesRow'
    BY <1>15 DEF Commit, End, Idle, CallMatchesRow, OperationOpen, NoHiddenLease,
       LeaseMatchesRow
  <2>8. NoHiddenLease'
    BY <1>15 DEF Commit, End, Idle, NoHiddenLease, OperationOpen, CallMatchesRow,
       LeaseMatchesRow
  <2>9. RunningRows'
    BY <1>15 DEF Commit, End, Idle, RunningRows, OperationOpen, CallMatchesRow
  <2>10. Recovered'
    BY <1>15 DEF Commit, End, Idle, Recovered, OperationOpen
  <2> QED  BY <2>1, <2>2, <2>3, <2>4, <2>5, <2>6, <2>7, <2>8, <2>9, <2>10
<1>16. ASSUME CommitFails PROVE Inv'
  BY SMTT(30), <1>16 DEF CommitFails, Idle, Fault, OnePort, LeaseMatchesRow, OperationOpen,
     CallMatchesRow,
     NoHiddenLease, RunningRows, Recovered
<1>17. ASSUME Retry PROVE Inv'
  <2>1. RowTypeOK'
    <3>1. CASE cur.lost
      BY <1>17, <3>1 DEF Retry
    <3>2. CASE ~cur.lost
      <4>1. /\ fresh' = [fresh EXCEPT ![cur.inst] = TRUE]
            /\ job' = [job EXCEPT ![cur.inst] = "queued"]
            /\ UNCHANGED <<status, hostPort, known>>
        BY <1>17, <3>2 DEF Retry
      <4> QED  BY <4>1
    <3> QED  BY <3>1, <3>2
  <2>2. LeaseTypeOK'
    BY <1>17 DEF Retry, Idle, CallMatchesRow
  <2>3. WorkerTypeOK'
    BY <1>17 DEF Retry, Idle, OperationOpen
  <2>4. OnePort'
    BY <1>17 DEF Retry, Idle, OnePort
  <2>5. LeaseMatchesRow'
    BY <1>17 DEF Retry, Idle, LeaseMatchesRow, CallMatchesRow
  <2>6. OperationOpen'
    BY <1>17 DEF Retry, Idle, OperationOpen
  <2>7. CallMatchesRow'
    BY <1>17 DEF Retry, Idle, CallMatchesRow, OperationOpen, NoHiddenLease, LeaseMatchesRow
  <2>8. NoHiddenLease'
    BY <1>17 DEF Retry, Idle, NoHiddenLease, OperationOpen, CallMatchesRow, LeaseMatchesRow
  <2>9. RunningRows'
    BY <1>17 DEF Retry, Idle, RunningRows, OperationOpen, CallMatchesRow
  <2>10. Recovered'
    BY <1>17 DEF Retry, Idle, Recovered, OperationOpen
  <2> QED  BY <2>1, <2>2, <2>3, <2>4, <2>5, <2>6, <2>7, <2>8, <2>9, <2>10
<1>18. ASSUME GiveUp PROVE Inv'
  <2>1. RowTypeOK'
    <3>1. CASE cur.lost
      BY <1>18, <3>1 DEF GiveUp
    <3>2. CASE ~cur.lost
      <4>1. /\ End({cur.inst})
            /\ hostPort' = [hostPort EXCEPT ![cur.inst] = NoPort]
            /\ job' = [job EXCEPT ![cur.inst] = "none"]
        BY <1>18, <3>2 DEF GiveUp
      <4> QED  BY <4>1, EndType
    <3> QED  BY <3>1, <3>2
  <2>2. LeaseTypeOK'
    BY <1>18 DEF GiveUp, End, Idle, CallMatchesRow
  <2>3. WorkerTypeOK'
    BY <1>18 DEF GiveUp, End, Idle, OperationOpen
  <2>4. OnePort'
    BY <1>18 DEF GiveUp, End, Idle, OnePort
  <2>5. LeaseMatchesRow'
    BY <1>18 DEF GiveUp, End, Idle, LeaseMatchesRow, CallMatchesRow
  <2>6. OperationOpen'
    BY <1>18 DEF GiveUp, End, Idle, OperationOpen
  <2>7. CallMatchesRow'
    BY <1>18 DEF GiveUp, End, Idle, CallMatchesRow, OperationOpen, NoHiddenLease,
       LeaseMatchesRow
  <2>8. NoHiddenLease'
    BY <1>18 DEF GiveUp, End, Idle, NoHiddenLease, OperationOpen, CallMatchesRow,
       LeaseMatchesRow
  <2>9. RunningRows'
    BY <1>18 DEF GiveUp, End, Idle, RunningRows, OperationOpen, CallMatchesRow
  <2>10. Recovered'
    BY <1>18 DEF GiveUp, End, Idle, Recovered, OperationOpen
  <2> QED  BY <2>1, <2>2, <2>3, <2>4, <2>5, <2>6, <2>7, <2>8, <2>9, <2>10
<1>19. ASSUME RecordFails PROVE Inv'
  BY <1>19 DEF RecordFails, Idle, Fault, OnePort, LeaseMatchesRow, OperationOpen,
     CallMatchesRow,
     NoHiddenLease, RunningRows, Recovered
<1>20. ASSUME Reconcile PROVE Inv'
  <2>1. RowTypeOK'
    BY <1>20 DEF Reconcile, Broken, FailsInto, Fault
  <2>2. LeaseTypeOK'
    BY <1>20 DEF Reconcile, Broken, FailsInto, Fault, CallMatchesRow
  <2>3. WorkerTypeOK'
    BY <1>20 DEF Reconcile, Broken, FailsInto, Fault, OperationOpen
  <2>4. OnePort'
    BY <1>20 DEF Reconcile, Broken, FailsInto, Fault, OnePort
  <2>5. LeaseMatchesRow'
    BY <1>20 DEF Reconcile, Broken, FailsInto, Fault, LeaseMatchesRow, CallMatchesRow
  <2>6. OperationOpen'
    BY <1>20 DEF Reconcile, Broken, FailsInto, Fault, OperationOpen
  <2>7. CallMatchesRow'
    BY <1>20 DEF Reconcile, Broken, FailsInto, Fault, CallMatchesRow, OperationOpen,
       NoHiddenLease, LeaseMatchesRow
  <2>8. NoHiddenLease'
    BY <1>20 DEF Reconcile, Broken, FailsInto, Fault, NoHiddenLease, OperationOpen,
       CallMatchesRow, LeaseMatchesRow
  <2>9. RunningRows'
    <3>1. PICK seen \in SUBSET {i \in Instance : status[i] = "running"} :
            /\ status' = [i \in Instance |->
                              IF i \in seen /\ Gone(i) THEN "ended" ELSE status[i]]
            /\ fresh' = [i \in Instance |-> fresh[i] \/ i \in seen]
            /\ pc' = "maintain" => seen = {i \in Instance : status[i] = "running"}
      <4>1. PICK seen \in SUBSET {i \in Instance : status[i] = "running"} :
              /\ status' = [i \in Instance |->
                                IF i \in seen /\ Gone(i) THEN "ended" ELSE status[i]]
              /\ fresh' = [i \in Instance |-> fresh[i] \/ i \in seen]
              /\ \/ seen = {i \in Instance : status[i] = "running"} /\ pc' = "maintain"
                 \/ Broken
        BY ZenonT(30), <1>20 DEF Reconcile, RunningRows, OperationOpen, CallMatchesRow
      <4> QED  BY <4>1 DEF Broken, FailsInto
    <3>2. \A i \in Instance : status'[i] \in {"running",
       "restarting"} => status'[i] = status[i]
      BY <3>1
    <3>3. \A i \in seen : fresh'[i]
      BY <3>1
    <3> QED  BY <1>20, <3>1, <3>2, <3>3 DEF Reconcile, RunningRows
  <2>10. Recovered'
    BY <1>20 DEF Reconcile, Broken, FailsInto, Fault, Recovered, OperationOpen
  <2> QED  BY <2>1, <2>2, <2>3, <2>4, <2>5, <2>6, <2>7, <2>8, <2>9, <2>10
<1>21. ASSUME MaintainLeases PROVE Inv'
  <2>1. TypeOK'
    BY <1>21 DEF MaintainLeases
  <2>2. OnePort'
    BY <1>21 DEF MaintainLeases, OnePort
  <2>3. LeaseMatchesRow'
    BY <1>21 DEF MaintainLeases, Expired, LeaseMatchesRow, NoHiddenLease, CallMatchesRow
  <2>4. OperationOpen' /\ CallMatchesRow'
    BY <1>21 DEF MaintainLeases, OperationOpen, CallMatchesRow
  <2>5. NoHiddenLease'
    BY <1>21 DEF MaintainLeases, Expired, NoHiddenLease, LeaseMatchesRow
  <2>6. RunningRows' /\ Recovered'
    BY <1>21 DEF MaintainLeases, Expired, RunningRows, Recovered
  <2> QED BY <2>1, <2>2, <2>3, <2>4, <2>5, <2>6
<1>22. ASSUME MaintainFails PROVE Inv'
  BY <1>22 DEF MaintainFails, Broken, FailsInto, Fault, OnePort, LeaseMatchesRow,
     OperationOpen, CallMatchesRow,
     NoHiddenLease, RunningRows, Recovered
<1>23. ASSUME CleanupOrphans PROVE Inv'
  BY <1>23 DEF CleanupOrphans, Fault, OnePort, LeaseMatchesRow, OperationOpen,
     CallMatchesRow,
     NoHiddenLease, RunningRows, Recovered
<1>24. ASSUME FirstHeartbeat PROVE Inv'
  BY <1>24 DEF FirstHeartbeat, Beat, Idle, OnePort, LeaseMatchesRow, OperationOpen,
     CallMatchesRow,
     NoHiddenLease, RunningRows, Recovered
<1>25. ASSUME Boot PROVE Inv'
  BY <1>25 DEF Boot, OnePort, LeaseMatchesRow, OperationOpen, CallMatchesRow,
     NoHiddenLease, RunningRows, Recovered
<1>26. ASSUME Tick PROVE Inv'
  BY <1>26 DEF Tick, OnePort, LeaseMatchesRow, OperationOpen, CallMatchesRow,
     NoHiddenLease, RunningRows, Recovered
<1>27. ASSUME Heartbeat PROVE Inv'
  BY <1>27 DEF Heartbeat, Beat, OnePort, LeaseMatchesRow, OperationOpen, CallMatchesRow,
     NoHiddenLease, RunningRows, Recovered
<1>28. ASSUME Crash PROVE Inv'
  BY <1>28 DEF Crash, Fault, OnePort, LeaseMatchesRow, OperationOpen, CallMatchesRow,
     NoHiddenLease, RunningRows, Recovered
<1>29. ASSUME NEW i \in Instance, ContainerLost(i) PROVE Inv'
  <2>1. RowTypeOK'
    BY <1>29 DEF ContainerLost, Fault
  <2>2. LeaseTypeOK'
    <3>1. [container[i] EXCEPT !.up = FALSE] \in Container
      BY UpType
    <3>2. CASE container' = [container EXCEPT ![i] = NoContainer]
      BY <1>29, <3>2 DEF ContainerLost, CallMatchesRow
    <3>3. CASE container' = [container EXCEPT ![i].up = FALSE]
      BY <1>29, <3>1, <3>3 DEF ContainerLost, CallMatchesRow
    <3> QED  BY <1>29, <3>2, <3>3 DEF ContainerLost
  <2>3. WorkerTypeOK'
    BY <1>29 DEF ContainerLost, Fault, OperationOpen
  <2>4. OnePort'
    BY <1>29 DEF ContainerLost, Fault, OnePort
  <2>5. LeaseMatchesRow'
    BY <1>29 DEF ContainerLost, Fault, LeaseMatchesRow, CallMatchesRow
  <2>6. OperationOpen'
    BY <1>29 DEF ContainerLost, Fault, OperationOpen
  <2>7. CallMatchesRow'
    BY <1>29 DEF ContainerLost, Fault, CallMatchesRow, OperationOpen, NoHiddenLease,
       LeaseMatchesRow
  <2>8. NoHiddenLease'
    BY <1>29 DEF ContainerLost, Fault, NoHiddenLease, OperationOpen, CallMatchesRow,
       LeaseMatchesRow
  <2>9. RunningRows'
    BY <1>29 DEF ContainerLost, Fault, RunningRows, OperationOpen, CallMatchesRow
  <2>10. Recovered'
    BY <1>29 DEF ContainerLost, Fault, Recovered, OperationOpen
  <2> QED  BY <2>1, <2>2, <2>3, <2>4, <2>5, <2>6, <2>7, <2>8, <2>9, <2>10
<1>30. ASSUME NEW i \in Instance, LockRunsOut(i) PROVE Inv'
  BY <1>30 DEF LockRunsOut, OnePort, LeaseMatchesRow, OperationOpen, CallMatchesRow,
     NoHiddenLease, RunningRows, Recovered
<1>31. ASSUME NEW i \in Instance, BeatRunsOut(i) PROVE Inv'
  BY <1>31 DEF BeatRunsOut, OnePort, LeaseMatchesRow, OperationOpen, CallMatchesRow,
     NoHiddenLease, RunningRows, Recovered
<1>32. ASSUME NEW i \in Instance, ReservationRunsOut(i) PROVE Inv'
  BY <1>32 DEF ReservationRunsOut, OnePort, LeaseMatchesRow, OperationOpen, CallMatchesRow,
     NoHiddenLease, RunningRows, Recovered
<1>33. ASSUME NEW p \in Port, QuarantineEnds(p) PROVE Inv'
  BY <1>33 DEF QuarantineEnds, OnePort, LeaseMatchesRow, OperationOpen, CallMatchesRow,
     NoHiddenLease, RunningRows, Recovered
<1>34. CASE UNCHANGED vars
  BY <1>34 DEF OnePort, LeaseMatchesRow, OperationOpen, CallMatchesRow,
     NoHiddenLease, RunningRows, Recovered
<1>35. CASE Users
  <2>1. PICK i \in Instance : Start(i) \/ \E s \in OpStatus : Request(i, s)
    BY <1>35 DEF Users
  <2> HIDE DEF Inv
  <2> QED  BY <1>1, <1>2, <2>1
<1>36. CASE Handle
  BY <1>4, <1>5, <1>6, <1>7, <1>8, <1>9, <1>10, <1>11, <1>12, <1>13, <1>14, <1>15, <1>16,
     <1>17,
     <1>18, <1>19, <1>36 DEF Handle
<1>37. CASE Pass
  BY <1>20, <1>21, <1>22, <1>23, <1>24, <1>37 DEF Pass
<1>38. CASE Time
  BY <1>30, <1>31, <1>32, <1>33, <1>38 DEF Time
<1> HIDE DEF Inv
<1> QED  BY <1>3, <1>25, <1>26, <1>27, <1>28, <1>29, <1>34, <1>35, <1>36, <1>37, <1>38 DEF Next

THEOREM Invariance == Spec => []Inv
BY InvInit, InvStep, PTL DEF Spec

-----------------------------------------------------------------------------
(* What follows.                                                           *)

\* Every variable has its type.
THEOREM TypeCorrect == Spec => []TypeOK
BY Invariance, PTL DEF Inv

\* The port in the row of an instance is the port of its live lease, whichever of
\* the statements that change them are still guarded by the operation.
THEOREM RowShowsLease == Spec => []LeaseMatchesRow
BY Invariance, PTL DEF Inv

\* PORT_EXHAUSTED is reported only when no port is held for an instance that ended.
THEOREM ExhaustionIsReal == Spec => []NoFalseExhaustion
<1>1. Inv => NoFalseExhaustion
  <2> SUFFICES ASSUME Inv, pc = "again", FreePorts = {}, NEW p \in Port,
     p \notin quarantined
               PROVE  \E i \in Instance : lease[i].port = p /\ status[i] # "ended"
    BY DEF NoFalseExhaustion
  <2>1. PICK i \in Instance : lease[i].port = p
    BY DEF FreePorts, Leased
  <2>2. lease[i] # NoLease
    BY <2>1, PortsAssumption DEF NoLease, NoPort
  <2>3. pass = "recovery" => status[i] # "ended"
    BY <2>2 DEF Inv, Recovered
  <2>4. pass = "recovery"
    BY DEF Inv, Recovered
  <2> QED  BY <2>1, <2>3, <2>4
<1> QED  BY <1>1, Invariance, PTL

\* Maintenance spares every running instance whose container is up.
THEOREM VerifiedAreKept == Spec => VerifiedKept
<1> DEFINE Kept == pc = "maintain" =>
                     \A i \in Instance : status[i] = "running" /\ ~Gone(i) =>
                        lease'[i].port = lease[i].port /\ hostPort'[i] = hostPort[i]
<1>1. Inv /\ [Next]_vars => [Kept]_vars
  <2> SUFFICES ASSUME Inv, Next, pc = "maintain", NEW i \in Instance, status[i] = "running"
               PROVE  lease'[i].port = lease[i].port /\ hostPort'[i] = hostPort[i]
    OBVIOUS
  <2> USE DEF rowVars, leaseVars, procVars
  <2>1. lease[i].st \notin {"reserved", "overdue"} /\ fresh[i]
    BY DEF Inv, RunningRows
  <2>2. CASE MaintainLeases
    BY <2>1, <2>2 DEF MaintainLeases, Expired
  <2>3. ASSUME NEW j \in Instance, ReservationRunsOut(j)
        PROVE  lease'[i].port = lease[i].port /\ hostPort'[i] = hostPort[i]
    BY <2>3 DEF ReservationRunsOut, Inv, TypeOK, LeaseTypeOK
  <2>4. CASE Users
    BY <2>4 DEF Users, Start, Request
  <2>5. CASE Handle
    BY <2>5 DEF Handle, Allocate, AllocateFrom, AllocateFails, Recover, Exhausted,
       StartContainer,
       PortConflict, RestartContainer, StopContainer, DockerFails, Quarantine,
       QuarantineFails,
       Commit, CommitFails, Retry, GiveUp, RecordFails
  <2>6. CASE Pass
    BY <2>2, <2>6 DEF Pass, Reconcile, MaintainFails, CleanupOrphans, FirstHeartbeat
  <2>7. CASE Time
    BY <2>3, <2>7 DEF Time, LockRunsOut, BeatRunsOut, QuarantineEnds
  <2> QED  BY <2>4, <2>5, <2>6, <2>7
      DEF Next, Boot, Tick, Heartbeat, Crash, Pick, ContainerLost
<1> QED  BY <1>1, Invariance, PTL DEF Spec, VerifiedKept

-----------------------------------------------------------------------------
(* The lease table implements PortOwner.                                   *)

\* A port is owned by the instance that has the lease, in this state and the next.
LEMMA LeaseGivesOwner ==
  ASSUME NEW leases, NEW owners, NEW p \in Port,
         \A i, j \in Instance : leases[i] # NoLease /\ leases[i].port = leases[j].port => i = j,
         owners = [q \in Port |-> IF \E i \in Instance : leases[i].port = q
                                  THEN CHOOSE i \in Instance : leases[i].port = q ELSE Nobody]
  PROVE  /\ \A i \in Instance : leases[i].port = p => owners[p] = i
         /\ owners[p] # Nobody => owners[p] \in Instance /\ leases[owners[p]].port = p
<1>1. ASSUME NEW i \in Instance, leases[i].port = p PROVE owners[p] = i
  <2>1. leases[i] # NoLease
    BY <1>1, PortsAssumption DEF NoLease, NoPort
  <2>2. \A j \in Instance : leases[j].port = p => j = i
    BY <1>1, <2>1
  <2> QED  BY <1>1, <2>2
<1>2. (\A i \in Instance : leases[i].port # p) => owners[p] = Nobody
  OBVIOUS
<1> QED  BY <1>1, <1>2

LEMMA OwnerHasLease ==
  ASSUME Inv, Inv', NEW p \in Port
  PROVE  /\ \A i \in Instance : lease[i].port = p => owner[p] = i
         /\ owner[p] # Nobody => owner[p] \in Instance /\ lease[owner[p]].port = p
         /\ \A i \in Instance : lease'[i].port = p => owner'[p] = i
         /\ owner'[p] # Nobody => owner'[p] \in Instance /\ lease'[owner'[p]].port = p
<1>1. owner = [q \in Port |-> IF \E i \in Instance : lease[i].port = q
                              THEN CHOOSE i \in Instance : lease[i].port = q ELSE Nobody]
  BY DEF owner, Leased
<1>2. owner' = [q \in Port |-> IF \E i \in Instance : lease'[i].port = q
                               THEN CHOOSE i \in Instance : lease'[i].port = q ELSE Nobody]
  BY DEF owner, Leased
<1>3. OnePort /\ OnePort'
  BY DEF Inv
<1> QED  BY <1>1, <1>2, <1>3, LeaseGivesOwner DEF OnePort

\* Leases that are only freed, with rows that only end, are a Release.
LEMMA FreeingReleases ==
  ASSUME Inv, Inv', active' \subseteq active,
         \A i \in Instance : lease'[i].port \in {lease[i].port, NoPort}
  PROVE  PO!Next
<1> DEFINE free == {p \in Port : owner'[p] = Nobody}
           gone == active \ active'
<1>1. ASSUME NEW p \in Port, owner'[p] # Nobody PROVE owner'[p] = owner[p]
  <2>1. PICK i \in Instance : lease'[i].port = p /\ owner'[p] = i
    BY <1>1, OwnerHasLease
  <2>2. lease[i].port = p
    BY <2>1, PortsAssumption DEF NoPort
  <2> QED  BY <2>1, <2>2, OwnerHasLease
<1>2. owner' = [p \in Port |-> IF p \in free THEN Nobody ELSE owner[p]]
  <2>1. owner' = [p \in Port |-> owner'[p]]
    BY DEF owner
  <2> QED  BY <1>1, <2>1
<1>3. active' = active \ gone /\ gone \in SUBSET Instance /\ free \in SUBSET Port
  BY DEF active
<1> HIDE DEF free, gone
<1>4. PO!Release(gone, free)
  BY <1>2, <1>3 DEF PO!Release
<1> QED  BY <1>3, <1>4 DEF PO!Next

\* Start begins an instance that owns nothing.
LEMMA StartBegins == ASSUME Inv, Inv', NEW i \in Instance, Start(i) PROVE PO!Begin(i)
<1>1. UNCHANGED owner
  BY DEF Start, leaseVars, owner, Leased
<1>2. active' = active \cup {i} /\ i \notin active
  BY DEF Start, active, Inv, TypeOK, RowTypeOK
<1>3. PO!Owns(i) = {}
  <2> SUFFICES ASSUME NEW p \in Port, owner[p] = i PROVE FALSE
    BY DEF PO!Owns
  <2>1. lease[i].port = p
    BY OwnerHasLease, PortsAssumption
  <2> QED  BY <2>1, PortsAssumption DEF Start, NoLease, NoPort
<1> QED  BY <1>1, <1>2, <1>3 DEF PO!Begin

\* Allocate takes a port that nobody owns for an instance that owns none.
LEMMA AllocateTakes ==
  ASSUME Inv, Inv', Allocate
  PROVE  \E p \in Port : PO!Take(cur.inst, p)
<1> DEFINE port == Lowest(FreePorts)
<1>1. cur.inst \in Instance /\ status[cur.inst] # "ended"
  BY DEF Allocate, AllocateFrom, Inv, TypeOK, WorkerTypeOK, Handling, Call, OperationOpen,
     OpStatus
<1>2. port \in FreePorts /\ port \in Port
  <2>1. FreePorts # {} /\ FreePorts \subseteq Port
    BY DEF Allocate, AllocateFrom, FreePorts
  <2> QED  BY <2>1, LowestIsFree, PortsAssumption
<1> HIDE DEF port
<1>3. lease' = [lease EXCEPT ![cur.inst] = [port |-> port, st |-> "reserved"]]
  BY DEF Allocate, AllocateFrom, port
<1>4. owner[port] = Nobody
  BY <1>2, OwnerHasLease DEF FreePorts, Leased
<1>5. PO!Owns(cur.inst) = {}
  BY OwnerHasLease, <1>1, PortsAssumption DEF PO!Owns, Allocate, AllocateFrom, NoLease,
     NoPort
<1>6. ASSUME NEW p \in Port PROVE owner'[p] = IF p = port THEN cur.inst ELSE owner[p]
  <2>0. lease \in [Instance -> Lease \cup {NoLease}]
    BY DEF Inv, TypeOK, LeaseTypeOK
  <2>1. CASE p = port
    BY <1>1, <1>3, <2>0, <2>1, OwnerHasLease
  <2>2. CASE p # port /\ owner[p] # Nobody
    <3>1. owner[p] \in Instance /\ lease[owner[p]].port = p /\ owner[p] # cur.inst
      BY <1>5, <2>2, OwnerHasLease DEF PO!Owns
    <3> QED  BY <1>3, <2>0, <2>2, <3>1, OwnerHasLease
  <2>3. CASE p # port /\ owner[p] = Nobody
    <3>1. \A i \in Instance : lease'[i].port # p
      BY <1>1, <1>3, <2>0, <2>3, OwnerHasLease, PortsAssumption
    <3> QED  BY <2>3, <3>1, OwnerHasLease
  <2> QED  BY <2>1, <2>2, <2>3
<1>7. owner' = [owner EXCEPT ![port] = cur.inst]
  <2>1. owner' = [p \in Port |-> owner'[p]] /\ owner = [p \in Port |-> owner[p]]
    BY DEF owner
  <2> QED  BY <1>6, <2>1
<1>8. active' = active
  BY DEF Allocate, AllocateFrom, active
<1> QED  BY <1>1, <1>2, <1>4, <1>5, <1>7, <1>8 DEF PO!Take, active

\* A lease that changes its state names the same port.
LEMMA StateKeepsPort ==
  ASSUME LeaseTypeOK, NEW i \in Instance, NEW s, lease' = [lease EXCEPT ![i].st = s]
  PROVE  \A j \in Instance : lease'[j].port = lease[j].port
<1>1. [lease[i] EXCEPT !.st = s].port = lease[i].port
  BY DEF LeaseTypeOK, Lease, NoLease
<1>2. \A j \in Instance : lease'[j] = IF j = i THEN [lease[i] EXCEPT !.st = s] ELSE lease[j]
  BY DEF LeaseTypeOK
<1> QED  BY <1>1, <1>2

\* Every other step leaves the leases and the rows alone or frees some of them.
LEMMA OthersFree ==
  ASSUME Inv, [Next]_vars, ~Allocate, \A i \in Instance : ~Start(i)
  PROVE  /\ active' \subseteq active
         /\ \A i \in Instance : lease'[i].port \in {lease[i].port, NoPort}
<1> USE DEF rowVars, leaseVars, procVars, DockerOnly, active, NoLease
<1>t. lease \in [Instance -> Lease \cup {NoLease}] /\ status \in [Instance -> RowStatus]
  BY DEF Inv, TypeOK, LeaseTypeOK, RowTypeOK
<1>c. pc \in Handling => cur.inst \in Instance
  BY DEF Inv, TypeOK, WorkerTypeOK, Call
<1>o. cur.inst # Nobody => status[cur.inst] # "ended"
  BY DEF Inv, OperationOpen, OpStatus
<1>1. CASE Users
  BY <1>1, <1>t DEF Users, Request, OpStatus
<1>2. CASE Handle
  <2>1. CASE Quarantine
    BY <2>1, <1>t, <1>c DEF Quarantine
  <2>2. CASE Commit
    <3>1. cur.inst \in Instance /\ status[cur.inst] # "ended"
      BY <2>2, <1>c, <1>o, PortsAssumption DEF Commit, Handling
    <3>2. CASE cur.kind = "stop"
      BY <2>2, <1>t, <3>1, <3>2 DEF Commit, End
    <3>3. CASE cur.kind # "stop"
      <4>1. active' \subseteq active
        BY <2>2, <1>t, <3>1, <3>3 DEF Commit
      <4>2. lease' \in {lease, [lease EXCEPT ![cur.inst].st = "active"]}
        BY <2>2, <3>3 DEF Commit
      <4>3. LeaseTypeOK
        BY DEF Inv, TypeOK
      <4> QED  BY <3>1, <4>1, <4>2, <4>3, StateKeepsPort
    <3> QED  BY <3>2, <3>3
  <2>3. CASE GiveUp
    BY <2>3, <1>t, <1>c DEF GiveUp, End
  <2> QED  BY <1>2, <2>1, <2>2, <2>3
      DEF Handle, AllocateFails, Recover, Exhausted, StartContainer, PortConflict,
       RestartContainer, StopContainer, DockerFails, QuarantineFails, CommitFails, Retry,
       RecordFails
<1>3. CASE Pass
  BY <1>3, <1>t DEF Pass, Reconcile, MaintainLeases, MaintainFails, CleanupOrphans,
     FirstHeartbeat
<1>4. CASE Time
  <2>1. ASSUME NEW i \in Instance, ReservationRunsOut(i)
        PROVE  UNCHANGED status /\ \A j \in Instance : lease'[j].port = lease[j].port
    BY <2>1, StateKeepsPort DEF ReservationRunsOut, Inv, TypeOK
  <2> QED  BY <1>4, <1>t, <2>1 DEF Time, LockRunsOut, BeatRunsOut, QuarantineEnds
<1>5. CASE UNCHANGED vars
  BY <1>5 DEF vars
<1> QED  BY <1>1, <1>2, <1>3, <1>4, <1>5
    DEF Next, Boot, Tick, Heartbeat, Crash, Pick, ContainerLost

LEMMA RefinedStep == Inv /\ Inv' /\ [Next]_vars => [PO!Next]_(PO!vars)
<1> SUFFICES ASSUME Inv, Inv', [Next]_vars PROVE PO!Next
  OBVIOUS
<1>1. ASSUME NEW i \in Instance, Start(i) PROVE PO!Next
  BY <1>1, StartBegins DEF PO!Next
<1>2. CASE Allocate
  <2>1. cur.inst \in Instance
    BY <1>2 DEF Inv, TypeOK, WorkerTypeOK, Call, Handling, Allocate, AllocateFrom
  <2> QED  BY <1>2, <2>1, AllocateTakes DEF PO!Next
<1> QED  BY <1>1, <1>2, OthersFree, FreeingReleases

LEMMA RefinedInit == Init => PO!Init
<1> SUFFICES ASSUME Init PROVE PO!Init
  OBVIOUS
<1>1. PICK bound \in [Instance -> Port \cup {NoPort}] :
        /\ \A i, j \in Instance : bound[i] = bound[j] => i = j \/ bound[i] = NoPort
        /\ status = [i \in Instance |-> IF bound[i] = NoPort THEN "ended" ELSE "running"]
        /\ lease = [i \in Instance |-> IF bound[i] = NoPort THEN NoLease
                                       ELSE [port |-> bound[i], st |-> "active"]]
  BY DEF Init, InitWith
<1>2. ASSUME NEW p \in Port, owner[p] # Nobody
      PROVE  owner[p] \in active /\ lease[owner[p]].port = p /\ bound[owner[p]] = p
  <2>1. owner[p] \in Instance /\ lease[owner[p]].port = p
    BY <1>2 DEF owner, Leased
  <2>2. bound[owner[p]] = p
    BY <1>1, <2>1, PortsAssumption DEF NoLease, NoPort
  <2> QED  BY <1>1, <2>1, <2>2, PortsAssumption DEF active, NoPort
<1>3. owner \in [Port -> active \cup {Nobody}]
  <2>1. owner = [p \in Port |-> owner[p]]
    BY DEF owner
  <2> QED  BY <1>2, <2>1
<1>4. active \in SUBSET Instance
  BY DEF active
<1> QED  BY <1>2, <1>3, <1>4 DEF PO!Init

\* The lease table implements the safety part of PortOwner: whatever the worker, its
\* crashes, Docker and the clocks do, a port has one owner, is given only to an
\* active instance that has none, and changes hands by being free in between.
THEOREM OwnershipIsSafe == Spec => PO!Safe
BY RefinedInit, RefinedStep, Invariance, PTL DEF Spec, PO!Safe
=============================================================================
