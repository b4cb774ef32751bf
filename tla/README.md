# asamu: a TLA+ model of the platform

This directory holds TLA+ modules for the asamu CTF platform (`src/asamu-vm-0.3.1`, Go API and
runtime worker), the TLC configurations that check them on small instances, and proofs, checked by
TLAPS, of what they claim for any number of workers, users or transactions. `PROJECT.json` maps
every definition to the lines it models and lists the runs, the mutants, the findings, the hazards
and the theorems.

Paths below are relative to `src/asamu-vm-0.3.1`; `worker.go` is
`apps/worker/internal/worker/worker.go`, `docker.go` is `apps/worker/internal/runtime/docker.go`,
and module paths such as `instance/service.go` are under `apps/api/internal/modules/`.

Contents: 1 inventory, 2 modules, 3 RuntimeJobs, 4 PortLeases, 5 Scoring, 6 accounts (Sessions,
EmailFlows, Admission), 7 contests (Teams, Content, Editions), 8 proofs, 9 findings, 10 what is not
modelled.

## 1. Inventory

The API is one binary behind Nginx, stateless between requests, and may run more than once. Workers
share the code of the instance service with it. All state that matters is in PostgreSQL; Redis has
the job stream, rate limits and caches; Docker hosts have the containers.

| Component | State | Operations | How it interacts |
|---|---|---|---|
| Instance service (`instance/service.go`, `state.go`) | `challenge_instances`, `instance_runtime_jobs`, `runtime_operations`, `outbox_events`, `runtime_usage_counters` | Start, Restart, Stop, Reset, Extend, AdminTransition, ExpireInstance, AdminSetWorkerDrain | writes row, job and outbox event in one transaction; called by users, administrators and the worker's expiry |
| Job stream (`platform/queue/stream.go`) | Redis stream, consumer group, pending list, dead letters | Publish, Receive, ClaimStale, Ack, Retry, Requeue, DeadLetter | between outbox and workers, at least once |
| Runtime worker (`worker.go`) | the message in process; job lock `locked_at`; ports and leases | Run, process, handle, PublishOutbox, ExpireDue, Reconcile, CleanupOrphans, MaintainLeases, Heartbeat | reads and writes the instance rows, drives Docker |
| Docker runtime (`docker.go`) | containers and networks of one host | Start, Restart, Stop, Reset, Inspect, CleanupOrphans | called by one worker |
| Submission (`submission/service.go`) | `submissions`, `solve_records`, `team_competition_solve_claims`, `blood_records`, `score_events` | Submit | SHARE lock on the competition, advisory locks per owner and per challenge |
| Hints (`hint/service.go`) | `hint_unlocks`, `score_events` | Unlock | the same SHARE lock |
| Scoreboard (`scoreboard/`) | `score_events`, `teams.score`, `challenges.solve_count`, `scoreboard_snapshots` | VoidEvent, Adjust, RebuildDerived, Competition, Global | read by the public, by settlements and rewards |
| Competition (`competition/service.go`) | `competitions`, participants, roster, content snapshots, settlements | Create, Update, Register, SetStatus | UPDATE lock on the competition excludes scoring |
| Play window (`platform/competitionscope`) | none | ActiveChallenge, RegisteredTeam | used by submissions, hints and instances |
| Authentication (`auth/`) | users, refresh token families, token versions, e-mail tokens | Register, Login, Refresh, Logout, VerifyEmail, ResetPassword, ConfirmEmailChange, ChangePassword | the middleware of every other component |
| Teams (`team/`) | teams, members, join requests, invitations | Create, RequestJoin, ReviewJoin, Invite, AcceptInvitation, TransferCaptain, RemoveMember, Leave | rosters are read by Register |
| Challenges (`challenge/`), files (`challengefile/`), learning paths (`learning/`) | drafts, immutable revisions, publication, attached files, managed learning steps | Create, Update, Publish, Archive; Upload, Delete; Save, SyncPublishedChallenge, RemoveManagedChallenge | revisions are pinned by competitions, instances and submissions |
| Writeups (`writeup/`) | writeups, reviews, likes | Create, Update, SubmitReview, Review, ToggleLike | |
| Administration (`admin/`) | account status, roles, cheat cases | SetUserStatus, AssignRole, ResolveCheatCase | token versions of the sessions |
| Mail outbox (`platform/mail`) | `email_outbox` with leases | dispatchOne, fail | filled by authentication |
| Progression (`progression/`) | experience, honours, reward records | AddExperience, DistributeCompetitionRewards | reads settlements |
| Platform configuration, appearance, assets | versions with one published | SaveDraft, Publish, Rollback, Archive | |
| Registry credentials | encrypted pull credentials | Create, Update, Lease | leased by workers |
| Notifications, organizations, users, audit | single rows | single statements | |
| Web front end, deployment, seed, bootstrap, commands, schema | | | clients, wiring and content |

What is hard here: long Docker calls between two transactions; at-least-once delivery with two
independent ways of redelivery (outbox and pending list); workers that die; guards that are read
without a lock; READ COMMITTED statements that wait for a row and then write what they computed
before; dates that are drawn before what they date becomes visible; objects in a store that no
transaction spans. `hazards` in `PROJECT.json` lists each place with its line and the properties that
cover it. One has none: ExpireInstance does not look at `expires_at` again, so an instance extended in
between is stopped (expiry is a boolean here, and an extension is what it forbids).

What makes each part correct:

* instances: one operation at a time, on one worker; a stop is never undone; what was recorded stays;
  every operation ends; no container outlives its instance; capacity and quota hold;
* ports: a port is leased once, shown to the users of the instance that leases it, and comes back;
* scoring: one award per owner; price and blood rank follow the dates; the frozen and the final
  standings agree with the ledger for good; one correction per event; hidden scores stay hidden;
* competitions: rosters are disjoint and fit, what is offered is published, the pool of a running one
  is its snapshot;
* sessions and mail: one winner per refresh, a replay revokes the family, a changed account loses
  access, a link works once and proves its address;
* teams: no more members than the limit, the captain's role is the captain's;
* versions and files: what is shown exists.

## 2. Modules

| Module | What it is | Extends | Checked by |
|---|---|---|---|
| `InstanceState` | statuses, commands and job kinds of an instance | | all runs of instances |
| `JobStream` | the Redis stream with its consumer group | | `race`, `duplicates`, `docker`, `live` |
| `RuntimeJobs` | instances, jobs, outbox, workers, Docker | both | the same, and `stuck` |
| `PortLeases` | leases of host ports by one worker | | `ports` |
| `InstanceLife` | abstract: an instance as its user sees it | | refined by `RuntimeJobs` |
| `PortOwner` | abstract: a port has one owner | | refined by `PortLeases` |
| `Scoring` | ledger, freeze, settlement, public board, rebuild | | `ledger`, `rebuild` |
| `Sessions` | refresh tokens, token versions, roles | | `accounts`, `lastadmin` |
| `EmailFlows` | links that are mailed, and the outbox of mails | | `accounts` |
| `Admission` | idempotency keys, quota, locks of Start and transition | `InstanceState` | `accounts` |
| `Teams` | members, requests, invitations, rosters | | `contests` |
| `Content` | challenges, revisions, files, pools, paths | | `contests`, `pinned` |
| `Editions` | assets, slots, settings, writeups | | `contests` |

`MC*` modules give values to the constants; `*_proofs` modules hold the theorems and extend the module
they are about (`Content_proofs` also `Editions`). `MCAccounts` and `MCContests` put three modules that
share no variable into one run each: a step moves one of them, and a variable `focus`, chosen in the
first state, says which part of which; so every part is explored on its own and the states of the parts
are added, not multiplied. This loses nothing: what a module promises depends on its own variables.

Left for later: `ScoreRules` (DynamicScore and BloodBonus against reference definitions) and an abstract
specification of the scoreboard as a function of the ledger.

## 3. RuntimeJobs

### State and actions

| Model | Code |
|---|---|
| `status, opOf, workerOf, sv, rid, gen, due` | columns of `challenge_instances`: status, operation_id, worker_id, status_version, runtime_id, the generation of the flag, expires_at in the past |
| `jobInst, jobKind, jobStatus, lock, opStatus` | `instance_runtime_jobs` (with `locked_at` as none, fresh, or 90 s old) and `runtime_operations`; they share an id |
| `outbox` | unpublished `outbox_events` |
| `stream, pending, hand` | `JobStream`: the stream, the pending list, the message a worker processes |
| `pc, row, result, todo` | the worker: where it is in `Run`, `process` and `handle`, the row it read, the container id a call returned, the instances it still has to expire |
| `container` | one container per instance and host, with the job that created it and its flag generation |
| `usage` | `runtime_usage_counters.active_instances` |

A transaction that locks the rows it changes is one action (`Start`, `Request`, `ExpireInstance`,
`LockJob`, `Claim`, `Commit`, `RecordFailure` ...). `handle` is not one action: it reads the instance
without a lock (`ReadInstance`), claims it by version (`Claim`), makes its Docker calls
(`ExecStop`, `ExecRestart`, `ReuseContainer`, `CreateContainer`, `StartContainer`), and commits
(`Commit`); everything else may happen in between. `Crash` is possible at every control point;
`Fails` has the errors of Docker, Redis and the database at the places where the code handles them. One of
them has an outcome of its own: if the instance of a locked job cannot be read (`ReadFails`,
`worker.go:304`), job and operation are closed as `INSTANCE_MISSING` without a row to change
(`RecordMissing`), and the instance goes on waiting for them.

Abstractions: ids of jobs, operations and containers are one number; a container id is that of the job
that created it; names, ports (see `PortLeases`), networks, limits and images are left out; all
instances have one owner (quotas are `Admission`); every worker is online and accepts work.

### Runs

| Run | Instance | Shows |
|---|---|---|
| `race` | 2 workers, 1 instance, 2 jobs, a crash | `InstanceMutex`, `OneHost`, `QueuedOnItsWay`, `LifecycleSafe` |
| `duplicates` | 2 workers, 1 instance, 2 jobs, a database fault | `ValidRuntimeState`, `JobMutex`, `OutcomeFinal` when the outbox publishes twice |
| `docker` | 1 worker with room for one, 2 instances of one challenge and 1 of another, 3 jobs, a fault and a database fault | `TypeOK`, `FlagCurrent`, `CapacityRespected` |
| `live` | 1 worker, 1 instance, 3 jobs, a fault, a database fault, fairness | `Lifecycle`, `ContainersReclaimed` |
| `stuck` | 1 worker, 1 instance, 2 jobs, a crash, fairness | violated: see Findings |

Bounds. Two workers are the least that can race, and the proofs remove the bound for the properties
named there. Two jobs are a start and the operation that overtakes it; three add a reset or restart of
what runs and the restart of an ended instance. `Copy` numbers equal messages: `race` has two of a
message at once (with a third it has four times the states and no new kind of step), in the other runs
they are never exhausted; `MaxAttempts = 1` gives each job one retry, except in
`duplicates`, where a job fails at once and its second copy may still come. One crash, fault or database
fault reaches each handler once; `docker` combines two, since some handlers (`RecordFails`) handle a
failure that follows another.

`CHECK_DEADLOCK FALSE`: requests are bounded by `Job`, so when every job is done and the bounds are
used up a state may have no successor, and rightly so. That nothing waits for ever is checked as
liveness in `live`.

Fairness (`FairSpec`), used by `live` and `stuck` only: weak fairness for a worker's own steps, for it is
a loop that never waits for another worker; strong fairness for the turns of the select in `Run`
(outbox ticker, maintenance ticker, receive, reclaim), each of which is enabled again and again; weak
fairness of `Boot`, since Compose restarts the container (`restart: unless-stopped`); and time passes
(`LockExpires`). Nothing is assumed of users, crashes, faults or expiry. The lock of a worker that is
alive does not expire while it renews it (`Held`).

### What it amounts to for the user

`InstanceLife` has neither jobs nor messages, workers or containers: an instance has a phase and waits for
one operation at most, the last that was asked for. That operation takes effect in the step that gives it its
outcome: it succeeds, and the instance runs or has ended, or it fails, and the instance has ended. Or it is
lost (`Lose`): it has failed, the instance could not be read, and goes on waiting for it until something else
is asked for. An operation that was overtaken is only closed, nothing overtakes a stop, and an instance that runs may be found
dead. `RuntimeJobs` implements it (`Lifecycle`; its safety part `LifecycleSafe`) with `phase` from the status of
the row, `waits` its `operation_id` and `outcome` the status of the operation. That every operation ends and no
instance is in operation for good (`Progress`) is claimed of behaviours in which the database always answers:
after `INSTANCE_MISSING` the code has nothing that ends the wait. This says that at-least-once
delivery does not show: a job that is delivered twice, whose worker dies, or that was overtaken, has its effect
once or not at all. `StopSticks` (an instance that is being stopped never runs again) and `InstanceSettles`
(no instance stays in operation for good) are what two readers of the code would ask for first, and follow
from it; the first is a theorem of its own, the second is what `stuck` shows violated after a crash.

### Where two of the properties end

`OneHost` and `QueuedOnItsWay` hold in `race`, whose bounds have crashes and no faults, and the theorems
say so for all constants as long as no fault has happened (`Calm`). With faults TLC finds:

* `QueuedOnItsWay`, two faults and a crash: a worker that refuses a start requeues it and fails to
  acknowledge; while its message can still be reclaimed another worker takes it, its copy is skipped
  because the job is locked, the start fails and is recorded for a retry, and the worker dies: the job is
  queued and no message of it is left. One database fault is enough as well: `handle` acknowledges a
  message whose first transaction could not begin.
* `OneHost`, two faults and a crash: a first start whose container was created fails and is retried by
  another worker that had passed `canProcess` before; the container of the first host stays there until
  the next orphan sweep of that worker.

Both are repaired by nothing but the sweep or an operator, and neither breaks what is proved without
that condition: `FlagCurrent`, `CapacityRespected`, `InstanceMutex`, and `NewOnItsWay`, the part of
`QueuedOnItsWay` that is about jobs nobody has taken on yet. With two workers `Lifecycle` needs that
a message pinned to one worker is eventually received by it, which requeueing at the end of the stream
does not guarantee; it is checked with one.

## 4. PortLeases

One worker, its lease table (`runtime_port_leases`), the `host_port` column, the containers that listen
and the passes that maintain leases. Moments are booleans: a heartbeat younger than three minutes, a
reservation older than five, a conflict younger than five.

| Actions | Code |
|---|---|
| `Start`, `Request`, `TakeOver`, `Pick` | Start, transition, ExpireDue: a new operation takes the row over, the call that serves the last one finds that it lost it; the worker takes a job on |
| `Allocate`, `AllocateFails`, `Recover`, `Exhausted` | allocatePort: one try, recovery of the pool, a second try, PORT_EXHAUSTED |
| `StartContainer`, `RestartContainer`, `StopContainer`, `PortConflict`, `DockerFails`, `Quarantine`, `QuarantineFails` | the Docker calls, and the host port that somebody else listens on |
| `Commit`, `CommitFails`, `Retry`, `GiveUp`, `RecordFails` | activation of the lease with the outcome of the operation; its release when the operation failed |
| `Boot`, `Tick`, `Reconcile`, `MaintainLeases`, `MaintainFails`, `CleanupOrphans`, `FirstHeartbeat`, `Heartbeat` | the passes over rows, leases and containers, at boot, by ticker and when ports run out |
| `Crash`, `ContainerLost`, `LockRunsOut`, `BeatRunsOut`, `ReservationRunsOut`, `QuarantineEnds` | what happens to the worker and its containers, and time |

Run `ports`: two instances (one running from the start, of which everything is requested), two ports, a
fault. It checks `LeaseMatchesRow`, `NoFalseExhaustion`, `VerifiedKept`, the refinement `Ownership`
(`PortOwner` with its fairness: the port of an instance that ended is freed) and `LostOperationFrees`.
Two ports are the least where one can be free while the other is asked for, or both be taken; quarantine
and exhaustion need both. Fairness: the worker's own steps and its tickers, and that clocks run
(`BeatRunsOut`, `ReservationRunsOut`); nothing is assumed of requests or faults.

The refinement maps `owner` to the live lease of a port and `active` to the rows that have not ended.

## 5. Scoring

### State and actions

One running competition. `events` is `score_events` with the solve and blood records of the solves. An
event has its sign and counts for one point: a solve +1, a hint -1, an adjustment either, a correction the
opposite of what it corrects. A score is the sum of its events and a standing the set of events it shows, so
that "which events" is checked and the amounts are not. `status`, `freezeAt`, `ended`
are the competition and its times; `cutoff`, `freezeRows`, `finalRows` the two snapshots; `pc`, `req`,
`stamp`, `seen` the open transactions; `asks` public readers; `rebuild` RebuildDerived with the events
its statements read; `missed` (history) the events that the last rebuild of a score had not read when it
wrote it.

| Actions | Code |
|---|---|
| `Begin`, `Enter`, `LockOwner`, `LockScore`, `LockRow`, `Award`, `CommitDuplicate` | Submit: the check without a lock, FOR SHARE and the check again, solve lock, score lock and `scoredAt`, the row of the challenge and what is read under the locks, commit |
| `Begin`, `Enter`, `LockOwner`, `Stamp`, `Award` | Unlock of a hint |
| `Begin`, `Enter`, `Stamp`, `Award` | Adjust |
| `Begin`, `LockEvent`, `Enter`, `Stamp`, `Award` | VoidEvent |
| `Fail` | any refusal or rollback, a deadlock victim, a wrong flag |
| `Freeze`, `Finish`, `Archive` | SetStatus, which waits for all holders of the SHARE lock |
| `Plan`, `Answer` | Competition: `planPublicView` on one read, the rows on another |
| `RebuildStart`, `RebuildTeams`, `RebuildChallenges`, `RebuildFails` | RebuildDerived: the snapshot of each UPDATE is taken when it starts |

Locks are derived from control points (`Sharing`, `HasOwnerLock`, `HasScoreLock`, `HasRow`,
`HasEventLock`, `TeamsLocked`), so a lock cannot be forgotten at commit. Assumed and not modelled:
clocks of API processes agree and never give one value twice; PostgreSQL's locks and READ COMMITTED
behave as documented.

### Runs

| Run | Instance | Shows |
|---|---|---|
| `ledger` | 2 teams; 2 transactions, a reader or a rebuilder | `TypeOK`, `OneAwardPerOwner`, `PriceOrder`, `BloodOrder` (one blood rank, so the second solve has none), `CorrectionsFinal`, `FrozenReadsHide`, `FreezeSnapshotStable`, `FinalComplete`, `ScoreAccounted` |
| `rebuild` | | violated: see Findings |

The runs are in team mode, where owners are shared; the theorems hold of both modes. In a behaviour of
`ledger` a variable `focus`, chosen in the first state, says what may happen: `solves` (3 users, submissions
and corrections, 3 dates), `freeze` (one user a team; submissions, hints and adjustments against freeze and
settlement, 2 dates), `reads` (submissions and a reader) and `rebuild` (submissions, hints, corrections and a
rebuilder; the status stays). Readers change nothing, and a rebuild only the derived scores, which nobody
else looks at, so that none of them needs to be combined with all of the others.

`ScoreAccounted` is what the code keeps of the derived scores: a rebuild may overwrite an event that
commits while it runs, of either sign, so that a score may be below the ledger or, when a hint or a negative
adjustment is lost, above it; but nothing else is lost, nothing counts twice, and the next rebuild that
nothing overlaps with repairs it. That a rebuild loses anything is `DerivedExact`, violated in `rebuild`.

Two transactions are the least that race; locks order any number of them, and the proofs cover all.
Three dates are a solve of each team and a duplicate, or a solve, its correction and an attempt
at another. Transactions and the members of a team are interchangeable
(`MCSymmetry`; safety only). `CHECK_DEADLOCK FALSE`:
the competition ends and the dates are bounded. There is no liveness here: a transaction may always
be refused, and the code promises no retry. `FrozenReadsHide` is about who asks after the freeze: an
answer that was planned before it (`scoreboard/service.go:108`) may be given after it.

## 6. Accounts: Sessions, EmailFlows, Admission

`Sessions`: users with their status, token version and the super administrator role; refresh tokens
with their family (`root`); access tokens with the version and the role they claim. A request is a
program counter with what it has read: `Refresh` is six transactions or statements, and a role change
reads the administrators before it writes.

| Actions | Code |
|---|---|
| `Login`, `Roles`, `StoreRefresh`, `LoginDone` | Login: the user, the roles, the refresh token, the answer |
| `Refresh`, `ReadUser`, `ValidateRefreshSession`, `Rotate`, `Replace`, `Rotated`, `Answer` | Refresh: lookup, user, session, rotation under the lock of the token (which looks neither at session nor version again), answer |
| `Replayed`, `Kill` | a used token revokes its family, of which an insert that is not committed is not seen |
| `Begin`, `ListAdmins`, `Guard`, `Bump`, `Sweep` | revocation of all sessions, grant and removal of the role, ban: guard, version, revocation of the tokens that are seen |
| `Logout`, `Expire`, `Abort` | logout, time, errors |

`EmailFlows`: addresses, links and mails.

| Actions | Code |
|---|---|
| `Register`, `Ask`, `Store`, `Stored` | a link is asked for: the old ones are invalidated, the new one stored with its mail |
| `Follow`, `Consume`, `FailCall`, `ExpireLink` | a link is followed: UPDATE on its unused row, then the change of the account |
| `TakenByOther`, `PendingOfOther` | what refuses a change of the address: the user's own address is none of it (`id<>?`), that of another user or one that another user has asked for (a unique index) is |
| `ComesDue`, `Claim`, `Send`, `Report`, `Lose` | a dispatcher leases the oldest mail, sends it, records the outcome without looking whether the lease is still its own, or dies |

The transport is SMTP: with the driver `log`, for development, a mail is logged, not delivered, and marked as
sent (`mail/dispatcher.go:120`), and `MailHonest` says nothing of that.

`Admission`: how Start, Restart, Stop and Reset of the owner, operations of an administrator and
expiry get from a request to a recorded operation.

| Actions | Code |
|---|---|
| `AskUser`, `AskAdmin`, `AskExpiry` | a request, or its retry with the same key |
| `LockKey`, `LockChallenge`, `LockQuota`, `LockScope`, `Count`, `Start` | Start: advisory locks of key, quota and scope, SHARE lock of the challenge, the count of active instances, the insert |
| `Transition`, `Operate`, `Leave`, `Fail` | the other operations, answers, rollbacks |
| `Archive`, `Close`, `Worked` | the challenge is archived or the status of its competition changed, which waits for the SHARE locks; the window of the competition ends by the clock, which waits for nobody; the worker finishes an operation |

`playable` is what the SHARE lock holds (a published challenge, a running competition), `ended` what it does
not: a Start that waits for the quota or the owner is recorded even if the window ended meanwhile
(`lifecycle.go:32` compares the time once). `VerdictsSound` claims the first only, `AdmissionSound` is about
quotas and says nothing of either.

The scope that a request resolves to is taken as fixed: that a user who has left a team gets 403 on a
retry is not in the model.

Run `accounts` (seven values of `focus`) checks `ClaimsCurrent`, `RevocationHolds`, `OneUsablePerFamily`,
`LinksSound`, `MailHonest`, `AdmissionSound`, `VerdictsSound`. Bounds: two requests of one user with
tokens and versions up to four (a login, a refresh, a replay and a change in between); two calls about up to
three links of one person to two addresses, or about the addresses of two people, of which there are three
(`taken`: two want one address, or one gets it, by a change or a registration, while the other's link is
under way); two dispatchers and two attempts; two members of a team with a quota of one and two challenges,
of which one may be archived and the window of the other may end, or one user and two administrators with
one key. Two requests are the least that race; the proofs remove the bound.
`lastadmin` is violated: see Findings. `CHECK_DEADLOCK FALSE` in both: tokens, versions and links are
bounded. No fairness: nothing here promises to answer.

## 7. Contests: Teams, Content, Editions

`Teams`: members, roles, captains and limits; join requests and invitations; competitions with their
rosters. A call is `asked` (it has looked something up) or `locked` (it holds the team or the
competition).

| Actions | Code |
|---|---|
| `Create`, `RequestJoin`, `Invite`, `Pend`, `ReviewJoin`, `AcceptInvitation`, `Room`, `Join`, `Reject`, `ExpireInvitation` | who enters: the lock of the team, the count of members, the insert with its unique index |
| `Leave`, `RemoveMember`, `Deleted`, `TransferCaptain`, `Transferred`, `Update`, `Updated` | who leaves (no lock), the captain, the limit |
| `Register`, `Enter`, `Configure`, `Configured`, `SetStatus`, `Fail` | registration, the sizes and the mode of a competition, its status |

`Content`: challenges with revisions and files, the pool and the snapshot of a competition, learning
paths.

| Actions | Code |
|---|---|
| `CreateChallenge`, `UpdateChallenge`, `Publish`, `Published`, `Archive`, `Archived` | drafts, publication with its revision and managed path, archiving |
| `ReplaceChallenges`, `Replaced`, `Start`, `Started`, `SetContestStatus` | the pool (SHARE locks of the challenges) and the snapshot at the start |
| `Put`, `Uploaded`, `Delete`, `Removed`, `Dropped` | object first and row second; row first and object second |
| `Save`, `Saved`, `PublishPath`, `PublishedPath`, `ArchivePath`, `SaveDirection`, `ArchiveDirection`, `FailWork` | learning paths and directions |

`Editions`: what has versions of which one is shown.

| Actions | Code |
|---|---|
| `PutObject`, `CreateAsset`, `AddVersion`, `AddedVersion`, `UpsertTeamAvatar`, `UpsertedTeamAvatar` | an upload: the object, the number of the version, the row |
| `PublishAsset`, `RollbackAsset`, `ArchiveAsset`, `UpdateSlot`, `SavedSlotBinding` | which version is shown, and where |
| `PublishSettings`, `PublishedSettings` | a version of the settings replaces the one that is published |
| `CreateWriteup`, `UpdateWriteup`, `UpdatedWriteup`, `SubmitReview`, `Review`, `ToggleLike`, `ToggledLike`, `FailEdit` | writeups and likes |

Run `contests` (eight values of `focus`, two calls open at once) checks `MembersSound`, `RosterSound`,
`ContentSound`, `FilesServed`, `ShownSound`, `WriteupsSound`, `AdminPathsKept`; `pinned` (`focus` on files) is
violated: see Findings. Bounds: three players
and one team of two or three (a captain and two who want the last place); two players in teams for
rosters; two challenges with two revisions, one competition, one path that is saved once, two files;
one asset with two versions and three objects (two uploads of which one loses its number, and a
third), one slot, two versions of the settings; one writeup with two texts and two users. What `MCContests`
excludes beside (two calls that only configure, the archiving of the second challenge ...) is named
there at each focus; the proofs are of the modules without it. `CHECK_DEADLOCK FALSE`: versions are
bounded.

`FilesServed` is about files that have a row, listed or archived. A file whose row was deleted although a
revision has it is lost to that revision, which is `PinnedServed` and the finding of `pinned`.

What is so in the code and only looks like a gap of the model: a managed path may stay published without a
challenge when its last two are archived at once (`sync.go:83-107`); Publish of an asset publishes the
version that is current then (`asset/service.go:377-388`); an edit of a writeup that waits for a
review takes the published writeup back to draft in spite of `WRITEUP_LOCKED` (`writeup/service.go:201`;
`WriteupsSound` is about published texts that are replaced unseen); who transfers the captaincy
to a member who leaves at that moment has given it to nobody in the team. None of these breaks a
property, and we found no document that promises otherwise.

## 8. Proofs

Every invariant and action property that a run checks is stated by a theorem for all values of the
constants; `theorems` in `PROJECT.json` lists them. Two hold only until something fails and say so in their
statement (`OneHostWhileCalm`, `JobsOnTheirWayWhileCalm`, see section 3). Each module has one
assumption about its constants (`ConstantsAssumption`, `PortsAssumption` ...): sets are not empty,
bounds are numbers, "no ..." is not a member. None bounds the number of workers, users, requests or
instances. What is counted is finite or shown to be: `Player` and `User` are assumed finite, since their
numbers are compared.

The shape is the same everywhere: an inductive invariant, checked with TLC before it was proved, a
lemma that the first state has it, a lemma for each action, or for each pair of an action and a conjunct
where the action disturbs it, and PTL for the theorem. The conjuncts that make it inductive are what the
code relies on from one transaction to the next:

* `RuntimeJobs_proofs`. `Inv` is about jobs: two workers never hold one since its row says `running`
  with a fresh lock while somebody does (`HolderHasLock`); who drives Docker is the worker in the row
  (`ExecutesOwn`), and who passed `canProcess` before that comes with a job the instance no longer wants
  (`NotOvertaken`), so that its claim fails by version; a row read before a claim is current while the
  instance still waits for that job (`ReadCurrent`). `PlaceInv` is about containers: an instance without
  a worker has none (`NowhereYet`), a worker takes an instance over only if it is new, or ends without
  ever having run (`TakesOverNew`), a container that counts was committed with the row or made by the job
  the row waits for (`ContainersKnown`, `ResultHere`), and a call nobody wants any more is one for an
  instance that ends (`UnwantedEnds`). From it `FlagsCurrent`; and `CapacityKept`, with `RoomLeft`:
  there is room for what a worker hosts and for the one start it has accepted, which is why the count
  that `canProcess` makes long before the claim suffices: one worker processes one message at a time.
  `CalmInv` adds what holds until something fails: no retry, so a second copy of a job finds it locked or
  finished (`LateSkips`), and containers are on the host of their row (`AtHome`). `NewOnItsWay` needs
  no calm but for the database: a job that nobody locked is in the outbox, or some message of it
  can be had that nobody is about to acknowledge. `LifecycleIsSafe` is the refinement of `InstanceLife`, one
  lemma for each of its actions: whoever writes the outcome of an operation holds its job, and then the
  operation is open and only the instance of the job can wait for it (`HeldIsOpen`, which needs `Paired`:
  operations and jobs are created together). The one outcome that its instance does not see is that of a read that failed
(`ReadFails`), which `ValidRuntimeState` and `InstanceLife` therefore name.
* `PortLeases_proofs`. A lease is not shown by the row only when the operation that stops the instance has
  taken it over (`NoHiddenLease`); the worker's call knows the port in the row unless it lost it
  (`CallMatchesRow`); a row that runs has no reservation and, verified by a pass, a young heartbeat
  (`RunningRows`); recovery leaves no lease to a row that ended (`Recovered`). `OwnershipIsSafe` is the
  refinement: the first state maps to one of `PortOwner`, and every step to a step or a stutter.
* `Scoring_proofs`. `FreezeSnapshotStable` is not inductive: an open transaction might commit a date from
  before the freeze. `FreezeInv` adds that what is dated and not committed is dated after `cutoff`, since
  dates are drawn under the SHARE lock and the freeze finds no holder; `FinalInv` that nobody holds the
  lock after the settlement. `PriceOrder` rests on `ScoreLockInv` (one dated submission per challenge),
  `SeenInv` (what it read is still everything) and `PriceInv` (and is dated before it);
  `OneAwardPerOwner` needs `SeenInv` too. `CorrectionsFinal` needs that the holder of an event lock is
  alone and its event no correction (`VoidInv`); `FrozenReadsHide` that a reader who asked
  while scores were hidden was planned from the snapshot (`AskInv`). `BloodInv`: every solve has a rank as
  long as ranks are left, so the ranks are the places in the order of dates, by cardinality. `ScoreAccounted`
  rests on the sum over a set with one more event (`PointsAdd`, by cardinality): an award adds its sign, and a
  rebuild that writes the sum of what it read leaves out what was committed since, which is what `missed` says.
* `Sessions_proofs`. Tokens and access tokens are not dated after their user (`Dated`, `Honest`: the
  claims of one that has the current version are true), though the roles of a login are read in another
  statement than the version: the version is read first and grows with every change. A family has one
  token that is neither used nor revoked (`OneAlive`), for a rotation holds the row lock of the one it
  replaces (`Apart`, `KnowsAlive`). A request that began after a change and holds an older token can
  only get as far as the check that compares them (`KnowsLate`); a token inserted while a revocation
  waited was not swept, but carries the old version.
* `EmailFlows_proofs`. A dispatcher that reports success has delivered the mail, whoever else has it
  (`Remembers`), and the attempts never go back. A link is consumed by one call (`Apart`); who stores a
  link to change an address has seen every older live one and holds them (`KnowsOld`, `OneChange`); until
  a user is verified every verification link shows her address (`Addressed`), hence `Followed`.
* `Admission_proofs`. What a request knows at each stage by the locks it holds: nobody recorded its key
  (`KeyHeld`), the challenge is published or its competition running (`PlayableHeld`, of which the window is no
  part), the room it counted is still there (`RoomLeft`,
  with `QuotasApart`); an instance named by owner and challenge is the newest (`HasNewest`).
* `Teams_proofs`. `LocksHeld` and what a call that holds a lock has looked up and is still so
  (`CallKnows`): the members may only become fewer meanwhile, the captain may leave the team but stays
  the captain. `Room` to `Join` is a cardinality argument over the members.
* `Content_proofs`, `Content`. The same for challenges and competitions (`Excluded`, `Known`); what no
  lock protects only changes one way: a revision grows, the stages of a path get a new generation,
  a deleted file stays deleted. `AdminPathsKept` is an action property and follows from
  `Known`: a publication writes the path it read unless the generation has moved on.
* `Content_proofs`, `Editions`. An upload carries an object no version refers to (`Carries`), so that
  a failed one may delete it; versions have no gap (`VersionsFilled`), which is why a rollback that
  subtracts one finds something; of two publications of the settings with one number the unique index lets
  one through, and the other replaced what was published before it (`SettingsChained`, `Replaces`); two
  requests never have the same slot (`EditsApart`).

Only model-checked: liveness (`ContainersReclaimed`, `LostOperationFrees`, and the fairness of `Lifecycle` and
`Ownership`), which is beyond TLAPS; the theorems cover the safety part of both. That
`OneHost` and `QueuedOnItsWay` end where the first fault happens is not a gap of the proof: TLC has the
counterexamples of section 3.

## 9. Findings

* `stuck` (`worker.go:287`): a worker killed in a Docker call and back soon may acknowledge its own
  message because the job's lock is younger than 90 s; the instance then stays in operation for good.
* `rebuild` (`scoreboard/service.go:457`): a solve that commits during a rebuild is lost from the team's
  score and from the solve count until the next rebuild.
* `lastadmin` (`admin/service.go:146`): two removals of the super administrator role at once leave
  nobody, although `CHANGELOG.md:152` says that the last one is protected: the second one waits for the
  users' rows, which have not changed in what it selects, and does not look at `user_roles` again.
* `pinned` (`challengefile/service.go:125`): a file that is removed while its challenge is published is gone
  from the new revision, although `CHANGELOG.md:123` and `:128` call file revisions and the archival of
  attachments immutable: whether a revision has the file is counted before the transaction.

Remarks without a run: after `INSTANCE_MISSING` (`worker.go:304`, one SELECT that fails) the operation has
failed and its instance stays in operation until the user stops it (`InstanceLife` calls the operation lost);
the usage counter (`worker.go:702`) is lowered by outcomes that do not correspond
to an active instance and drifts, but nothing decides by it; the whitelist of transitions
(`CanTransition`) is called by nothing, and the first commit of a start goes from pulling to running,
which it does not allow; `SetUserStatus` with "active" passes fewer arguments than its statement
has placeholders (`admin/service.go:93`) and always fails, so that `Sessions` has no way back from a ban;
a conflict of host ports is only looked for in the error of ContainerCreate.

## 10. Not modelled

`PROJECT.json` says of each component what is left out of it. Left out for good:

* HTTP, cookies, JWT and password encoding, validation of input, serialisation, wording, listings,
  caches and rate limits: pure functions or single reads;
* the arithmetic and the order inside a standing, DynamicScore, BloodBonus and levels (one in floating
  point): the modules say which events count, not for how much;
* rewards and honours (one transaction with unique inserts), `AddExperience` (no caller), registry
  credentials (one locked row), notifications, organizations, profiles and audit (single statements);
* page backgrounds and themes, where nothing promises that exactly one is published;
* networks, images, limits and the Traefik file of Docker hosts; registration and draining of workers;
* the web front end, deployment, seed, challenge content.

Assumed throughout: PostgreSQL's row and advisory locks, unique indexes and READ COMMITTED behave as
documented; the clocks of API processes agree; a commit that reports an error did not happen, except where
a module has both outcomes.
