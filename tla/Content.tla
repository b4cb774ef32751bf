------------------------------ MODULE Content ------------------------------
(***************************************************************************)
(* Challenges and what refers to them: revisions, attached files, the      *)
(* pools and snapshots of competitions, and the learning paths of a        *)
(* training direction (challenge/service.go, challengefile/service.go,     *)
(* competition/service.go, learning/service.go, learning/sync.go).         *)
(*                                                                         *)
(* Publish and Archive lock the challenge, a pool takes a share lock on    *)
(* its challenges, a path and a file are read without a lock.  A request   *)
(* reads in one step and writes in a later one, which is its commit.       *)
(* What is checked inside one row (flags, runtime, sizes) only makes a     *)
(* request fail, which it may at any time.  The path that Publish keeps is *)
(* the one of its direction, with created_by empty until an administrator  *)
(* saves it.                                                               *)
(***************************************************************************)
EXTENDS Integers, FiniteSets

CONSTANTS Challenge, Contest, File, Path,
          Foundation,   \* the path that is kept in step with what is published
          Editor,       \* API calls that may be open at once
          MaxVersion    \* bound: revisions of a challenge, and of the stages of a path

ContentAssumption == Challenge # {} /\ Contest # {} /\ Foundation \in Path /\ MaxVersion \in Nat

VARIABLES
    status, public,   \* challenges: status and visibility
    revision,         \* current_published_revision_id, as a number
    file, object,     \* challenge_files and the object store
    pinned,           \* files of revisions (challenge_file_revisions)
    contest,          \* competitions, competition_challenges, competition_snapshots
    path, enabled,    \* learning_paths with their stages; challenge_categories
    workAt, work      \* API calls

challengeVars == <<status, public, revision>>
fileVars == <<file, object, pinned>>
pathVars == <<path, enabled>>
contentVars == <<status, public, revision, file, object, pinned, contest, path, enabled, workAt, work>>

Revision == 1..MaxVersion
Active == {"draft", "registration", "running", "frozen"}
ContestRow == [st : Active \cup {"none", "finished", "archived"}, pool : SUBSET Challenge,
               snapshot : [Challenge -> 0..MaxVersion]]
PathRow == [st : {"none", "draft", "published", "archived"}, managed : BOOLEAN,
            gen : 0..MaxVersion, items : SUBSET Challenge]

NoSnapshot == [c \in Challenge |-> 0]

\* What a request has read: the challenges and the files it writes, the paths that
\* lose their last challenge, whether it puts one on the path and on which stages.
Work == [op : {"publish", "archive", "pool", "start", "save", "show", "put", "delete"},
         chal : Challenge, chals : SUBSET Challenge, contest : Contest,
         snapshot : [Challenge -> 0..MaxVersion], files : SUBSET File, empty : SUBSET Path,
         into : BOOLEAN, gen : 0..MaxVersion, path : Path,
         st : {"none", "draft", "published", "archived"}, pins : BOOLEAN]
NoWork == [op |-> "publish", chal |-> CHOOSE c \in Challenge : TRUE, chals |-> {},
           contest |-> CHOOSE k \in Contest : TRUE, snapshot |-> NoSnapshot, files |-> {},
           empty |-> {}, into |-> FALSE, gen |-> 0, path |-> Foundation, st |-> "none",
           pins |-> FALSE]

ChallengeTypeOK ==
    /\ status \in [Challenge -> {"none", "draft", "published", "archived"}]
    /\ public \in [Challenge -> BOOLEAN] /\ revision \in [Challenge -> 0..MaxVersion]
FileTypeOK ==
    /\ file \in [File -> {"none", "active", "archived", "deleted"}]
    /\ object \subseteq File /\ pinned \subseteq File
UseTypeOK == contest \in [Contest -> ContestRow] /\ path \in [Path -> PathRow] /\ enabled \in BOOLEAN
RequestTypeOK == workAt \in [Editor -> {"idle", "open", "late"}] /\ work \in [Editor -> Work]
ContentTypeOK == ChallengeTypeOK /\ FileTypeOK /\ UseTypeOK /\ RequestTypeOK

ContentInit ==
    /\ status = [c \in Challenge |-> "none"] /\ public = [c \in Challenge |-> TRUE]
    /\ revision = [c \in Challenge |-> 0]
    /\ file = [f \in File |-> "none"] /\ object = {} /\ pinned = {}
    /\ contest = [k \in Contest |-> [st |-> "none", pool |-> {}, snapshot |-> NoSnapshot]]
    /\ path = [p \in Path |-> [st |-> "none", managed |-> TRUE, gen |-> 0, items |-> {}]]
    /\ enabled = TRUE
    /\ workAt = [r \in Editor |-> "idle"] /\ work = [r \in Editor |-> NoWork]

-----------------------------------------------------------------------------
(* Row locks of challenges (exclusive and shared) and of competitions.     *)

OpenFor(ops) == {q \in Editor : workAt[q] = "open" /\ work[q].op \in ops}
Locked(c) == \E q \in OpenFor({"publish", "archive"}) : work[q].chal = c
NotShared(c) == FALSE   \* mutant: a pool does not lock its challenges
Shared(c) == \E q \in OpenFor({"pool"}) : c \in work[q].chals
Busy(k) == \E q \in OpenFor({"pool", "start"}) : work[q].contest = k

Exclusive(c) == ~Locked(c) /\ ~Shared(c)

Begin(r, w) ==
    workAt[r] = "idle" /\ workAt' = [workAt EXCEPT ![r] = "open"] /\ work' = [work EXCEPT ![r] = w]
Holds(r, op) == workAt[r] = "open" /\ work[r].op = op
Finish(r) == workAt' = [workAt EXCEPT ![r] = "idle"] /\ work' = [work EXCEPT ![r] = NoWork]
ReadOnly == UNCHANGED <<challengeVars, fileVars, contest, pathVars>>

\* A request fails; an upload then deletes its object, unless the process died.
FailWork(r) ==
    /\ workAt[r] # "idle"
    /\ \/ UNCHANGED object
       \/ work[r].op = "put" /\ object' = object \ work[r].files
    /\ Finish(r)
    /\ UNCHANGED <<challengeVars, file, pinned, contest, pathVars>>

-----------------------------------------------------------------------------
(* Challenges.                                                             *)

CreateChallenge(c) ==
    /\ status[c] = "none" /\ enabled
    /\ status' = [status EXCEPT ![c] = "draft"]
    /\ UNCHANGED <<public, revision, fileVars, contest, pathVars, workAt, work>>

\* The draft changes at any time; of what others look at, its visibility.
UpdateChallenge(c, v) ==
    /\ status[c] # "none" /\ enabled
    /\ Exclusive(c)
    /\ public' = [public EXCEPT ![c] = v]
    /\ UNCHANGED <<status, revision, fileVars, contest, pathVars, workAt, work>>

Visible(c) == status[c] = "published" /\ public[c]

\* RemoveManagedChallenge: the managed paths that show nothing without c.
LeftEmpty(c) ==
    {p \in Path : /\ path[p].st # "none" /\ path[p].managed /\ c \in path[p].items
                  /\ \A d \in path[p].items \ {c} : ~Visible(d)}

\* SyncPublishedChallenge: whether c goes on the path.
GoesOn(c) == public[c] /\ path[Foundation].managed /\ path[Foundation].st # "archived"

Publish(r, c, files) ==
    /\ status[c] # "none" /\ Exclusive(c) /\ revision[c] < MaxVersion
    /\ public[c] => enabled
    /\ Begin(r, [NoWork EXCEPT !.op = "publish", !.chal = c, !.files = {f \in files : file[f] = "active"},
                               !.empty = LeftEmpty(c), !.into = GoesOn(c),
                               !.gen = path[Foundation].gen])
    /\ ReadOnly

WithoutAnyOwner(p, c, empty) ==   \* mutant: the path of an administrator is not spared
    [path[p] EXCEPT !.items = @ \ {c},
                    !.st = IF p \in empty /\ @ # "archived" THEN "draft" ELSE @]
Without(p, c, empty) ==
    IF ~path[p].managed THEN path[p]
    ELSE [path[p] EXCEPT !.items = @ \ {c},
                         !.st = IF p \in empty /\ @ # "archived" THEN "draft" ELSE @]

\* The path that does not exist yet is inserted; one that an administrator took over
\* or archived meanwhile keeps its status.
Onto(row, c) ==
    [row EXCEPT !.items = @ \cup {c},
                !.st = IF ~row.managed \/ @ = "archived" THEN @ ELSE "published"]

Rows(r) ==
    [p \in Path |-> LET row == Without(p, work[r].chal, work[r].empty)
                    IN  IF p = Foundation /\ work[r].into THEN Onto(row, work[r].chal) ELSE row]

\* A stage or a file that is gone by now breaks a foreign key.
Published(r) ==
    LET c == work[r].chal
    IN  /\ Holds(r, "publish")
        /\ work[r].into => path[Foundation].gen = work[r].gen
        /\ \A f \in work[r].files : file[f] \in {"active", "archived"}
        /\ status' = [status EXCEPT ![c] = "published"]
        /\ revision' = [revision EXCEPT ![c] = @ + 1]
        /\ pinned' = pinned \cup work[r].files
        /\ path' = Rows(r)
        /\ Finish(r)
        /\ UNCHANGED <<public, file, object, contest, enabled>>

Uses(k, c) == contest[k].st \in Active /\ (c \in contest[k].pool \/ contest[k].snapshot[c] # 0)

\* An archived challenge stays as it is; one that an active competition uses does too.
Archive(r, c) ==
    /\ status[c] \in {"draft", "published"} /\ Exclusive(c)
    /\ \A k \in Contest : ~Uses(k, c)
    /\ Begin(r, [NoWork EXCEPT !.op = "archive", !.chal = c, !.empty = LeftEmpty(c)])
    /\ ReadOnly

Archived(r) ==
    /\ Holds(r, "archive")
    /\ status' = [status EXCEPT ![work[r].chal] = "archived"]
    /\ path' = [p \in Path |-> Without(p, work[r].chal, work[r].empty)]
    /\ Finish(r)
    /\ UNCHANGED <<public, revision, fileVars, contest, enabled>>

-----------------------------------------------------------------------------
(* Competitions: create, update, and the snapshot of the start.            *)

\* replaceChallenges: the challenges are published, and share locked.
ReplaceChallenges(r, k, pool) ==
    /\ contest[k].st \in {"none", "draft", "registration"} /\ ~Busy(k)
    /\ \A c \in pool : ~Locked(c) /\ status[c] = "published"
    /\ Begin(r, [NoWork EXCEPT !.op = "pool", !.contest = k, !.chals = pool])
    /\ ReadOnly

Replaced(r) ==
    LET k == work[r].contest
    IN  /\ Holds(r, "pool")
        /\ contest' = [contest EXCEPT ![k].pool = work[r].chals,
                                      ![k].st = IF @ = "none" THEN "draft" ELSE @]
        /\ Finish(r)
        /\ UNCHANGED <<challengeVars, fileVars, pathVars>>

\* createSnapshot: the current revision of every challenge of the pool, at least one.
Start(r, k) ==
    /\ contest[k].st = "registration" /\ ~Busy(k) /\ contest[k].pool # {}
    /\ \A c \in contest[k].pool : revision[c] # 0
    /\ Begin(r, [NoWork EXCEPT !.op = "start", !.contest = k,
                    !.snapshot = [c \in Challenge |-> IF c \in contest[k].pool THEN revision[c] ELSE 0]])
    /\ ReadOnly

Started(r) ==
    LET k == work[r].contest
    IN  /\ Holds(r, "start")
        /\ \A c \in contest[k].pool : ~Locked(c)
        /\ contest' = [contest EXCEPT ![k].st = "running", ![k].snapshot = work[r].snapshot]
        /\ Finish(r)
        /\ UNCHANGED <<challengeVars, fileVars, pathVars>>

SetContestStatus(k, next) ==
    /\ ~Busy(k)
    /\ <<contest[k].st, next>> \in
           {<<"draft", "registration">>, <<"registration", "draft">>, <<"running", "frozen">>,
            <<"running", "finished">>, <<"frozen", "finished">>, <<"finished", "archived">>}
    /\ contest' = [contest EXCEPT ![k].st = next]
    /\ UNCHANGED <<challengeVars, fileVars, pathVars, workAt, work>>

-----------------------------------------------------------------------------
(* Learning paths, as administrators edit them.                            *)

\* Save: what is not archived may be on a path, a published one must show something.
\* Only one of two that insert the same path succeeds.
Save(r, p, items) ==
    /\ enabled /\ path[p].gen < MaxVersion
    /\ \A c \in items : status[c] \in {"draft", "published"}
    /\ path[p].st = "published" => \E c \in items : Visible(c)
    /\ Begin(r, [NoWork EXCEPT !.op = "save", !.path = p, !.chals = items,
                               !.into = path[p].st = "none",
                               !.st = IF path[p].st = "published" THEN "published" ELSE "draft"])
    /\ ReadOnly

Saved(r) ==
    LET p == work[r].path
    IN  /\ Holds(r, "save") /\ path[p].gen < MaxVersion /\ (work[r].into => path[p].st = "none")
        /\ \A c \in work[r].chals : ~Locked(c)
        /\ path' = [path EXCEPT ![p] = [st |-> work[r].st, managed |-> FALSE,
                                        gen |-> @.gen + 1, items |-> work[r].chals]]
        /\ Finish(r)
        /\ UNCHANGED <<challengeVars, fileVars, contest, enabled>>

PublishPath(r, p) ==
    /\ path[p].st # "none" /\ \E c \in path[p].items : Visible(c)
    /\ Begin(r, [NoWork EXCEPT !.op = "show", !.path = p])
    /\ ReadOnly

PublishedPath(r) ==
    /\ Holds(r, "show")
    /\ path' = [path EXCEPT ![work[r].path].st = "published"]
    /\ Finish(r)
    /\ UNCHANGED <<challengeVars, fileVars, contest, enabled>>

ArchivePath(p) ==
    /\ path[p].st # "none"
    /\ path' = [path EXCEPT ![p].st = "archived"]
    /\ UNCHANGED <<challengeVars, fileVars, contest, enabled, workAt, work>>

\* The category follows the direction, the paths only one that is archived.
SaveDirection(active) ==
    /\ enabled' = active
    /\ UNCHANGED <<challengeVars, fileVars, contest, path, workAt, work>>

ArchiveDirection ==
    /\ enabled' = FALSE
    /\ path' = [p \in Path |-> IF path[p].st = "none" THEN path[p] ELSE [path[p] EXCEPT !.st = "archived"]]
    /\ UNCHANGED <<challengeVars, fileVars, contest, workAt, work>>

-----------------------------------------------------------------------------
(* Attached files: the object is stored before its row and deleted after.  *)

Put(r, f) ==
    /\ file[f] = "none" /\ f \notin object
    /\ Begin(r, [NoWork EXCEPT !.op = "put", !.files = {f}])
    /\ object' = object \cup {f}
    /\ UNCHANGED <<challengeVars, file, pinned, contest, pathVars>>

Uploaded(r) ==
    /\ Holds(r, "put")
    /\ file' = [f \in File |-> IF f \in work[r].files THEN "active" ELSE file[f]]
    /\ Finish(r)
    /\ UNCHANGED <<challengeVars, object, pinned, contest, pathVars>>

\* Whether a revision has the file is looked up before the transaction.
Delete(r, f) ==
    /\ file[f] \in {"active", "archived"}
    /\ Begin(r, [NoWork EXCEPT !.op = "delete", !.files = {f}, !.pins = f \in pinned])
    /\ ReadOnly

\* The row is archived or deleted, the object only after a row that was deleted.
RemovedFirst(r) ==   \* mutant: the object goes first
    /\ workAt[r] = "open" /\ work[r].op = "delete" /\ ~work[r].pins
    /\ object' = object \ work[r].files
    /\ workAt' = [workAt EXCEPT ![r] = "late"] /\ UNCHANGED work
    /\ UNCHANGED <<challengeVars, file, pinned, contest, pathVars>>
Removed(r) ==
    /\ Holds(r, "delete")
    /\ file' = [f \in File |->
                  IF f \notin work[r].files \/ file[f] = "deleted" THEN file[f]
                  ELSE IF work[r].pins THEN "archived" ELSE "deleted"]
    /\ IF work[r].pins THEN Finish(r) ELSE workAt' = [workAt EXCEPT ![r] = "late"] /\ UNCHANGED work
    /\ UNCHANGED <<challengeVars, object, pinned, contest, pathVars>>

Dropped(r) ==
    /\ workAt[r] = "late"
    /\ object' = object \ work[r].files
    /\ Finish(r)
    /\ UNCHANGED <<challengeVars, file, pinned, contest, pathVars>>

ContentNext ==
    \/ \E c \in Challenge : CreateChallenge(c) \/ \E v \in BOOLEAN : UpdateChallenge(c, v)
    \/ \E r \in Editor : \/ Published(r) \/ Archived(r) \/ Replaced(r) \/ Started(r) \/ Saved(r)
                         \/ PublishedPath(r) \/ Uploaded(r) \/ Removed(r) \/ Dropped(r) \/ FailWork(r)
    \/ \E r \in Editor, c \in Challenge : Publish(r, c, File) \/ Archive(r, c)
    \/ \E r \in Editor, k \in Contest :
         Start(r, k) \/ \E pool \in SUBSET Challenge : ReplaceChallenges(r, k, pool)
    \/ \E r \in Editor, p \in Path :
         PublishPath(r, p) \/ \E items \in SUBSET Challenge : Save(r, p, items)
    \/ \E r \in Editor, f \in File : Put(r, f) \/ Delete(r, f)
    \/ \E k \in Contest, s \in {"draft", "registration", "frozen", "finished", "archived"} :
         SetContestStatus(k, s)
    \/ ArchiveDirection \/ (\E p \in Path : ArchivePath(p)) \/ \E active \in BOOLEAN : SaveDirection(active)

ContentSpec == ContentInit /\ [][ContentNext]_contentVars

-----------------------------------------------------------------------------
(* Properties.                                                             *)

\* A competition that is being prepared or runs offers published challenges only, and
\* one that runs offers exactly the pool it was configured with, at revisions that
\* exist: archiving, publishing and configuring at the same time do not come between.
ContentSound ==
    \A k \in Contest :
        /\ contest[k].st \in Active => \A c \in contest[k].pool : status[c] = "published"
        /\ contest[k].st \in {"running", "frozen"} =>
              /\ contest[k].pool = {c \in Challenge : contest[k].snapshot[c] # 0}
              /\ contest[k].pool # {}
              /\ \A c \in Challenge : contest[k].snapshot[c] <= revision[c]

\* Every file that has a row, listed or archived, can be read: uploads, removals and
\* crashes between row and object leave at most an object without a row.  It says nothing
\* of a file whose row was deleted, although a revision may have it: see PinnedServed.
FilesServed == \A f \in File : file[f] \in {"active", "archived"} => f \in object

\* Violated.  What a revision was published with can be read for good ("Immutable ...
\* file revisions", CHANGELOG.md): but Delete looks for revisions before its transaction,
\* and one that is published in between does not keep the row or the object.
PinnedServed == pinned \subseteq object

\* Publishing and archiving a challenge leave the path alone that an administrator has
\* taken over (sync.go: "deliberately left untouched"), also when that happens while
\* the challenge is published.
PathsOfOthersKept ==
    (status' # status \/ revision' # revision) =>
        \A p \in Path : path[p].st # "none" /\ ~path[p].managed => path'[p] = path[p]
AdminPathsKept == [][PathsOfOthersKept]_contentVars
=============================================================================
