--------------------------- MODULE Content_proofs ---------------------------
(***************************************************************************)
(* That competitions offer what is published, that files which are listed  *)
(* can be read, and that publishing spares the path of an administrator,   *)
(* for any number of challenges, competitions, files, paths and requests;  *)
(* and, at the end, that what is edited in versions (Editions) shows a     *)
(* version that exists, and a writeup the text that was reviewed.          *)
(*                                                                         *)
(* Inv says for every open request which of the things it has read are     *)
(* still so when it writes: those its locks protect (Excluded), and those  *)
(* that only change in one direction (a revision, the stages of a path,    *)
(* a file that is deleted).                                                *)
(***************************************************************************)
EXTENDS Content, Editions, FiniteSetTheorems, TLAPS

Changing == {"publish", "archive"}
Using == {"pool", "start"}

\* The locks: one writer of a challenge and none while a pool has it, one of a competition.
Excluded ==
    \A q, s \in Editor : q # s /\ workAt[q] = "open" /\ workAt[s] = "open" =>
        /\ work[q].op \in Changing /\ work[s].op \in Changing => work[q].chal # work[s].chal
        /\ work[q].op \in Changing /\ work[s].op = "pool" => work[q].chal \notin work[s].chals
        /\ work[q].op \in Using /\ work[s].op \in Using => work[q].contest # work[s].contest
        /\ work[q].op = "put" /\ work[s].op = "put" => work[q].files \cap work[s].files = {}

\* What is still as a request about challenges or competitions has read it ...
KnowsContest(l, w) ==
    l = "open" =>
        /\ w.op = "archive" => \A k \in Contest : ~Uses(k, w.chal)
        /\ w.op = "pool" => /\ contest[w.contest].st \in {"none", "draft", "registration"}
                            /\ \A c \in w.chals : status[c] = "published"
        /\ w.op = "start" => /\ contest[w.contest].st = "registration" /\ contest[w.contest].pool # {}
                             /\ contest[w.contest].pool = {c \in Challenge : w.snapshot[c] # 0}
                             /\ \A c \in Challenge : w.snapshot[c] <= revision[c]
\* ... about files ...
KnowsFiles(l, w) ==
    /\ l = "open" /\ w.op = "put" => \A f \in w.files : file[f] = "none" /\ f \in object
    /\ l = "open" /\ w.op = "delete" => \A f \in w.files : file[f] # "none"
    /\ l = "late" => w.op = "delete" /\ \A f \in w.files : file[f] = "deleted"
\* ... and about the path: one that was saved since has other stages.
KnowsPath(l, w) ==
    l = "open" /\ w.op = "publish" /\ w.into =>
        /\ w.gen <= path[Foundation].gen
        /\ w.gen = path[Foundation].gen => path[Foundation].managed

\* The bound on the revisions.
KnowsRevision(l, w) == l = "open" /\ w.op = "publish" => revision[w.chal] < MaxVersion

Known == \A r \in Editor : /\ KnowsContest(workAt[r], work[r]) /\ KnowsFiles(workAt[r], work[r])
                           /\ KnowsPath(workAt[r], work[r]) /\ KnowsRevision(workAt[r], work[r])

\* What does not exist has no snapshot.
Fresh == \A k \in Contest : contest[k].st = "none" => \A c \in Challenge : contest[k].snapshot[c] = 0

Inv == ContentTypeOK /\ Excluded /\ Known /\ Fresh /\ ContentSound /\ FilesServed

-----------------------------------------------------------------------------
(* Lemmas.                                                                 *)

LEMMA NoWorkType == ASSUME ContentAssumption PROVE NoWork \in Work
<1>1. (CHOOSE c \in Challenge : TRUE) \in Challenge /\ (CHOOSE k \in Contest : TRUE) \in Contest
  BY DEF ContentAssumption
<1>2. NoSnapshot \in [Challenge -> 0..MaxVersion] /\ Foundation \in Path /\ 0 \in 0..MaxVersion
  BY DEF ContentAssumption, NoSnapshot
<1> QED BY <1>1, <1>2 DEF NoWork, Work

LEMMA WorkFields ==
    ASSUME NEW w \in Work
    PROVE  /\ w.chal \in Challenge /\ w.chals \in SUBSET Challenge /\ w.contest \in Contest
           /\ w.snapshot \in [Challenge -> 0..MaxVersion] /\ w.files \in SUBSET File
           /\ w.gen \in 0..MaxVersion /\ w.path \in Path
           /\ w.st \in {"none", "draft", "published", "archived"} /\ w.into \in BOOLEAN
BY DEF Work

\* What the requests know is about the rows it names: it stays while they do, while
\* revisions rise and while objects are added.
LEMMA ContestKept ==
    ASSUME ContentTypeOK, Known, NEW R \in SUBSET Editor, \A q \in R : workAt'[q] = "idle",
           \A q \in Editor \ R : workAt'[q] = workAt[q] /\ work'[q] = work[q],
           UNCHANGED <<status, contest>>, ContentAssumption,
           \A c \in Challenge : revision[c] <= revision'[c] /\ revision'[c] \in Nat
    PROVE  \A q \in Editor : KnowsContest(workAt[q], work[q])'
<1> SUFFICES ASSUME NEW q \in Editor PROVE KnowsContest(workAt[q], work[q])'
  OBVIOUS
<1>1. CASE q \in R
  BY <1>1 DEF KnowsContest
<1>2. CASE q \notin R
  <2> PICK l, w : l = workAt[q] /\ w = work[q]
    OBVIOUS
  <2>1. KnowsContest(l, w) /\ w \in Work /\ l = workAt'[q] /\ w = work'[q]
    BY <1>2 DEF Known, ContentTypeOK, RequestTypeOK
  <2>2. \A c \in Challenge : w.snapshot[c] \in Nat /\ revision[c] \in Nat
    BY <2>1, WorkFields DEF ContentTypeOK, ChallengeTypeOK, ContentAssumption
  <2>3. \A c \in Challenge : w.snapshot[c] <= revision[c] => w.snapshot[c] <= revision'[c]
    BY <2>2
  <2>4. KnowsContest(l, w)'
    BY <2>1, <2>3 DEF KnowsContest, Uses
  <2> QED BY <2>1, <2>4 DEF KnowsContest, Uses
<1> QED BY <1>1, <1>2

LEMMA FilesKept ==
    ASSUME Known, NEW R \in SUBSET Editor, \A q \in R : workAt'[q] = "idle",
           \A q \in Editor \ R : workAt'[q] = workAt[q] /\ work'[q] = work[q],
           UNCHANGED file, object \subseteq object'
    PROVE  \A q \in Editor : KnowsFiles(workAt[q], work[q])'
BY DEF Known, KnowsFiles

LEMMA PathKept ==
    ASSUME Known, NEW R \in SUBSET Editor, \A q \in R : workAt'[q] = "idle",
           \A q \in Editor \ R : workAt'[q] = workAt[q] /\ work'[q] = work[q],
           path'[Foundation].gen = path[Foundation].gen,
           path'[Foundation].managed = path[Foundation].managed
    PROVE  \A q \in Editor : KnowsPath(workAt[q], work[q])'
BY DEF Known, KnowsPath

LEMMA RevisionKept ==
    ASSUME Known, NEW R \in SUBSET Editor, \A q \in R : workAt'[q] = "idle",
           \A q \in Editor \ R : workAt'[q] = workAt[q] /\ work'[q] = work[q], UNCHANGED revision
    PROVE  \A q \in Editor : KnowsRevision(workAt[q], work[q])'
BY DEF Known, KnowsRevision

\* A request that ends, or leaves its locks, frees what it excluded.
LEMMA Ending ==
    ASSUME ContentAssumption, RequestTypeOK, Excluded, NEW r \in Editor, Finish(r)
    PROVE  /\ RequestTypeOK' /\ Excluded' /\ workAt'[r] = "idle"
           /\ \A q \in Editor \ {r} : workAt'[q] = workAt[q] /\ work'[q] = work[q]
<1>1. workAt' = [workAt EXCEPT ![r] = "idle"] /\ work' = [work EXCEPT ![r] = NoWork]
  BY DEF Finish
<1>2. workAt \in [Editor -> {"idle", "open", "late"}] /\ work \in [Editor -> Work]
  BY DEF RequestTypeOK
<1>3. workAt'[r] = "idle" /\ \A q \in Editor \ {r} : workAt'[q] = workAt[q] /\ work'[q] = work[q]
  BY <1>1, <1>2
<1>4. RequestTypeOK'
  BY <1>1, <1>2, NoWorkType DEF RequestTypeOK
<1>5. Excluded'
  BY <1>3 DEF Excluded
<1> QED BY <1>3, <1>4, <1>5

\* Nobody else has what w locks.
Admitted(r, w) ==
    \A s \in Editor \ {r} : workAt[s] = "open" =>
        /\ w.op \in Changing /\ work[s].op \in Changing => w.chal # work[s].chal
        /\ w.op \in Changing /\ work[s].op = "pool" => w.chal \notin work[s].chals
        /\ w.op = "pool" /\ work[s].op \in Changing => work[s].chal \notin w.chals
        /\ w.op \in Using /\ work[s].op \in Using => w.contest # work[s].contest
        /\ w.op = "put" /\ work[s].op = "put" => w.files \cap work[s].files = {}

\* A request that begins knows what it has just read, and disturbs no other.
LEMMA BeginKeeps ==
    ASSUME ContentAssumption, Inv, NEW r \in Editor, NEW w \in Work, Begin(r, w),
           UNCHANGED <<challengeVars, file, pinned, contest, pathVars>>,
           object \subseteq object', object' \subseteq File, Admitted(r, w),
           KnowsContest("open", w), KnowsFiles("open", w)', KnowsPath("open", w),
           KnowsRevision("open", w)
    PROVE  Inv'
<1>1. /\ workAt[r] = "idle" /\ workAt' = [workAt EXCEPT ![r] = "open"] /\ work' = [work EXCEPT ![r] = w]
      /\ UNCHANGED <<status, public, revision, file, pinned, contest, path, enabled>>
  BY DEF Begin, challengeVars, pathVars
<1>2. workAt \in [Editor -> {"idle", "open", "late"}] /\ work \in [Editor -> Work]
  BY DEF Inv, ContentTypeOK, RequestTypeOK
<1>3. /\ workAt'[r] = "open" /\ work'[r] = w
      /\ \A q \in Editor \ {r} : workAt'[q] = workAt[q] /\ work'[q] = work[q]
  BY <1>1, <1>2
<1>4. ContentTypeOK'
  BY <1>1, <1>2 DEF Inv, ContentTypeOK, ChallengeTypeOK, FileTypeOK, UseTypeOK,
     RequestTypeOK
<1>5. Excluded'
  <2> SUFFICES ASSUME NEW q \in Editor, NEW s \in Editor, q # s, workAt'[q] = "open",
     workAt'[s] = "open"
               PROVE  /\ work'[q].op \in Changing /\ work'[s].op \in Changing => work'[q].chal # work'[s].chal
                      /\ work'[q].op \in Changing /\ work'[s].op = "pool" => work'[q].chal \notin work'[s].chals
                      /\ work'[q].op \in Using /\ work'[s].op \in Using => work'[q].contest # work'[s].contest
                      /\ work'[q].op = "put" /\ work'[s].op = "put" => work'[q].files \cap work'[s].files = {}
    BY DEF Excluded
  <2>1. CASE q = r
    BY <1>3, <2>1 DEF Admitted
  <2>2. CASE s = r
    BY <1>3, <2>2 DEF Admitted
  <2>3. CASE q # r /\ s # r
    BY <1>3, <2>3 DEF Inv, Excluded
  <2> QED BY <2>1, <2>2, <2>3
<1>6. ASSUME NEW q \in Editor
      PROVE  /\ KnowsContest(workAt[q], work[q])' /\ KnowsFiles(workAt[q], work[q])' /\ KnowsPath(workAt[q], work[q])'
             /\ KnowsRevision(workAt[q], work[q])'
  <2>1. CASE q = r
    BY <1>1, <1>3, <2>1 DEF KnowsContest, KnowsFiles, KnowsPath, KnowsRevision, Uses
  <2>2. CASE q # r
    <3>1. /\ KnowsContest(workAt[q], work[q]) /\ KnowsFiles(workAt[q], work[q]) /\ KnowsPath(workAt[q], work[q])
          /\ KnowsRevision(workAt[q], work[q]) /\ workAt'[q] = workAt[q] /\ work'[q] = work[q]
      BY <1>3, <2>2 DEF Inv, Known
    <3> QED BY <1>1, <3>1 DEF KnowsContest, KnowsFiles, KnowsPath, KnowsRevision, Uses
  <2> QED BY <2>1, <2>2
<1>7. ContentSound' /\ FilesServed' /\ Fresh'
  BY <1>1 DEF Inv, ContentSound, FilesServed, Fresh
<1> QED BY <1>4, <1>5, <1>6, <1>7 DEF Inv, Known

-----------------------------------------------------------------------------
(* Steps that begin.                                                       *)

LEMMA ContestBegins ==
    ASSUME ContentAssumption, Inv, NEW r \in Editor,
           \/ \E k \in Contest, pool \in SUBSET Challenge : ReplaceChallenges(r, k, pool)
           \/ \E k \in Contest : Start(r, k)
    PROVE  Inv'
<1>1. CASE \E k \in Contest, pool \in SUBSET Challenge : ReplaceChallenges(r, k, pool)
  <2>1. PICK k \in Contest, pool \in SUBSET Challenge : ReplaceChallenges(r, k, pool)
    BY <1>1
  <2> DEFINE w == [NoWork EXCEPT !.op = "pool", !.contest = k, !.chals = pool]
  <2>2. w \in Work /\ w.op = "pool" /\ w.contest = k /\ w.chals = pool
    BY NoWorkType DEF Work
  <2>3. Begin(r, w) /\ ReadOnly
    BY <2>1 DEF ReplaceChallenges
  <2> HIDE DEF w
  <2>4. KnowsContest("open", w) /\ KnowsFiles("open", w)' /\ KnowsPath("open", w) /\ KnowsRevision("open", w)
    BY <2>1, <2>2 DEF KnowsContest, KnowsFiles, KnowsPath, KnowsRevision, ReplaceChallenges
  <2>5. Admitted(r, w)
    BY <2>1, <2>2 DEF Admitted, ReplaceChallenges, Busy, Locked, OpenFor, Changing, Using
  <2> QED BY <2>2, <2>3, <2>4, <2>5, BeginKeeps DEF ReadOnly, fileVars, Inv,
     ContentTypeOK, FileTypeOK
<1>2. CASE \E k \in Contest : Start(r, k)
  <2>1. PICK k \in Contest : Start(r, k)
    BY <1>2
  <2>2. PICK snap : snap = [c \in Challenge |-> IF c \in contest[k].pool THEN revision[c] ELSE 0]
    OBVIOUS
  <2>3. contest[k] \in ContestRow /\ revision \in [Challenge -> 0..MaxVersion] /\ MaxVersion \in Nat
    BY DEF Inv, ContentTypeOK, UseTypeOK, ChallengeTypeOK, ContentAssumption
  <2>4. /\ snap \in [Challenge -> 0..MaxVersion]
        /\ contest[k].pool = {c \in Challenge : snap[c] # 0}
        /\ \A c \in Challenge : snap[c] <= revision[c]
    <3>1. contest[k].pool \in SUBSET Challenge /\ \A c \in contest[k].pool : revision[c] # 0
      BY <2>1, <2>3 DEF Start, ContestRow
    <3>2. \A c \in Challenge : revision[c] \in Nat /\ revision[c] \in 0..MaxVersion /\ 0 \in 0..MaxVersion
      BY <2>3
    <3>3. \A c \in Challenge : snap[c] = IF c \in contest[k].pool THEN revision[c] ELSE 0
      BY <2>2
    <3>4. snap \in [Challenge -> 0..MaxVersion]
      BY <2>2, <3>2
    <3>5. \A c \in Challenge : snap[c] <= revision[c]
      BY <3>2, <3>3
    <3>6. contest[k].pool = {c \in Challenge : snap[c] # 0}
      BY <3>1, <3>3
    <3> QED BY <3>4, <3>5, <3>6
  <2> DEFINE w == [NoWork EXCEPT !.op = "start", !.contest = k, !.snapshot = snap]
  <2>5. w \in Work /\ w.op = "start" /\ w.contest = k /\ w.snapshot = snap
    BY <2>4, NoWorkType DEF Work
  <2>6. Begin(r, w) /\ ReadOnly
    BY <2>1, <2>2 DEF Start
  <2> HIDE DEF w
  <2>7. KnowsContest("open", w) /\ KnowsFiles("open", w)' /\ KnowsPath("open", w) /\ KnowsRevision("open", w)
    BY <2>1, <2>4, <2>5 DEF KnowsContest, KnowsFiles, KnowsPath, KnowsRevision, Start
  <2>8. Admitted(r, w)
    BY <2>1, <2>5 DEF Admitted, Start, Busy, OpenFor, Changing, Using
  <2> QED BY <2>5, <2>6, <2>7, <2>8, BeginKeeps DEF ReadOnly, fileVars, Inv,
     ContentTypeOK, FileTypeOK
<1> QED BY <1>1, <1>2

LEMMA ChallengeBegins ==
    ASSUME ContentAssumption, Inv, NEW r \in Editor, NEW c \in Challenge, Publish(r, c, File) \/ Archive(r, c)
    PROVE  Inv'
<1>0. LeftEmpty(c) \in SUBSET Path /\ path[Foundation] \in PathRow
  BY DEF LeftEmpty, Inv, ContentTypeOK, UseTypeOK, ContentAssumption
<1>1. CASE Publish(r, c, File)
  <2>1. PICK files, into, gen,
     empty : /\ files = {f \in File : file[f] = "active"} /\ into = GoesOn(c)
                                       /\ gen = path[Foundation].gen /\ empty = LeftEmpty(c)
    OBVIOUS
  <2>2. into \in BOOLEAN /\ gen \in 0..MaxVersion /\ (into => path[Foundation].managed)
    <3>1. public[c] \in BOOLEAN /\ path[Foundation].managed \in BOOLEAN
      BY <1>0 DEF Inv, ContentTypeOK, ChallengeTypeOK, PathRow
    <3>2. into \in BOOLEAN
      BY <2>1, <3>1 DEF GoesOn
    <3> QED BY <1>0, <2>1, <3>2 DEF GoesOn, PathRow
  <2> DEFINE w == [NoWork EXCEPT !.op = "publish", !.chal = c, !.files = files, !.empty = empty,
                                 !.into = into, !.gen = gen]
  <2>3. w \in Work /\ w.op = "publish" /\ w.chal = c /\ w.into = into /\ w.gen = gen
    <3>1. files \in SUBSET File /\ empty \in SUBSET Path
      BY <1>0, <2>1
    <3> QED BY <2>2, <3>1, NoWorkType DEF Work
  <2>4. Begin(r, w) /\ ReadOnly
    BY <1>1, <2>1 DEF Publish
  <2> HIDE DEF w
  <2>5. KnowsContest("open", w) /\ KnowsFiles("open", w)'
    BY <2>3 DEF KnowsContest, KnowsFiles
  <2>6. KnowsPath("open", w) /\ KnowsRevision("open", w)
    BY <1>1, <2>1, <2>2, <2>3 DEF KnowsPath, KnowsRevision, Publish, ContentAssumption
  <2>7. Admitted(r, w)
    BY <1>1, <2>3 DEF Admitted, Publish, Exclusive, Locked, Shared, OpenFor, Changing, Using
  <2> QED BY <2>3, <2>4, <2>5, <2>6, <2>7, BeginKeeps DEF ReadOnly, fileVars, Inv,
     ContentTypeOK, FileTypeOK
<1>2. CASE Archive(r, c)
  <2> PICK empty : empty = LeftEmpty(c)
    OBVIOUS
  <2> DEFINE w == [NoWork EXCEPT !.op = "archive", !.chal = c, !.empty = empty]
  <2>1. w \in Work /\ w.op = "archive" /\ w.chal = c
    BY <1>0, NoWorkType DEF Work
  <2>2. Begin(r, w) /\ ReadOnly
    BY <1>2 DEF Archive
  <2> HIDE DEF w
  <2>3. KnowsContest("open", w) /\ KnowsFiles("open", w)' /\ KnowsPath("open", w) /\ KnowsRevision("open", w)
    BY <1>2, <2>1 DEF KnowsContest, KnowsFiles, KnowsPath, KnowsRevision, Archive
  <2>4. Admitted(r, w)
    BY <1>2, <2>1 DEF Admitted, Archive, Exclusive, Locked, Shared, OpenFor, Changing, Using
  <2> QED BY <2>1, <2>2, <2>3, <2>4, BeginKeeps DEF ReadOnly, fileVars, Inv,
     ContentTypeOK, FileTypeOK
<1> QED BY <1>1, <1>2

LEMMA PathBegins ==
    ASSUME ContentAssumption, Inv, NEW r \in Editor, NEW p \in Path,
           PublishPath(r, p) \/ \E items \in SUBSET Challenge : Save(r, p, items)
    PROVE  Inv'
<1>1. CASE PublishPath(r, p)
  <2> DEFINE w == [NoWork EXCEPT !.op = "show", !.path = p]
  <2>1. w \in Work /\ w.op = "show"
    BY NoWorkType DEF Work
  <2>2. Begin(r, w) /\ ReadOnly
    BY <1>1 DEF PublishPath
  <2> HIDE DEF w
  <2>3. /\ KnowsContest("open", w) /\ KnowsFiles("open", w)' /\ KnowsPath("open", w)
        /\ Admitted(r, w) /\ KnowsRevision("open", w)
    BY <2>1 DEF KnowsContest, KnowsFiles, KnowsPath, KnowsRevision, Admitted, Changing,
       Using
  <2> QED BY <2>1, <2>2, <2>3, BeginKeeps DEF ReadOnly, fileVars, Inv, ContentTypeOK,
     FileTypeOK
<1>2. CASE \E items \in SUBSET Challenge : Save(r, p, items)
  <2>1. PICK items \in SUBSET Challenge : Save(r, p, items)
    BY <1>2
  <2>2. PICK new, st : /\ new = (path[p].st = "none")
                       /\ st = IF path[p].st = "published" THEN "published" ELSE "draft"
    OBVIOUS
  <2> DEFINE w == [NoWork EXCEPT !.op = "save", !.path = p, !.chals = items, !.into = new, !.st = st]
  <2>3. w \in Work /\ w.op = "save"
    BY <2>2, NoWorkType DEF Work
  <2>4. Begin(r, w) /\ ReadOnly
    BY <2>1, <2>2 DEF Save
  <2> HIDE DEF w
  <2>5. /\ KnowsContest("open", w) /\ KnowsFiles("open", w)' /\ KnowsPath("open", w)
        /\ Admitted(r, w) /\ KnowsRevision("open", w)
    BY <2>3 DEF KnowsContest, KnowsFiles, KnowsPath, KnowsRevision, Admitted, Changing,
       Using
  <2> QED BY <2>3, <2>4, <2>5, BeginKeeps DEF ReadOnly, fileVars, Inv, ContentTypeOK,
     FileTypeOK
<1> QED BY <1>1, <1>2

LEMMA FileBegins ==
    ASSUME ContentAssumption, Inv, NEW r \in Editor, NEW f \in File, Put(r, f) \/ Delete(r, f)
    PROVE  Inv'
<1>1. CASE Put(r, f)
  <2> DEFINE w == [NoWork EXCEPT !.op = "put", !.files = {f}]
  <2>1. w \in Work /\ w.op = "put" /\ w.files = {f}
    BY NoWorkType DEF Work
  <2>2. /\ Begin(r, w) /\ UNCHANGED <<challengeVars, file, pinned, contest, pathVars>>
        /\ object' = object \cup {f} /\ file[f] = "none" /\ f \notin object
    BY <1>1 DEF Put
  <2> HIDE DEF w
  <2>3. KnowsContest("open", w) /\ KnowsFiles("open", w)' /\ KnowsPath("open", w) /\ KnowsRevision("open", w)
    BY <2>1, <2>2 DEF KnowsContest, KnowsFiles, KnowsPath, KnowsRevision
  <2>4. Admitted(r, w)
    BY <2>1, <2>2 DEF Admitted, Changing, Using, Inv, Known, KnowsFiles
  <2> QED BY <2>1, <2>2, <2>3, <2>4, BeginKeeps DEF Inv, ContentTypeOK, FileTypeOK
<1>2. CASE Delete(r, f)
  <2>1. PICK pins \in BOOLEAN : pins = (f \in pinned)
    <3>1. (f \in pinned) \in BOOLEAN
      OBVIOUS
    <3> QED BY <3>1
  <2> DEFINE w == [NoWork EXCEPT !.op = "delete", !.files = {f}, !.pins = pins]
  <2>2. w \in Work /\ w.op = "delete" /\ w.files = {f}
    BY <2>1, NoWorkType DEF Work
  <2>3. Begin(r, w) /\ ReadOnly /\ file[f] \in {"active", "archived"}
    BY <1>2, <2>1 DEF Delete
  <2> HIDE DEF w
  <2>4. /\ KnowsContest("open", w) /\ KnowsFiles("open", w)' /\ KnowsPath("open", w)
        /\ Admitted(r, w) /\ KnowsRevision("open", w)
    BY <2>2, <2>3 DEF KnowsContest, KnowsFiles, KnowsPath, KnowsRevision, Admitted,
       Changing, Using, ReadOnly, fileVars
  <2> QED BY <2>2, <2>3, <2>4, BeginKeeps DEF ReadOnly, fileVars, Inv, ContentTypeOK,
     FileTypeOK
<1> QED BY <1>1, <1>2

-----------------------------------------------------------------------------
(* Steps that write.                                                       *)

LEMMA RowChanged ==
    ASSUME NEW row \in PathRow, NEW items \in SUBSET Challenge,
           NEW st \in {"none", "draft", "published", "archived"}
    PROVE  /\ [row EXCEPT !.items = items, !.st = st] \in PathRow
           /\ [row EXCEPT !.items = items, !.st = st].gen = row.gen
           /\ [row EXCEPT !.items = items, !.st = st].managed = row.managed
BY DEF PathRow

LEMMA RowRestaged ==
    ASSUME NEW row \in PathRow, NEW st \in {"none", "draft", "published", "archived"}
    PROVE  /\ [row EXCEPT !.st = st] \in PathRow
           /\ [row EXCEPT !.st = st].gen = row.gen /\ [row EXCEPT !.st = st].managed = row.managed
BY DEF PathRow

LEMMA WithoutRow ==
    ASSUME path \in [Path -> PathRow], NEW p \in Path, NEW c \in Challenge, NEW empty
    PROVE  /\ Without(p, c, empty) \in PathRow
           /\ Without(p, c, empty).gen = path[p].gen /\ Without(p, c, empty).managed = path[p].managed
           /\ ~path[p].managed => Without(p, c, empty) = path[p]
<1>1. path[p] \in PathRow /\ path[p].items \ {c} \in SUBSET Challenge
      /\ path[p].st \in {"none", "draft", "published", "archived"}
  BY DEF PathRow
<1>2. PICK st : st = IF p \in empty /\ path[p].st # "archived" THEN "draft" ELSE path[p].st
  OBVIOUS
<1>3. st \in {"none", "draft", "published", "archived"}
  BY <1>1, <1>2
<1>4. CASE path[p].managed
  <2>1. PICK row, items : row = path[p] /\ items = path[p].items \ {c}
    OBVIOUS
  <2>2. Without(p, c, empty) = [row EXCEPT !.items = items, !.st = st]
    BY <1>1, <1>2, <1>4, <2>1 DEF Without
  <2>3. row \in PathRow /\ items \in SUBSET Challenge
    BY <1>1, <2>1
  <2>4. /\ [row EXCEPT !.items = items, !.st = st] \in PathRow
        /\ [row EXCEPT !.items = items, !.st = st].gen = row.gen
        /\ [row EXCEPT !.items = items, !.st = st].managed = row.managed
    BY <1>3, <2>3, RowChanged
  <2> QED BY <1>4, <2>1, <2>2, <2>4
<1>5. CASE ~path[p].managed
  BY <1>1, <1>5 DEF Without
<1> QED BY <1>4, <1>5

LEMMA OntoRow ==
    ASSUME NEW row \in PathRow, NEW c \in Challenge
    PROVE  Onto(row, c) \in PathRow /\ Onto(row, c).gen = row.gen /\ Onto(row, c).managed = row.managed
<1>1. row.items \cup {c} \in SUBSET Challenge /\ row.st \in {"none", "draft", "published",
   "archived"}
  BY DEF PathRow
<1>2. PICK st : st = IF ~row.managed \/ row.st = "archived" THEN row.st ELSE "published"
  OBVIOUS
<1>3. PICK items : items = row.items \cup {c}
  OBVIOUS
<1>4. Onto(row, c) = [row EXCEPT !.items = items, !.st = st]
  BY <1>1, <1>2, <1>3 DEF Onto
<1>5. items \in SUBSET Challenge /\ st \in {"none", "draft", "published", "archived"}
  BY <1>1, <1>2, <1>3
<1>6. /\ [row EXCEPT !.items = items, !.st = st] \in PathRow
      /\ [row EXCEPT !.items = items, !.st = st].gen = row.gen
      /\ [row EXCEPT !.items = items, !.st = st].managed = row.managed
  BY <1>5, RowChanged
<1> QED BY <1>4, <1>6

\* A path of an administrator is one Publish finds with other stages.
LEMMA RowsOf ==
    ASSUME ContentAssumption, Inv, NEW r \in Editor, Published(r)
    PROVE  /\ path' \in [Path -> PathRow]
           /\ \A p \in Path : /\ path'[p].gen = path[p].gen /\ path'[p].managed = path[p].managed
                              /\ ~path[p].managed => path'[p] = path[p]
<1>1. PICK c, empty, into : c = work[r].chal /\ empty = work[r].empty /\ into = work[r].into
  OBVIOUS
<1>2. path \in [Path -> PathRow] /\ c \in Challenge
  BY <1>1, WorkFields DEF Inv, ContentTypeOK, UseTypeOK, RequestTypeOK
<1>3. into => path[Foundation].managed
  BY <1>1 DEF Published, Holds, Inv, Known, KnowsPath
<1>4. path' = [p \in Path |-> IF p = Foundation /\ into THEN Onto(Without(p, c, empty), c) ELSE Without(p, c, empty)]
  BY <1>1 DEF Published, Rows
<1>5. ASSUME NEW p \in Path
      PROVE  /\ path'[p] \in PathRow /\ path'[p].gen = path[p].gen /\ path'[p].managed = path[p].managed
             /\ ~path[p].managed => path'[p] = path[p]
  <2>1. /\ Without(p, c, empty) \in PathRow
        /\ Without(p, c, empty).gen = path[p].gen /\ Without(p, c, empty).managed = path[p].managed
        /\ ~path[p].managed => Without(p, c, empty) = path[p]
    BY <1>2, WithoutRow
  <2>2. CASE p = Foundation /\ into
    BY <1>2, <1>3, <1>4, <2>1, <2>2, OntoRow
  <2>3. CASE ~(p = Foundation /\ into)
    BY <1>4, <2>1, <2>3
  <2> QED BY <2>2, <2>3
<1> QED BY <1>4, <1>5

LEMMA RowsWithout ==
    ASSUME ContentAssumption, Inv, NEW r \in Editor, Archived(r)
    PROVE  /\ path' \in [Path -> PathRow]
           /\ \A p \in Path : /\ path'[p].gen = path[p].gen /\ path'[p].managed = path[p].managed
                              /\ ~path[p].managed => path'[p] = path[p]
<1>1. PICK c, empty : c = work[r].chal /\ empty = work[r].empty
  OBVIOUS
<1>2. path \in [Path -> PathRow] /\ c \in Challenge
  BY <1>1, WorkFields DEF Inv, ContentTypeOK, UseTypeOK, RequestTypeOK
<1>3. path' = [p \in Path |-> Without(p, c, empty)]
  BY <1>1 DEF Archived
<1>4. ASSUME NEW p \in Path
      PROVE  /\ path'[p] \in PathRow /\ path'[p].gen = path[p].gen /\ path'[p].managed = path[p].managed
             /\ ~path[p].managed => path'[p] = path[p]
  <2>1. /\ Without(p, c, empty) \in PathRow
        /\ Without(p, c, empty).gen = path[p].gen /\ Without(p, c, empty).managed = path[p].managed
        /\ ~path[p].managed => Without(p, c, empty) = path[p]
    BY <1>2, WithoutRow
  <2> QED BY <1>3, <2>1
<1> QED BY <1>3, <1>4

LEMMA PublishedKeeps ==
    ASSUME ContentAssumption, Inv, NEW r \in Editor, Published(r)
    PROVE  Inv'
<1>1. PICK c : c = work[r].chal
  OBVIOUS
<1>2. /\ workAt[r] = "open" /\ work[r].op = "publish" /\ Finish(r)
      /\ status' = [status EXCEPT ![c] = "published"] /\ revision' = [revision EXCEPT ![c] = @ + 1]
      /\ pinned' = pinned \cup work[r].files
      /\ UNCHANGED <<public, file, object, contest, enabled>>
  BY <1>1 DEF Published, Holds
<1>3. c \in Challenge /\ work[r].files \in SUBSET File
  BY <1>1, WorkFields DEF Inv, ContentTypeOK, RequestTypeOK
<1>4. /\ path' \in [Path -> PathRow] /\ path'[Foundation].gen = path[Foundation].gen
      /\ path'[Foundation].managed = path[Foundation].managed
  BY RowsOf DEF ContentAssumption
<1>5. /\ RequestTypeOK' /\ Excluded' /\ workAt'[r] = "idle"
      /\ \A q \in Editor \ {r} : workAt'[q] = workAt[q] /\ work'[q] = work[q]
  BY <1>2, Ending DEF Inv, ContentTypeOK
<1>6. revision[c] < MaxVersion
  BY <1>1, <1>2 DEF Inv, Known, KnowsRevision
<1>7. /\ status'[c] = "published" /\ \A d \in Challenge \ {c} : status'[d] = status[d]
      /\ revision'[c] = revision[c] + 1 /\ \A d \in Challenge \ {c} : revision'[d] = revision[d]
      /\ \A d \in Challenge : revision[d] \in Nat
  BY <1>2, <1>3 DEF Inv, ContentTypeOK, ChallengeTypeOK, ContentAssumption
<1>8. ContentTypeOK'
  <2>1. ChallengeTypeOK'
    BY <1>2, <1>3, <1>6 DEF Inv, ContentTypeOK, ChallengeTypeOK, ContentAssumption
  <2> QED BY <1>2, <1>3, <1>4, <1>5, <2>1 DEF Inv, ContentTypeOK, FileTypeOK, UseTypeOK
<1>9. Known'
  <2>1. \A q \in Editor : KnowsFiles(workAt[q], work[q])' /\ KnowsPath(workAt[q], work[q])'
    BY <1>2, <1>4, <1>5, FilesKept, PathKept DEF Inv
  <2>2. ASSUME NEW q \in Editor PROVE KnowsContest(workAt[q], work[q])' /\ KnowsRevision(workAt[q], work[q])'
    <3>1. CASE q = r
      BY <1>5, <3>1 DEF KnowsContest, KnowsRevision
    <3>2. CASE q # r
      <4> PICK l, w : l = workAt[q] /\ w = work[q]
        OBVIOUS
      <4>1. KnowsContest(l, w) /\ KnowsRevision(l, w) /\ w \in Work /\ l = workAt'[q] /\ w = work'[q]
        BY <1>5, <3>2 DEF Inv, Known, ContentTypeOK, RequestTypeOK
      <4>2. \A d \in Challenge :
              w.snapshot[d] \in Nat /\ (w.snapshot[d] <= revision[d] => w.snapshot[d] <= revision'[d])
        BY <1>3, <1>7, <4>1, WorkFields DEF ContentAssumption
      <4>3. l = "open" /\ w.op = "publish" => w.chal # c
        BY <1>1, <1>2, <3>2 DEF Inv, Excluded, Changing
      <4>4. w.chal \in Challenge /\ w.chals \in SUBSET Challenge
        BY <4>1, WorkFields
      <4>5. KnowsContest(l, w)'
        BY <1>2, <1>3, <1>7, <4>1, <4>2, <4>4 DEF KnowsContest, Uses
      <4>6. KnowsRevision(l, w)'
        BY <1>7, <4>1, <4>3, <4>4 DEF KnowsRevision
      <4> QED BY <4>1, <4>5, <4>6 DEF KnowsContest, KnowsRevision, Uses
    <3> QED BY <3>1, <3>2
  <2> QED BY <2>1, <2>2 DEF Known
<1>10. ContentSound' /\ FilesServed' /\ Fresh'
  <2>1. \A k \in Contest : contest[k].pool \in SUBSET Challenge /\ contest[k].snapshot \in [Challenge -> 0..MaxVersion]
    BY DEF Inv, ContentTypeOK, UseTypeOK, ContestRow
  <2>2. \A k \in Contest : contest[k].st \in Active => \A d \in contest[k].pool : status'[d] = "published"
    BY <1>7, <2>1 DEF Inv, ContentSound
  <2>3. \A k \in Contest,
     d \in Challenge : contest[k].snapshot[d] <= revision[d] => contest[k].snapshot[d] <= revision'[d]
    BY <1>3, <1>7, <2>1 DEF ContentAssumption
  <2> QED BY <1>2, <2>2, <2>3 DEF Inv, ContentSound, FilesServed, Fresh
<1> QED BY <1>5, <1>8, <1>9, <1>10 DEF Inv

\* Nobody archives what a competition uses, for nobody has put it into one since.
LEMMA ArchivedKeeps ==
    ASSUME ContentAssumption, Inv, NEW r \in Editor, Archived(r)
    PROVE  Inv'
<1>1. PICK c : c = work[r].chal
  OBVIOUS
<1>2. /\ workAt[r] = "open" /\ work[r].op = "archive" /\ Finish(r)
      /\ status' = [status EXCEPT ![c] = "archived"]
      /\ UNCHANGED <<public, revision, file, object, pinned, contest, enabled>>
  BY <1>1 DEF Archived, Holds, fileVars
<1>3. c \in Challenge
  BY <1>1, WorkFields DEF Inv, ContentTypeOK, RequestTypeOK
<1>4. /\ path' \in [Path -> PathRow] /\ path'[Foundation].gen = path[Foundation].gen
      /\ path'[Foundation].managed = path[Foundation].managed
  BY RowsWithout DEF ContentAssumption
<1>5. /\ RequestTypeOK' /\ Excluded' /\ workAt'[r] = "idle"
      /\ \A q \in Editor \ {r} : workAt'[q] = workAt[q] /\ work'[q] = work[q]
  BY <1>2, Ending DEF Inv, ContentTypeOK
<1>6. \A d \in Challenge \ {c} : status'[d] = status[d]
  BY <1>2, <1>3 DEF Inv, ContentTypeOK, ChallengeTypeOK
<1>7. ContentTypeOK'
  BY <1>2, <1>3, <1>4, <1>5 DEF Inv, ContentTypeOK, ChallengeTypeOK, FileTypeOK, UseTypeOK
<1>8. Known'
  <2>1. \A q \in Editor : /\ KnowsFiles(workAt[q], work[q])' /\ KnowsPath(workAt[q], work[q])'
                          /\ KnowsRevision(workAt[q], work[q])'
    BY <1>2, <1>4, <1>5, FilesKept, PathKept, RevisionKept DEF Inv
  <2>2. ASSUME NEW q \in Editor PROVE KnowsContest(workAt[q], work[q])'
    <3>1. CASE q = r
      BY <1>5, <3>1 DEF KnowsContest
    <3>2. CASE q # r
      <4>1. KnowsContest(workAt[q], work[q]) /\ workAt[q] = workAt'[q] /\ work[q] = work'[q] /\ work[q].chals \in SUBSET Challenge
        BY <1>5, <3>2, WorkFields DEF Inv, Known, ContentTypeOK, RequestTypeOK
      <4>2. workAt[q] = "open" /\ work[q].op = "pool" => c \notin work[q].chals
        BY <1>1, <1>2, <3>2 DEF Inv, Excluded, Changing
      <4> QED BY <1>2, <1>6, <4>1, <4>2 DEF KnowsContest, Uses
    <3> QED BY <3>1, <3>2
  <2> QED BY <2>1, <2>2 DEF Known
<1>9. ContentSound' /\ FilesServed' /\ Fresh'
  <2>1. \A k \in Contest :
          contest[k].pool \in SUBSET Challenge /\ (contest[k].st \in Active => c \notin contest[k].pool)
    BY <1>1, <1>2 DEF Inv, Known, KnowsContest, Uses, ContentTypeOK, UseTypeOK, ContestRow
  <2> QED BY <1>2, <1>6, <2>1 DEF Inv, ContentSound, FilesServed, Fresh
<1> QED BY <1>5, <1>7, <1>8, <1>9 DEF Inv

\* The requests of R end, and no other moves.
Ends(R) ==
    /\ R \in SUBSET Editor /\ \A q \in R : workAt'[q] = "idle"
    /\ \A q \in Editor \ R : workAt'[q] = workAt[q] /\ work'[q] = work[q]

\* What a competition may be, and that no request but those of R knows it otherwise.
GoodRow(row) ==
    /\ row \in ContestRow /\ row.st # "none"
    /\ row.st \in Active => \A c \in row.pool : status[c] = "published"
    /\ row.st \in {"running", "frozen"} => /\ row.pool = {c \in Challenge : row.snapshot[c] # 0}
                                           /\ row.pool # {}
                                           /\ \A c \in Challenge : row.snapshot[c] <= revision[c]
Spared(R, k, row) ==
    \A q \in Editor \ R : workAt[q] = "open" =>
        /\ ~(work[q].op \in Using /\ work[q].contest = k)
        /\ work[q].op = "archive" /\ row.st \in Active =>
               work[q].chal \notin row.pool /\ row.snapshot[work[q].chal] = 0

\* A row of a competition changes: who knows something about another row still does.
LEMMA ContestChanges ==
    ASSUME ContentAssumption, Inv, NEW R, Ends(R), NEW k \in Contest, NEW row,
    GoodRow(row), Spared(R, k, row),
           contest' = [contest EXCEPT ![k] = row],
           UNCHANGED <<status, public, revision, file, object, pinned, path, enabled>>,
           RequestTypeOK', Excluded'
    PROVE  Inv'
<1>0. /\ R \in SUBSET Editor /\ \A q \in R : workAt'[q] = "idle"
      /\ \A q \in Editor \ R : workAt'[q] = workAt[q] /\ work'[q] = work[q]
      /\ row \in ContestRow
  BY DEF Ends, GoodRow
<1>1. UNCHANGED <<status, public, revision, file, object, pinned, path, enabled>>
  OBVIOUS
<1>2. contest'[k] = row /\ \A j \in Contest \ {k} : contest'[j] = contest[j]
  BY DEF Inv, ContentTypeOK, UseTypeOK
<1>3. ContentTypeOK'
  BY <1>0, <1>1 DEF Inv, ContentTypeOK, ChallengeTypeOK, FileTypeOK, UseTypeOK
<1>4. Known'
  <2>1. \A q \in Editor : /\ KnowsFiles(workAt[q], work[q])' /\ KnowsPath(workAt[q], work[q])'
                          /\ KnowsRevision(workAt[q], work[q])'
    BY <1>0, <1>1, FilesKept, PathKept, RevisionKept DEF Inv
  <2>2. ASSUME NEW q \in Editor PROVE KnowsContest(workAt[q], work[q])'
    <3>1. CASE q \in R
      BY <1>0, <3>1 DEF KnowsContest
    <3>2. CASE q \notin R
      <4> PICK l, w : l = workAt[q] /\ w = work[q]
        OBVIOUS
      <4>1. KnowsContest(l, w) /\ w \in Work /\ l = workAt'[q] /\ w = work'[q] /\ w.contest \in Contest
        BY <1>0, <3>2, WorkFields DEF Inv, Known, ContentTypeOK, RequestTypeOK
      <4>2. l = "open" /\ w.op \in Using => contest'[w.contest] = contest[w.contest]
        <5>1. q \in Editor \ R
          BY <3>2
        <5>2. l = "open" /\ w.op \in Using => w.contest # k
          BY <5>1 DEF Spared
        <5> QED BY <1>2, <4>1, <5>2
      <4>3. l = "open" /\ w.op = "archive" => ~Uses(k, w.chal)'
        <5>1. q \in Editor \ R
          BY <3>2
        <5>2. l = "open" /\ w.op = "archive" /\ row.st \in Active =>
                w.chal \notin row.pool /\ row.snapshot[w.chal] = 0
          BY <5>1 DEF Spared
        <5> QED BY <1>2, <5>2 DEF Uses
      <4>4. l = "open" /\ w.op = "archive" => \A j \in Contest \ {k} : ~Uses(j, w.chal)'
        BY <1>2, <4>1 DEF KnowsContest, Uses
      <4>5. KnowsContest(l, w)'
        BY <1>1, <4>1, <4>2, <4>3, <4>4 DEF KnowsContest, Using
      <4> QED BY <4>1, <4>5 DEF KnowsContest, Uses
    <3> QED BY <3>1, <3>2
  <2> QED BY <2>1, <2>2 DEF Known
<1>5. ContentSound' /\ FilesServed' /\ Fresh'
  BY <1>1, <1>2 DEF Inv, ContentSound, FilesServed, Fresh, GoodRow
<1> QED BY <1>3, <1>4, <1>5 DEF Inv

LEMMA ReplacedKeeps ==
    ASSUME ContentAssumption, Inv, NEW r \in Editor, Replaced(r)
    PROVE  Inv'
<1>1. PICK k, pool, st : /\ k = work[r].contest /\ pool = work[r].chals
                         /\ st = IF contest[k].st = "none" THEN "draft" ELSE contest[k].st
  OBVIOUS
<1>2. PICK row : row = [contest[k] EXCEPT !.pool = pool, !.st = st]
  OBVIOUS
<1>3. /\ workAt[r] = "open" /\ work[r].op = "pool" /\ Finish(r)
      /\ UNCHANGED <<challengeVars, fileVars, pathVars>>
  BY DEF Replaced, Holds
<1>4. k \in Contest /\ pool \in SUBSET Challenge /\ contest[k] \in ContestRow /\ contest \in [Contest -> ContestRow]
  BY <1>1, WorkFields DEF Inv, ContentTypeOK, RequestTypeOK, UseTypeOK
<1>5. contest' = [contest EXCEPT ![k] = row]
  BY <1>1, <1>2, <1>4 DEF Replaced, ContestRow
<1>6. contest[k].st \in {"none", "draft",
   "registration"} /\ \A c \in pool : status[c] = "published"
  BY <1>1, <1>3 DEF Inv, Known, KnowsContest
<1>7. /\ row \in ContestRow /\ row.pool = pool /\ row.snapshot = contest[k].snapshot
      /\ row.st \in {"draft", "registration"}
  <2>1. st \in {"draft", "registration"}
    BY <1>1, <1>6
  <2> QED BY <1>2, <1>4, <2>1 DEF ContestRow, Active
<1>8. /\ RequestTypeOK' /\ Excluded' /\ workAt'[r] = "idle"
      /\ \A q \in Editor \ {r} : workAt'[q] = workAt[q] /\ work'[q] = work[q]
  BY <1>3, Ending DEF Inv, ContentTypeOK
<1>9. ASSUME NEW q \in Editor \ {r}, workAt[q] = "open"
      PROVE  /\ ~(work[q].op \in Using /\ work[q].contest = k)
             /\ work[q].op = "archive" => work[q].chal \notin row.pool /\ row.snapshot[work[q].chal] = 0
  <2>1. ~(work[q].op \in Using /\ work[q].contest = k)
    BY <1>1, <1>3, <1>9 DEF Inv, Excluded, Using
  <2>2. work[q].op = "archive" => work[q].chal \notin pool
    BY <1>1, <1>3, <1>9 DEF Inv, Excluded, Changing
  <2>3. work[q].chal \in Challenge
    BY WorkFields DEF Inv, ContentTypeOK, RequestTypeOK
  <2>4. work[q].op = "archive" => contest[k].snapshot[work[q].chal] = 0
    BY <1>4, <1>6, <1>9, <2>3 DEF Inv, Known, KnowsContest, Uses, Fresh, Active
  <2> QED BY <1>7, <2>1, <2>2, <2>4
<1> QED
  <2>1. {r} \in SUBSET Editor /\ \A q \in {r} : workAt'[q] = "idle"
    BY <1>8
  <2>2. row.st \in Active => \A c \in row.pool : status[c] = "published"
    BY <1>6, <1>7
  <2>3. row.st \notin {"running", "frozen"} /\ row.st # "none"
    BY <1>7
  <2>4. Spared({r}, k, row)
    BY <1>9 DEF Spared
  <2>5. GoodRow(row)
    BY <1>7, <2>2, <2>3 DEF GoodRow
  <2>6. Ends({r})
    BY <1>8, <2>1 DEF Ends
  <2>7. UNCHANGED <<status, public, revision, file, object, pinned, path, enabled>>
    BY <1>3 DEF challengeVars, fileVars, pathVars
  <2> QED BY <1>4, <1>5, <1>8, <2>4, <2>5, <2>6, <2>7, ContestChanges

LEMMA StartedKeeps ==
    ASSUME ContentAssumption, Inv, NEW r \in Editor, Started(r)
    PROVE  Inv'
<1>1. PICK k, snap : k = work[r].contest /\ snap = work[r].snapshot
  OBVIOUS
<1>2. PICK row : row = [contest[k] EXCEPT !.st = "running", !.snapshot = snap]
  OBVIOUS
<1>3. /\ workAt[r] = "open" /\ work[r].op = "start" /\ Finish(r)
      /\ UNCHANGED <<challengeVars, fileVars, pathVars>>
  BY DEF Started, Holds
<1>4. /\ k \in Contest /\ snap \in [Challenge -> 0..MaxVersion]
      /\ contest[k] \in ContestRow /\ contest \in [Contest -> ContestRow]
  BY <1>1, WorkFields DEF Inv, ContentTypeOK, RequestTypeOK, UseTypeOK
<1>5. contest' = [contest EXCEPT ![k] = row]
  BY <1>1, <1>2, <1>4 DEF Started, ContestRow
<1>6. /\ contest[k].st = "registration" /\ contest[k].pool # {}
      /\ contest[k].pool = {c \in Challenge : snap[c] # 0} /\ \A c \in Challenge : snap[c] <= revision[c]
  BY <1>1, <1>3 DEF Inv, Known, KnowsContest
<1>7. /\ row \in ContestRow /\ row.pool = contest[k].pool /\ row.snapshot = snap /\ row.st = "running"
  BY <1>2, <1>4 DEF ContestRow, Active
<1>8. /\ RequestTypeOK' /\ Excluded' /\ workAt'[r] = "idle"
      /\ \A q \in Editor \ {r} : workAt'[q] = workAt[q] /\ work'[q] = work[q]
  BY <1>3, Ending DEF Inv, ContentTypeOK
<1>9. ASSUME NEW q \in Editor \ {r}, workAt[q] = "open"
      PROVE  /\ ~(work[q].op \in Using /\ work[q].contest = k)
             /\ work[q].op = "archive" => work[q].chal \notin row.pool /\ row.snapshot[work[q].chal] = 0
  <2>1. ~(work[q].op \in Using /\ work[q].contest = k)
    BY <1>1, <1>3, <1>9 DEF Inv, Excluded, Using
  <2>2. work[q].chal \in Challenge
    BY WorkFields DEF Inv, ContentTypeOK, RequestTypeOK
  <2>3. work[q].op = "archive" => work[q].chal \notin contest[k].pool
    BY <1>4, <1>6, <1>9 DEF Inv, Known, KnowsContest, Uses, Active
  <2> QED BY <1>6, <1>7, <2>1, <2>2, <2>3
<1> QED
  <2>1. {r} \in SUBSET Editor /\ \A q \in {r} : workAt'[q] = "idle"
    BY <1>8
  <2>2. \A c \in row.pool : status[c] = "published"
    BY <1>4, <1>6, <1>7 DEF Inv, ContentSound, Active
  <2>3. /\ row.pool = {c \in Challenge : row.snapshot[c] # 0} /\ row.pool # {} /\ row.st # "none"
        /\ \A c \in Challenge : row.snapshot[c] <= revision[c]
    BY <1>6, <1>7
  <2>4. Spared({r}, k, row)
    BY <1>9 DEF Spared
  <2>5. GoodRow(row)
    BY <1>7, <2>2, <2>3 DEF GoodRow
  <2>6. Ends({r})
    BY <1>8, <2>1 DEF Ends
  <2>7. UNCHANGED <<status, public, revision, file, object, pinned, path, enabled>>
    BY <1>3 DEF challengeVars, fileVars, pathVars
  <2> QED BY <1>4, <1>5, <1>8, <2>4, <2>5, <2>6, <2>7, ContestChanges

LEMMA SetStatusKeeps ==
    ASSUME ContentAssumption, Inv, NEW k \in Contest,
           NEW next \in {"draft", "registration", "frozen", "finished", "archived"},
           SetContestStatus(k, next)
    PROVE  Inv'
<1>1. PICK row : row = [contest[k] EXCEPT !.st = next]
  OBVIOUS
<1>2. /\ contest' = [contest EXCEPT ![k] = row] /\ UNCHANGED <<challengeVars, fileVars, pathVars>>
      /\ workAt' = workAt /\ work' = work
  BY <1>1 DEF SetContestStatus
<1>3. contest[k] \in ContestRow /\ contest[k].pool \in SUBSET Challenge
  BY DEF Inv, ContentTypeOK, UseTypeOK, ContestRow
<1>4. row \in ContestRow /\ row.pool = contest[k].pool /\ row.snapshot = contest[k].snapshot /\ row.st = next
  BY <1>1, <1>3 DEF ContestRow, Active
<1>5. /\ next \in Active => contest[k].st \in Active
      /\ next \in {"running", "frozen"} => contest[k].st \in {"running", "frozen"}
  BY DEF SetContestStatus, Active
<1>6. RequestTypeOK' /\ Excluded'
  BY <1>2 DEF Inv, ContentTypeOK, RequestTypeOK, Excluded
<1>7. ASSUME NEW q \in Editor, workAt[q] = "open"
      PROVE  /\ ~(work[q].op \in Using /\ work[q].contest = k)
             /\ work[q].op = "archive" /\ row.st \in Active =>
                    work[q].chal \notin row.pool /\ row.snapshot[work[q].chal] = 0
  <2>1. ~(work[q].op \in Using /\ work[q].contest = k)
    BY <1>7 DEF SetContestStatus, Busy, OpenFor, Using
  <2>2. work[q].op = "archive" /\ row.st \in Active => ~Uses(k, work[q].chal) /\ contest[k].st \in Active
    BY <1>4, <1>5, <1>7 DEF Inv, Known, KnowsContest
  <2> QED BY <1>4, <2>1, <2>2 DEF Uses
<1>8. row.st \in Active => \A c \in row.pool : status[c] = "published"
  BY <1>4, <1>5 DEF Inv, ContentSound
<1>9. row.st \in {"running",
   "frozen"} => /\ row.pool = {c \in Challenge : row.snapshot[c] # 0}
                                          /\ row.pool # {}
                                          /\ \A c \in Challenge : row.snapshot[c] <= revision[c]
  BY <1>4, <1>5 DEF Inv, ContentSound
<1>10. row.st # "none"
  BY <1>4
<1> QED
  <2>1. {} \in SUBSET Editor /\ (\A q \in {} : workAt'[q] = "idle")
        /\ \A q \in Editor \ {} : workAt'[q] = workAt[q] /\ work'[q] = work[q]
    BY <1>2
  <2>2. Spared({}, k, row)
    BY <1>7 DEF Spared
  <2>3. GoodRow(row)
    BY <1>4, <1>8, <1>9, <1>10 DEF GoodRow
  <2>4. Ends({})
    BY <2>1 DEF Ends
  <2>5. UNCHANGED <<status, public, revision, file, object, pinned, path, enabled>>
    BY <1>2 DEF challengeVars, fileVars, pathVars
  <2> QED BY <1>2, <1>6, <2>2, <2>3, <2>4, <2>5, ContestChanges

\* What is new is in no pool.
LEMMA CreateKeeps ==
    ASSUME ContentAssumption, Inv, NEW c \in Challenge, CreateChallenge(c)
    PROVE  Inv'
<1>1. /\ status[c] = "none" /\ status' = [status EXCEPT ![c] = "draft"]
      /\ UNCHANGED <<public, revision, file, object, pinned, contest, path, enabled, workAt, work>>
  BY DEF CreateChallenge, fileVars, pathVars
<1>2. \A d \in Challenge \ {c} : status'[d] = status[d]
  BY <1>1 DEF Inv, ContentTypeOK, ChallengeTypeOK
<1>3. ContentTypeOK'
  BY <1>1 DEF Inv, ContentTypeOK, ChallengeTypeOK, FileTypeOK, UseTypeOK, RequestTypeOK
<1>4. Excluded' /\ Fresh' /\ FilesServed'
  BY <1>1 DEF Inv, Excluded, Fresh, FilesServed
<1>5. Known'
  <2>1. ASSUME NEW q \in Editor
        PROVE  /\ KnowsContest(workAt[q], work[q]) /\ KnowsFiles(workAt[q], work[q]) /\ KnowsPath(workAt[q], work[q])
               /\ KnowsRevision(workAt[q], work[q]) /\ work[q].chals \in SUBSET Challenge
    BY WorkFields DEF Inv, Known, ContentTypeOK, RequestTypeOK
  <2>2. ASSUME NEW q \in Editor PROVE KnowsContest(workAt[q], work[q])'
    BY <1>1, <1>2, <2>1 DEF KnowsContest, Uses
  <2> QED BY <1>1, <2>1, <2>2 DEF Known, KnowsFiles, KnowsPath, KnowsRevision
<1>6. ContentSound'
  <2>1. \A k \in Contest : contest[k].pool \in SUBSET Challenge
    BY DEF Inv, ContentTypeOK, UseTypeOK, ContestRow
  <2>2. \A k \in Contest : contest[k].st \in Active => \A d \in contest[k].pool : status'[d] = "published"
    BY <1>1, <1>2, <2>1 DEF Inv, ContentSound
  <2> QED BY <1>1, <2>2 DEF Inv, ContentSound
<1> QED BY <1>3, <1>4, <1>5, <1>6 DEF Inv

\* Only rows of paths change, and one that is saved has other stages.
LEMMA PathChanges ==
    ASSUME ContentAssumption, Inv, NEW R, Ends(R), path' \in [Path -> PathRow],
    public' \in [Challenge -> BOOLEAN],
           enabled' \in BOOLEAN, UNCHANGED <<status, revision, file, object, pinned, contest>>,
           \/ path'[Foundation].gen = path[Foundation].gen /\ path'[Foundation].managed = path[Foundation].managed
           \/ path'[Foundation].gen > path[Foundation].gen,
           RequestTypeOK', Excluded'
    PROVE  Inv'
<1>1. /\ R \in SUBSET Editor /\ \A q \in R : workAt'[q] = "idle"
      /\ \A q \in Editor \ R : workAt'[q] = workAt[q] /\ work'[q] = work[q]
  BY DEF Ends
<1>2. ContentTypeOK' /\ ContentSound' /\ Fresh' /\ FilesServed'
  BY DEF Inv, ContentTypeOK, ChallengeTypeOK, FileTypeOK, UseTypeOK, ContentSound, Fresh,
     FilesServed
<1>3. Known'
  <2>1. \A c \in Challenge : revision[c] <= revision'[c] /\ revision'[c] \in Nat
    BY DEF Inv, ContentTypeOK, ChallengeTypeOK, ContentAssumption
  <2>2. \A q \in Editor : /\ KnowsContest(workAt[q], work[q])' /\ KnowsFiles(workAt[q], work[q])'
                          /\ KnowsRevision(workAt[q], work[q])'
    BY <1>1, <2>1, ContestKept, FilesKept, RevisionKept DEF Inv
  <2>3. ASSUME NEW q \in Editor PROVE KnowsPath(workAt[q], work[q])'
    <3>1. CASE q \in R
      BY <1>1, <3>1 DEF KnowsPath
    <3>2. CASE q \notin R
      <4>1. /\ KnowsPath(workAt[q], work[q]) /\ workAt'[q] = workAt[q] /\ work'[q] = work[q]
            /\ work[q].gen \in Nat /\ path[Foundation].gen \in Nat /\ path'[Foundation].gen \in Nat
        BY <1>1, <3>2, WorkFields
           DEF Inv, Known, ContentTypeOK, RequestTypeOK, UseTypeOK, PathRow,
           ContentAssumption
      <4> QED BY <4>1 DEF KnowsPath
    <3> QED BY <3>1, <3>2
  <2> QED BY <2>2, <2>3 DEF Known
<1> QED BY <1>2, <1>3 DEF Inv

LEMMA RequestEnds ==
    ASSUME ContentAssumption, Inv, NEW r \in Editor, Finish(r)
    PROVE  Ends({r}) /\ RequestTypeOK' /\ Excluded'
BY Ending DEF Inv, ContentTypeOK, Ends

LEMMA NoneEnds ==
    ASSUME Inv, UNCHANGED <<workAt, work>>
    PROVE  Ends({}) /\ RequestTypeOK' /\ Excluded'
BY DEF Inv, ContentTypeOK, RequestTypeOK, Excluded, Ends

LEMMA PathsKeep ==
    ASSUME ContentAssumption, Inv,
           \/ \E r \in Editor : Saved(r) \/ PublishedPath(r)
           \/ \E p \in Path : ArchivePath(p)
           \/ ArchiveDirection \/ (\E active \in BOOLEAN : SaveDirection(active))
           \/ \E c \in Challenge, v \in BOOLEAN : UpdateChallenge(c, v)
    PROVE  Inv'
<1>0. /\ path \in [Path -> PathRow] /\ enabled \in BOOLEAN /\ public \in [Challenge -> BOOLEAN]
      /\ Foundation \in Path /\ \A p \in Path : path[p].gen \in Nat /\ MaxVersion \in Nat
  BY DEF Inv, ContentTypeOK, UseTypeOK, ChallengeTypeOK, PathRow, ContentAssumption
<1>1. ASSUME NEW r \in Editor, Saved(r) PROVE Inv'
  <2>1. PICK p, new : /\ p = work[r].path
                      /\ new = [st |-> work[r].st, managed |-> FALSE, gen |-> path[p].gen + 1, items |-> work[r].chals]
    OBVIOUS
  <2>2. /\ Finish(r) /\ path[p].gen < MaxVersion
        /\ UNCHANGED <<status, public, revision, file, object, pinned, contest, enabled>>
    BY <1>1, <2>1 DEF Saved, challengeVars, fileVars
  <2>3. p \in Path /\ work[r].st \in {"none", "draft", "published",
     "archived"} /\ work[r].chals \in SUBSET Challenge
    BY <2>1, WorkFields DEF Inv, ContentTypeOK, RequestTypeOK
  <2>4. path' = [path EXCEPT ![p] = new]
    BY <1>0, <1>1, <2>1, <2>3 DEF Saved
  <2>5. path[p].gen + 1 \in 0..MaxVersion
    BY <1>0, <2>2, <2>3
  <2>6. new \in PathRow /\ new.gen = path[p].gen + 1
    BY <2>1, <2>3, <2>5 DEF PathRow
  <2>7. path' \in [Path -> PathRow]
    BY <1>0, <2>3, <2>4, <2>6
  <2>8. \/ path'[Foundation].gen = path[Foundation].gen /\ path'[Foundation].managed = path[Foundation].managed
        \/ path'[Foundation].gen > path[Foundation].gen
    BY <1>0, <2>3, <2>4, <2>6
  <2> QED BY <1>0, <2>2, <2>7, <2>8, RequestEnds, PathChanges
<1>2. ASSUME NEW r \in Editor, PublishedPath(r) PROVE Inv'
  <2>1. PICK p, new : p = work[r].path /\ new = [path[p] EXCEPT !.st = "published"]
    OBVIOUS
  <2>2. p \in Path
    BY <2>1, WorkFields DEF Inv, ContentTypeOK, RequestTypeOK
  <2>3. /\ Finish(r) /\ path' = [path EXCEPT ![p] = new]
        /\ UNCHANGED <<status, public, revision, file, object, pinned, contest, enabled>>
    BY <1>2, <2>1 DEF PublishedPath, challengeVars, fileVars
  <2>4. new \in PathRow /\ new.gen = path[p].gen /\ new.managed = path[p].managed
    BY <1>0, <2>1, <2>2, RowRestaged
  <2>5. /\ path' \in [Path -> PathRow] /\ path'[Foundation].gen = path[Foundation].gen
        /\ path'[Foundation].managed = path[Foundation].managed
    BY <1>0, <2>2, <2>3, <2>4
  <2> QED BY <1>0, <2>3, <2>5, RequestEnds, PathChanges
<1>3. ASSUME NEW p \in Path, ArchivePath(p) PROVE Inv'
  <2>1. PICK new : new = [path[p] EXCEPT !.st = "archived"]
    OBVIOUS
  <2>2. /\ path' = [path EXCEPT ![p] = new]
        /\ UNCHANGED <<status, public, revision, file, object, pinned, contest, enabled, workAt, work>>
    BY <1>3, <2>1 DEF ArchivePath, challengeVars, fileVars
  <2>3. new \in PathRow /\ new.gen = path[p].gen /\ new.managed = path[p].managed
    BY <1>0, <2>1, RowRestaged
  <2>4. /\ path' \in [Path -> PathRow] /\ path'[Foundation].gen = path[Foundation].gen
        /\ path'[Foundation].managed = path[Foundation].managed
    BY <1>0, <2>2, <2>3
  <2> QED BY <1>0, <2>2, <2>4, NoneEnds, PathChanges
<1>4. ASSUME ArchiveDirection PROVE Inv'
  <2>1. /\ enabled' = FALSE /\ UNCHANGED <<status, public, revision, file, object, pinned, contest, workAt, work>>
        /\ path' = [p \in Path |-> IF path[p].st = "none" THEN path[p] ELSE [path[p] EXCEPT !.st = "archived"]]
    BY <1>4 DEF ArchiveDirection, challengeVars, fileVars
  <2>2. ASSUME NEW p \in Path
        PROVE  path'[p] \in PathRow /\ path'[p].gen = path[p].gen /\ path'[p].managed = path[p].managed
    <3>1. PICK row : row = path[p]
      OBVIOUS
    <3>2. row \in PathRow
      BY <1>0, <3>1
    <3>3. /\ [row EXCEPT !.st = "archived"] \in PathRow
          /\ [row EXCEPT !.st = "archived"].gen = row.gen
          /\ [row EXCEPT !.st = "archived"].managed = row.managed
      BY <3>2, RowRestaged
    <3>4. path'[p] = IF row.st = "none" THEN row ELSE [row EXCEPT !.st = "archived"]
      BY <2>1, <3>1
    <3> QED BY <3>1, <3>2, <3>3, <3>4
  <2>3. path' \in [Path -> PathRow] /\ enabled' \in BOOLEAN /\ public' \in [Challenge -> BOOLEAN]
    BY <1>0, <2>1, <2>2
  <2> QED BY <1>0, <2>1, <2>2, <2>3, NoneEnds, PathChanges
<1>5. ASSUME NEW active \in BOOLEAN, SaveDirection(active) PROVE Inv'
  <2>1. UNCHANGED <<status, public, revision, file, object, pinned, contest, path, workAt, work>> /\ enabled' = active
    BY <1>5 DEF SaveDirection, challengeVars, fileVars
  <2> QED BY <1>0, <2>1, NoneEnds, PathChanges
<1>6. ASSUME NEW c \in Challenge, NEW v \in BOOLEAN, UpdateChallenge(c, v) PROVE Inv'
  <2>1. /\ UNCHANGED <<status, revision, file, object, pinned, contest, path, enabled, workAt, work>>
        /\ public' = [public EXCEPT ![c] = v]
    BY <1>6 DEF UpdateChallenge, fileVars, pathVars
  <2>2. public' \in [Challenge -> BOOLEAN]
    BY <1>0, <2>1
  <2> QED BY <1>0, <2>1, <2>2, NoneEnds, PathChanges
<1> QED BY <1>1, <1>2, <1>3, <1>4, <1>5, <1>6

\* Only files change: the other requests about files know other ones, or ones that are
\* deleted and stay so.
LEMMA FileChanges ==
    ASSUME ContentAssumption, Inv, RequestTypeOK', Excluded', FilesServed', FileTypeOK',
           UNCHANGED <<challengeVars, contest, pathVars>>,
           \A q \in Editor : KnowsFiles(workAt[q], work[q])',
           \A q \in Editor : workAt'[q] \in {"idle", "late"} \/ (workAt'[q] = workAt[q] /\ work'[q] = work[q])
    PROVE  Inv'
<1>1. UNCHANGED <<status, public, revision, contest, path, enabled>>
  BY DEF challengeVars, pathVars
<1>2. ContentTypeOK' /\ ContentSound' /\ Fresh'
  BY <1>1 DEF Inv, ContentTypeOK, ChallengeTypeOK, UseTypeOK, ContentSound, Fresh
<1>3. ASSUME NEW q \in Editor
      PROVE  KnowsContest(workAt[q], work[q])' /\ KnowsPath(workAt[q], work[q])' /\ KnowsRevision(workAt[q], work[q])'
  <2>1. CASE workAt'[q] \in {"idle", "late"}
    BY <2>1 DEF KnowsContest, KnowsPath, KnowsRevision
  <2>2. CASE workAt'[q] = workAt[q] /\ work'[q] = work[q]
    <3>1. KnowsContest(workAt[q], work[q]) /\ KnowsPath(workAt[q], work[q]) /\ KnowsRevision(workAt[q], work[q])
      BY DEF Inv, Known
    <3> QED BY <1>1, <2>2, <3>1 DEF KnowsContest, KnowsPath, KnowsRevision, Uses
  <2> QED BY <2>1, <2>2
<1> QED BY <1>2, <1>3 DEF Inv, Known

LEMMA UploadedKeeps ==
    ASSUME ContentAssumption, Inv, NEW r \in Editor, Uploaded(r)
    PROVE  Inv'
<1>1. PICK fs : fs = work[r].files
  OBVIOUS
<1>2. /\ workAt[r] = "open" /\ work[r].op = "put" /\ Finish(r)
      /\ UNCHANGED <<challengeVars, object, pinned, contest, pathVars>>
      /\ file' = [f \in File |-> IF f \in fs THEN "active" ELSE file[f]]
  BY <1>1 DEF Uploaded, Holds
<1>3. /\ RequestTypeOK' /\ Excluded' /\ workAt'[r] = "idle"
      /\ \A q \in Editor \ {r} : workAt'[q] = workAt[q] /\ work'[q] = work[q]
  BY <1>2, Ending DEF Inv, ContentTypeOK
<1>4. \A f \in fs : file[f] = "none" /\ f \in object
  BY <1>1, <1>2 DEF Inv, Known, KnowsFiles
<1>5. FileTypeOK' /\ FilesServed'
  BY <1>2, <1>4 DEF Inv, ContentTypeOK, FileTypeOK, FilesServed
<1>6. ASSUME NEW q \in Editor PROVE KnowsFiles(workAt[q], work[q])'
  <2>1. CASE q = r
    BY <1>3, <2>1 DEF KnowsFiles
  <2>2. CASE q # r
    <3>1. KnowsFiles(workAt[q], work[q]) /\ workAt'[q] = workAt[q] /\ work'[q] = work[q] /\ work[q].files \in SUBSET File
      BY <1>3, <2>2, WorkFields DEF Inv, Known, ContentTypeOK, RequestTypeOK
    <3>2. workAt[q] = "open" /\ work[q].op = "put" => work[q].files \cap fs = {}
      BY <1>1, <1>2, <2>2 DEF Inv, Excluded
    <3> QED BY <1>2, <1>4, <3>1, <3>2 DEF KnowsFiles
  <2> QED BY <2>1, <2>2
<1> QED BY <1>2, <1>3, <1>5, <1>6, FileChanges

\* The row goes first, and no upload has a row yet.
LEMMA RemovedKeeps ==
    ASSUME ContentAssumption, Inv, NEW r \in Editor, Removed(r)
    PROVE  Inv'
<1>1. PICK fs : fs = work[r].files
  OBVIOUS
<1>2. /\ workAt[r] = "open" /\ work[r].op = "delete" /\ UNCHANGED <<challengeVars, object, pinned, contest, pathVars>>
      /\ file' = [f \in File |-> IF f \notin fs \/ file[f] = "deleted" THEN file[f]
                                ELSE IF work[r].pins THEN "archived" ELSE "deleted"]
      /\ \/ Finish(r)
         \/ ~work[r].pins /\ workAt' = [workAt EXCEPT ![r] = "late"] /\ UNCHANGED work
  BY <1>1 DEF Removed, Holds
<1>3. \A f \in fs : f \in File /\ file[f] \in {"active", "archived", "deleted"}
  BY <1>1, <1>2, WorkFields DEF Inv, Known, KnowsFiles, ContentTypeOK, FileTypeOK,
     RequestTypeOK
<1>4. /\ RequestTypeOK' /\ Excluded' /\ workAt'[r] \in {"idle", "late"}
      /\ \A q \in Editor \ {r} : workAt'[q] = workAt[q] /\ work'[q] = work[q]
      /\ workAt'[r] = "late" => work'[r] = work[r] /\ ~work[r].pins
  <2>1. CASE Finish(r)
    BY <2>1, Ending DEF Inv, ContentTypeOK
  <2>2. CASE ~work[r].pins /\ workAt' = [workAt EXCEPT ![r] = "late"] /\ UNCHANGED work
    <3>1. workAt \in [Editor -> {"idle", "open", "late"}] /\ work \in [Editor -> Work]
      BY DEF Inv, ContentTypeOK, RequestTypeOK
    <3>2. workAt'[r] = "late" /\ \A q \in Editor \ {r} : workAt'[q] = workAt[q]
      BY <2>2, <3>1
    <3>3. Excluded'
      BY <2>2, <3>2 DEF Inv, Excluded
    <3> QED BY <2>2, <3>1, <3>2, <3>3 DEF RequestTypeOK
  <2> QED BY <1>2, <2>1, <2>2
<1>5. FileTypeOK' /\ FilesServed'
  <2>1. ASSUME NEW f \in File PROVE file'[f] \in {"none", "active", "archived", "deleted"}
    BY <1>2 DEF Inv, ContentTypeOK, FileTypeOK
  <2>2. FileTypeOK'
    BY <1>2, <2>1 DEF Inv, ContentTypeOK, FileTypeOK
  <2>3. ASSUME NEW f \in File, file'[f] \in {"active", "archived"} PROVE f \in object'
    BY <1>2, <1>3, <2>3 DEF Inv, FilesServed
  <2> QED BY <2>2, <2>3 DEF FilesServed
<1>6. ASSUME NEW q \in Editor PROVE KnowsFiles(workAt[q], work[q])'
  <2>1. CASE q = r
    BY <1>1, <1>2, <1>3, <1>4, <2>1 DEF KnowsFiles
  <2>2. CASE q # r
    <3>1. KnowsFiles(workAt[q], work[q]) /\ workAt'[q] = workAt[q] /\ work'[q] = work[q] /\ work[q].files \in SUBSET File
      BY <1>4, <2>2, WorkFields DEF Inv, Known, ContentTypeOK, RequestTypeOK
    <3>2. \A f \in File :
            /\ file[f] = "none" => file'[f] = "none"
            /\ file[f] = "deleted" => file'[f] = "deleted"
            /\ file[f] # "none" => file'[f] # "none"
      BY <1>2, <1>3
    <3>3. PICK l, w : l = workAt[q] /\ w = work[q]
      OBVIOUS
    <3>4. object' = object /\ KnowsFiles(l, w) /\ w.files \in SUBSET File
      BY <1>2, <3>1, <3>3
    <3>5. KnowsFiles(l, w)'
      BY <3>2, <3>4 DEF KnowsFiles
    <3> QED BY <3>1, <3>3, <3>5 DEF KnowsFiles
  <2> QED BY <2>1, <2>2
<1> QED BY <1>2, <1>4, <1>5, <1>6, FileChanges

\* An object goes after its row, or before it has one.
LEMMA DroppedKeeps ==
    ASSUME ContentAssumption, Inv, NEW r \in Editor, Dropped(r) \/ FailWork(r)
    PROVE  Inv'
<1>1. PICK fs : fs = work[r].files
  OBVIOUS
<1>2. /\ Finish(r) /\ UNCHANGED <<challengeVars, file, pinned, contest, pathVars>>
      /\ \/ object' = object
         \/ object' = object \ fs /\ (workAt[r] = "late" \/ (workAt[r] # "idle" /\ work[r].op = "put"))
  BY <1>1 DEF Dropped, FailWork
<1>3. /\ RequestTypeOK' /\ Excluded' /\ workAt'[r] = "idle"
      /\ \A q \in Editor \ {r} : workAt'[q] = workAt[q] /\ work'[q] = work[q]
  BY <1>2, Ending DEF Inv, ContentTypeOK
<1>4. workAt[r] = "late" => \A f \in fs : file[f] = "deleted"
  BY <1>1 DEF Inv, Known, KnowsFiles
<1>5. workAt[r] \notin {"idle",
   "late"} /\ work[r].op = "put" => workAt[r] = "open" /\ \A f \in fs : file[f] = "none"
  BY <1>1 DEF Inv, Known, KnowsFiles, ContentTypeOK, RequestTypeOK
<1>6. FileTypeOK' /\ FilesServed'
  BY <1>2, <1>4, <1>5 DEF Inv, ContentTypeOK, FileTypeOK, FilesServed
<1>7. ASSUME NEW q \in Editor PROVE KnowsFiles(workAt[q], work[q])'
  <2>1. CASE q = r
    BY <1>3, <2>1 DEF KnowsFiles
  <2>2. CASE q # r
    <3>1. KnowsFiles(workAt[q], work[q]) /\ workAt'[q] = workAt[q] /\ work'[q] = work[q]
      BY <1>3, <2>2 DEF Inv, Known
    <3>2. workAt[q] = "open" /\ work[q].op = "put" => object' = object \/ work[q].files \cap fs = {}
      BY <1>1, <1>2, <1>4, <1>5, <2>2, <3>1 DEF Inv, Excluded, KnowsFiles
    <3> QED BY <1>2, <3>1, <3>2 DEF KnowsFiles
  <2> QED BY <2>1, <2>2
<1> QED BY <1>2, <1>3, <1>6, <1>7, FileChanges

-----------------------------------------------------------------------------
(* The invariant.                                                          *)

LEMMA InvInit == ASSUME ContentAssumption PROVE ContentInit => Inv
<1> SUFFICES ASSUME ContentInit PROVE Inv
  OBVIOUS
<1>1. NoSnapshot \in [Challenge -> 0..MaxVersion] /\ 0 \in 0..MaxVersion
  BY DEF ContentAssumption, NoSnapshot
<1>2. [st |-> "none", pool |-> {}, snapshot |-> NoSnapshot] \in ContestRow
  BY <1>1 DEF ContestRow
<1>3. [st |-> "none", managed |-> TRUE, gen |-> 0, items |-> {}] \in PathRow
  BY <1>1 DEF PathRow
<1>4. ChallengeTypeOK /\ FileTypeOK
  BY <1>1 DEF ContentInit, ChallengeTypeOK, FileTypeOK
<1>5. UseTypeOK /\ RequestTypeOK
  BY <1>2, <1>3, NoWorkType DEF ContentInit, UseTypeOK, RequestTypeOK
<1>6. Excluded /\ Known /\ Fresh /\ FilesServed
  BY DEF ContentInit, Excluded, Known, KnowsContest, KnowsFiles, KnowsPath, KnowsRevision,
     Fresh, FilesServed,
         NoSnapshot
<1>7. ContentSound
  BY DEF ContentInit, ContentSound, Active
<1> QED BY <1>4, <1>5, <1>6, <1>7 DEF Inv, ContentTypeOK

LEMMA InvStep == ASSUME ContentAssumption PROVE Inv /\ [ContentNext]_contentVars => Inv'
<1> SUFFICES ASSUME Inv, [ContentNext]_contentVars PROVE Inv'
  OBVIOUS
<1>1. CASE UNCHANGED contentVars
  <2>1. UNCHANGED <<status, public, revision, file, object, pinned, contest, path, enabled, workAt, work>>
    BY <1>1 DEF contentVars
  <2>2. path \in [Path -> PathRow] /\ enabled \in BOOLEAN /\ public \in [Challenge -> BOOLEAN]
    BY DEF Inv, ContentTypeOK, UseTypeOK, ChallengeTypeOK
  <2> QED BY <2>1, <2>2, NoneEnds, PathChanges
<1>2. ASSUME NEW c \in Challenge, CreateChallenge(c) \/ \E v \in BOOLEAN : UpdateChallenge(c, v) PROVE Inv'
  BY <1>2, CreateKeeps, PathsKeep
<1>3. ASSUME NEW r \in Editor,
             \/ Published(r) \/ Archived(r) \/ Replaced(r) \/ Started(r) \/ Saved(r)
             \/ PublishedPath(r) \/ Uploaded(r) \/ Removed(r) \/ Dropped(r) \/ FailWork(r)
      PROVE  Inv'
  <2>1. CASE Saved(r) \/ PublishedPath(r)
    BY <2>1, PathsKeep
  <2> QED BY <1>3, <2>1, PublishedKeeps, ArchivedKeeps, ReplacedKeeps, StartedKeeps,
     UploadedKeeps, RemovedKeeps,
             DroppedKeeps
<1>4. ASSUME NEW r \in Editor, NEW c \in Challenge, Publish(r, c, File) \/ Archive(r, c) PROVE Inv'
  BY <1>4, ChallengeBegins
<1>5. ASSUME NEW r \in Editor, NEW k \in Contest,
             Start(r, k) \/ \E pool \in SUBSET Challenge : ReplaceChallenges(r, k, pool)
      PROVE  Inv'
  BY <1>5, ContestBegins
<1>6. ASSUME NEW r \in Editor, NEW p \in Path,
             PublishPath(r, p) \/ \E items \in SUBSET Challenge : Save(r, p, items)
      PROVE  Inv'
  BY <1>6, PathBegins
<1>7. ASSUME NEW r \in Editor, NEW f \in File, Put(r, f) \/ Delete(r, f) PROVE Inv'
  BY <1>7, FileBegins
<1>8. ASSUME NEW k \in Contest, NEW s \in {"draft", "registration", "frozen", "finished",
   "archived"}, SetContestStatus(k, s)
      PROVE  Inv'
  BY <1>8, SetStatusKeeps
<1>9. ASSUME ArchiveDirection \/ (\E p \in Path : ArchivePath(p)) \/ \E active \in BOOLEAN : SaveDirection(active)
      PROVE  Inv'
  BY <1>9, PathsKeep
<1> HIDE DEF Inv
<1> QED BY <1>1, <1>2, <1>3, <1>4, <1>5, <1>6, <1>7, <1>8, <1>9 DEF ContentNext

-----------------------------------------------------------------------------
(* Theorems.                                                               *)

THEOREM Invariance == ASSUME ContentAssumption PROVE ContentSpec => []Inv
<1>1. ContentInit => Inv
  BY InvInit
<1>2. Inv /\ [ContentNext]_contentVars => Inv'
  BY InvStep
<1> QED BY <1>1, <1>2, PTL DEF ContentSpec

\* Competitions offer published challenges, and those that run their whole pool at
\* revisions that exist, whatever is archived, published and configured meanwhile.
THEOREM PoolsArePublished == ASSUME ContentAssumption PROVE ContentSpec => []ContentSound
<1>1. Inv => ContentSound
  BY DEF Inv
<1> QED BY <1>1, Invariance, PTL

\* What is listed or pinned can be read: the object is there before the row and stays
\* until the row is gone.
THEOREM ListedFilesExist == ASSUME ContentAssumption PROVE ContentSpec => []FilesServed
<1>1. Inv => FilesServed
  BY DEF Inv
<1> QED BY <1>1, Invariance, PTL

\* Publishing or archiving a challenge changes no path of an administrator.
THEOREM PathsAreSpared == ASSUME ContentAssumption PROVE ContentSpec => AdminPathsKept
<1>1. Inv /\ [ContentNext]_contentVars => [PathsOfOthersKept]_contentVars
  <2> SUFFICES ASSUME Inv, ContentNext, status' # status \/ revision' # revision,
     NEW p \in Path,
                      path[p].st # "none", ~path[p].managed
               PROVE  path'[p] = path[p]
    BY DEF PathsOfOthersKept
  <2>1. (\E c \in Challenge : CreateChallenge(c)) \/ \E r \in Editor : Published(r) \/ Archived(r)
    BY DEF ContentNext, UpdateChallenge, Publish, Archive, ReplaceChallenges, Replaced,
       Start, Started, SetContestStatus,
           Save, Saved, PublishPath, PublishedPath, ArchivePath, SaveDirection,
           ArchiveDirection, Put, Uploaded,
           Delete, Removed, Dropped, FailWork, ReadOnly, challengeVars
  <2>2. CASE \E c \in Challenge : CreateChallenge(c)
    BY <2>2 DEF CreateChallenge, pathVars
  <2>3. CASE \E r \in Editor : Published(r)
    BY <2>3, RowsOf
  <2>4. CASE \E r \in Editor : Archived(r)
    BY <2>4, RowsWithout
  <2> QED BY <2>1, <2>2, <2>3, <2>4
<1> QED BY <1>1, Invariance, PTL DEF ContentSpec, AdminPathsKept

-----------------------------------------------------------------------------
(* Editions: what is kept, beside what a request knows while it is open.   *)

Uploads == {"create", "version", "avatar"}

\* The versions of an asset are numbered without a gap, and their objects are stored.
Filled(a, k) == \A v \in Version : version[a][v] # NoObject <=> v <= k
VersionsFilled ==
    \A a \in Asset :
      /\ \E k \in 0..MaxEdition : /\ Filled(a, k) /\ asset[a].current <= k
                                  /\ ~AssetExists(a) => k = 0
      /\ AssetExists(a) => asset[a].current >= 1
      /\ \A v \in Version : version[a][v] # NoObject => version[a][v] \in stored
SettingsChained ==
    /\ settings.all = 1..settings.current
    /\ settings.published = {settings.current} \cap Version
OneShown == \A s \in Slot : shown[s] = {} \/ \E b \in Binding : shown[s] = {b}
Reviewed ==
    \A w \in Writeup :
      /\ writeup[w].st \in {"review", "rejected", "published"} => writeup[w].text = writeup[w].submitted
      /\ likes[w] = Cardinality(likers[w])

\* An upload has an object that no version refers to; the numbers below the one it was
\* given are taken; the settings it replaces were the last before its own, unless that
\* number is taken by now; the bindings it replaces are those the slot shows.
Carries(l, e) ==
    l # "idle" => \/ e.op \notin Uploads /\ e.objects = {}
                  \/ e.op \in Uploads /\ \E o \in stored : /\ e.objects = {o}
                                                           /\ \A a \in Asset, v \in Version : version[a][v] # o
Numbered(l, e) ==
    l = "locked" /\ e.op \in {"version", "avatar"} =>
        e.next >= 1 /\ \A v \in Version : v < e.next => version[e.asset][v] # NoObject
Replaces(l, e) ==
    /\ l = "open" /\ e.op = "settings" => /\ e.next \in 1..settings.current + 1
                                          /\ e.versions = {e.next - 1} \cap Version
    /\ l = "locked" /\ e.op = "slot" => e.bindings = shown[e.slot]
KnowsEdit(l, e) == Carries(l, e) /\ Numbered(l, e) /\ Replaces(l, e)

\* Two requests never have the same object, nor two the same slot.
EditsApart ==
    \A q, r \in Client : q # r /\ editAt[q] # "idle" /\ editAt[r] # "idle" =>
      /\ edit[q].objects \cap edit[r].objects = {}
      /\ Has(q, "locked", {"slot"}) /\ Has(r, "locked", {"slot"}) => edit[q].slot # edit[r].slot

EditionsInv ==
    /\ EditionsTypeOK /\ VersionsFilled /\ SettingsChained /\ OneShown /\ Reviewed
    /\ \A r \in Client : KnowsEdit(editAt[r], edit[r])
    /\ EditsApart

-----------------------------------------------------------------------------
(* Requests that begin, end or go on.                                      *)

LEMMA NoEditType == ASSUME EditionsAssumption PROVE NoEdit \in Edit
<1>1. /\ (CHOOSE a \in Asset : TRUE) \in Asset /\ (CHOOSE s \in Slot : TRUE) \in Slot
      /\ (CHOOSE w \in Writeup : TRUE) \in Writeup /\ (CHOOSE t \in Text : TRUE) \in Text
      /\ (CHOOSE u \in User : TRUE) \in User
  BY DEF EditionsAssumption
<1>2. 0 \in 0..MaxEdition + 1
  BY DEF EditionsAssumption
<1> QED BY <1>1, <1>2 DEF NoEdit, Edit

\* A request begins with work that fits what it has just read.
LEMMA EditBegins ==
    ASSUME EditionsInv, NEW r \in Client, NEW l \in {"open", "locked"}, NEW e \in Edit,
           BeginEdit(r, l, e), UNCHANGED <<asset, version, shown, settings, writeupVars>>,
           stored \subseteq stored', stored' \subseteq Object, KnowsEdit(l, e)',
           \A q \in Client \ {r} : editAt[q] # "idle" =>
             /\ e.objects \cap edit[q].objects = {}
             /\ l = "locked" /\ e.op = "slot" /\ Has(q, "locked", {"slot"}) => e.slot # edit[q].slot
    PROVE  EditionsInv'
<1>1. /\ editAt' = [editAt EXCEPT ![r] = l] /\ edit' = [edit EXCEPT ![r] = e]
      /\ UNCHANGED <<asset, version, shown, settings, writeup, likers, likes>>
      /\ editAt \in [Client -> {"idle", "open", "locked"}] /\ edit \in [Client -> Edit]
  BY DEF BeginEdit, writeupVars, EditionsInv, EditionsTypeOK
<1>2. /\ editAt'[r] = l /\ edit'[r] = e
      /\ \A q \in Client \ {r} : editAt'[q] = editAt[q] /\ edit'[q] = edit[q]
  BY <1>1
<1>3. EditionsTypeOK'
  BY <1>1 DEF EditionsInv, EditionsTypeOK
<1>4. VersionsFilled'
  <2> SUFFICES ASSUME NEW a \in Asset
               PROVE  /\ \E k \in 0..MaxEdition : /\ Filled(a, k)' /\ asset'[a].current <= k
                                                  /\ ~AssetExists(a)' => k = 0
                      /\ AssetExists(a)' => asset'[a].current >= 1
                      /\ \A v \in Version : version'[a][v] # NoObject => version'[a][v] \in stored'
    BY DEF VersionsFilled
  <2> QED BY <1>1 DEF EditionsInv, VersionsFilled, Filled, AssetExists
<1>5. SettingsChained' /\ OneShown' /\ Reviewed'
  BY <1>1 DEF EditionsInv, SettingsChained, OneShown, Reviewed
<1>6. ASSUME NEW q \in Client PROVE KnowsEdit(editAt[q], edit[q])'
  <2>1. CASE q = r
    BY <1>2, <2>1 DEF KnowsEdit, Carries, Numbered, Replaces
  <2>2. CASE q # r
    <3>1. KnowsEdit(editAt[q], edit[q]) /\ editAt'[q] = editAt[q] /\ edit'[q] = edit[q]
      BY <1>2, <2>2 DEF EditionsInv
    <3> QED BY <1>1, <3>1 DEF KnowsEdit, Carries, Numbered, Replaces
  <2> QED BY <2>1, <2>2
<1>7. EditsApart'
  BY <1>2 DEF EditsApart, EditionsInv, Has
<1> QED BY <1>3, <1>4, <1>5, <1>6, <1>7 DEF EditionsInv

\* A request ends; the others still know what they did.
LEMMA EditEnds ==
    ASSUME EditionsAssumption, EditionsInv, NEW r \in Client, EditDone(r),
           \A q \in Client \ {r} : editAt[q] # "idle" => KnowsEdit(editAt[q], edit[q])'
    PROVE  /\ \A q \in Client : KnowsEdit(editAt[q], edit[q])'
           /\ EditsApart'
           /\ editAt' \in [Client -> {"idle", "open", "locked"}] /\ edit' \in [Client -> Edit]
<1>1. /\ editAt' = [editAt EXCEPT ![r] = "idle"] /\ edit' = [edit EXCEPT ![r] = NoEdit]
      /\ editAt \in [Client -> {"idle", "open", "locked"}] /\ edit \in [Client -> Edit]
      /\ NoEdit \in Edit
  BY NoEditType DEF EditDone, EditionsInv, EditionsTypeOK
<1>2. /\ editAt'[r] = "idle"
      /\ \A q \in Client \ {r} : editAt'[q] = editAt[q] /\ edit'[q] = edit[q]
  BY <1>1
<1>3. ASSUME NEW q \in Client PROVE KnowsEdit(editAt[q], edit[q])'
  <2>1. CASE editAt'[q] = "idle"
    BY <2>1 DEF KnowsEdit, Carries, Numbered, Replaces
  <2>2. CASE editAt'[q] # "idle"
    BY <1>2, <2>2
  <2> QED BY <2>1, <2>2
<1>4. EditsApart'
  BY <1>2 DEF EditsApart, EditionsInv, Has
<1> QED BY <1>1, <1>3, <1>4

\* An upload whose row is locked gets the next number.
LEMMA LatestIsLast ==
    ASSUME EditionsAssumption, NEW a \in Asset, NEW k \in 0..MaxEdition, Filled(a, k)
    PROVE  Latest(a) = k
<1>1. {v \in Version : version[a][v] # NoObject} = 1..k
  BY DEF Filled, Version, EditionsAssumption
<1> DEFINE S == {0} \cup 1..k
<1>2. S = 0..k
  BY DEF EditionsAssumption
<1>3. k \in S /\ \A y \in S : k >= y
  BY <1>2 DEF EditionsAssumption
<1>4. \A x \in S : (\A y \in S : x >= y) => x = k
  BY <1>2 DEF EditionsAssumption
<1> HIDE DEF S
<1>5. Max(S) = k
  BY <1>3, <1>4 DEF Max
<1> QED BY <1>1, <1>5 DEF Latest, S

LEMMA EditGoesOn ==
    ASSUME EditionsAssumption, EditionsInv, NEW r \in Client, AddVersion(r) \/ UpsertTeamAvatar(r)
    PROVE  EditionsInv'
<1> PICK a : a = edit[r].asset
  OBVIOUS
<1>1. /\ editAt[r] = "open" /\ edit[r].op \in {"version", "avatar"}
      /\ editAt' = [editAt EXCEPT ![r] = "locked"]
      /\ edit' = [edit EXCEPT ![r].next = Latest(a) + 1]
      /\ UNCHANGED <<asset, version, stored, shown, settings, writeup, likers, likes>>
      /\ editAt \in [Client -> {"idle", "open", "locked"}] /\ edit \in [Client -> Edit]
  BY DEF AddVersion, UpsertTeamAvatar, Has, Unchanged, assetVars, writeupVars, EditionsInv, EditionsTypeOK
<1>2. a \in Asset /\ edit[r] \in Edit
  BY <1>1 DEF Edit
<1>3. PICK k \in 0..MaxEdition : Filled(a, k)
  BY <1>2 DEF EditionsInv, VersionsFilled
<1>4. Latest(a) = k
  BY <1>2, <1>3, LatestIsLast
<1>5. k + 1 \in 0..MaxEdition + 1 /\ k + 1 >= 1
  BY DEF EditionsAssumption
<1> DEFINE e == [edit[r] EXCEPT !.next = k + 1]
<1>6. /\ e \in Edit /\ e.next = k + 1 /\ e.op = edit[r].op /\ e.asset = a
      /\ e.objects = edit[r].objects
  BY <1>2, <1>5 DEF Edit
<1>7. edit' = [edit EXCEPT ![r] = e]
  BY <1>1, <1>4
<1> HIDE DEF e
<1>8. /\ editAt'[r] = "locked" /\ edit'[r] = e
      /\ \A q \in Client \ {r} : editAt'[q] = editAt[q] /\ edit'[q] = edit[q]
  BY <1>1, <1>7
<1>9. EditionsTypeOK'
  <2>1. edit' \in [Client -> Edit] /\ editAt' \in [Client -> {"idle", "open", "locked"}]
    BY <1>1, <1>6, <1>7
  <2> QED BY <1>1, <2>1 DEF EditionsInv, EditionsTypeOK
<1>10. VersionsFilled' /\ SettingsChained' /\ OneShown' /\ Reviewed'
  <2>1. VersionsFilled'
    BY <1>1 DEF EditionsInv, VersionsFilled, Filled, AssetExists
  <2>2. SettingsChained' /\ OneShown' /\ Reviewed'
    BY <1>1 DEF EditionsInv, SettingsChained, OneShown, Reviewed
  <2> QED BY <2>1, <2>2
<1>11. ASSUME NEW q \in Client PROVE KnowsEdit(editAt[q], edit[q])'
  <2>1. CASE q = r
    <3>1. Carries(editAt[r], edit[r])
      BY DEF EditionsInv, KnowsEdit
    <3>2. Carries(editAt[q], edit[q])'
      BY <1>1, <1>6, <1>8, <2>1, <3>1 DEF Carries
    <3>3. \A v \in Version : v < k + 1 => version[a][v] # NoObject
      BY <1>3 DEF Filled, Version, EditionsAssumption
    <3>4. Numbered(editAt[q], edit[q])'
      BY <1>1, <1>5, <1>6, <1>8, <2>1, <3>3 DEF Numbered
    <3>5. Replaces(editAt[q], edit[q])'
      BY <1>1, <1>6, <1>8, <2>1 DEF Replaces
    <3> QED BY <3>2, <3>4, <3>5 DEF KnowsEdit
  <2>2. CASE q # r
    <3>1. KnowsEdit(editAt[q], edit[q]) /\ editAt'[q] = editAt[q] /\ edit'[q] = edit[q]
      BY <1>8, <2>2 DEF EditionsInv
    <3> QED BY <1>1, <3>1 DEF KnowsEdit, Carries, Numbered, Replaces
  <2> QED BY <2>1, <2>2
<1>12. EditsApart'
  BY <1>1, <1>6, <1>8 DEF EditsApart, EditionsInv, Has
<1> QED BY <1>9, <1>10, <1>11, <1>12 DEF EditionsInv

-----------------------------------------------------------------------------
(* What the requests and the administrators do.                            *)

\* An object is stored under a key of its own before its row is written.
LEMMA PutKeeps ==
    ASSUME EditionsAssumption, EditionsInv, NEW r \in Client, NEW op \in Uploads, NEW a \in Asset,
           NEW o \in Object, PutObject(r, op, a, o)
    PROVE  EditionsInv'
<1> DEFINE e == [NoEdit EXCEPT !.op = op, !.asset = a, !.objects = {o}]
<1>1. e \in Edit /\ e.op = op /\ e.objects = {o}
  BY NoEditType DEF Edit, Uploads
<1>2. BeginEdit(r, "open", e) /\ UNCHANGED <<asset, version, shown, settings, writeupVars>>
  BY DEF PutObject
<1> HIDE DEF e
<1>3. /\ o \notin stored /\ stored' = stored \cup {o} /\ stored' \subseteq Object
      /\ \A b \in Asset, v \in Version : version'[b][v] # o
  BY <1>2 DEF PutObject, EditionsInv, EditionsTypeOK
<1>4. KnowsEdit("open", e)'
  <2>1. Carries("open", e)'
    BY <1>1, <1>3 DEF Carries
  <2>2. Numbered("open", e)' /\ Replaces("open", e)'
    BY <1>1 DEF Numbered, Replaces, Uploads
  <2> QED BY <2>1, <2>2 DEF KnowsEdit
<1>5. ASSUME NEW q \in Client \ {r}, editAt[q] # "idle" PROVE e.objects \cap edit[q].objects = {}
  <2>1. Carries(editAt[q], edit[q])
    BY DEF EditionsInv, KnowsEdit
  <2>2. edit[q].objects \subseteq stored
    BY <1>5, <2>1 DEF Carries
  <2> QED BY <1>1, <1>3, <2>2
<1> QED BY <1>1, <1>2, <1>3, <1>4, <1>5, EditBegins

\* The row of an upload: the next number, and an object that is stored.
LEMMA InsertKeeps ==
    ASSUME EditionsAssumption, EditionsInv, NEW r \in Client, NEW a \in Asset, NEW v \in Version,
           NEW st \in {"draft", "published"}, editAt[r] # "idle", edit[r].op \in Uploads,
           version[a][v] = NoObject, \A u \in Version : u < v => version[a][u] # NoObject,
           version' = [version EXCEPT ![a][v] = CHOOSE o \in edit[r].objects : TRUE],
           asset' = [asset EXCEPT ![a] = [st |-> st, current |-> v]],
           EditDone(r), UNCHANGED <<stored, shown, settings, writeupVars>>
    PROVE  EditionsInv'
<1>1. PICK o \in stored : edit[r].objects = {o} /\ \A b \in Asset, u \in Version : version[b][u] # o
  BY DEF EditionsInv, KnowsEdit, Carries
<1>2. version' = [version EXCEPT ![a][v] = o]
  BY <1>1
<1>3. /\ version \in [Asset -> [Version -> Object \cup {NoObject}]] /\ o \in Object /\ o # NoObject
      /\ asset \in [Asset -> [st : {"none", "draft", "published", "archived"}, current : 0..MaxEdition]]
      /\ UNCHANGED <<stored, shown, settings, writeup, likers, likes>>
  BY <1>1 DEF EditionsInv, EditionsTypeOK, EditionsAssumption, writeupVars
<1>4. /\ version'[a][v] = o /\ \A u \in Version \ {v} : version'[a][u] = version[a][u]
      /\ \A b \in Asset \ {a} : version'[b] = version[b] /\ asset'[b] = asset[b]
      /\ asset'[a] = [st |-> st, current |-> v]
  BY <1>2, <1>3
<1>5. /\ version' \in [Asset -> [Version -> Object \cup {NoObject}]]
      /\ asset' \in [Asset -> [st : {"none", "draft", "published", "archived"}, current : 0..MaxEdition]]
  <2>1. [version[a] EXCEPT ![v] = o] \in [Version -> Object \cup {NoObject}]
    BY <1>3
  <2>2. v \in 0..MaxEdition /\ [st |-> st, current |-> v] \in
          [st : {"none", "draft", "published", "archived"}, current : 0..MaxEdition]
    BY DEF Version, EditionsAssumption
  <2>3. version' \in [Asset -> [Version -> Object \cup {NoObject}]]
    BY <1>2, <1>3, <2>1
  <2> QED BY <1>3, <2>2, <2>3
<1>6. VersionsFilled'
  <2> SUFFICES ASSUME NEW b \in Asset
               PROVE  /\ \E k \in 0..MaxEdition : /\ Filled(b, k)' /\ asset'[b].current <= k
                                                  /\ ~AssetExists(b)' => k = 0
                      /\ AssetExists(b)' => asset'[b].current >= 1
                      /\ \A u \in Version : version'[b][u] # NoObject => version'[b][u] \in stored'
    BY DEF VersionsFilled
  <2>1. CASE b = a
    <3>1. PICK k \in 0..MaxEdition : Filled(a, k)
      BY DEF EditionsInv, VersionsFilled
    <3>2. v \in Nat /\ v >= 1 /\ v \in 0..MaxEdition /\ v > k /\ k \in Nat
      BY <3>1 DEF Filled, Version, EditionsAssumption
    <3>3. \A u \in Version : u < v => u <= k
      BY <3>1 DEF Filled
    <3>4. \A u \in Version : u \in Nat
      BY DEF Version, EditionsAssumption
    <3>5. \A u \in Version : version'[a][u] # NoObject <=> u <= v
      <4> SUFFICES ASSUME NEW u \in Version PROVE version'[a][u] # NoObject <=> u <= v
        OBVIOUS
      <4>1. CASE u = v
        <5>1. version'[a][u] # NoObject
          BY <1>3, <1>4, <4>1
        <5> QED BY <3>2, <4>1, <5>1
      <4>2. CASE u # v
        <5>1. version'[a][u] # NoObject <=> u <= k
          BY <1>4, <3>1, <4>2 DEF Filled
        <5> QED BY <3>2, <3>3, <3>4, <4>2, <5>1
      <4> QED BY <4>1, <4>2
    <3>6. asset'[a].current = v /\ asset'[a].st # "none"
      BY <1>4
    <3>7. \A u \in Version : version'[a][u] # NoObject => version'[a][u] \in stored'
      BY <1>1, <1>3, <1>4 DEF EditionsInv, VersionsFilled
    <3> QED BY <2>1, <3>2, <3>5, <3>6, <3>7 DEF Filled, AssetExists
  <2>2. CASE b # a
    BY <1>3, <1>4, <2>2 DEF EditionsInv, VersionsFilled, Filled, AssetExists
  <2> QED BY <2>1, <2>2
<1>7. SettingsChained' /\ OneShown' /\ Reviewed'
  BY <1>3 DEF EditionsInv, SettingsChained, OneShown, Reviewed
<1>8. ASSUME NEW q \in Client \ {r}, editAt[q] # "idle" PROVE KnowsEdit(editAt[q], edit[q])'
  <2>1. KnowsEdit(editAt[q], edit[q])
    BY DEF EditionsInv
  <2>2. editAt'[q] = editAt[q] /\ edit'[q] = edit[q]
    BY DEF EditDone, EditionsInv, EditionsTypeOK
  <2>3. edit[q].objects \cap {o} = {}
    BY <1>1, <1>8 DEF EditionsInv, EditsApart
  <2>4. \A p \in stored, b \in Asset, u \in Version : p # o /\ version[b][u] # p => version'[b][u] # p
    BY <1>3, <1>4
  <2>5. Carries(editAt[q], edit[q])'
    BY <1>3, <2>1, <2>2, <2>3, <2>4 DEF KnowsEdit, Carries
  <2>6. \A b \in Asset, u \in Version : version[b][u] # NoObject => version'[b][u] # NoObject
    BY <1>3, <1>4
  <2>7. edit[q].asset \in Asset
    BY DEF EditionsInv, EditionsTypeOK, Edit
  <2>8. Numbered(editAt[q], edit[q])'
    BY <2>1, <2>2, <2>6, <2>7 DEF KnowsEdit, Numbered
  <2>9. Replaces(editAt[q], edit[q])'
    BY <1>3, <2>1, <2>2 DEF KnowsEdit, Replaces
  <2> QED BY <2>5, <2>8, <2>9 DEF KnowsEdit
<1>9. /\ \A q \in Client : KnowsEdit(editAt[q], edit[q])'
      /\ EditsApart'
      /\ editAt' \in [Client -> {"idle", "open", "locked"}] /\ edit' \in [Client -> Edit]
  BY <1>8, EditEnds
<1>10. EditionsTypeOK'
  BY <1>3, <1>5, <1>9 DEF EditionsInv, EditionsTypeOK
<1> QED BY <1>6, <1>7, <1>9, <1>10 DEF EditionsInv

LEMMA UploadKeeps ==
    ASSUME EditionsAssumption, EditionsInv, NEW r \in Client,
           CreateAsset(r) \/ AddedVersion(r) \/ UpsertedTeamAvatar(r)
    PROVE  EditionsInv'
<1> PICK a, v : a = edit[r].asset /\ v = edit[r].next
  OBVIOUS
<1>1. a \in Asset /\ v \in 0..MaxEdition + 1 /\ 1 \in Nat
  BY DEF EditionsInv, EditionsTypeOK, Edit
<1>2. CASE CreateAsset(r)
  <2>1. PICK k \in 0..MaxEdition : Filled(a, k) /\ (~AssetExists(a) => k = 0)
    BY <1>1 DEF EditionsInv, VersionsFilled
  <2>2. 1 \in Version /\ \A u \in Version : ~(u < 1)
    BY DEF Version, EditionsAssumption
  <2>3. version[a][1] = NoObject
    BY <1>1, <1>2, <2>1, <2>2 DEF CreateAsset, Filled
  <2>4. editAt[r] # "idle" /\ edit[r].op \in Uploads
    BY <1>2 DEF CreateAsset, Has, Uploads
  <2> QED BY <1>1, <1>2, <2>2, <2>3, <2>4, InsertKeeps DEF CreateAsset
<1>3. CASE AddedVersion(r) \/ UpsertedTeamAvatar(r)
  <2>1. PICK st \in {"draft", "published"} : Inserted(r, st)
    BY <1>3 DEF AddedVersion, UpsertedTeamAvatar
  <2>2. editAt[r] = "locked" /\ edit[r].op \in {"version", "avatar"}
    BY <1>3 DEF AddedVersion, UpsertedTeamAvatar, Has
  <2>3. v >= 1 /\ \A u \in Version : u < v => version[a][u] # NoObject
    BY <2>2 DEF EditionsInv, KnowsEdit, Numbered
  <2>4. v \in Version
    BY <1>1, <2>1, <2>3 DEF Inserted, Version, EditionsAssumption
  <2> QED BY <1>1, <2>1, <2>2, <2>3, <2>4, InsertKeeps DEF Inserted, Uploads
<1> QED BY <1>2, <1>3

LEMMA AssetKeeps ==
    ASSUME EditionsAssumption, EditionsInv, NEW a \in Asset,
           PublishAsset(a) \/ RollbackAsset(a) \/ ArchiveAsset(a)
    PROVE  EditionsInv'
<1>1. PICK st \in {"published", "archived"}, c \in Int :
        /\ asset' = [asset EXCEPT ![a] = [st |-> st, current |-> c]]
        /\ \/ c = asset[a].current
           \/ c = asset[a].current - 1 /\ asset[a].current > 1
  <2>1. asset[a] = [st |-> asset[a].st, current |-> asset[a].current] /\ asset[a].current \in Int
    BY DEF EditionsInv, EditionsTypeOK, EditionsAssumption
  <2>2. CASE PublishAsset(a) \/ ArchiveAsset(a)
    <3>1. PICK st \in {"published", "archived"} : asset' = [asset EXCEPT ![a].st = st]
      BY <2>2 DEF PublishAsset, ArchiveAsset
    <3>2. [asset[a] EXCEPT !.st = st] = [st |-> st, current |-> asset[a].current]
      BY <2>1
    <3>3. asset' = [asset EXCEPT ![a] = [asset[a] EXCEPT !.st = st]]
      BY <3>1
    <3> PICK c \in Int : c = asset[a].current
      BY <2>1
    <3>4. asset' = [asset EXCEPT ![a] = [st |-> st, current |-> c]]
      BY <3>2, <3>3
    <3> QED BY <3>4
  <2>3. CASE RollbackAsset(a)
    <3> PICK c \in Int : c = asset[a].current - 1
      BY <2>1
    <3>1. asset' = [asset EXCEPT ![a] = [st |-> "published", current |-> c]] /\ asset[a].current > 1
      BY <2>3 DEF RollbackAsset
    <3> QED BY <3>1
  <2> QED BY <2>2, <2>3
<1>2. /\ UNCHANGED <<version, stored, shown, settings, writeup, likers, likes, editAt, edit>>
      /\ AssetExists(a)
  BY DEF PublishAsset, RollbackAsset, ArchiveAsset, writeupVars
<1>3. /\ asset \in [Asset -> [st : {"none", "draft", "published", "archived"}, current : 0..MaxEdition]]
      /\ asset[a].current \in 0..MaxEdition /\ asset[a].current >= 1
  BY <1>2 DEF EditionsInv, EditionsTypeOK, VersionsFilled
<1>4. c \in 0..MaxEdition /\ c >= 1 /\ c <= asset[a].current
  BY <1>1, <1>3 DEF EditionsAssumption
<1>5. /\ asset'[a].st = st /\ asset'[a].current = c
      /\ \A b \in Asset \ {a} : asset'[b] = asset[b]
  BY <1>1, <1>3
<1>6. EditionsTypeOK'
  BY <1>1, <1>2, <1>4 DEF EditionsInv, EditionsTypeOK
<1>7. VersionsFilled'
  <2> SUFFICES ASSUME NEW b \in Asset
               PROVE  /\ \E k \in 0..MaxEdition : /\ Filled(b, k)' /\ asset'[b].current <= k
                                                  /\ ~AssetExists(b)' => k = 0
                      /\ AssetExists(b)' => asset'[b].current >= 1
                      /\ \A u \in Version : version'[b][u] # NoObject => version'[b][u] \in stored'
    BY DEF VersionsFilled
  <2>1. CASE b = a
    <3>1. PICK k \in 0..MaxEdition : Filled(a, k) /\ asset[a].current <= k
      BY DEF EditionsInv, VersionsFilled
    <3>2. c <= k
      BY <1>3, <1>4, <3>1 DEF EditionsAssumption
    <3> QED BY <1>2, <1>4, <1>5, <2>1, <3>1, <3>2 DEF EditionsInv, VersionsFilled, Filled, AssetExists
  <2>2. CASE b # a
    BY <1>2, <1>5, <2>2 DEF EditionsInv, VersionsFilled, Filled, AssetExists
  <2> QED BY <2>1, <2>2
<1>8. SettingsChained' /\ OneShown' /\ Reviewed' /\ EditsApart'
  BY <1>2 DEF EditionsInv, SettingsChained, OneShown, Reviewed, EditsApart, Has
<1>9. ASSUME NEW q \in Client PROVE KnowsEdit(editAt[q], edit[q])'
  BY <1>2 DEF EditionsInv, KnowsEdit, Carries, Numbered, Replaces
<1> QED BY <1>6, <1>7, <1>8, <1>9 DEF EditionsInv

\* The binding of a slot is replaced under the lock of the slot.
LEMMA SlotKeeps ==
    ASSUME EditionsAssumption, EditionsInv, NEW r \in Client, NEW s \in Slot, NEW b \in Binding,
           UpdateSlot(r, s) \/ SavedSlotBinding(r, b)
    PROVE  EditionsInv'
<1>1. CASE UpdateSlot(r, s)
  <2>1. PICK now : now = shown[s]
    OBVIOUS
  <2> DEFINE e == [NoEdit EXCEPT !.op = "slot", !.slot = s, !.bindings = now]
  <2>2. e \in Edit /\ e.op = "slot" /\ e.objects = {} /\ e.slot = s /\ e.bindings = now
    <3>1. now \in SUBSET Binding
      BY <2>1 DEF EditionsInv, EditionsTypeOK
    <3> QED BY <3>1, NoEditType DEF Edit, NoEdit
  <2>3. BeginEdit(r, "locked", e) /\ UNCHANGED <<asset, version, stored, shown, settings, writeupVars>>
    BY <1>1, <2>1 DEF UpdateSlot, Unchanged, assetVars
  <2> HIDE DEF e
  <2>4. KnowsEdit("locked", e)'
    BY <2>1, <2>2, <2>3 DEF KnowsEdit, Carries, Numbered, Replaces, Uploads
  <2>5. \A q \in Client : ~(Has(q, "locked", {"slot"}) /\ edit[q].slot = s)
    BY <1>1 DEF UpdateSlot, SlotFree
  <2>6. stored \subseteq stored' /\ stored' \subseteq Object
    BY <2>3 DEF EditionsInv, EditionsTypeOK
  <2> QED BY <2>2, <2>3, <2>4, <2>5, <2>6, EditBegins
<1>2. CASE SavedSlotBinding(r, b)
  <2>1. PICK z : z = edit[r].slot
    OBVIOUS
  <2>2. z \in Slot /\ edit[r].bindings = shown[z] /\ Has(r, "locked", {"slot"})
    BY <1>2, <2>1 DEF SavedSlotBinding, Has, EditionsInv, EditionsTypeOK, Edit, KnowsEdit, Replaces
  <2>3. /\ shown' = [shown EXCEPT ![z] = {b}] /\ EditDone(r)
        /\ UNCHANGED <<asset, version, stored, settings, writeup, likers, likes>>
    BY <1>2, <2>1, <2>2 DEF SavedSlotBinding, writeupVars
  <2>4. shown \in [Slot -> SUBSET Binding]
    BY DEF EditionsInv, EditionsTypeOK
  <2>5. ASSUME NEW q \in Client \ {r}, editAt[q] # "idle" PROVE KnowsEdit(editAt[q], edit[q])'
    <3>1. KnowsEdit(editAt[q], edit[q])
      BY DEF EditionsInv
    <3>2. editAt'[q] = editAt[q] /\ edit'[q] = edit[q]
      BY <2>3 DEF EditDone, EditionsInv, EditionsTypeOK
    <3>3. Has(q, "locked", {"slot"}) => edit[q].slot # z
      BY <2>1, <2>2, <2>5 DEF EditionsInv, EditsApart, Has
    <3>4. Replaces(editAt[q], edit[q])'
      BY <2>3, <2>4, <3>1, <3>2, <3>3 DEF KnowsEdit, Replaces, Has, EditionsInv, EditionsTypeOK, Edit
    <3> QED BY <2>3, <3>1, <3>2, <3>4 DEF KnowsEdit, Carries, Numbered
  <2>6. /\ \A q \in Client : KnowsEdit(editAt[q], edit[q])'
        /\ EditsApart'
        /\ editAt' \in [Client -> {"idle", "open", "locked"}] /\ edit' \in [Client -> Edit]
    BY <2>3, <2>5, EditEnds
  <2>7. EditionsTypeOK'
    BY <2>3, <2>4, <2>6 DEF EditionsInv, EditionsTypeOK
  <2>8. VersionsFilled' /\ SettingsChained' /\ Reviewed'
    <3>1. VersionsFilled'
      BY <2>3 DEF EditionsInv, VersionsFilled, Filled, AssetExists
    <3> QED BY <2>3, <3>1 DEF EditionsInv, SettingsChained, Reviewed
  <2>9. OneShown'
    BY <2>2, <2>3, <2>4 DEF EditionsInv, OneShown
  <2> QED BY <2>6, <2>7, <2>8, <2>9 DEF EditionsInv
<1> QED BY <1>1, <1>2

\* The settings: whoever was given the next number has also read the last one.
LEMMA SettingsKeep ==
    ASSUME EditionsAssumption, EditionsInv, NEW r \in Client,
           PublishSettings(r) \/ PublishedSettings(r)
    PROVE  EditionsInv'
<1>1. PICK n : n = settings.current
  OBVIOUS
<1>2. /\ n \in 0..MaxEdition /\ settings.all = 1..n /\ settings.published = {n} \cap Version
      /\ settings = [all |-> 1..n, published |-> {n} \cap Version, current |-> n]
  BY <1>1 DEF EditionsInv, EditionsTypeOK, SettingsChained
<1>3. CASE PublishSettings(r)
  <2>1. Max({0} \cup 1..n) = n
    <3> DEFINE S == {0} \cup 1..n
    <3>1. n \in S /\ \A y \in S : n >= y
      BY <1>2 DEF EditionsAssumption
    <3>2. \A x \in S : (\A y \in S : x >= y) => x = n
      BY <1>2 DEF EditionsAssumption
    <3> HIDE DEF S
    <3>3. Max(S) = n
      BY <3>1, <3>2 DEF Max
    <3> QED BY <3>3 DEF S
  <2> DEFINE e == [NoEdit EXCEPT !.op = "settings", !.next = n + 1, !.versions = {n} \cap Version]
  <2>2. e \in Edit /\ e.op = "settings" /\ e.objects = {} /\ e.next = n + 1 /\ e.versions = {n} \cap Version
    <3>1. n + 1 \in 0..MaxEdition + 1 /\ {n} \cap Version \in SUBSET Version
      BY <1>2 DEF EditionsAssumption
    <3> QED BY <3>1, NoEditType DEF Edit, NoEdit
  <2>3. BeginEdit(r, "open", e) /\ UNCHANGED <<asset, version, stored, shown, settings, writeupVars>>
    BY <1>2, <1>3, <2>1 DEF PublishSettings, Unchanged, assetVars
  <2> HIDE DEF e
  <2>4. KnowsEdit("open", e)'
    <3>1. Carries("open", e)' /\ Numbered("open", e)'
      BY <2>2 DEF Carries, Numbered, Uploads
    <3>2. n + 1 \in 1..n + 1 /\ n + 1 - 1 = n
      BY <1>2 DEF EditionsAssumption
    <3>3. Replaces("open", e)'
      <4>1. e.next \in 1..settings'.current + 1
        BY <1>1, <2>2, <2>3, <3>2
      <4>2. e.versions = {e.next - 1} \cap Version
        <5>1. e.next = n + 1 /\ n \in Nat
          BY <1>2, <2>2 DEF EditionsAssumption
        <5>2. e.next - 1 = n
          BY <5>1
        <5> QED BY <2>2, <5>2
      <4> QED BY <4>1, <4>2 DEF Replaces
    <3> QED BY <3>1, <3>3 DEF KnowsEdit
  <2>5. stored \subseteq stored' /\ stored' \subseteq Object
    BY <2>3 DEF EditionsInv, EditionsTypeOK
  <2> QED BY <2>2, <2>3, <2>4, <2>5, EditBegins
<1>4. CASE PublishedSettings(r)
  <2>1. PICK v : v = edit[r].next
    OBVIOUS
  <2>2. /\ editAt[r] = "open" /\ edit[r].op = "settings" /\ v <= MaxEdition /\ v \notin settings.all
        /\ settings' = [all |-> settings.all \cup {v}, current |-> v,
                        published |-> (settings.published \ edit[r].versions) \cup {v}]
        /\ EditDone(r) /\ UNCHANGED <<asset, version, stored, shown, writeup, likers, likes>>
    BY <1>4, <2>1 DEF PublishedSettings, Has, assetVars, writeupVars
  <2>3. v \in 1..n + 1 /\ edit[r].versions = {v - 1} \cap Version
    BY <1>1, <2>1, <2>2 DEF EditionsInv, KnowsEdit, Replaces
  <2>4. v = n + 1
    BY <1>2, <2>2, <2>3 DEF EditionsAssumption
  <2>5. v \in Version /\ v - 1 = n /\ 1..v = 1..n \cup {v} /\ v \in 0..MaxEdition
    BY <1>2, <2>2, <2>4 DEF Version, EditionsAssumption
  <2>6. settings' = [all |-> 1..v, current |-> v, published |-> {v}]
    BY <1>2, <2>2, <2>3, <2>5
  <2>7. 1..v \in SUBSET Version
    BY <1>2, <2>5 DEF Version, EditionsAssumption
  <2>8. SettingsChained'
    BY <2>5, <2>6 DEF SettingsChained
  <2>9. ASSUME NEW q \in Client \ {r}, editAt[q] # "idle" PROVE KnowsEdit(editAt[q], edit[q])'
    <3>1. KnowsEdit(editAt[q], edit[q])
      BY DEF EditionsInv
    <3>2. editAt'[q] = editAt[q] /\ edit'[q] = edit[q]
      BY <2>2 DEF EditDone, EditionsInv, EditionsTypeOK
    <3>3. settings'.current = n + 1 /\ 1..n + 1 \subseteq 1..(n + 1) + 1
      BY <1>2, <2>4, <2>6 DEF EditionsAssumption
    <3>4. Replaces(editAt[q], edit[q])'
      BY <1>1, <2>2, <3>1, <3>2, <3>3 DEF KnowsEdit, Replaces
    <3> QED BY <2>2, <3>1, <3>2, <3>4 DEF KnowsEdit, Carries, Numbered
  <2>10. /\ \A q \in Client : KnowsEdit(editAt[q], edit[q])'
         /\ EditsApart'
         /\ editAt' \in [Client -> {"idle", "open", "locked"}] /\ edit' \in [Client -> Edit]
    BY <2>2, <2>9, EditEnds
  <2>11. EditionsTypeOK'
    BY <2>2, <2>5, <2>6, <2>7, <2>10 DEF EditionsInv, EditionsTypeOK
  <2>12. VersionsFilled' /\ OneShown' /\ Reviewed'
    <3>1. VersionsFilled'
      BY <2>2 DEF EditionsInv, VersionsFilled, Filled, AssetExists
    <3> QED BY <2>2, <3>1 DEF EditionsInv, OneShown, Reviewed
  <2> QED BY <2>8, <2>10, <2>11, <2>12 DEF EditionsInv
<1> QED BY <1>3, <1>4

\* A writeup that is edited is a draft again; a like and its counter change together.
LEMMA WriteupKeeps ==
    ASSUME EditionsAssumption, EditionsInv, NEW w \in Writeup,
           \/ SubmitReview(w)
           \/ \E t \in Text : CreateWriteup(w, t)
           \/ \E verdict \in {"published", "rejected"} : Review(w, verdict)
    PROVE  EditionsInv'
<1>1. /\ UNCHANGED <<asset, version, stored, shown, settings, likers, likes, editAt, edit>>
      /\ writeup \in [Writeup -> [st : {"none", "draft", "review", "rejected", "published"},
                                  text : Text, submitted : Text]]
  BY DEF SubmitReview, CreateWriteup, Review, assetVars, EditionsInv, EditionsTypeOK
<1>2. /\ writeup' \in [Writeup -> [st : {"none", "draft", "review", "rejected", "published"},
                                   text : Text, submitted : Text]]
      /\ \A z \in Writeup \ {w} : writeup'[z] = writeup[z]
      /\ writeup'[w].st \in {"review", "rejected", "published"} => writeup'[w].text = writeup'[w].submitted
  <2>1. CASE SubmitReview(w)
    BY <1>1, <2>1 DEF SubmitReview
  <2>2. CASE \E t \in Text : CreateWriteup(w, t)
    BY <1>1, <2>2 DEF CreateWriteup
  <2>3. CASE \E verdict \in {"published", "rejected"} : Review(w, verdict)
    BY <1>1, <2>3 DEF Review, EditionsInv, Reviewed
  <2> QED BY <2>1, <2>2, <2>3
<1>3. EditionsTypeOK'
  BY <1>1, <1>2 DEF EditionsInv, EditionsTypeOK
<1>4. Reviewed'
  BY <1>1, <1>2 DEF EditionsInv, Reviewed
<1>5. VersionsFilled' /\ SettingsChained' /\ OneShown' /\ EditsApart'
  <2>1. VersionsFilled'
    BY <1>1 DEF EditionsInv, VersionsFilled, Filled, AssetExists
  <2> QED BY <1>1, <2>1 DEF EditionsInv, SettingsChained, OneShown, EditsApart, Has
<1>6. ASSUME NEW q \in Client PROVE KnowsEdit(editAt[q], edit[q])'
  BY <1>1 DEF EditionsInv, KnowsEdit, Carries, Numbered, Replaces
<1> QED BY <1>3, <1>4, <1>5, <1>6 DEF EditionsInv

LEMMA WriteupBegins ==
    ASSUME EditionsAssumption, EditionsInv, NEW r \in Client, NEW w \in Writeup,
           (\E t \in Text : UpdateWriteup(r, w, t)) \/ \E u \in User : ToggleLike(r, w, u)
    PROVE  EditionsInv'
<1>1. PICK e \in Edit : /\ e.op \in {"edit", "like"} /\ e.objects = {}
                        /\ BeginEdit(r, "open", e) /\ Unchanged
  <2>1. CASE \E t \in Text : UpdateWriteup(r, w, t)
    <3>1. PICK t \in Text : UpdateWriteup(r, w, t)
      BY <2>1
    <3> DEFINE e == [NoEdit EXCEPT !.op = "edit", !.writeup = w, !.text = t]
    <3>2. e \in Edit /\ e.op = "edit" /\ e.objects = {}
      BY NoEditType DEF Edit, NoEdit
    <3> QED BY <3>1, <3>2 DEF UpdateWriteup
  <2>2. CASE \E u \in User : ToggleLike(r, w, u)
    <3>1. PICK u \in User : ToggleLike(r, w, u)
      BY <2>2
    <3>2. PICK liked : liked = (u \in likers[w])
      OBVIOUS
    <3> DEFINE e == [NoEdit EXCEPT !.op = "like", !.writeup = w, !.user = u, !.liked = liked]
    <3>3. e \in Edit /\ e.op = "like" /\ e.objects = {}
      <4>1. liked \in BOOLEAN
        BY <3>2
      <4> QED BY <4>1, NoEditType DEF Edit, NoEdit
    <3> QED BY <3>1, <3>2, <3>3 DEF ToggleLike
  <2> QED BY <2>1, <2>2
<1>2. UNCHANGED <<asset, version, stored, shown, settings, writeupVars>>
  BY <1>1 DEF Unchanged, assetVars
<1>3. stored \subseteq stored' /\ stored' \subseteq Object
  BY <1>2 DEF EditionsInv, EditionsTypeOK
<1>4. KnowsEdit("open", e)'
  BY <1>1 DEF KnowsEdit, Carries, Numbered, Replaces, Uploads
<1> QED BY <1>1, <1>2, <1>3, <1>4, EditBegins

\* What a request about a writeup, or one that fails, leaves as it was.
LEMMA WriteupEnds ==
    ASSUME EditionsAssumption, EditionsInv, NEW r \in Client, editAt[r] # "idle", EditDone(r),
           UNCHANGED <<asset, version, shown, settings>>, stored' \subseteq stored,
           \A o \in stored \ stored' : o \in edit[r].objects /\ edit[r].op \in Uploads,
           Reviewed',
           writeup' \in [Writeup -> [st : {"none", "draft", "review", "rejected", "published"},
                                     text : Text, submitted : Text]],
           likers' \in [Writeup -> SUBSET User], likes' \in [Writeup -> 0..Cardinality(User)]
    PROVE  EditionsInv'
<1>1. ASSUME NEW o \in stored \ stored' PROVE \A a \in Asset, v \in Version : version[a][v] # o
  <2>1. Carries(editAt[r], edit[r])
    BY DEF EditionsInv, KnowsEdit
  <2> QED BY <2>1 DEF Carries
<1>2. VersionsFilled'
  <2> SUFFICES ASSUME NEW b \in Asset
               PROVE  /\ \E k \in 0..MaxEdition : /\ Filled(b, k)' /\ asset'[b].current <= k
                                                  /\ ~AssetExists(b)' => k = 0
                      /\ AssetExists(b)' => asset'[b].current >= 1
                      /\ \A u \in Version : version'[b][u] # NoObject => version'[b][u] \in stored'
    BY DEF VersionsFilled
  <2> QED BY <1>1 DEF EditionsInv, VersionsFilled, Filled, AssetExists
<1>3. ASSUME NEW q \in Client \ {r}, editAt[q] # "idle" PROVE KnowsEdit(editAt[q], edit[q])'
  <2>1. KnowsEdit(editAt[q], edit[q])
    BY DEF EditionsInv
  <2>2. editAt'[q] = editAt[q] /\ edit'[q] = edit[q]
    BY DEF EditDone, EditionsInv, EditionsTypeOK
  <2>3. \A o \in edit[q].objects : o \in stored => o \in stored'
    BY <1>3 DEF EditionsInv, EditsApart
  <2>4. Carries(editAt[q], edit[q])'
    BY <1>3, <2>1, <2>2, <2>3 DEF KnowsEdit, Carries
  <2> QED BY <2>1, <2>2, <2>4 DEF KnowsEdit, Numbered, Replaces
<1>4. /\ \A q \in Client : KnowsEdit(editAt[q], edit[q])'
      /\ EditsApart'
      /\ editAt' \in [Client -> {"idle", "open", "locked"}] /\ edit' \in [Client -> Edit]
  BY <1>3, EditEnds
<1>5. EditionsTypeOK' /\ SettingsChained' /\ OneShown'
  BY <1>4 DEF EditionsInv, EditionsTypeOK, SettingsChained, OneShown
<1> QED BY <1>2, <1>4, <1>5 DEF EditionsInv

LEMMA FinishKeeps ==
    ASSUME EditionsAssumption, EditionsInv, NEW r \in Client,
           FailEdit(r) \/ UpdatedWriteup(r) \/ ToggledLike(r)
    PROVE  EditionsInv'
<1>1. /\ writeup \in [Writeup -> [st : {"none", "draft", "review", "rejected", "published"},
                                  text : Text, submitted : Text]]
      /\ likers \in [Writeup -> SUBSET User] /\ likes \in [Writeup -> 0..Cardinality(User)]
      /\ stored \subseteq Object /\ edit[r] \in Edit
  BY DEF EditionsInv, EditionsTypeOK
<1>2. CASE FailEdit(r)
  <2>1. /\ editAt[r] # "idle" /\ EditDone(r) /\ (stored' = stored \/ stored' = stored \ edit[r].objects)
        /\ UNCHANGED <<asset, version, shown, settings, writeup, likers, likes>>
    BY <1>2 DEF FailEdit, writeupVars
  <2>2. Carries(editAt[r], edit[r])
    BY DEF EditionsInv, KnowsEdit
  <2>3. stored' \subseteq stored /\ \A o \in stored \ stored' : o \in edit[r].objects /\ edit[r].op \in Uploads
    BY <2>1, <2>2 DEF Carries
  <2>4. Reviewed'
    BY <2>1 DEF EditionsInv, Reviewed
  <2> QED BY <1>1, <2>1, <2>3, <2>4, WriteupEnds
<1>3. CASE UpdatedWriteup(r)
  <2>1. PICK w, t : w = edit[r].writeup /\ t = edit[r].text
    OBVIOUS
  <2>2. w \in Writeup /\ t \in Text
    BY <1>1, <2>1 DEF Edit
  <2>3. /\ editAt[r] # "idle" /\ EditDone(r)
        /\ writeup' = [writeup EXCEPT ![w].text = t, ![w].st = "draft"]
        /\ UNCHANGED <<asset, version, stored, shown, settings, likers, likes>>
    BY <1>3, <2>1 DEF UpdatedWriteup, Has, assetVars
  <2>4. /\ writeup' \in [Writeup -> [st : {"none", "draft", "review", "rejected", "published"},
                                     text : Text, submitted : Text]]
        /\ writeup'[w].st = "draft" /\ \A z \in Writeup \ {w} : writeup'[z] = writeup[z]
    BY <1>1, <2>2, <2>3
  <2>5. Reviewed'
    BY <2>3, <2>4 DEF EditionsInv, Reviewed
  <2> QED BY <1>1, <2>3, <2>4, <2>5, WriteupEnds
<1>4. CASE ToggledLike(r)
  <2>1. PICK w, u, liked : w = edit[r].writeup /\ u = edit[r].user /\ liked = edit[r].liked
    OBVIOUS
  <2>2. w \in Writeup /\ u \in User /\ liked \in BOOLEAN
    BY <1>1, <2>1 DEF Edit
  <2>3. /\ editAt[r] # "idle" /\ EditDone(r) /\ (liked <=> u \in likers[w])
        /\ likers' = [likers EXCEPT ![w] = IF liked THEN @ \ {u} ELSE @ \cup {u}]
        /\ likes' = [likes EXCEPT ![w] = IF liked THEN Max({@ - 1, 0}) ELSE @ + 1]
        /\ UNCHANGED <<asset, version, stored, shown, settings, writeup>>
    BY <1>4, <2>1 DEF ToggledLike, Has, assetVars
  <2>4. PICK old : old = likers[w]
    OBVIOUS
  <2>5. old \in SUBSET User /\ IsFiniteSet(old) /\ likes[w] = Cardinality(old) /\ Cardinality(old) \in Nat
    BY <1>1, <2>2, <2>4, FS_Subset, FS_CardinalityType DEF EditionsAssumption, EditionsInv, Reviewed
  <2>6. PICK new : new = IF liked THEN old \ {u} ELSE old \cup {u}
    OBVIOUS
  <2>7. likers'[w] = new /\ \A z \in Writeup \ {w} : likers'[z] = likers[z] /\ likes'[z] = likes[z]
    BY <1>1, <2>2, <2>3, <2>4, <2>6
  <2>8. new \in SUBSET User
    BY <2>2, <2>5, <2>6
  <2>9. /\ Cardinality(new) \in 0..Cardinality(User)
        /\ Cardinality(new) = IF liked THEN Cardinality(old) - 1 ELSE Cardinality(old) + 1
    <3>1. Cardinality(User) \in Nat /\ Cardinality(new) \in Nat /\ Cardinality(new) <= Cardinality(User)
      <4>1. IsFiniteSet(User) /\ IsFiniteSet(new) /\ Cardinality(new) <= Cardinality(User)
        BY <2>8, FS_Subset DEF EditionsAssumption
      <4> QED BY <4>1, FS_CardinalityType
    <3>2. CASE liked
      <4>1. u \in old /\ new = old \ {u}
        BY <2>3, <2>4, <2>6, <3>2
      <4>2. Cardinality(old \ {u}) = Cardinality(old) - 1
        BY <2>5, <4>1, FS_RemoveElement
      <4> QED BY <3>1, <3>2, <4>1, <4>2
    <3>3. CASE ~liked
      <4>1. u \notin old /\ new = old \cup {u}
        BY <2>3, <2>4, <2>6, <3>3
      <4>2. Cardinality(old \cup {u}) = Cardinality(old) + 1
        BY <2>5, <4>1, FS_AddElement
      <4> QED BY <3>1, <3>3, <4>1, <4>2
    <3> QED BY <2>2, <3>2, <3>3
  <2>10. likes'[w] = Cardinality(new)
    <3>1. likes'[w] = IF liked THEN Max({likes[w] - 1, 0}) ELSE likes[w] + 1
      BY <1>1, <2>2, <2>3
    <3>2. CASE liked
      <4>1. likes[w] - 1 = Cardinality(new) /\ Cardinality(new) \in Nat
        BY <2>5, <2>9, <3>2
      <4> DEFINE n == Cardinality(new)
      <4>2. n \in {n, 0} /\ \A y \in {n, 0} : n >= y
        BY <4>1
      <4>3. \A x \in {n, 0} : (\A y \in {n, 0} : x >= y) => x = n
        BY <4>1
      <4>4. likes'[w] = Max({n, 0})
        BY <3>1, <3>2, <4>1
      <4> HIDE DEF n
      <4>5. Max({n, 0}) = n
        BY <4>2, <4>3 DEF Max
      <4> QED BY <4>4, <4>5 DEF n
    <3>3. CASE ~liked
      BY <2>5, <2>9, <3>1, <3>3
    <3> QED BY <3>2, <3>3
  <2>11. likers' \in [Writeup -> SUBSET User] /\ likes' \in [Writeup -> 0..Cardinality(User)]
    <3>1. likers' = [likers EXCEPT ![w] = new] /\ likes' = [likes EXCEPT ![w] = Cardinality(new)]
      BY <1>1, <2>2, <2>3, <2>4, <2>6, <2>10
    <3> QED BY <1>1, <2>8, <2>9, <3>1
  <2>12. Reviewed'
    <3> SUFFICES ASSUME NEW z \in Writeup
                 PROVE  /\ writeup'[z].st \in {"review", "rejected", "published"} =>
                             writeup'[z].text = writeup'[z].submitted
                        /\ likes'[z] = Cardinality(likers'[z])
      BY DEF Reviewed
    <3>1. CASE z = w
      BY <2>3, <2>7, <2>10, <3>1 DEF EditionsInv, Reviewed
    <3>2. CASE z # w
      BY <2>3, <2>7, <3>2 DEF EditionsInv, Reviewed
    <3> QED BY <3>1, <3>2
  <2> QED BY <1>1, <2>3, <2>11, <2>12, WriteupEnds
<1> QED BY <1>2, <1>3, <1>4

-----------------------------------------------------------------------------
(* Editions: the invariant and its theorems.                               *)

LEMMA EditionsInvInit == ASSUME EditionsAssumption PROVE EditionsInit => EditionsInv
<1> SUFFICES ASSUME EditionsInit PROVE EditionsInv
  OBVIOUS
<1>1. NoEdit \in Edit /\ 0 \in 0..MaxEdition /\ 1..0 = {} /\ 0 \notin Version
  BY NoEditType DEF EditionsAssumption, Version
<1>2. Cardinality(User) \in Nat /\ Cardinality({}) = 0
  BY FS_CardinalityType, FS_EmptySet DEF EditionsAssumption
<1>3. EditionsTypeOK
  <2>1. NoEdit.text \in Text
    BY <1>1 DEF Edit
  <2>2. 0 \in 0..Cardinality(User)
    BY <1>2
  <2> QED BY <1>1, <2>1, <2>2 DEF EditionsInit, EditionsTypeOK
<1>4. VersionsFilled
  <2> SUFFICES ASSUME NEW a \in Asset
               PROVE  /\ \E k \in 0..MaxEdition : /\ Filled(a, k) /\ asset[a].current <= k
                                                  /\ ~AssetExists(a) => k = 0
                      /\ AssetExists(a) => asset[a].current >= 1
                      /\ \A v \in Version : version[a][v] # NoObject => version[a][v] \in stored
    BY DEF VersionsFilled
  <2>1. /\ asset[a].current = 0 /\ ~AssetExists(a) /\ \A v \in Version : version[a][v] = NoObject
    BY DEF EditionsInit, AssetExists
  <2>2. Filled(a, 0)
    BY <2>1 DEF Filled, Version, EditionsAssumption
  <2> QED BY <1>1, <2>1, <2>2
<1>5. SettingsChained /\ OneShown /\ Reviewed
  <2>1. SettingsChained
    BY <1>1 DEF EditionsInit, SettingsChained
  <2>2. OneShown
    BY DEF EditionsInit, OneShown
  <2>3. Reviewed
    BY <1>2 DEF EditionsInit, Reviewed
  <2> QED BY <2>1, <2>2, <2>3
<1>6. \A r \in Client : KnowsEdit(editAt[r], edit[r])
  BY DEF EditionsInit, KnowsEdit, Carries, Numbered, Replaces
<1>7. EditsApart
  BY DEF EditionsInit, EditsApart
<1> QED BY <1>3, <1>4, <1>5, <1>6, <1>7 DEF EditionsInv

LEMMA EditionsInvStep == ASSUME EditionsAssumption PROVE EditionsInv /\ [EditionsNext]_editionsVars => EditionsInv'
<1> SUFFICES ASSUME EditionsInv, [EditionsNext]_editionsVars PROVE EditionsInv'
  OBVIOUS
<1>1. CASE UNCHANGED editionsVars
  <2>1. UNCHANGED <<asset, version, stored, shown, settings, writeup, likers, likes, editAt, edit>>
    BY <1>1 DEF editionsVars
  <2>2. EditionsTypeOK' /\ SettingsChained' /\ OneShown' /\ Reviewed' /\ EditsApart'
    BY <2>1 DEF EditionsInv, EditionsTypeOK, SettingsChained, OneShown, Reviewed, EditsApart, Has
  <2>3. VersionsFilled'
    BY <2>1 DEF EditionsInv, VersionsFilled, Filled, AssetExists
  <2>4. \A r \in Client : KnowsEdit(editAt[r], edit[r])'
    BY <2>1 DEF EditionsInv, KnowsEdit, Carries, Numbered, Replaces
  <2> QED BY <2>2, <2>3, <2>4 DEF EditionsInv
<1>2. ASSUME NEW r \in Client, AddVersion(r) \/ UpsertTeamAvatar(r) PROVE EditionsInv'
  BY <1>2, EditGoesOn
<1>3. ASSUME NEW r \in Client, CreateAsset(r) \/ AddedVersion(r) \/ UpsertedTeamAvatar(r) PROVE EditionsInv'
  BY <1>3, UploadKeeps
<1>4. ASSUME NEW r \in Client, PublishSettings(r) \/ PublishedSettings(r) PROVE EditionsInv'
  BY <1>4, SettingsKeep
<1>5. ASSUME NEW r \in Client, FailEdit(r) \/ UpdatedWriteup(r) \/ ToggledLike(r) PROVE EditionsInv'
  BY <1>5, FinishKeeps
<1>6. ASSUME NEW r \in Client, NEW s \in Slot, NEW b \in Binding, UpdateSlot(r, s) \/ SavedSlotBinding(r, b)
      PROVE  EditionsInv'
  BY <1>6, SlotKeeps
<1>7. ASSUME NEW r \in Client, NEW op \in {"create", "version", "avatar"}, NEW a \in Asset, NEW o \in Object,
             PutObject(r, op, a, o)
      PROVE  EditionsInv'
  BY <1>7, PutKeeps DEF Uploads
<1>8. ASSUME NEW r \in Client, NEW w \in Writeup,
             (\E t \in Text : UpdateWriteup(r, w, t)) \/ \E u \in User : ToggleLike(r, w, u)
      PROVE  EditionsInv'
  BY <1>8, WriteupBegins
<1>9. ASSUME NEW a \in Asset, PublishAsset(a) \/ RollbackAsset(a) \/ ArchiveAsset(a) PROVE EditionsInv'
  BY <1>9, AssetKeeps
<1>10. ASSUME NEW w \in Writeup,
              \/ SubmitReview(w)
              \/ \E t \in Text : CreateWriteup(w, t)
              \/ \E verdict \in {"published", "rejected"} : Review(w, verdict)
       PROVE  EditionsInv'
  BY <1>10, WriteupKeeps
<1> HIDE DEF EditionsInv
<1> QED BY <1>1, <1>2, <1>3, <1>4, <1>5, <1>6, <1>7, <1>8, <1>9, <1>10 DEF EditionsNext

THEOREM EditionsInvariance == ASSUME EditionsAssumption PROVE EditionsSpec => []EditionsInv
<1>1. EditionsInit => EditionsInv
  BY EditionsInvInit
<1>2. EditionsInv /\ [EditionsNext]_editionsVars => EditionsInv'
  BY EditionsInvStep
<1> QED BY <1>1, <1>2, PTL DEF EditionsSpec

\* An asset shows a version that exists and so do all before it, with objects that can be
\* read (asset/service.go); a slot shows at most one binding; of the settings exactly the
\* last version is published (platformconfig/service.go): however many uploads, rollbacks
\* and publications run at once, fail, or leave an object behind.
THEOREM WhatIsShownExists == ASSUME EditionsAssumption PROVE EditionsSpec => []ShownSound
<1>1. EditionsInv => ShownSound
  <2> SUFFICES ASSUME EditionsInv PROVE ShownSound
    OBVIOUS
  <2>1. ASSUME NEW a \in Asset, AssetExists(a)
        PROVE  asset[a].current >= 1 /\ \A v \in 1..asset[a].current : version[a][v] \in stored
    <3>1. PICK k \in 0..MaxEdition : Filled(a, k) /\ asset[a].current <= k
      BY DEF EditionsInv, VersionsFilled
    <3>2. asset[a].current \in 0..MaxEdition
      BY DEF EditionsInv, EditionsTypeOK
    <3>3. \A v \in 1..asset[a].current : v \in Version /\ v <= k
      BY <3>1, <3>2 DEF Version, EditionsAssumption
    <3> QED BY <2>1, <3>1, <3>3 DEF Filled, EditionsInv, VersionsFilled
  <2>2. ASSUME NEW s \in Slot PROVE Cardinality(shown[s]) <= 1
    <3>1. CASE shown[s] = {}
      <4>1. Cardinality(shown[s]) = 0
        BY <3>1, FS_EmptySet, Zenon
      <4> QED BY <4>1
    <3>2. CASE \E b \in Binding : shown[s] = {b}
      <4>1. PICK b : shown[s] = {b}
        BY <3>2
      <4>2. Cardinality({b}) = 1
        BY FS_Singleton
      <4> QED BY <4>1, <4>2
    <3> QED BY <3>1, <3>2 DEF EditionsInv, OneShown
  <2>3. settings.current = Max({0} \cup settings.all)
    <3>1. PICK n : n = settings.current
      OBVIOUS
    <3>2. n \in Nat /\ settings.all = 1..n
      BY <3>1 DEF EditionsInv, EditionsTypeOK, SettingsChained, EditionsAssumption
    <3> DEFINE S == {0} \cup 1..n
    <3>3. n \in S /\ \A y \in S : n >= y
      BY <3>2
    <3>4. \A x \in S : (\A y \in S : x >= y) => x = n
      BY <3>2
    <3>5. Max({0} \cup settings.all) = Max(S)
      BY <3>2
    <3> HIDE DEF S
    <3>6. Max(S) = n
      BY <3>3, <3>4 DEF Max
    <3> QED BY <3>1, <3>5, <3>6
  <2> QED BY <2>1, <2>2, <2>3 DEF ShownSound, EditionsInv, SettingsChained
<1> QED BY <1>1, EditionsInvariance, PTL

\* What readers see of a writeup is what was submitted for review, also when its author
\* edits it meanwhile (Update makes it a draft again), and its likes are those of the
\* users who like it (writeup/service.go).
THEOREM ReviewedIsShown == ASSUME EditionsAssumption PROVE EditionsSpec => []WriteupsSound
<1>1. EditionsInv => WriteupsSound
  BY DEF EditionsInv, Reviewed, WriteupsSound
<1> QED BY <1>1, EditionsInvariance, PTL
=============================================================================
