------------------------------ MODULE Editions ------------------------------
(***************************************************************************)
(* What is edited in versions and then shown: assets with their objects    *)
(* and the page slots that show them (asset/service.go), the settings of   *)
(* the platform (platformconfig/service.go), and writeups with their       *)
(* review and likes (writeup/service.go).                                  *)
(*                                                                         *)
(* A request reads in one step and writes in a later one, its commit; one  *)
(* that locks the row it reads is a single step.  What is checked inside   *)
(* one request (types, sizes, keys, duplicate content) only makes it fail, *)
(* which it may at any time.                                               *)
(***************************************************************************)
EXTENDS Integers, FiniteSets, FiniteSetsExt

CONSTANTS Asset, Object, NoObject, Slot, Binding, Writeup, Text, User,
          Client,      \* API calls that may be open at once
          MaxEdition   \* bound: versions of an asset and of the settings

EditionsAssumption ==
    /\ MaxEdition \in Nat \ {0} /\ NoObject \notin Object /\ IsFiniteSet(User)
    /\ Asset # {} /\ Slot # {} /\ Writeup # {} /\ Text # {} /\ User # {}

VARIABLES
    asset,      \* assets: status and current_version
    version,    \* asset_versions: the object of every version
    stored,     \* objects in the store
    shown,      \* asset_bindings: those of a slot that are published
    settings,   \* platform_setting_versions and platform_profiles.version
    writeup,    \* writeups: status, text, the text last submitted for review
    likers, likes,   \* writeup_likes and writeups.likes
    editAt, edit     \* requests

assetVars == <<asset, version, stored, shown>>
writeupVars == <<writeup, likers, likes>>
editionsVars == <<asset, version, stored, shown, settings, writeup, likers, likes, editAt, edit>>

Version == 1..MaxEdition
Edit == [op : {"create", "version", "avatar", "slot", "settings", "edit", "like"},
         asset : Asset, objects : SUBSET Object, next : 0..MaxEdition + 1, slot : Slot,
         bindings : SUBSET Binding, versions : SUBSET Version, writeup : Writeup, text : Text,
         user : User, liked : BOOLEAN]
NoEdit == [op |-> "create", asset |-> CHOOSE a \in Asset : TRUE, objects |-> {}, next |-> 0,
           slot |-> CHOOSE s \in Slot : TRUE, bindings |-> {}, versions |-> {},
           writeup |-> CHOOSE w \in Writeup : TRUE, text |-> CHOOSE t \in Text : TRUE,
           user |-> CHOOSE u \in User : TRUE, liked |-> FALSE]

EditionsTypeOK ==
    /\ asset \in [Asset -> [st : {"none", "draft", "published", "archived"}, current : 0..MaxEdition]]
    /\ version \in [Asset -> [Version -> Object \cup {NoObject}]] /\ stored \subseteq Object
    /\ shown \in [Slot -> SUBSET Binding]
    /\ settings \in [all : SUBSET Version, published : SUBSET Version, current : 0..MaxEdition]
    /\ writeup \in [Writeup -> [st : {"none", "draft", "review", "rejected", "published"},
                                text : Text, submitted : Text]]
    /\ likers \in [Writeup -> SUBSET User] /\ likes \in [Writeup -> 0..Cardinality(User)]
    /\ editAt \in [Client -> {"idle", "open", "locked"}] /\ edit \in [Client -> Edit]

EditionsInit ==
    /\ asset = [a \in Asset |-> [st |-> "none", current |-> 0]]
    /\ version = [a \in Asset |-> [v \in Version |-> NoObject]] /\ stored = {}
    /\ shown = [s \in Slot |-> {}]
    /\ settings = [all |-> {}, published |-> {}, current |-> 0]
    /\ writeup = [w \in Writeup |-> [st |-> "none", text |-> NoEdit.text, submitted |-> NoEdit.text]]
    /\ likers = [w \in Writeup |-> {}] /\ likes = [w \in Writeup |-> 0]
    /\ editAt = [r \in Client |-> "idle"] /\ edit = [r \in Client |-> NoEdit]

Has(r, l, ops) == editAt[r] = l /\ edit[r].op \in ops
BeginEdit(r, l, e) ==
    /\ editAt[r] = "idle"
    /\ editAt' = [editAt EXCEPT ![r] = l] /\ edit' = [edit EXCEPT ![r] = e]
EditDone(r) == editAt' = [editAt EXCEPT ![r] = "idle"] /\ edit' = [edit EXCEPT ![r] = NoEdit]
Unchanged == UNCHANGED <<assetVars, settings, writeupVars>>

\* A request fails; an upload then deletes its object, unless the process died.
FailEdit(r) ==
    /\ editAt[r] # "idle"
    /\ UNCHANGED stored \/ stored' = stored \ edit[r].objects
    /\ EditDone(r)
    /\ UNCHANGED <<asset, version, shown, settings, writeupVars>>

-----------------------------------------------------------------------------
(* Assets.  AddVersion locks the asset, the avatar of a team only other    *)
(* uploads of that avatar.                                                 *)

AssetExists(a) == asset[a].st # "none"
Latest(a) == Max({0} \cup {v \in Version : version[a][v] # NoObject})
LockedFor(a, op) == \E q \in Client : Has(q, "locked", {op}) /\ edit[q].asset = a

PutObject(r, op, a, o) ==
    /\ o \notin stored /\ \A b \in Asset, v \in Version : version[b][v] # o
    /\ stored' = stored \cup {o}
    /\ BeginEdit(r, "open", [NoEdit EXCEPT !.op = op, !.asset = a, !.objects = {o}])
    /\ UNCHANGED <<asset, version, shown, settings, writeupVars>>

AddVersion(r) ==
    LET a == edit[r].asset
    IN  /\ Has(r, "open", {"version"}) /\ AssetExists(a) /\ ~LockedFor(a, "version")
        /\ editAt' = [editAt EXCEPT ![r] = "locked"]
        /\ edit' = [edit EXCEPT ![r].next = Latest(a) + 1]
        /\ Unchanged

\* next is 1 for an avatar that does not exist yet.
UpsertTeamAvatar(r) ==
    LET a == edit[r].asset
    IN  /\ Has(r, "open", {"avatar"}) /\ ~LockedFor(a, "avatar")
        /\ editAt' = [editAt EXCEPT ![r] = "locked"]
        /\ edit' = [edit EXCEPT ![r].next = Latest(a) + 1]
        /\ Unchanged

\* The unique indexes refuse a second asset of a key and a second version of a number.
Inserted(r, st) ==
    LET a == edit[r].asset
        v == edit[r].next
    IN  /\ v <= MaxEdition /\ version[a][v] = NoObject   \* bound, and index
        /\ version' = [version EXCEPT ![a][v] = CHOOSE o \in edit[r].objects : TRUE]
        /\ asset' = [asset EXCEPT ![a] = [st |-> st, current |-> v]]
        /\ EditDone(r)
        /\ UNCHANGED <<stored, shown, settings, writeupVars>>

CreateAsset(r) ==
    LET a == edit[r].asset
    IN  /\ Has(r, "open", {"create"}) /\ ~AssetExists(a)
        /\ version' = [version EXCEPT ![a][1] = CHOOSE o \in edit[r].objects : TRUE]
        /\ asset' = [asset EXCEPT ![a] = [st |-> "draft", current |-> 1]]
        /\ EditDone(r)
        /\ UNCHANGED <<stored, shown, settings, writeupVars>>

AddedVersion(r) == Has(r, "locked", {"version"}) /\ Inserted(r, "draft")
UpsertedTeamAvatar(r) ==
    Has(r, "locked", {"avatar"}) /\ ~LockedFor(edit[r].asset, "version") /\ Inserted(r, "published")

PublishAsset(a) ==
    /\ AssetExists(a) /\ ~LockedFor(a, "version")
    /\ asset' = [asset EXCEPT ![a].st = "published"]
    /\ UNCHANGED <<version, stored, shown, settings, writeupVars, editAt, edit>>

RollbackAsset(a) ==
    /\ AssetExists(a) /\ ~LockedFor(a, "version") /\ asset[a].current > 1
    /\ asset' = [asset EXCEPT ![a] = [st |-> "published", current |-> @.current - 1]]
    /\ UNCHANGED <<version, stored, shown, settings, writeupVars, editAt, edit>>

ArchiveAsset(a) ==
    /\ AssetExists(a) /\ ~LockedFor(a, "version")
    /\ asset' = [asset EXCEPT ![a].st = "archived"]
    /\ UNCHANGED <<version, stored, shown, settings, writeupVars, editAt, edit>>

-----------------------------------------------------------------------------
(* Slots: the slot is inserted or updated first, which locks it.           *)

SlotFree(s) == \A q \in Client : ~(Has(q, "locked", {"slot"}) /\ edit[q].slot = s)

UpdateSlot(r, s) ==
    /\ SlotFree(s) /\ \E a \in Asset : asset[a].st \in {"draft", "published"}
    /\ BeginEdit(r, "locked", [NoEdit EXCEPT !.op = "slot", !.slot = s, !.bindings = shown[s]])
    /\ Unchanged

\* saveSlotBinding: what was published is archived.
SavedSlotBinding(r, b) ==
    LET s == edit[r].slot
    IN  /\ Has(r, "locked", {"slot"}) /\ \A z \in Slot : b \notin shown[z]
        /\ shown' = [shown EXCEPT ![s] = (@ \ edit[r].bindings) \cup {b}]
        /\ EditDone(r)
        /\ UNCHANGED <<asset, version, stored, settings, writeupVars>>

-----------------------------------------------------------------------------
(* Settings: nothing is locked, the index of the versions refuses.         *)

PublishSettings(r) ==
    /\ BeginEdit(r, "open", [NoEdit EXCEPT !.op = "settings", !.next = Max({0} \cup settings.all) + 1,
                                       !.versions = settings.published])
    /\ Unchanged

PublishedAgain(r) ==   \* mutant: the versions have no index
    /\ Has(r, "open", {"settings"}) /\ edit[r].next <= MaxEdition
    /\ settings' = [all |-> settings.all \cup {edit[r].next}, current |-> edit[r].next,
                    published |-> (settings.published \ edit[r].versions) \cup {edit[r].next}]
    /\ EditDone(r)
    /\ UNCHANGED <<assetVars, writeupVars>>
PublishedSettings(r) ==
    /\ Has(r, "open", {"settings"})
    /\ edit[r].next <= MaxEdition /\ edit[r].next \notin settings.all   \* bound, and index
    /\ settings' = [all |-> settings.all \cup {edit[r].next}, current |-> edit[r].next,
                    published |-> (settings.published \ edit[r].versions) \cup {edit[r].next}]
    /\ EditDone(r)
    /\ UNCHANGED <<assetVars, writeupVars>>

-----------------------------------------------------------------------------
(* Writeups.                                                               *)

CreateWriteup(w, t) ==
    /\ writeup[w].st = "none"
    /\ writeup' = [writeup EXCEPT ![w] = [st |-> "draft", text |-> t, submitted |-> t]]
    /\ UNCHANGED <<assetVars, settings, likers, likes, editAt, edit>>

\* The status is looked at before the transaction, which writes whatever it is by then.
UpdateWriteup(r, w, t) ==
    /\ writeup[w].st \in {"draft", "review", "rejected"}
    /\ BeginEdit(r, "open", [NoEdit EXCEPT !.op = "edit", !.writeup = w, !.text = t])
    /\ Unchanged

UpdatedInPlace(r) ==   \* mutant: the writeup does not become a draft again
    /\ Has(r, "open", {"edit"})
    /\ writeup' = [writeup EXCEPT ![edit[r].writeup].text = edit[r].text]
    /\ EditDone(r)
    /\ UNCHANGED <<assetVars, settings, likers, likes>>
UpdatedWriteup(r) ==
    /\ Has(r, "open", {"edit"})
    /\ writeup' = [writeup EXCEPT ![edit[r].writeup].text = edit[r].text, ![edit[r].writeup].st = "draft"]
    /\ EditDone(r)
    /\ UNCHANGED <<assetVars, settings, likers, likes>>

SubmitReview(w) ==
    /\ writeup[w].st \in {"draft", "rejected"}
    /\ writeup' = [writeup EXCEPT ![w].st = "review", ![w].submitted = writeup[w].text]
    /\ UNCHANGED <<assetVars, settings, likers, likes, editAt, edit>>

Review(w, verdict) ==
    /\ writeup[w].st = "review"
    /\ writeup' = [writeup EXCEPT ![w].st = verdict]
    /\ UNCHANGED <<assetVars, settings, likers, likes, editAt, edit>>

\* The like is deleted, which locks it, or one is inserted at the end.
ToggleLike(r, w, u) ==
    /\ writeup[w].st = "published"
    /\ \A q \in Client : ~(/\ Has(q, "open", {"like"}) /\ edit[q].liked
                            /\ edit[q].writeup = w /\ edit[q].user = u)
    /\ BeginEdit(r, "open", [NoEdit EXCEPT !.op = "like", !.writeup = w, !.user = u,
                                           !.liked = u \in likers[w]])
    /\ Unchanged

ToggledLike(r) ==
    LET w == edit[r].writeup
        u == edit[r].user
    IN  /\ Has(r, "open", {"like"}) /\ (edit[r].liked <=> u \in likers[w])   \* key
        /\ likers' = [likers EXCEPT ![w] = IF edit[r].liked THEN @ \ {u} ELSE @ \cup {u}]
        /\ likes' = [likes EXCEPT ![w] = IF edit[r].liked THEN Max({@ - 1, 0}) ELSE @ + 1]
        /\ EditDone(r)
        /\ UNCHANGED <<assetVars, settings, writeup>>

EditionsNext ==
    \/ \E r \in Client :
         \/ AddVersion(r) \/ UpsertTeamAvatar(r) \/ CreateAsset(r) \/ AddedVersion(r) \/ UpsertedTeamAvatar(r)
         \/ PublishSettings(r) \/ PublishedSettings(r) \/ UpdatedWriteup(r) \/ ToggledLike(r) \/ FailEdit(r)
         \/ \E s \in Slot, b \in Binding : UpdateSlot(r, s) \/ SavedSlotBinding(r, b)
         \/ \E op \in {"create", "version", "avatar"}, a \in Asset, o \in Object : PutObject(r, op, a, o)
         \/ \E w \in Writeup : (\E t \in Text : UpdateWriteup(r, w, t)) \/ \E u \in User : ToggleLike(r, w, u)
    \/ \E a \in Asset : PublishAsset(a) \/ RollbackAsset(a) \/ ArchiveAsset(a)
    \/ \E w \in Writeup :
         \/ SubmitReview(w) \/ \E t \in Text : CreateWriteup(w, t)
         \/ \E verdict \in {"published", "rejected"} : Review(w, verdict)

EditionsSpec == EditionsInit /\ [][EditionsNext]_editionsVars

-----------------------------------------------------------------------------
(* Properties.                                                             *)

\* The version an asset shows exists, as do all before it (Rollback steps back without
\* looking), and their objects can be read, whatever uploads ran at once and failed;
\* a slot shows at most one binding; and of the settings exactly one version is
\* published, the last one, however many administrators publish at once.
ShownSound ==
    /\ \A a \in Asset : AssetExists(a) =>
          /\ asset[a].current >= 1
          /\ \A v \in 1..asset[a].current : version[a][v] \in stored
    /\ \A s \in Slot : Cardinality(shown[s]) <= 1
    /\ settings.published = {settings.current} \cap Version
    /\ settings.current = Max({0} \cup settings.all)

\* A published writeup shows the text that was submitted for review, also when its author
\* edits it while it is reviewed; its likes are counted exactly.
WriteupsSound ==
    \A w \in Writeup : /\ writeup[w].st = "published" => writeup[w].text = writeup[w].submitted
                       /\ likes[w] = Cardinality(likers[w])
=============================================================================
