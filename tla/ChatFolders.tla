---------------------------- MODULE ChatFolders ----------------------------
(***************************************************************************)
(* Chat folders: the local create, edit and delete (manager/               *)
(* chat_folders.rs) and the sync and publish halves of manager/storage.rs. *)
(*                                                                         *)
(* Folders differ from the records of StorageSync in what makes them hard: *)
(*   - one manifest write replaces many records, and drops expired         *)
(*     tombstones from the manifest;                                       *)
(*   - a deleted folder stays as a tombstone, which must win over edits    *)
(*     made elsewhere, and a delete renumbers the live folders;            *)
(*   - every account has one live all-chats folder, which several devices  *)
(*     may create at once and no device may delete.                        *)
(*                                                                         *)
(* Batches, cursors and the merge of the other record types are modelled   *)
(* in StorageSync.  Here a sync reads the folder records in one batch and  *)
(* stores a merged row and its identity in one step.  Edits take no lock:  *)
(* they may overlap a sync or a push, and the history records when one did.*)
(***************************************************************************)
EXTENDS Naturals, FiniteSets

CONSTANTS
  Alls,      \* identifiers of all-chats folders other devices may file
  Own,       \* identifiers this device may draw for an all-chats folder
  Customs,   \* identifiers of custom folders
  Names,     \* what else a folder says
  Filed,     \* the folders other devices may have filed, or file later
  Ttl,       \* CHAT_FOLDER_TOMBSTONE_TTL, in ticks of the clock
  DeletedPosition, \* CHAT_FOLDER_DELETED_POSITION, above every live position
  WriteAttempts,   \* MANIFEST_WRITE_ATTEMPTS
  MaxNow, MaxEdits, MaxRemote, MaxFailures \* bounds

AllType == Alls \union Own
Ids == AllType \union Customs
MaxPasses == WriteAttempts * 2
ExpiredAt == 1      \* CHAT_FOLDER_EXPIRED_AT_MS
FirstNow == Ttl + 2 \* the clock at the start, at which ExpiredAt has expired

ASSUME ChatFoldersAssumption ==
  /\ Ids \subseteq Nat /\ IsFiniteSet(Ids)
  /\ Alls \intersect Own = {} /\ AllType \intersect Customs = {}
  /\ Filed \subseteq Alls \union Customs
  /\ Names # {}
  /\ Ttl \in Nat /\ WriteAttempts \in Nat \ {0}
  /\ DeletedPosition \in Nat /\ DeletedPosition > Cardinality(Ids)
  /\ MaxNow \in Nat /\ MaxEdits \in Nat /\ MaxRemote \in Nat
  /\ MaxFailures \in Nat

VARIABLES
  manifest,  \* the server: [version, items]
  row,       \* the stored folders, tombstones included
  flag,      \* stored folders whose `needs_storage_sync` mark is set
  ident,     \* stored identities: [item, at], at the version it was read at
  version,   \* the stored storage_manifest_version
  now,       \* the clock
  pc,        \* what the holder of the storage-service lock does next
  cur,       \* the manifest it last fetched
  sync,      \* the locals of sync_storage_service
  push,      \* the locals of push_pending_chat_folder_records
  edit,      \* the locals of save_chat_folder and delete_chat_folder
  spent,     \* what the environment has used of its bounds
  ghost      \* history: did an edit overlap a sync or a push (overlap) or save
             \* again a folder that is gone here but listed (revived), and did
             \* a crash part a write from its identities (torn) or a stored
             \* version from the clean-up after it (skipped)

device == <<row, flag, ident, version>>
vars == <<manifest, row, flag, ident, version, now, pc, cur, sync, push, edit, spent, ghost>>

(***************************************************************************)
(* Folders                                                                 *)
(***************************************************************************)
Folder == [deleted : Nat, position : Nat, name : Names]
Item == [folder : Ids, id : Nat, rec : Folder]

AnyName == CHOOSE n \in Names : TRUE
AllChats == [deleted |-> 0, position |-> 0, name |-> AnyName]

Live(f) == f.deleted = 0
Expired(f) == f.deleted # 0 /\ f.deleted + Ttl < now
Tombstone(f, t) == [f EXCEPT !.deleted = t, !.position = DeletedPosition]

Stored == DOMAIN row
Lives == {k \in Stored : Live(row[k])}
LiveAlls == Lives \intersect AllType

Saved(k, f) == [j \in Stored \union {k} |-> IF j = k THEN f ELSE row[j]]

(* The mark and the identity are columns of the folder's row: a hard       *)
(* delete takes them with it, and without the row they are not stored.     *)
Without(S) == [j \in Stored \ S |-> row[j]]
Identified(k) == {h \in ident : h.item.folder = k}
WithIdentity(i, at) == {h \in ident : h.item.folder # i.folder} \union {[item |-> i, at |-> at]}

(* Its rank among the live folders, ties in the order of the store.        *)
Rank(k) == Cardinality({j \in Lives : \/ row[j].position < row[k].position
                                      \/ row[j].position = row[k].position /\ j < k})

NoManifest == [version |-> 0, items |-> {}]
NoSync == [caller |-> "idle", pending |-> {}, unread |-> {}, item |-> {}, merged |-> {}]
NoPush == [pending |-> {}, expired |-> {}, inserts |-> {}, deletes |-> {}, passes |-> 0, attempts |-> 0]
NoEdit == [phase |-> "idle", folder |-> 0, todo |-> {}, renumber |-> FALSE]

Init ==
  /\ \E S \in SUBSET Filed :
       manifest = [version |-> 1, items |-> [folder : S, id : {1}, rec : {AllChats}]]
  /\ row = [k \in {} |-> AllChats]
  /\ flag = {} /\ ident = {} /\ version = 0 /\ now = FirstNow
  /\ pc = "idle" /\ cur = NoManifest /\ sync = NoSync /\ push = NoPush /\ edit = NoEdit
  /\ spent = [edits |-> 0, remote |-> 0, crashes |-> 0, faults |-> 0]
  /\ ghost = [torn |-> FALSE, skipped |-> FALSE, overlap |-> FALSE, revived |-> FALSE]

(***************************************************************************)
(* Pulling                                                                 *)
(***************************************************************************)
SyncPCs == {"read", "merge", "save", "reappend", "ensure", "markAll"}

(* Call after pc', edit' and row' are determined.                          *)
Editing == edit.phase \notin {"idle", "open"}
NoteOverlap ==
  ghost' = [ghost EXCEPT
              !.overlap = @ \/ ((Editing \/ Editing') /\ pc' # "idle"),
              !.revived = @ \/ \E i \in manifest.items : i.folder \in DOMAIN row' \ Stored]

BeginSync(caller) ==
  /\ cur' = manifest
  /\ sync' = [NoSync EXCEPT !.caller = caller, !.pending = flag]
  /\ pc' = "read"
  /\ UNCHANGED <<manifest, device, now, edit, spent>>
  /\ NoteOverlap

StartSync ==
  /\ pc = "idle" /\ manifest.version # version
  /\ BeginSync("idle")
  /\ UNCHANGED push

(* The server answers 204: no folder is created, duplicates are collapsed; *)
(* with none there is nothing to do.                                       *)
SyncUnchanged ==
  /\ pc = "idle" /\ manifest.version = version
  /\ Cardinality(LiveAlls) > 1
  /\ sync' = NoSync /\ cur' = NoManifest
  /\ pc' = "ensure"
  /\ UNCHANGED <<manifest, device, now, push, edit, spent>>
  /\ NoteOverlap

(* read_items only returns what the server still holds.                    *)
ReadFolders ==
  /\ pc = "read"
  /\ sync' = [sync EXCEPT !.unread = cur.items \intersect manifest.items]
  /\ pc' = "merge"
  /\ UNCHANGED <<manifest, device, now, cur, push, edit, spent, ghost>>

(* Faulty: a remote record replaces a local tombstone too.                 *)
MergedWholesale(i) ==
  IF i.folder \in sync.pending THEN {} ELSE IF i.folder \in AllType THEN {AllChats} ELSE {i.rec}

(* merge_chat_folder_from_snapshot: the row to save, or none.              *)
Merged(i) ==
  LET k == i.folder
      deletes == {row[k].deleted, i.rec.deleted} \ {0}
  IN  CASE k \in sync.pending -> {}
        [] k \notin sync.pending /\ k \in AllType ->
             IF k \in Stored /\ ~Live(row[k]) THEN {} ELSE {AllChats}
        [] k \notin sync.pending /\ k \in Customs /\ k \notin Stored ->
             IF Live(i.rec) THEN {i.rec} ELSE {}
        [] k \notin sync.pending /\ k \in Customs /\ k \in Stored ->
             {IF deletes = {} THEN i.rec
              ELSE Tombstone(i.rec, CHOOSE t \in deletes : \A u \in deletes : t <= u)}

MergeFolder(i) ==
  /\ pc = "merge" /\ i \in sync.unread
  /\ sync' = [sync EXCEPT !.unread = @ \ {i}, !.item = {i}, !.merged = Merged(i)]
  /\ pc' = "save"
  /\ UNCHANGED <<manifest, device, now, cur, push, edit, spent, ghost>>

(* The identity is stored even when the local row was kept.                *)
SaveMerged ==
  /\ pc = "save"
  /\ \E i \in sync.item :
       /\ \/ sync.merged = {} /\ UNCHANGED row
          \/ \E f \in sync.merged : row' = Saved(i.folder, f)
       /\ ident' = IF i.folder \in DOMAIN row' THEN WithIdentity(i, cur.version) ELSE ident
  /\ pc' = "merge"
  /\ UNCHANGED <<manifest, flag, version, now, cur, sync, push, edit, spent, ghost>>

StoreReadVersion ==
  /\ pc = "merge" /\ sync.unread = {}
  /\ version' = cur.version
  /\ pc' = "reappend"
  /\ UNCHANGED <<manifest, row, flag, ident, now, cur, sync, push, edit, spent, ghost>>

(* reappend_chat_folders_missing_from_manifest.                            *)
Reappend ==
  /\ pc = "reappend"
  /\ LET left == {h \in ident : h.item.folder \in Stored /\ h.item \notin cur.items}
     IN  /\ ident' = ident \ left
         /\ flag' = flag \union {h.item.folder : h \in left}
  /\ pc' = "ensure"
  /\ UNCHANGED <<manifest, row, version, now, cur, sync, push, edit, spent, ghost>>

(* ensure_single_all_chats_folder: of several live all-chats folders the   *)
(* first in this order stays, the unpublished ones are dropped and the     *)
(* others are given a tombstone that has already expired.                  *)
ReadAt(k) == IF Identified(k) = {} THEN 0 ELSE (CHOOSE h \in Identified(k) : TRUE).at
(* Faulty: forgets that two may have been read at the same version.        *)
BeforeByVersion(j, k) == ReadAt(j) > ReadAt(k)

Before(j, k) == ReadAt(j) > ReadAt(k) \/ (ReadAt(j) = ReadAt(k) /\ j < k)
Duplicates == {k \in LiveAlls : \E j \in LiveAlls : Before(j, k)}
Unpublished == {k \in Duplicates : Identified(k) = {}}

Collapse ==
  /\ row' = [k \in Stored \ Unpublished |->
               IF k \in Duplicates THEN Tombstone(row[k], ExpiredAt) ELSE row[k]]
  /\ flag' = flag \ Unpublished
  /\ UNCHANGED ident

LeaveSync ==
  /\ pc' = sync.caller /\ cur' = NoManifest /\ sync' = NoSync

FinishSync ==
  /\ pc = "ensure" /\ LiveAlls # {}
  /\ Collapse
  /\ LeaveSync
  /\ UNCHANGED <<manifest, version, now, push, edit, spent, ghost>>

(* The account has none: one is created, saved and then marked.            *)
CreateAll(n) ==
  /\ pc = "ensure" /\ LiveAlls = {}
  /\ n \in Own \ Stored
  /\ row' = Saved(n, AllChats)
  /\ sync' = [sync EXCEPT !.pending = {n}]
  /\ pc' = "markAll"
  /\ UNCHANGED <<manifest, flag, ident, version, now, cur, push, edit, spent, ghost>>

(* Faulty: the created folder is saved without its mark.                   *)
MarkNothing ==
  /\ pc = "markAll"
  /\ LeaveSync
  /\ UNCHANGED <<manifest, device, now, push, edit, spent, ghost>>

MarkAll ==
  /\ pc = "markAll"
  /\ flag' = flag \union sync.pending
  /\ LeaveSync
  /\ UNCHANGED <<manifest, row, ident, version, now, push, edit, spent, ghost>>

(***************************************************************************)
(* Publishing: push_pending_chat_folder_records                            *)
(***************************************************************************)
ExpiredTombstones == {k \in Stored : Expired(row[k])}

StartPush ==
  /\ pc = "idle"
  /\ flag \union ExpiredTombstones # {}
  /\ push' = [NoPush EXCEPT !.expired = ExpiredTombstones, !.pending = flag \ ExpiredTombstones]
  /\ pc' = "pass"
  /\ UNCHANGED <<manifest, device, now, cur, sync, edit, spent>>
  /\ NoteOverlap

NextPass == push' = [push EXCEPT !.passes = @ + 1]
Passing == pc = "pass" /\ push.passes < MaxPasses
(* Faulty: writes without comparing versions.                              *)
CaughtUpAssumed == TRUE

CaughtUp == manifest.version = version

PassBehind ==
  /\ Passing /\ ~CaughtUp
  /\ NextPass
  /\ BeginSync("pass")

(* The rows to publish are read now, on every pass: a folder that is gone  *)
(* is unmarked, the others are inserted afresh and replace the identifiers *)
(* they were stored under; expired tombstones only go.                     *)
Build ==
  /\ Passing /\ CaughtUp
  /\ LET there == push.pending \intersect Stored
         inserts == {[folder |-> k, rec |-> row[k]] : k \in there}
         deletes == {h.item : h \in {g \in ident : g.item.folder \in there \union push.expired}}
     IN  /\ push' = [push EXCEPT !.passes = @ + 1, !.inserts = inserts, !.deletes = deletes]
         /\ pc' = IF inserts = {} /\ deletes = {} THEN "purge" ELSE "write"
  /\ flag' = flag \ (push.pending \ Stored)
  /\ cur' = manifest
  /\ UNCHANGED <<manifest, row, ident, version, now, sync, edit, spent, ghost>>

PassesExhausted ==
  /\ pc = "pass" /\ push.passes = MaxPasses
  /\ push' = NoPush /\ pc' = "idle"
  /\ UNCHANGED <<manifest, device, now, cur, sync, edit, spent, ghost>>

Retry ==
  /\ LET last == push.attempts + 1 = WriteAttempts
     IN  /\ push' = IF last THEN NoPush
                    ELSE [push EXCEPT !.attempts = @ + 1, !.inserts = {}, !.deletes = {}]
         /\ pc' = IF last THEN "idle" ELSE "pass"
  /\ cur' = NoManifest
  /\ UNCHANGED <<manifest, device, now, sync, edit, spent, ghost>>

Listed == push.deletes \subseteq cur.items
Unchanged == manifest.version = cur.version

RecordMoved == pc = "write" /\ ~Listed /\ Retry
WriteConflict == pc = "write" /\ Listed /\ ~Unchanged /\ Retry

Inserted == {[folder |-> r.folder, id |-> cur.version + 1, rec |-> r.rec] : r \in push.inserts}

(* Faulty: an edited folder is inserted beside its old record.             *)
EditedBeside == [version |-> cur.version + 1, items |-> cur.items \union Inserted]

Edited == [version |-> cur.version + 1, items |-> (cur.items \ push.deletes) \union Inserted]

WriteAccepted ==
  /\ pc = "write" /\ Listed /\ Unchanged
  /\ manifest' = Edited
  /\ pc' = "storeVersion"
  /\ UNCHANGED <<device, now, cur, sync, push, edit, spent, ghost>>

StoreWrittenVersion ==
  /\ pc = "storeVersion"
  /\ version' = cur.version + 1
  /\ pc' = "published"
  /\ UNCHANGED <<manifest, row, flag, ident, now, cur, sync, push, edit, spent, ghost>>

(* One folder's fresh identity is stored and its mark cleared.             *)
SavePublished(i) ==
  /\ pc = "published" /\ i \in Inserted
  /\ ident' = IF i.folder \in Stored THEN WithIdentity(i, cur.version + 1) ELSE ident
  /\ flag' = flag \ {i.folder}
  /\ push' = [push EXCEPT !.inserts = {r \in @ : r.folder # i.folder}]
  /\ UNCHANGED <<manifest, row, version, now, pc, cur, sync, edit, spent, ghost>>

AllPublished ==
  /\ pc = "published" /\ push.inserts = {}
  /\ pc' = "purge"
  /\ UNCHANGED <<manifest, device, now, cur, sync, push, edit, spent, ghost>>

(* Faulty: forgets the mark of a deleted row.                              *)
PurgeRowsOnly ==
  /\ pc = "purge"
  /\ row' = Without(push.expired)
  /\ ident' = {h \in ident : h.item.folder \notin push.expired}
  /\ pc' = "idle" /\ push' = NoPush /\ cur' = NoManifest
  /\ UNCHANGED <<manifest, flag, version, now, sync, edit, spent, ghost>>

Purge ==
  /\ pc = "purge"
  /\ row' = Without(push.expired)
  /\ flag' = flag \ push.expired
  /\ ident' = {h \in ident : h.item.folder \notin push.expired}
  /\ pc' = "idle" /\ push' = NoPush /\ cur' = NoManifest
  /\ UNCHANGED <<manifest, version, now, sync, edit, spent, ghost>>

(***************************************************************************)
(* The user: save_chat_folder and delete_chat_folder                       *)
(***************************************************************************)
UserStep ==
  /\ UNCHANGED <<manifest, ident, version, now, pc, cur, sync, push>>
  /\ NoteOverlap

(* The application shows a live folder, or a new one, to be edited.        *)
OpenFolder(k) ==
  /\ edit.phase = "idle" /\ spent.edits < MaxEdits
  /\ k \in Lives \/ k \notin Filed \union Stored \union {i.folder : i \in manifest.items}
  /\ edit' = [NoEdit EXCEPT !.phase = "open", !.folder = k]
  /\ spent' = [spent EXCEPT !.edits = @ + 1]
  /\ UNCHANGED <<row, flag>> /\ UserStep

(* What the user saw replaces the row, whatever became of the row since:   *)
(* only the position is the row's own.                                     *)
SubmitSave(name) ==
  /\ edit.phase = "open"
  /\ LET k == edit.folder
     IN  row' = Saved(k, [deleted |-> 0, name |-> name,
                          position |-> IF k \in Stored THEN row[k].position ELSE Cardinality(Lives)])
  /\ edit' = [edit EXCEPT !.phase = "mark"]
  /\ UNCHANGED <<flag, spent>> /\ UserStep

SubmitDelete ==
  /\ edit.phase = "open" /\ edit.folder \in Stored
  /\ row' = [row EXCEPT ![edit.folder] = Tombstone(@, now)]
  /\ edit' = [edit EXCEPT !.phase = "mark", !.renumber = TRUE]
  /\ UNCHANGED <<flag, spent>> /\ UserStep

(* The second half of stage_chat_folder, and what its caller does next.    *)
MarkStaged ==
  /\ edit.phase = "mark"
  /\ flag' = flag \union ({edit.folder} \intersect Stored)
  /\ edit' = IF edit.renumber THEN [edit EXCEPT !.phase = "list", !.renumber = FALSE]
             ELSE IF edit.todo # {} THEN [edit EXCEPT !.phase = "stage"] ELSE NoEdit
  /\ UNCHANGED <<row, spent>> /\ UserStep

(* renumber_chat_folders reads the live folders once.                      *)
ListLive ==
  /\ edit.phase = "list"
  /\ LET todo == {[folder |-> k, rec |-> [row[k] EXCEPT !.position = Rank(k)]] :
                     k \in {j \in Lives : row[j].position # Rank(j)}}
     IN  edit' = IF todo = {} THEN NoEdit ELSE [edit EXCEPT !.phase = "stage", !.todo = todo]
  /\ UNCHANGED <<row, flag, spent>> /\ UserStep

StageNext ==
  /\ edit.phase = "stage"
  /\ \E r \in edit.todo :
       /\ \A q \in edit.todo : r.rec.position <= q.rec.position
       /\ row' = Saved(r.folder, r.rec)
       /\ edit' = [edit EXCEPT !.phase = "mark", !.folder = r.folder, !.todo = @ \ {r}]
  /\ UNCHANGED <<flag, spent>> /\ UserStep

(***************************************************************************)
(* The clock and the other devices                                         *)
(***************************************************************************)
Tick ==
  /\ now < MaxNow /\ now' = now + 1
  /\ UNCHANGED <<manifest, device, pc, cur, sync, push, edit, spent, ghost>>

RemoteWrite(gone, come) ==
  /\ spent.remote < MaxRemote /\ spent' = [spent EXCEPT !.remote = @ + 1]
  /\ manifest' = [version |-> manifest.version + 1, items |-> (manifest.items \ gone) \union come]
  /\ UNCHANGED <<device, now, pc, cur, sync, push, edit, ghost>>

Filing(k, f) == [folder |-> k, id |-> manifest.version + 1, rec |-> f]

RemoteFile(k) ==
  /\ \A i \in manifest.items : i.folder # k
  /\ RemoteWrite({}, {Filing(k, AllChats)})

(* A custom folder is renamed, revived by an edit made before its delete   *)
(* was seen, or deleted.                                                   *)
RemoteRewrite(i, name) ==
  /\ i.folder \in Customs
  /\ \E f \in {[AllChats EXCEPT !.name = name], Tombstone(i.rec, now)} :
       f # i.rec /\ RemoteWrite({i}, {Filing(i.folder, f)})

(* Another device drops an expired tombstone or its duplicate.             *)
RemoteDrop(i) ==
  /\ \/ Expired(i.rec)
     \/ i.folder \in AllType /\ \E j \in manifest.items : j.folder \in AllType \ {i.folder}
  /\ RemoteWrite({i}, {})

(***************************************************************************)
(* Failures                                                                *)
(***************************************************************************)
Failing == spent.crashes + spent.faults < MaxFailures
Fault == Failing /\ spent' = [spent EXCEPT !.faults = @ + 1]
Abandon == pc' = "idle" /\ cur' = NoManifest /\ sync' = NoSync /\ push' = NoPush

RequestFails ==
  /\ Fault
  /\ pc \in {"read", "write"} \/ Passing
  /\ pc = "write" => Listed
  /\ Abandon
  /\ UNCHANGED <<manifest, device, now, edit, ghost>>

(* The server took the write but its answer never came.                    *)
AnswerLost ==
  /\ Fault
  /\ pc = "write" /\ Listed /\ Unchanged
  /\ manifest' = Edited
  /\ Abandon
  /\ UNCHANGED <<device, now, edit, ghost>>

(* Only the store survives.                                                *)
Crash ==
  /\ Failing /\ spent' = [spent EXCEPT !.crashes = @ + 1]
  /\ pc # "idle" \/ edit.phase # "idle"
  /\ Abandon /\ edit' = NoEdit
  /\ ghost' = [ghost EXCEPT !.torn = @ \/ pc = "published" \/ (pc = "purge" /\ push.deletes # {}),
                            !.skipped = @ \/ pc \in {"reappend", "ensure"}]
  /\ UNCHANGED <<manifest, device, now>>

(***************************************************************************)
(* Specification                                                           *)
(***************************************************************************)
Sync == StartSync \/ SyncUnchanged \/ ReadFolders \/ (\E i \in sync.unread : MergeFolder(i))
        \/ SaveMerged \/ StoreReadVersion \/ Reappend \/ FinishSync
        \/ (\E n \in Own : CreateAll(n)) \/ MarkAll

Publish == StartPush \/ PassBehind \/ Build \/ PassesExhausted \/ RecordMoved \/ WriteConflict
           \/ WriteAccepted \/ StoreWrittenVersion \/ (\E i \in Inserted : SavePublished(i))
           \/ AllPublished \/ Purge

Stage == MarkStaged \/ ListLive \/ StageNext

User == (\E k \in Customs : OpenFolder(k)) \/ (\E name \in Names : SubmitSave(name))
        \/ SubmitDelete \/ Stage

Remote == \/ \E k \in Filed : RemoteFile(k)
          \/ \E i \in manifest.items, name \in Names : RemoteRewrite(i, name)
          \/ \E i \in manifest.items : RemoteDrop(i)

Failure == RequestFails \/ AnswerLost \/ Crash

Next == Sync \/ Publish \/ User \/ Tick \/ Remote \/ Failure

Spec == Init /\ [][Next]_vars

(* The lock holder and a submitted edit run on, and the application keeps  *)
(* asking for syncs and pushes.                                            *)
FairSpec == Spec /\ WF_vars(Sync \/ Publish) /\ WF_vars(Stage)

(***************************************************************************)
(* Properties                                                              *)
(***************************************************************************)
PCs == SyncPCs \union {"idle", "pass", "write", "storeVersion", "published", "purge"}
Manifest == [version : Nat, items : SUBSET Item]
Filled == [folder : Ids, rec : Folder]

(* Every variable holds a value of the shape the code gives it; a mark or  *)
(* an identity belongs to a stored row, and a row has at most one.         *)
TypeOK ==
  /\ manifest \in Manifest /\ cur \in Manifest
  /\ Stored \subseteq Ids /\ \A k \in Stored : row[k] \in Folder
  /\ flag \subseteq Stored
  /\ ident \subseteq [item : Item, at : Nat] /\ \A h \in ident : h.item.folder \in Stored
  /\ \A g, h \in ident : g.item.folder = h.item.folder => g = h
  /\ version \in Nat /\ now \in Nat /\ pc \in PCs
  /\ sync \in [caller : {"idle", "pass"}, pending : SUBSET Ids, unread : SUBSET Item,
               item : SUBSET Item, merged : SUBSET Folder]
  /\ push \in [pending : SUBSET Ids, expired : SUBSET Ids, inserts : SUBSET Filled,
               deletes : SUBSET Item, passes : Nat, attempts : Nat]
  /\ edit \in [phase : {"idle", "open", "mark", "list", "stage"}, folder : Ids \union {0},
               todo : SUBSET Filled, renumber : BOOLEAN]
  /\ spent \in [edits : Nat, remote : Nat, crashes : Nat, faults : Nat]
  /\ ghost \in [torn : BOOLEAN, skipped : BOOLEAN, overlap : BOOLEAN, revived : BOOLEAN]

(* The push replaces records without reading them: at the server's         *)
(* version the record of every stored folder is the one known here, unless *)
(* a crash came between a write and storing what it wrote, or the user     *)
(* saved a folder that was purged here while the account lists it.         *)
CurrentWhenCaughtUp ==
  version = manifest.version /\ ~ghost.torn /\ ~ghost.revived /\ pc # "published" =>
    \A i \in manifest.items : i.folder \in Stored => \E h \in ident : h.item = i

(* No conflict, lost answer or forgotten identity gives a folder a second  *)
(* record, nor does any other crash or edit.                               *)
OneRecordPerFolder ==
  ~ghost.torn /\ ~ghost.revived => \A i, j \in manifest.items : i.folder = j.folder => i = j

(* "Every client expects exactly one live all-chats folder": a device that *)
(* has read the server's version and is not syncing holds exactly one,     *)
(* whatever other devices filed, unless a crash cut off the clean-up of    *)
(* that sync or an edit overlapped it (a delete's renumbering stages rows  *)
(* it listed before).                                                      *)
OneAllChats ==
  pc \in {"idle", "pass"} /\ version = manifest.version /\ ~ghost.skipped /\ ~ghost.overlap =>
    Cardinality(LiveAlls) = 1

(* "A delete can never be undone and can only move earlier": no sync or    *)
(* push revives a stored tombstone or dates it later while no edit         *)
(* overlaps one.                                                           *)
DeleteStands ==
  [][edit' = edit /\ ~ghost'.overlap =>
       \A k \in Stored \intersect DOMAIN row' :
         ~Live(row[k]) => ~Live(row'[k]) /\ row'[k].deleted <= row[k].deleted]_vars

(* Unless the process crashes or an edit overlaps a sync or a push, once   *)
(* users, other devices and the clock rest no mark is left, expired        *)
(* tombstones are gone, the account holds one all-chats record and every   *)
(* live custom folder is what its record says.                             *)
Settled ==
  /\ flag = {} /\ ExpiredTombstones = {}
  /\ {i.folder : i \in manifest.items} \intersect AllType = LiveAlls
  /\ \A k \in Lives \intersect Customs : \E i \in manifest.items : i.folder = k /\ i.rec = row[k]
  /\ \A i \in manifest.items : Live(i.rec) => i.folder \in Stored
Settles == []( spent.crashes = 0 /\ ~ghost.overlap) => <>[]Settled
=============================================================================
