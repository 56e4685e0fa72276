# presage: a verification project

TLA+ models of presage, a library for Signal clients, with the TLC runs that
check them and the TLAPS proofs about them. Paths are relative to the
repository; `storage.rs`, `registered.rs` and `chat_folders.rs` are files of
`presage/src/manager/`.

Signal's *storage service* holds one encrypted document per account: a manifest
(a version and a list of record identifiers) and the records. Every device of
the account reads and rewrites it, a record at a time, and the server only
orders the writes. presage keeps rows of its own, merges what other devices
wrote into them, and publishes the user's changes back. Nothing but comments
and the order of awaits keeps a concurrent edit, a crash or a lost answer from
losing a change or duplicating a record. The same holds of the other things a
device keeps: its groups, of which a server holds the versioned original; the
messages, contacts and calls it learns of from envelopes; its own registration
and keys; and the history its primary hands it once. A `Manager` is cloned
freely, so any two of its calls may be at any two of their awaits.

## Inventory

| component | state | operations | what is hard, and what must hold |
|---|---|---|---|
| storage sync and publish (`storage.rs`, `model/account.rs`) | rows, marks (`needs_storage_sync`), record identities, manifest version, resume cursor | `sync_storage_service`, `push_pending_*_records`, `update_storage_record`, `append_storage_record`, `edit_*_for_publish` | edits between any two awaits, other devices' writes, lost answers, crashes, retries: no change lost, no record duplicated, none skipped by a resumed sync, everything published in the end |
| chat folders (`chat_folders.rs`, `storage.rs`, `model/chat_folders.rs`) | folder rows, tombstones, marks, identities | save, delete with renumbering, merge, publish in one write, expiry, `ensure_single_all_chats_folder` | deletes against concurrent edits, two devices creating the same folder, stale lists: a delete stands, one all-chats folder |
| groups (`registered.rs`, `model/groups.rs`) | a row per group with its revision and its storage-service flags | `upsert_group`, `hydrate_groups`, `create_group`, `update_group`, `update_group_members`, `leave_group` | fetches that finish out of order, conflicts, lost answers, refusals, copies edited by hand: a stored copy is one the server had, a change is made once, local flags survive, every stub is settled |
| receiving (`registered.rs`) | the message stream | `receive_messages` | one envelope at a time, acknowledged before or after its effects, beside tasks nobody waits for |
| conversations (`registered.rs`, `store.rs`, `content.rs`) | messages, contacts, expire timers, profile keys, cached profiles | `save_message`, `update_expire_timer`, `upsert_contact_from_profile`, `retrieve_profile_by_uuid`, `clear_thread` | whole rows saved over what changed since they were read, versions absent or late, two tables for one key: timers only move forward, blocks and messages stand, keys and profiles agree |
| sending (`registered.rs`) | timers, sender certificate | `send_message`, `send_message_to_group`, `restore_thread_timer` | what is stored, and when, if a send fails |
| calls (`model/calls.rs`) | one history entry per call | `ingest_call_event`, `transition_call_history` | events late, twice and reordered: accepted and deleted stick |
| registration, confirmation, linking (`manager/*.rs`) | registration data, identity keys, pool, master key, backup key | the typed life cycle of `Manager` | a stop between two stored keys; what an earlier enrolment left |
| session (`registered.rs`) | entropy pool, certificate, pre-keys, cached websockets | `account_entropy_pool`, `sender_certificate`, `register_pre_keys`, `unlink_secondary` | a value drawn by one await and stored by the next, an unlink whose answer is lost, ids given away again |
| sticker packs (`registered.rs`, `storage.rs`) | packs, their marks | install, remove, publish | all-or-nothing merge of a pending pack |
| backup import (`backup/`, `registered.rs`) | a partly downloaded file, a pointer, the imported rows | `download_and_import_backup`, `coalesce_group_changes`, `chat_item_to_contents` | a download resumed, an import cut and repeated, a change of a group split over several items |
| storage record encoding (`storage_record.rs`) | none: encoded records edited in place | `set_varint_field`, `set_sticker_pack_state`, `encode_chat_folder_record` | fields this client does not know survive every edit |
| sqlite stores (`presage-store-sqlite`) | tables | SQL statements | which rows a statement replaces or cascades; the storage-service methods keep the trait's defaults |
| CLI, errors, serialisation | none | pure functions and printing | |

The application owns a `Manager` over a shared `Store`. Syncs and pushes hold
the storage-service lock ("Callers must hold the storage-service lock",
`storage.rs`), so at most one of them runs. Edits hold nothing. A push calls a
sync when it finds itself behind the server. A message from another device
(`FetchLatest`) makes the application call a sync. The receive stream spawns a
background task for profiles, over the same store, and one that refreshes the
pre-keys. Group calls, sends, edits and `ingest_call_event` are the
application's own and overlap with all of these.

## Modules

| module | what it is |
|---|---|
| `StorageManifest` | abstract: a storage service. One write moves the version by one, is about one subject, keeps every other record |
| `StorageSync` | contacts, groups and the account record: sync, drains, appends, edits, other devices, failures. Implements `StorageManifest` |
| `StorageSyncClaims` | statements of the code's comments that `StorageSync` contradicts |
| `StorageSync_proofs` | types, versions and refinement of `StorageSync` |
| `StorageSyncRecords_proofs` | its identities, cursor, marks and merges |
| `ChatFolders` | chat folders: sync, push, edits, expiry, the all-chats folder |
| `ChatFoldersClaims` | the same for `ChatFolders` |
| `ChatFolders_proofs` | types of `ChatFolders`, and what it knows of the server's records |
| `ChatFoldersDeletes_proofs` | its tombstones and its all-chats folder |
| `Groups` | the rows of groups, the group server's revisions, and operations at once between the two |
| `Groups_proofs` | theorems about `Groups` |
| `CallHistory` | the call log's state machine, as operators |
| `Conversations` | messages on their way into the store, and what they change there; uses `CallHistory` |
| `Conversations_proofs` | theorems about `Conversations` |
| `ProtocolStore` | the tables of pre-keys and sessions, as operators |
| `BackupImport` | what the items of an archive become, as operators, and what they should become; uses `CallHistory` |
| `Device` | linking, registering, loading, stopping, unlinking; keys, certificate, pre-keys; the import; composes `ProtocolStore` and `BackupImport` |
| `Device_proofs` | theorems about `Device` |
| `RecordFields` | encoded storage records and their edits, as operators on fields by place |
| `RecordFields_proofs` | theorems about `RecordFields` |

### How `StorageSync` reads the code

`pc` is the await the holder of the storage-service lock is about to perform;
`job`, `sync`, `cur` are its locals, and `edit` the locals of the user's edit.
`row`, `flag`, `ident`, `version`, `cursor` are what the `Store` keeps: only
they survive `Crash`. Each await of the code is an action:

- sync: `BeginSync` fetches the manifest, reads the marks once and picks the
  resume batch; `ReadBatch`, then for each record `MergeRecord` (reads the
  row), `SaveRow`, `SaveReadIdentity`; `Checkpoint`; `StoreReadVersion`;
  `FinishSync` clears the cursor.
- push: `StartDrain`, `NextKey` (reads the row), `Mark`; then the loop of
  `update_storage_record` (`PassBehind`, `PassUnknown`, `PassAgrees`,
  `PassEdits`, `PassesExhausted`), the write (`RecordMoved`, `WriteConflict`,
  `WriteAccepted`), `StoreWrittenVersion`, `SaveWrittenIdentity`, `ClearMark`,
  and `Recheck`, which marks a row again that changed meanwhile.
- append: `AppendFetch`, `AppendConflict`, `AppendAccepted`.
- edit: `BeginEdit` (reads), `SaveEdit`, `MarkEdit`.

Contacts, groups and sticker packs are `Subjects`; they differ in that a pack
changed here is kept whole by a merge (`PackKept`), where a contact or a group
keeps the fields that changed (`Intent`).

A record is a function from fields to BOOLEAN: a merge or an edit only tells
fields and their values apart. An identifier, 16 random bytes in the code, is
the version that inserted it. Simplifications: comparing the manifest version
and asking for the manifest inside `PassBehind` is one step; the read of an
account without any modelled record is not a case of its own (it only leaves
the cursor); rows exist from the start, since contacts and groups are never
deleted; marks and identities follow the contract of the `Store` trait
(`store.rs`), because the sqlite store keeps the trait's defaults for them.

### How `ChatFolders` reads the code

The same lock holder, simplified to one batch. `row` is a partial function (a
purge deletes rows), a mark or an identity belongs to a row. `MergeFolder` and
`SaveMerged` are the merge; `Reappend`, `FinishSync`, `CreateAll` and `MarkAll`
the clean-up that ends a sync. `Build` reads the rows to publish, on every
pass. `SavePublished` stores one identity and clears one mark. The user opens a
folder (`OpenFolder`, external), and submits what was shown (`SubmitSave`) or
deletes it (`SubmitDelete`); `MarkStaged`, `ListLive` and `StageNext` are
`stage_chat_folder` and `renumber_chat_folders`. The clock (`Tick`) expires
tombstones. Simplifications: storing a merged row and its identity is one step,
as are the several store calls of `Reappend`, `Collapse` and `Purge`; ties of
position are broken by identifier; an edit of the all-chats folder itself, a
folder of unknown type and an invalid name are left out.

The history variable `ghost` is read by properties only. It records the few
histories the code does not survive: in `StorageSync` an append on top of a
version never read (`blind`) and a crash between a written version and its
identity (`torn`); in `ChatFolders` the latter, a crash that skips the clean-up
of a sync (`skipped`), an edit that overlapped a sync or a push (`overlap`),
and a folder saved again after it was purged here, while the account listed it
(`revived`). A property that excuses one of these names it, and the findings
show what happens without the excuse. The newer modules keep such notes in
`dirty` (`Groups`, `Conversations`), `torn`, `heard` (`Conversations`) and
`told` (`Device`).

### How `Groups` reads the code

A `task` is a call in progress and `step` the request it awaits: `fetch`
(`fetch_and_store_group`), `patch` and `refetch` (the loop of
`apply_group_change`), `put`, `reread` (`save_group_from_server`), `save`. A
call reads the row when it begins and its `local` copy is what it saves in the
end, whole. `log` is the server: every revision a group has had; the server
itself uses the last, the others are there for the properties. `Accepts` and
`Shows` are its access rules, external. A conflict rebuilds the revision of a
change and nothing else. `Over` ends a call, or lets a hydration worker go on
with its chunk. A group is reduced to who is in it and how, who carries a
label, and whether labels are restricted; `muted` stands for all the flags the
server knows nothing of. The flags change by `BeginFlags` and `Save`, the two
halves both of `edit_group_for_publish` and of a sync's merge. `Refused` are
groups we were removed from before this device was linked: stubs of them come
from storage records. An operation takes the first free slot of `Tasks`, since
slots are alike.

### How `Conversations` reads the code

Again a set of tasks, each a procedure at one of its awaits: an envelope being
saved (`timer`, `timer_save`, `row`), a send (`wire`, then the same), a profile
upsert (`read`, `fetch`, `key`), an edit of a contact (`flag`), a record that a
storage sync or an import merges into a contact (`record`, `key`), a profile
read (`profile`, `profile_key`, `profile_row`), a call event (`merge`).
`BeginMerge` takes any block and key for the merged ones, since `StorageSync`
says which they are. `Receive` waits for the previous envelope, the others do
not wait; the fetch of a group that the receive loop does before it saves a
group's message (`registered.rs:1502`) is an operation of `Groups`, and that it
holds up the loop is not modelled. `SaveContact` writes a whole row, and notes
the copies others hold of it as `dirty`. `SetKey`
replaces a row of `profile_keys`, whose cascade drops the cached profile.
`torn` names contacts whose procedures overlapped or were cut by a crash, until
an upsert that runs alone mends them. A message is its kind, thread, time,
target, key, timer and version; a version of 0 is none. Receipts, null messages
and call events are `plain`, stored as they come.

### How `Device` reads the code

`kv`, `db`, `history` and `file` are on disk and survive `Stop`; `mem` is a
loaded manager, `job` the stores still to be made of a linking or registering,
in their order. A value that an enrolment brings is the enrolment's number, a
master key the number of the pool it is derived from. So `kv.aci = kv.reg` says
that the stored identity key pair is that of the stored registration. Clearing
(`Cleared`) removes the registration and the protocol tables and nothing else,
as the sqlite store does. `ProtocolStore` numbers secrets by the batch they
were drawn in and keeps the ids apart from them, since the store gives the ids
of deleted rows away again; one key of each kind stands for a batch, and one
stranger's identity for all. The server's shelf, and strangers who take bundles
from it, are external. In `BackupImport` a row names the items it shows;
`Whole` says what an archive must look like without running the importer's
passes. A batch of group changes that creates the group shows the creation and
drops the rest, as the code does. One stream and one import run at a time. An
import ends in three steps (`FramesEnded`, `ArchiveDiscarded`, `ImportDone`):
the run still held is saved, the file removed, the pointer forgotten. A file
that cannot be removed is only logged (`Discard`), and a linking that fails
inside `link_device` leaves the pre-keys it had saved, where one that fails
without an answer clears the store once more (`ScanFailed`).

### How `RecordFields` reads the code

An encoded message is its fields by the places they stand at, each with a
number, a wire type and a value, which is how `storage_record.rs` walks it; a
record is a message with one field that holds another. `With`, `Without` and
the edits built from them (`SetVarint`, `Installed`, `EncodedFolder`) are the
functions of that file; a message that does not parse is left out, and so are
pinned conversations. The module has no
behaviour: it is there for its theorems.

## Runs

Every bound is a CONSTANT of the `.cfg`: `MaxEdits`, `MaxRemote` (writes of
other devices), `MaxCrashes` and `MaxFaults` (or `MaxFailures` for both),
`MaxNow`. Deadlock is not checked: with its bounds spent and nothing left to
publish the system rests.

| run | shows | bounds |
|---|---|---|
| `storage_sync` | `TypeOK`; `VersionReached`; `CurrentWhenCaughtUp`: at the server's version the stored identities are the server's records; `OneRecordPerKey`; `ResumeSkipsNothing`; `UnpublishedIsMarked`; `ServiceSpec`: it implements `StorageManifest` | one contact, the account, an unmodelled record, two fields, batches of one, two attempts; 1 edit, 2 remote writes, 1 crash, 1 fault |
| `storage_settles` | `OutstandingKept`: a sync never reverts a marked change; `Settles`: rows and records agree in the end | one contact, one sticker pack (kept whole while a change is pending), the account, two attempts; 2 edits that do not overlap a sync, 1 remote write, 1 failed or unanswered request, no crash |
| `folders` | `TypeOK`, `CurrentWhenCaughtUp`, `OneRecordPerFolder`, `Settles` | two custom folders, an all-chats folder of another device and one of ours; 1 edit, 1 remote write, 1 failure, 1 tick |
| `folders_contended` | `OneAllChats`, `DeleteStands` | 1 edit, 2 remote writes, one attempt, so that pushes give up |
| `groups` | `TypeOK`; `CopiesAreServers`: a copy that says we are a member is the server's copy of its revision, stored or in flight; `OneChangePerCall`; `CheckedChangesHold`: a change that met no conflict does what it was checked for; `FlagsKept`; `Hydrated`: no stub waits for ever | one group with one other person, a refused one; two tasks, 2 calls beside hydration, 1 change by others, 1 fault, 1 conflict retried |
| `conversations` | `TypeOK`; `TimerOrder`, `BlockStands`, `KeysAgree`, `ProfileIsKeys`, `MessagesStay`, `CallOutcome` | one peer, ourselves and a group, two profile keys, two timers, three versions, two times, one call; weight 6, 1 fault |
| `device` | `TypeOK`; `RegisteredWhole`, `MasterIsPools`, `PoolKept`, `CertificateStays`; `UnlinkHonest`; `FileIsPrefix`, `HistoryWhole`; `HandedOutOpens`, `ReplayRefused` | weight 5 of which an archive costs 3, 1 failure, 2 enrolments, 2 pools, 3 batches of pre-keys, 2 messages, archives of up to 3 items at 2 times in 2 chunks |
| `claim_remote_edit` | refutes "fields nobody edited" are not published, on a device that starts from records it has already read (`SpecRead`) | violation |
| `claim_outstanding` | refutes "a sync cannot revert a row with a publish outstanding" for an edit that overlaps the sync | violation |
| `claim_no_duplicate` | refutes that an append never duplicates a record | violation |
| `claim_published` | refutes that a marked change is always published: after one crash it is refused as moved for ever | violation |
| `claim_folder_marked` | refutes "same contract as the contact and group drains": a folder saved during its push loses its mark | violation |

The bounds are small, and enough for the interesting cases: one remote write
already puts a device behind between any two of its awaits, a second one makes
a retry lose again or splits a manifest from the records read under it; two
batches let a sync be cut and resumed; two attempts give a retry and a
surrender; a lost answer followed by a retry is a duplicate waiting to happen;
two custom folders let a delete renumber. What more actors would add is more of
the same: edits of different records touch disjoint rows, marks and identities.

In `groups` two tasks are what it takes for a row to be read by one and saved
by the other between; one change by others makes a conflict, and with one retry
a second conflict gives up. In `conversations` and `device` the operations have
weights (`Start`, `Spending`): a message, a send or an edit costs 3 of
`MaxOps`, a call event 2, a deletion 1, so that the run has two messages, or a
message beside an edit or a merged record, or three events of one call, in every
interleaving with what they spawn. In `device` an operation costs 1, asking for an archive
`ImportCost`, and going on with a download, or any step of something already
begun, nothing; failures have a bound of their own (`MaxFaults`). Five
operations are enough to link, receive, stop, link again and receive; to take
two bundles and use both with a refresh between; and to import any of the
archives, stop anywhere in it and import it again. Three items are a run of
group changes, and something before, inside or after it.

Fairness: `FairSpec` asks weak fairness of the lock holder's steps and of the
steps of an edit already submitted. The tasks are futures an executor polls,
and the application is documented to call the drains at boot and after edits
and to sync on `FetchLatest`; nothing is asked of users, other devices, crashes
or faults. `Settles` is conditional on there being no crash: `claim_published`
shows why; so its run has none, and spends its bound on a request that fails or
goes unanswered, with an attempt left to write again. That `OutstandingKept`
survives crashes too is `OutstandingStays`. In `Groups` weak fairness of a task's steps says that a request is
answered in the end, and weak fairness of `Hydrate` that the application calls
`hydrate_groups`, which it is documented to do at every boot; a fault fails a
request, but there are finitely many. `Conversations` and `Device` have no
liveness property. A procedure of the first is a fixed sequence of awaits, and
ends if they do; whether a device is ever linked, or an import ever answered, is
up to others.

## Theorems

`StorageSync_proofs`, for every set of subjects, fields, batch size, number of
attempts and bounds, from `StorageSyncAssumption`:

- `TypeCorrect`: `Spec => []TypeOK`. Besides the types, `TypeOK` says that at
  most one identity is stored per key and that manifests are finite, which is
  what makes the batches of a sync well defined (`ChunksType`, `BatchItems`).
  It is inductive, one lemma per group of actions.
- `VersionsReached`: `Spec => []VersionReached`, inductive relative to
  `TypeOK`: the stored version never runs ahead of the server, and a fetched
  manifest at the server's version is the server's manifest. The second half is
  what makes a compare-and-set write an edit of what the server lists.
- `ServiceImplemented`: `Spec => ServiceSpec`. With `VersionReached`, an
  accepted write replaces at most the record of its own key (`PushRefines`), a
  lost answer is the same write (it changes the server), other devices' writes
  are writes (`RemoteRefines`), and every other step stutters.

`StorageSyncRecords_proofs`, from the same assumption:

- `RecordsInOrder`: `Spec => []Records`, the invariant behind the next three. A
  stored identity is the server's, or the step that will store it is named:
  `Abreast` says what a device at the server's version may lack, `InPlace` what
  a sync has read and not yet stored, `Progress` what the batches of a sync
  still owe, `Written` what an accepted write or append still owes.
- `CurrentCorrect`: `Spec => []CurrentWhenCaughtUp`.
- `KeysUnique`: `Spec => []OneRecordPerKey`.
- `ResumesCorrect`: `Spec => []ResumeSkipsNothing`.
- `ChangesMarked`: `Spec => []UnpublishedIsMarked`. `Marks` says that a row
  which differs from its record is marked, or was read by a drain that will
  compare it again, or is held by an edit that has its mark still to set.
- `OutstandingStays`: `Spec => OutstandingKept`, assuming `~EditsDuringSync`,
  the case the property is about (`claim_outstanding` refutes the other). Then
  the marks a sync has read are those of the rows (`Undisturbed`).

`ChatFolders_proofs`, for any folders, attempts, lifetime of a tombstone and
bounds, from `ChatFoldersAssumption`:

- `TypeCorrect`: `Spec => []TypeOK`.
- `CurrentCorrect`: `Spec => []CurrentWhenCaughtUp`, and `FoldersUnique`:
  `Spec => []OneRecordPerFolder`, from one invariant, `KnownInv`. A push writes
  many folders at once and stores their identities one by one, so it says which
  of the written records are still to be stored (`Written`), that a rebuilt
  list replaces exactly what the folders had (`Replaces`), and that a folder is
  pushed once (`OncePushed`).

`ChatFoldersDeletes_proofs`:

- `DeletesKept`: `Spec => DeleteStands`. While no edit overlaps, the copies a
  merge and a push carry are those of the rows (`Undisturbed`).
- `AllChatsUnique`: `Spec => []OneAllChats`, by the order in which a clean-up
  keeps the first all-chats folder, collapses the others and creates one where
  there is none (`Tidy`). That a set of folders has a first one is `Minimum`,
  from the well-foundedness of the natural numbers.

`Groups_proofs`, for any number of groups, people, tasks, retries and bounds,
from `GroupsAssumption`. The inductive invariant `IInv` adds to `TypeOK` what
makes the copies in flight sound: a known row or a task's group exists on the
server, but for the one group a `create_group` is about to make, which nothing
else touches (`Apart`), so that a log only grows and a revision read stays what
it was; a call's number is in no log until the server has taken its change
(`Unused`), and in one place afterwards (`LogGood`); and a call that is past its
change knows the revision it got (`Reported`). One lemma per kind of step
(beginning a call, patching, putting, ending, the environment) preserves it.

- `TypeCorrect`: `Spec => []TypeOK`.
- `CopiesCorrect`: `Spec => []CopiesAreServers`.
- `ChangesOnce`: `Spec => []OneChangePerCall`.
- `FlagsStay`: `Spec => FlagsKept`, from `IInv` and `Fresh`: a copy in flight
  has the flags of its row unless it was noted stale.
- `ChecksHold`: `Spec => []CheckedChangesHold`, from `IInv` and `Judged`: a
  hydrated copy at the server's last revision is the server's copy, unless the
  server no longer shows us the group (`AtTop`); what a change says follows from
  the copy its operation read, and stays at that copy's revision until a
  conflict moves it (`Built`); and only members carry labels, in every revision.
  So a change accepted at the first try is about the group it was judged on
  (`LeaveHolds`, `UpdateHolds`).

`RecordFields_proofs`, about every message, of any length, field and value:

- `SetKeepsOthers`: setting a field leaves every other field where it is.
- `VarintReadBack`: what is written is read back, a default included.
- `EditsAreIndependent`: blocking, archiving and muting do not disturb each
  other, whoever wrote the record and however often it holds a field.
- `PackIsOneOrTheOther`: a pack's record has a key or a removal time, not both.
- `FolderKeepsUnknown`: a rebuilt folder record has exactly the unknown fields
  of the old one.

`Conversations_proofs`, for any people, keys, timers, messages and calls, any
number of procedures at once and every bound, from `ConversationsAssumption`:

- `TypeCorrect`: `Spec => []TypeOK`, inductive with `Tasked`: a procedure's
  number and kind are its own, which an envelope that has not spawned its
  profile upsert yet could break by spawning it twice.
- `BlocksStand`: `Spec => BlockStands`, and `TimersOrdered`:
  `Spec => TimerOrder`, from `Copied`: a contact row held by a procedure is the
  stored row with that procedure's own change, or is marked as read too early.
- `KeysAgreed`: `Spec => []KeysAgree`, and `ProfilesAreKeys`:
  `Spec => []ProfileIsKeys`, from `Keyed`: between a contact's row and the key
  table there is at most one writer, which carries the row's key, unless a
  crash or an overlap left the tables apart.
- `CallsKept`: `Spec => []CallOutcome`, from `Merged`: an entry about to be
  stored follows by its event from the one that is stored, as long as the
  events of its call were merged one at a time, and an entry is only ever of
  one mode (`OneMode`). The lemmas about `Transition` are by cases on the
  event and the stored status.
- `MessagesKept`: `Spec => MessagesStay`, from the types alone.

`Device_proofs`, for any number of enrolments, pools, batches, messages,
failures and chunks, and archives of any length, from `DeviceAssumption` and
`ArchiveAssumption`. One invariant, `IInv`, one lemma per action:

- `TypeCorrect`: `Spec => []TypeOK`. `Typed` also says that the tables' ids are
  bounded (`Bounded`), so that a next id exists and is free (`NextIdIsFree`, by
  the well-foundedness of the natural numbers), that what is left of a linking
  or a registration is the end of one of the two orders (`Todos`), and that an
  item of an archive makes no more than two runs ready (`CoalesceType`).
- `RegistrationWhole`: `Spec => []RegisteredWhole`, from `Phases`: a manager
  speaks for the stored registration; before the last store of a linking there
  is none, and what has been stored is of the latest enrolment.
- `UnlinksHonest`: `Spec => []UnlinkHonest`, and `CertificatesStay`:
  `Spec => []CertificateStays`, from `Enrolments`: whoever was told unlinked or
  got a certificate is of an enrolment that was loaded, so a new one is not
  among them.
- `PoolsKept`: `Spec => []PoolKept`, from `Pools`: only a primary without a
  pool draws one, and a stream's copy is the stored one.
- `MasterFromPool`: `Spec => []MasterIsPools`, from `Masters`: linking writes
  the master key first and a Keys message the pool, so in between it says which
  of the two is new; while a primary draws its pool there is no master key.
- `FilesArePrefixes`: `Spec => []FileIsPrefix`, from `Download`: the download
  goes on where the file ends.
- `HandedOutStaysOpenable`: `Spec => []HandedOutOpens`, and `ReplaysRefused`:
  `Spec => []ReplayRefused`, from `PreKeys`. `Drawing`: a batch still to be
  saved overwrites no row, and one saved and not yet uploaded is in the tables.
  `Handing`: a one-time key is on the server's shelf or in at most one message,
  and the batch under way in neither, so a message uses up no key of another
  (`UseKeeps`). `Receiving`: a message that used its keys is refused from then
  on, since its one-time key is gone or its use of the last-resort key noted.
  `Holding`: what may be handed out, and what an unopened message needs, is in
  the tables, as long as the server's stock is of this enrolment (`Ours`).
- `HistoryIsWhole`: `Spec => []HistoryWhole`, from `IInv` and `Histories`. The
  frames of an archive are steps of the machine, so no induction over the
  archive is needed. `ReadUpTo`: each item read is settled (shown at its times,
  or not alone there) or in the run held back, and that run (`HeldBack`) ends
  at the item before and has all of its kin so far. Only the item right before
  goes with the next one (`JoinsLast`), so a run that is flushed is whole
  (`HeldIsWhole`); a whole run shows its own items and overwrites no row of an
  item that is alone (`RunSettles`), which is also why an import that is
  repeated unsettles nothing. A call stays accepted because a backup brings no
  deletion (`Undeleted`), and the primary uploads once (`server.of`).

Only model-checked: all liveness (`Settles`, `Hydrated`), which the prover does
not reach.

## What the models show beside the properties

A property that excuses a history does so because the code does not survive
it. Those met in the newer modules, each named where the property is stated:

- a fetch or a change of a group overwrites flags set while it was under way
  (`dirty`); the same save of a whole contact row undoes a block;
- the order in which two fetches of a group are saved is not that of their
  revisions, and a change rebuilt after a conflict is not judged again;
- the profile upsert takes the timer of any message with a new profile key, a
  group's or one with an older version (`registered.rs:4032`);
- two members who write to a group in the same millisecond share a row, and
  the later message replaces the earlier (`content.rs:156`);
- a contact whose row and key table were left apart stays so while its key is
  the one the key table has (`registered.rs:3975`);
- a folder open in an editor, deleted elsewhere and purged here, is a new row
  when it is saved: it has no identity, though the account may list the folder
  again by then (`chat_folders.rs:48`), and gets a second record;
- a crash after a pre-key was marked used and before its session was saved
  makes the message that came with it unreadable;
- the archive pointer of an earlier enrolment is kept: an import after a new
  link asks for that archive, imports it when the link brought no backup key of
  its own, and otherwise fails, each time;
- a certificate of an earlier enrolment is kept too, and loaded by the next, so
  `CertificateStays` speaks only of certificates fetched in the enrolment;
- an entropy pool and a master key whose two writes a stop cut apart stay so
  (`halved`).

## Plan

Left for the models: pins and their unarchiving, the sync message of sticker
packs, contact sync, the cached websockets.

## Not modelled

- The wire and storage formats beyond what `RecordFields` and `BackupImport`
  say of them, serde, libsignal's cryptography and the transport: what the
  models need of them is a step that succeeds, fails, or succeeds without its
  answer.
- A failing local store, except where a failure is handled on its own (an
  import, a Keys message): the code logs most such failures and goes on.
- Pinned conversations, which relate the account's record to a chat's archive
  flag (`set_pinned`), and the `StickerPackOperation` message, which removes a
  pack without a mark.
- The group stubs a backup import saves (`registered.rs:3092`, `convert.rs`
  `recipient_to_group`): each replaces whatever row the group has, its revision
  and its flags included. `Groups` starts after the import, with the stubs it
  leaves, so `FlagsKept` says nothing of an import that runs beside a group edit.
- The cached websockets (`identified_websocket`): which socket a request goes
  out on has no effect in the models.
- Who a group message is sent to, and what happens when one of its recipients
  cannot be reached; attachments; contact-sync blobs; avatars; read state.
- The command line client, which only calls the `Manager`.
