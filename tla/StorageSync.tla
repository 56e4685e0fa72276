---------------------------- MODULE StorageSync ----------------------------
(***************************************************************************)
(* The storage service as one presage device uses it: the records other    *)
(* devices rewrite, the sync that reads them into the local rows, and the  *)
(* drain that publishes local changes back (presage/src/manager/storage.rs *)
(* and the `edit_*_for_publish` functions of manager/registered.rs).       *)
(*                                                                         *)
(* Three actors interleave at their awaits:                                *)
(*   - the holder of the storage-service lock, which runs one sync or one  *)
(*     drain at a time; `pc` is the await it is about to perform;          *)
(*   - the user, whose edits take no lock;                                 *)
(*   - the other devices of the account, which write to the server.        *)
(* The process may also crash, which forgets everything but the store.     *)
(*                                                                         *)
(* A storage record is a function from its publishable fields to BOOLEAN:  *)
(* the properties only tell a field's values apart.  An identifier (16     *)
(* random bytes) is modelled by the manifest version that inserted it,     *)
(* which together with the subject is unique and never reused.             *)
(***************************************************************************)
EXTENDS Naturals, Sequences, FiniteSets

CONSTANTS
  Subjects,      \* contacts, groups and sticker packs: appended when unknown
  Packs,         \* those that are sticker packs: merged as a whole
  Accounts,      \* the account record: never appended
  Unmodelled,    \* identifiers of types presage does not model
  Fields,        \* the publishable fields of a record
  Additive,      \* the account fields whose local additions join the first read
  Filed,         \* the modelled keys the account holds a record for at the start
  BatchSize,     \* STORAGE_SERVICE_BATCH_SIZE
  WriteAttempts, \* MANIFEST_WRITE_ATTEMPTS
  EditsDuringSync, \* whether the application lets an edit overlap a sync
  RemoteRemoves, \* whether other devices may drop a subject's record
  MaxEdits, MaxRemote, MaxCrashes, MaxFaults \* bounds on the environment

Keys == Subjects \union Accounts
AnyKey == Keys \union Unmodelled
Rec == [Fields -> BOOLEAN]
Item == [key : AnyKey, id : Nat, rec : Rec]
MaxPasses == WriteAttempts * 2

ASSUME StorageSyncAssumption ==
  /\ IsFiniteSet(Keys) /\ IsFiniteSet(Unmodelled)
  /\ Unmodelled \intersect Keys = {}
  /\ Filed \subseteq Keys /\ Packs \subseteq Subjects
  /\ Accounts \intersect Subjects = {}
  /\ Keys # {}
  /\ Additive \subseteq Fields
  /\ BatchSize \in Nat \ {0}
  /\ WriteAttempts \in Nat \ {0}
  /\ EditsDuringSync \in BOOLEAN /\ RemoteRemoves \in BOOLEAN
  /\ MaxEdits \in Nat /\ MaxRemote \in Nat /\ MaxCrashes \in Nat /\ MaxFaults \in Nat

VARIABLES
  manifest,  \* the server: [version, items]
  row,       \* the local rows
  flag,      \* keys whose `needs_storage_sync` mark is set
  ident,     \* the storage identities: at most one item per key
  version,   \* the stored storage_manifest_version
  cursor,    \* the stored StorageSyncCursor; target 0 is "none"
  pc,        \* what the holder of the storage-service lock does next
  cur,       \* the manifest it last fetched
  job,       \* the locals of a drain and of update_storage_record
  sync,      \* the locals of sync_storage_service
  edit,      \* the locals of the user's edit
  spent,     \* what the environment has used of its bounds
  ghost      \* history, read by properties only

device == <<row, flag, ident, version, cursor>>
vars == <<manifest, row, flag, ident, version, cursor, pc, cur, job, sync, edit, spent, ghost>>

(***************************************************************************)
(* Data                                                                    *)
(***************************************************************************)
Blank == [f \in Fields |-> FALSE]
NoManifest == [version |-> 0, items |-> {}]
NoCursor == [target |-> 0, next |-> 0]
AnyOne == CHOOSE k \in Keys : TRUE
NoJob == [todo |-> {}, key |-> AnyOne, want |-> Blank, passes |-> 0, attempts |-> 0]
NoSync == [caller |-> "idle", pending |-> {}, batch |-> 0, unread |-> {},
           item |-> [key |-> AnyOne, id |-> 0, rec |-> Blank], merged |-> Blank]
NoEdit == [phase |-> "idle", key |-> AnyOne, rec |-> Blank]

(* The identity stored for a key: the empty set or one item.               *)
Held(k) == {i \in ident : i.key = k}
HeldRec(k) == (CHOOSE i \in ident : i.key = k).rec
(* Faulty: the identity is stored beside the old one.                      *)
WithIdentityBeside(i) == ident \union {i}

WithIdentity(i) == {h \in ident : h.key # i.key} \union {i}

(* PendingPublish::diff and ::between: the fields two records differ on.   *)
Differ(a, b) == {f \in Fields : a[f] # b[f]}

(* PendingPublish::apply: record `a` with the fields in F set as in `b`.   *)
Overlay(a, b, F) == [f \in Fields |-> IF f \in F THEN b[f] ELSE a[f]]

(* The batches in which a sync reads the items of a manifest: the subjects *)
(* first, the account record after them in a batch of its own.  The order  *)
(* within one manifest version is arbitrary but fixed.                     *)
InOrder(S) == CHOOSE s \in [1..Cardinality(S) -> S] : \A x \in S : \E n \in DOMAIN s : s[n] = x
Chunks(s) == [n \in 1..((Len(s) + BatchSize - 1) \div BatchSize) |->
                {s[m] : m \in {j \in DOMAIN s : (j - 1) \div BatchSize = n - 1}}]
Batches(items) == Chunks(InOrder({i \in items : i.key \in Subjects}))
                  \o Chunks(InOrder({i \in items : i.key \in Accounts}))

Init ==
  /\ manifest = [version |-> 1,
                 items |-> [key : Filed \union Unmodelled, id : {1}, rec : {Blank}]]
  /\ row = [k \in Keys |-> Blank]
  /\ flag = {} /\ ident = {} /\ version = 0 /\ cursor = NoCursor
  /\ pc = "idle" /\ cur = NoManifest /\ job = NoJob /\ sync = NoSync /\ edit = NoEdit
  /\ spent = [edits |-> 0, remote |-> 0, crashes |-> 0, faults |-> 0]
  /\ ghost = [touched |-> {}, blind |-> FALSE, torn |-> FALSE]

(***************************************************************************)
(* Pulling: sync_storage_service                                           *)
(***************************************************************************)
SyncPCs == {"batch", "merge", "saveRow", "saveIdentity", "checkpoint", "finish", "clearCursor"}

(* With EditsDuringSync FALSE the application keeps edits and syncs apart, *)
(* which the lock does not do for it.                                      *)
EditAllowsSync == EditsDuringSync \/ edit.phase = "idle"

(* Faulty: resumes from any cursor, whatever version it was for.           *)
BeginSyncAnyCursor(caller) ==
  /\ EditAllowsSync
  /\ cur' = manifest
  /\ sync' = [NoSync EXCEPT !.caller = caller, !.pending = flag, !.batch = cursor.next]
  /\ pc' = "batch"
  /\ UNCHANGED <<manifest, row, flag, ident, version, cursor, edit, spent, ghost>>

(* Fetch the manifest, read the pending marks once for the whole sync and  *)
(* resume from the cursor if it targets this very version.                 *)
BeginSync(caller) ==
  /\ EditAllowsSync
  /\ cur' = manifest
  /\ cursor' = IF cursor.target = manifest.version THEN cursor ELSE NoCursor
  /\ sync' = [NoSync EXCEPT !.caller = caller, !.pending = flag,
                 !.batch = IF cursor.target = manifest.version THEN cursor.next ELSE 0]
  /\ pc' = "batch"
  /\ UNCHANGED <<manifest, row, flag, ident, version, edit, spent, ghost>>

StartSync ==
  /\ pc = "idle" /\ manifest.version # version
  /\ BeginSync("idle")
  /\ UNCHANGED job

(* The server answers 204: a leftover cursor is stale.                     *)
SyncUnchanged ==
  /\ pc = "idle" /\ manifest.version = version
  /\ cursor' = NoCursor
  /\ UNCHANGED <<manifest, row, flag, ident, version, pc, cur, job, sync, edit, spent, ghost>>

(* read_items only returns what the server still holds.                    *)
ReadBatch ==
  /\ pc = "batch" /\ sync.batch < Len(Batches(cur.items))
  /\ LET unread == Batches(cur.items)[sync.batch + 1] \intersect manifest.items
     IN /\ sync' = [sync EXCEPT !.unread = unread]
        /\ pc' = IF unread = {} THEN "checkpoint" ELSE "merge"
  /\ UNCHANGED <<manifest, device, cur, job, edit, spent, ghost>>

LastBatchRead ==
  /\ pc = "batch" /\ sync.batch >= Len(Batches(cur.items))
  /\ pc' = "finish"
  /\ UNCHANGED <<manifest, device, cur, job, sync, edit, spent, ghost>>

(* Faulty: only a key that was never published is protected.               *)
IntentOfUnpublished(k) == IF k \in sync.pending /\ Held(k) = {} THEN Fields ELSE {}

(* pending_publish_intent: the fields of a marked key on which the row     *)
(* disagrees with the record last read or published; all of them when none *)
(* was.                                                                    *)
Intent(k) == IF k \notin sync.pending THEN {}
             ELSE IF Held(k) = {} THEN Fields ELSE Differ(HeldRec(k), row[k])

(* merge_contact_from_snapshot and merge_group_from_snapshot.              *)
MergedSubject(i) == Overlay(i.rec, row[i.key], Intent(i.key))

(* The account's first record is adopted, local additions with it.         *)
Adopted(i) == [f \in Fields |-> i.rec[f] \/ (f \in Additive /\ row[i.key][f])]
MergedAccount(i) == IF Held(i.key) = {} THEN Adopted(i)
                    ELSE Overlay(i.rec, row[i.key], Intent(i.key))

(* A sticker pack installed or removed here is left as it is.              *)
PackKept(k) == k \in Packs /\ k \in sync.pending
Merged(i) == CASE i.key \in Accounts -> MergedAccount(i)
               [] i.key \in Packs -> IF PackKept(i.key) THEN row[i.key] ELSE i.rec
               [] OTHER -> MergedSubject(i)

MergeRecord(i) ==
  /\ pc = "merge" /\ i \in sync.unread
  /\ sync' = [sync EXCEPT !.unread = @ \ {i}, !.item = i, !.merged = Merged(i)]
  /\ pc' = "saveRow"
  /\ UNCHANGED <<manifest, device, cur, job, edit, spent, ghost>>

SaveRow ==
  /\ pc = "saveRow"
  /\ row' = IF PackKept(sync.item.key) THEN row ELSE [row EXCEPT ![sync.item.key] = sync.merged]
  /\ pc' = "saveIdentity"
  /\ UNCHANGED <<manifest, flag, ident, version, cursor, cur, job, sync, edit, spent, ghost>>

SaveReadIdentity ==
  /\ pc = "saveIdentity"
  /\ ident' = WithIdentity(sync.item)
  /\ pc' = IF sync.unread = {} THEN "checkpoint" ELSE "merge"
  /\ UNCHANGED <<manifest, row, flag, version, cursor, cur, job, sync, edit, spent, ghost>>

Checkpoint ==
  /\ pc = "checkpoint"
  /\ cursor' = [target |-> cur.version, next |-> sync.batch + 1]
  /\ sync' = [sync EXCEPT !.batch = @ + 1]
  /\ pc' = "batch"
  /\ UNCHANGED <<manifest, row, flag, ident, version, cur, job, edit, spent, ghost>>

StoreReadVersion ==
  /\ pc = "finish"
  /\ version' = cur.version
  /\ pc' = "clearCursor"
  /\ UNCHANGED <<manifest, row, flag, ident, cursor, cur, job, sync, edit, spent, ghost>>

FinishSync ==
  /\ pc = "clearCursor"
  /\ cursor' = NoCursor
  /\ pc' = sync.caller /\ cur' = NoManifest /\ sync' = NoSync
  /\ UNCHANGED <<manifest, row, flag, ident, version, job, edit, spent, ghost>>

(***************************************************************************)
(* Publishing: push_pending_*_records and update_storage_record            *)
(***************************************************************************)
(* One drain per record type: the work list is the marks of that type.     *)
StartDrain(type) ==
  /\ pc = "idle" /\ flag \intersect type # {}
  /\ job' = [NoJob EXCEPT !.todo = flag \intersect type]
  /\ pc' = "next"
  /\ UNCHANGED <<manifest, device, cur, sync, edit, spent, ghost>>

(* The row to publish is read once, before the manifest is fetched.        *)
NextKey(k) ==
  /\ pc = "next" /\ k \in job.todo
  /\ job' = [NoJob EXCEPT !.todo = job.todo \ {k}, !.key = k, !.want = row[k]]
  /\ pc' = "mark"
  /\ UNCHANGED <<manifest, device, cur, sync, edit, spent, ghost>>

FinishDrain ==
  /\ pc = "next" /\ job.todo = {}
  /\ job' = NoJob /\ pc' = "idle"
  /\ UNCHANGED <<manifest, device, cur, sync, edit, spent, ghost>>

Mark ==
  /\ pc = "mark"
  /\ flag' = flag \union {job.key}
  /\ pc' = "pass"
  /\ UNCHANGED <<manifest, row, ident, version, cursor, cur, job, sync, edit, spent, ghost>>

(* Faulty: writes without comparing versions.                              *)
CaughtUpAssumed == TRUE

(* One pass of update_storage_record: compare versions, and sync when they *)
(* differ; a pass spent on a sync is not a write attempt.                  *)
CaughtUp == manifest.version = version
NextPass == job' = [job EXCEPT !.passes = @ + 1]

PassBehind ==
  /\ pc = "pass" /\ job.passes < MaxPasses /\ ~CaughtUp
  /\ NextPass
  /\ BeginSync("pass")

(* StorageRecordUnknown: only a subject is appended, see StorageRecordKey. *)
PassUnknown ==
  /\ pc = "pass" /\ job.passes < MaxPasses /\ CaughtUp
  /\ Held(job.key) = {}
  /\ job' = [job EXCEPT !.passes = @ + 1, !.attempts = 0]
  /\ pc' = IF job.key \in Subjects THEN "append" ELSE "next"
  /\ UNCHANGED <<manifest, device, cur, sync, edit, spent, ghost>>

PassAgrees ==
  /\ pc = "pass" /\ job.passes < MaxPasses /\ CaughtUp
  /\ Held(job.key) # {} /\ Differ(HeldRec(job.key), job.want) = {}
  /\ NextPass
  /\ pc' = "clear"
  /\ UNCHANGED <<manifest, device, cur, sync, edit, spent, ghost>>

PassEdits ==
  /\ pc = "pass" /\ job.passes < MaxPasses /\ CaughtUp
  /\ Held(job.key) # {} /\ Differ(HeldRec(job.key), job.want) # {}
  /\ NextPass
  /\ cur' = manifest
  /\ pc' = "write"
  /\ UNCHANGED <<manifest, device, sync, edit, spent, ghost>>

PassesExhausted ==
  /\ pc = "pass" /\ job.passes = MaxPasses
  /\ pc' = "next"
  /\ UNCHANGED <<manifest, device, cur, job, sync, edit, spent, ghost>>

(* StorageManifestConflict or StorageRecordMoved: back off and try again,  *)
(* or give up with the mark still set.                                     *)
Retry(again) ==
  /\ job' = [job EXCEPT !.attempts = @ + 1]
  /\ pc' = IF job.attempts + 1 = WriteAttempts THEN "next" ELSE again
  /\ cur' = NoManifest
  /\ UNCHANGED <<manifest, device, sync, edit, spent, ghost>>

(* The identifier we hold is listed in the manifest we fetched.            *)
Listed == Held(job.key) \subseteq cur.items

RecordMoved == pc = "write" /\ ~Listed /\ Retry("pass")

(* The server takes a write only on top of the version it is based on.     *)
Unchanged == manifest.version = cur.version

WriteConflict == pc = "write" /\ Listed /\ ~Unchanged /\ Retry("pass")

NewItem ==
  [key |-> job.key, id |-> cur.version + 1,
   rec |-> IF Held(job.key) = {} THEN job.want
           ELSE Overlay(HeldRec(job.key), job.want, Differ(HeldRec(job.key), job.want))]

(* Faulty: regenerates the manifest from the records it models.            *)
EditedModelledOnly ==
  [version |-> cur.version + 1,
   items |-> {i \in cur.items \ Held(job.key) : i.key \in Keys} \union {NewItem}]

(* Faulty: inserts the new record without deleting the old.                *)
EditedWithoutDelete == [version |-> cur.version + 1, items |-> cur.items \union {NewItem}]

(* write_manifest_edit: every identifier but the replaced one is copied    *)
(* through, record types presage does not model included.                  *)
Edited == [version |-> cur.version + 1, items |-> (cur.items \ Held(job.key)) \union {NewItem}]

WriteAccepted ==
  /\ pc = "write" /\ Listed /\ Unchanged
  /\ manifest' = Edited
  /\ pc' = "storeVersion"
  /\ UNCHANGED <<device, cur, job, sync, edit, spent, ghost>>

(* append_storage_record: every attempt re-reads the manifest and writes   *)
(* on top of it; nothing asks whether this device has read that version.   *)
AppendFetch ==
  /\ pc = "append"
  /\ cur' = manifest
  /\ pc' = "appendWrite"
  /\ UNCHANGED <<manifest, device, job, sync, edit, spent, ghost>>

AppendConflict == pc = "appendWrite" /\ ~Unchanged /\ Retry("append")

Appended == [version |-> cur.version + 1, items |-> cur.items \union {NewItem}]

BlindIfBehind == ghost' = [ghost EXCEPT !.blind = @ \/ cur.version # version]

AppendAccepted ==
  /\ pc = "appendWrite" /\ Unchanged
  /\ manifest' = Appended
  /\ pc' = "storeVersion"
  /\ BlindIfBehind
  /\ UNCHANGED <<device, cur, job, sync, edit, spent>>

(* Faulty: counts the write twice.                                         *)
StoreWrittenVersionTwice ==
  /\ pc = "storeVersion"
  /\ version' = cur.version + 2
  /\ pc' = "storeIdentity"
  /\ UNCHANGED <<manifest, row, flag, ident, cursor, cur, job, sync, edit, spent, ghost>>

StoreWrittenVersion ==
  /\ pc = "storeVersion"
  /\ version' = cur.version + 1
  /\ pc' = "storeIdentity"
  /\ UNCHANGED <<manifest, row, flag, ident, cursor, cur, job, sync, edit, spent, ghost>>

(* Faulty: forgets where the fresh record lives.                           *)
SaveNoIdentity ==
  /\ pc = "storeIdentity"
  /\ pc' = "clear" /\ cur' = NoManifest
  /\ UNCHANGED <<manifest, row, flag, ident, version, cursor, job, sync, edit, spent, ghost>>

SaveWrittenIdentity ==
  /\ pc = "storeIdentity"
  /\ ident' = WithIdentity(NewItem)
  /\ pc' = "clear" /\ cur' = NoManifest
  /\ UNCHANGED <<manifest, row, flag, version, cursor, job, sync, edit, spent, ghost>>

ClearMark ==
  /\ pc = "clear"
  /\ flag' = flag \ {job.key}
  /\ pc' = "recheck"
  /\ UNCHANGED <<manifest, row, ident, version, cursor, cur, job, sync, edit, spent, ghost>>

(* Faulty: trusts the row read before the publish.                         *)
RecheckNothing == pc = "recheck" /\ pc' = "next" /\ UNCHANGED <<manifest, device, cur, job, sync, edit, spent, ghost>>

(* The user may have toggled again while the publish was in flight.        *)
Recheck ==
  /\ pc = "recheck"
  /\ flag' = IF Differ(row[job.key], job.want) # {} THEN flag \union {job.key} ELSE flag
  /\ pc' = "next"
  /\ UNCHANGED <<manifest, row, ident, version, cursor, cur, job, sync, edit, spent, ghost>>

(***************************************************************************)
(* Failures                                                                *)
(***************************************************************************)
(* Where the `?` of a failed request leads: out of a sync started on its   *)
(* own, or to the next record of a drain.                                  *)
Abandoned == IF pc = "batch" /\ sync.caller = "idle" THEN "idle" ELSE "next"

Fault == spent.faults < MaxFaults /\ spent' = [spent EXCEPT !.faults = @ + 1]

RequestFails ==
  /\ Fault
  /\ pc \in {"pass", "batch", "write", "append", "appendWrite"}
  /\ pc = "pass" => job.passes < MaxPasses
  /\ pc = "batch" => sync.batch < Len(Batches(cur.items))
  /\ pc = "write" => Listed
  /\ pc' = Abandoned /\ cur' = NoManifest /\ sync' = NoSync
  /\ UNCHANGED <<manifest, device, job, edit, ghost>>

(* The server took the write but its answer never came.                    *)
AnswerLost ==
  /\ Fault
  /\ \/ pc = "write" /\ Listed /\ Unchanged /\ manifest' = Edited /\ UNCHANGED ghost
     \/ pc = "appendWrite" /\ Unchanged /\ manifest' = Appended /\ BlindIfBehind
  /\ pc' = "next" /\ cur' = NoManifest
  /\ UNCHANGED <<device, job, sync, edit>>

(* Only the store survives.                                                *)
Crash ==
  /\ spent.crashes < MaxCrashes /\ spent' = [spent EXCEPT !.crashes = @ + 1]
  /\ pc # "idle" \/ edit.phase # "idle"
  /\ pc' = "idle" /\ cur' = NoManifest /\ job' = NoJob /\ sync' = NoSync /\ edit' = NoEdit
  /\ ghost' = [ghost EXCEPT !.torn = @ \/ pc = "storeIdentity"]
  /\ UNCHANGED <<manifest, device>>

(***************************************************************************)
(* The user: edit_contact_for_publish, edit_group_for_publish and          *)
(* edit_account_for_publish.  Read, save and mark are three awaits.        *)
(***************************************************************************)
BeginEdit(k, f, b) ==
  /\ edit.phase = "idle" /\ spent.edits < MaxEdits
  /\ EditsDuringSync \/ pc \notin SyncPCs
  /\ k \in Accounts => row[k][f] # b
  /\ edit' = [phase |-> "save", key |-> k, rec |-> [row[k] EXCEPT ![f] = b]]
  /\ spent' = [spent EXCEPT !.edits = @ + 1]
  /\ ghost' = [ghost EXCEPT !.touched = @ \union {<<k, f>>}]
  /\ UNCHANGED <<manifest, device, pc, cur, job, sync>>

SaveEdit ==
  /\ edit.phase = "save"
  /\ row' = [row EXCEPT ![edit.key] = edit.rec]
  /\ edit' = [edit EXCEPT !.phase = "mark"]
  /\ UNCHANGED <<manifest, flag, ident, version, cursor, pc, cur, job, sync, spent, ghost>>

MarkEdit ==
  /\ edit.phase = "mark"
  /\ flag' = flag \union {edit.key}
  /\ edit' = NoEdit
  /\ UNCHANGED <<manifest, row, ident, version, cursor, pc, cur, job, sync, spent, ghost>>

(***************************************************************************)
(* The other devices of the account                                        *)
(***************************************************************************)
RemoteWrite(gone, come) ==
  /\ spent.remote < MaxRemote /\ spent' = [spent EXCEPT !.remote = @ + 1]
  /\ manifest' = [version |-> manifest.version + 1,
                  items |-> (manifest.items \ gone) \union come]
  /\ UNCHANGED <<device, pc, cur, job, sync, edit, ghost>>

Fresh(k, rec) == [key |-> k, id |-> manifest.version + 1, rec |-> rec]

RemoteRewrite(i, f) ==
  /\ i \in manifest.items
  /\ RemoteWrite({i}, {Fresh(i.key, [i.rec EXCEPT ![f] = ~ @])})

RemoteFile(k, rec) ==
  /\ \A i \in manifest.items : i.key # k
  /\ RemoteWrite({}, {Fresh(k, rec)})

RemoteRemove(i) ==
  /\ RemoteRemoves /\ i \in manifest.items /\ i.key \in Subjects
  /\ RemoteWrite({i}, {})

(***************************************************************************)
(* Specification                                                           *)
(***************************************************************************)
Sync == StartSync \/ SyncUnchanged \/ ReadBatch \/ LastBatchRead
        \/ (\E i \in sync.unread : MergeRecord(i))
        \/ SaveRow \/ SaveReadIdentity \/ Checkpoint \/ StoreReadVersion \/ FinishSync

Drain == StartDrain(Subjects \ Packs) \/ StartDrain(Packs) \/ StartDrain(Accounts)
         \/ (\E k \in Keys : NextKey(k)) \/ FinishDrain \/ Mark

Publish == PassBehind \/ PassUnknown \/ PassAgrees \/ PassEdits \/ PassesExhausted
           \/ RecordMoved \/ WriteConflict \/ WriteAccepted
           \/ AppendFetch \/ AppendConflict \/ AppendAccepted
           \/ StoreWrittenVersion \/ SaveWrittenIdentity \/ ClearMark \/ Recheck

User == (\E k \in Keys, f \in Fields, b \in BOOLEAN : BeginEdit(k, f, b)) \/ SaveEdit \/ MarkEdit

Remote == \/ \E i \in manifest.items, f \in Fields : RemoteRewrite(i, f)
          \/ \E k \in Keys, rec \in Rec : RemoteFile(k, rec)
          \/ \E i \in manifest.items : RemoteRemove(i)

Failure == RequestFails \/ AnswerLost \/ Crash

Next == Sync \/ Drain \/ Publish \/ User \/ Remote \/ Failure

Spec == Init /\ [][Next]_vars

(* The lock holder and a started edit run on; the application keeps asking *)
(* for syncs and drains.  Other devices, users and failures owe nothing.   *)
FairSpec == Spec /\ WF_vars(Sync \/ Drain \/ Publish) /\ WF_vars(SaveEdit \/ MarkEdit)

(***************************************************************************)
(* Properties                                                              *)
(***************************************************************************)
PCs == SyncPCs \union {"idle", "next", "mark", "pass", "write", "append", "appendWrite",
                       "storeVersion", "storeIdentity", "clear", "recheck"}

Manifest == [version : Nat, items : SUBSET Item]
Modelled == {i \in Item : i.key \in Keys}

(* Every variable holds a value of the shape the code gives it; at most    *)
(* one identity is stored per key, as the store's primary key makes it.    *)
TypeOK ==
  /\ manifest \in Manifest /\ cur \in Manifest
  /\ IsFiniteSet(manifest.items) /\ IsFiniteSet(cur.items)
  /\ row \in [Keys -> Rec] /\ flag \subseteq Keys
  /\ ident \subseteq Modelled /\ \A i, j \in ident : i.key = j.key => i = j
  /\ version \in Nat /\ cursor \in [target : Nat, next : Nat]
  /\ pc \in PCs
  /\ job \in [todo : SUBSET Keys, key : Keys, want : Rec, passes : Nat, attempts : Nat]
  /\ sync \in [caller : {"idle", "pass"}, pending : SUBSET Keys, batch : Nat,
               unread : SUBSET Modelled, item : Modelled, merged : Rec]
  /\ edit \in [phase : {"idle", "save", "mark"}, key : Keys, rec : Rec]
  /\ spent \in [edits : Nat, remote : Nat, crashes : Nat, faults : Nat]
  /\ ghost \in [touched : SUBSET (Keys \X Fields), blind : BOOLEAN, torn : BOOLEAN]

(* The server's side of every push, sync, crash and lost answer is that of *)
(* a storage service: a write moves the version by one, touches one        *)
(* subject and keeps every other record listed, the unmodelled ones        *)
(* included (append_storage_record, write_manifest_edit).                  *)
Service == INSTANCE StorageManifest
             WITH Key <- AnyKey, version <- manifest.version, items <- manifest.items
ServiceSpec == Service!Spec

(* The version this device claims to have read is one the server reached,  *)
(* and a manifest it is about to write on top of is, while its version is  *)
(* the server's, what the server lists.                                    *)
VersionReached ==
  /\ version <= manifest.version /\ cur.version <= manifest.version
  /\ pc \in {"storeVersion"} => cur.version < manifest.version
  /\ pc \in {"write", "appendWrite"} /\ Unchanged => cur.items = manifest.items

Intact == ~ghost.blind /\ ~ghost.torn

(* `update_storage_record` reads no record before editing it: at the       *)
(* server's version, every record the account holds is the one stored      *)
(* here.  Only two things break this, and the history records them: an     *)
(* append on top of a version never read (blind), and a crash between      *)
(* storing a written version and the identity written with it (torn).      *)
CurrentWhenCaughtUp ==
  version = manifest.version /\ Intact /\ pc # "storeIdentity" =>
    \A i \in manifest.items : i.key \in Keys => i \in ident

(* No subject ever gets a second record out of a conflict, a lost answer   *)
(* or a crash before the written version is stored.                        *)
OneRecordPerKey ==
  Intact => \A i, j \in manifest.items : i.key = j.key => i = j

(* A sync that resumes from its cursor skips only batches whose records    *)
(* are stored here: checkpoints follow the records, and a cursor for       *)
(* another version is never used.                                          *)
ResumeSkipsNothing ==
  cursor.target = manifest.version /\ Intact =>
    \A n \in 1..cursor.next : \A i \in Batches(manifest.items)[n] : i \in ident

(* Without a crash, a row that disagrees with the record it was published  *)
(* or read as is marked, or the step that will mark it is under way: no    *)
(* interleaving of edits, drains and syncs leaves a change nobody will     *)
(* publish (push_contact_record's re-flagging).                            *)
UnpublishedIsMarked ==
  spent.crashes = 0 =>
    \A k \in Keys :
      row[k] # (IF Held(k) = {} THEN Blank ELSE HeldRec(k)) =>
        \/ k \in flag
        \/ edit.phase = "mark" /\ edit.key = k
        \/ pc = "saveIdentity" /\ sync.item.key = k
        \/ pc = "recheck" /\ job.key = k

(* While no edit overlaps a sync, a sync, resumed or not, never reverts a  *)
(* change whose publish is outstanding (pending_publish_intent).           *)
OutstandingKept ==
  [][pc = "saveRow" /\ pc' = "saveIdentity" =>
       \A k \in flag, f \in Fields :
         Held(k) # {} /\ HeldRec(k)[f] # row[k][f] => row'[k][f] = row[k][f]]_vars

(* Unless the process crashes, once users and other devices rest every     *)
(* mark is gone and every row says what the account's record says,         *)
(* whatever conflicts, retries and failed requests came before.            *)
Settled == \A k \in Keys : k \notin flag /\ \A i \in manifest.items : i.key = k => i.rec = row[k]
Settles == [](spent.crashes = 0) => <>[]Settled
=============================================================================
