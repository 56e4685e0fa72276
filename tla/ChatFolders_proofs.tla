------------------------- MODULE ChatFolders_proofs -------------------------
(***************************************************************************)
(* What ChatFolders guarantees for every set of folders, every retry       *)
(* limit, lifetime of a tombstone and bound on the environment: the type   *)
(* invariant, and that a device at the server's version knows every record *)
(* of its folders and so never files a second one.                         *)
(***************************************************************************)
EXTENDS ChatFolders, FiniteSetTheorems, TLAPS

USE ChatFoldersAssumption

(***************************************************************************)
(* The operators the actions are built from                                *)
(***************************************************************************)
Syncing == [caller : {"idle", "pass"}, pending : SUBSET Ids, unread : SUBSET Item,
            item : SUBSET Item, merged : SUBSET Folder]
Pushing == [pending : SUBSET Ids, expired : SUBSET Ids, inserts : SUBSET Filled,
            deletes : SUBSET Item, passes : Nat, attempts : Nat]
EditLocals == [phase : {"idle", "open", "mark", "list", "stage"}, folder : Ids \union {0},
            todo : SUBSET Filled, renumber : BOOLEAN]
History == [torn : BOOLEAN, skipped : BOOLEAN, overlap : BOOLEAN, revived : BOOLEAN]

(* The constants the initial locals are made of have their types.          *)
LEMMA Defaults ==
  /\ AllChats \in Folder /\ Live(AllChats)
  /\ NoManifest \in Manifest
  /\ NoSync \in Syncing /\ NoPush \in Pushing /\ NoEdit \in EditLocals
<1>1. AnyName \in Names
  BY DEF AnyName
<1> QED
  BY <1>1 DEF AllChats, Folder, Live, NoManifest, Manifest, NoSync, Syncing, NoPush, Pushing, NoEdit, EditLocals

(* A rename or a delete of a folder is a folder (ChatFolder::tombstone).   *)
LEMMA TombstoneType ==
  ASSUME NEW f \in Folder, NEW t \in Nat
  PROVE  /\ Tombstone(f, t) \in Folder /\ Tombstone(f, t).deleted = t
         /\ \A p \in Nat : [f EXCEPT !.position = p] \in Folder /\ [f EXCEPT !.position = p].deleted = f.deleted
         /\ \A n \in Names : [f EXCEPT !.name = n] \in Folder
BY DEF Tombstone, Folder

(* The live folders are finitely many; so is a rank among them.            *)
LEMMA RankType ==
  ASSUME TypeOK
  PROVE  /\ IsFiniteSet(Stored) /\ IsFiniteSet(Lives) /\ IsFiniteSet(LiveAlls)
         /\ Cardinality(Lives) \in Nat
         /\ \A k : Rank(k) \in Nat
<1>1. IsFiniteSet(Stored) /\ IsFiniteSet(Lives) /\ IsFiniteSet(LiveAlls)
  <2>1. Stored \subseteq Ids
    BY DEF TypeOK
  <2>2. Lives \subseteq Ids /\ LiveAlls \subseteq Ids
    BY <2>1 DEF Lives, LiveAlls
  <2> QED
    BY <2>1, <2>2, FS_Subset
<1>2. ASSUME NEW k PROVE Rank(k) \in Nat
  <2> DEFINE R == {j \in Lives : \/ row[j].position < row[k].position
                                 \/ row[j].position = row[k].position /\ j < k}
  <2>1. IsFiniteSet(R)
    BY <1>1, FS_Subset
  <2>2. Cardinality(R) \in Nat
    BY <2>1, FS_CardinalityType
  <2> QED
    BY <2>2 DEF Rank
<1> QED
  BY <1>1, <1>2, FS_CardinalityType

(* Saving a folder stores it and leaves the others alone.                  *)
LEMMA SavedRow ==
  ASSUME NEW k, NEW f
  PROVE  /\ DOMAIN Saved(k, f) = Stored \union {k}
         /\ Saved(k, f)[k] = f
         /\ \A j \in Stored \ {k} : Saved(k, f)[j] = row[j]
BY DEF Saved, Stored

LEMMA SavedType ==
  ASSUME TypeOK, NEW k \in Ids, NEW f \in Folder
  PROVE  /\ DOMAIN Saved(k, f) \subseteq Ids
         /\ \A j \in DOMAIN Saved(k, f) : Saved(k, f)[j] \in Folder
<1>1. \A j \in Stored : row[j] \in Folder
  BY DEF TypeOK
<1>2. Stored \subseteq Ids
  BY DEF TypeOK
<1>3. DOMAIN Saved(k, f) = Stored \union {k} /\ Saved(k, f)[k] = f
      /\ \A j \in Stored \ {k} : Saved(k, f)[j] = row[j]
  BY DEF Saved, Stored
<1> QED
  BY <1>1, <1>2, <1>3, Zenon

(* Storing an identity keeps at most one per folder (it is columns of the  *)
(* folder's row).                                                          *)
LEMMA IdentityStored ==
  ASSUME TypeOK, NEW i \in Item, NEW at \in Nat,
         ident' = WithIdentity(i, at), i.folder \in Stored', Stored \subseteq Stored'
  PROVE  /\ ident' \subseteq [item : Item, at : Nat] /\ \A h \in ident' : h.item.folder \in Stored'
         /\ \A g, h \in ident' : g.item.folder = h.item.folder => g = h
         /\ [item |-> i, at |-> at] \in ident'
         /\ \A h \in ident : h.item.folder # i.folder => h \in ident'
<1>1. \A h \in ident' : h = [item |-> i, at |-> at] \/ (h \in ident /\ h.item.folder # i.folder)
  BY DEF WithIdentity
<1>2. ident \subseteq [item : Item, at : Nat] /\ [item |-> i, at |-> at] \in [item : Item, at : Nat]
  BY DEF TypeOK
<1>3. ident' \subseteq [item : Item, at : Nat]
  BY <1>1, <1>2
<1>4. \A h \in ident' : h.item.folder \in Stored'
  <2>1. \A h \in ident : h.item.folder \in Stored'
    BY DEF TypeOK
  <2> QED
    BY <1>1, <2>1
<1>5. \A g, h \in ident' : g.item.folder = h.item.folder => g = h
  BY <1>1 DEF TypeOK
<1>6. [item |-> i, at |-> at] \in ident' /\ \A h \in ident : h.item.folder # i.folder => h \in ident'
  BY DEF WithIdentity
<1> QED
  BY <1>3, <1>4, <1>5, <1>6

(* A merge saves at most one folder, never revives a stored tombstone and  *)
(* never dates it later (merge_chat_folder_from_snapshot).                 *)
LEMMA MergedFolder ==
  ASSUME TypeOK, NEW i \in Item
  PROVE  /\ Merged(i) \subseteq Folder
         /\ \A f \in Merged(i) : i.folder \in Stored /\ ~ Live(row[i.folder]) =>
              ~ Live(f) /\ f.deleted <= row[i.folder].deleted
         /\ i.folder \in AllType /\ Merged(i) = {} => i.folder \in Stored \/ i.folder \in sync.pending
<1> DEFINE k == i.folder
           deletes == {row[k].deleted, i.rec.deleted} \ {0}
           first == CHOOSE t \in deletes : \A u \in deletes : t <= u
<1>0. i.rec \in Folder /\ k \in Ids
  BY DEF Item
<1>1. CASE k \in sync.pending
  BY <1>1, Zenon DEF Merged
<1>2. CASE k \notin sync.pending /\ k \in AllType
  <2>1. Merged(i) = IF k \in Stored /\ ~Live(row[k]) THEN {} ELSE {AllChats}
    BY <1>2 DEF Merged
  <2> QED
    BY <2>1, Defaults
<1>3. CASE k \notin sync.pending /\ k \in Customs /\ k \notin Stored
  <2>1. Merged(i) = IF Live(i.rec) THEN {i.rec} ELSE {}
    BY <1>3 DEF Merged
  <2> QED
    BY <1>0, <1>3, <2>1
<1>4. CASE k \notin sync.pending /\ k \in Customs /\ k \in Stored
  <2>1. Merged(i) = {IF deletes = {} THEN i.rec ELSE Tombstone(i.rec, first)}
    BY <1>4 DEF Merged
  <2>2. row[k] \in Folder
    BY <1>4 DEF TypeOK
  <2>3. deletes # {} => first \in deletes /\ (\A u \in deletes : first <= u)
    <3>1. row[k].deleted \in Nat /\ i.rec.deleted \in Nat
      BY <1>0, <2>2 DEF Folder
    <3>2. deletes # {} => \E t \in deletes : \A u \in deletes : t <= u
      <4>1. CASE row[k].deleted # 0 /\ (i.rec.deleted = 0 \/ row[k].deleted <= i.rec.deleted)
        <5>1. row[k].deleted \in deletes /\ \A u \in deletes : row[k].deleted <= u
          BY <3>1, <4>1
        <5> HIDE DEF deletes
        <5> QED
          BY <5>1
      <4>2. CASE i.rec.deleted # 0 /\ (row[k].deleted = 0 \/ i.rec.deleted <= row[k].deleted)
        <5>1. i.rec.deleted \in deletes /\ \A u \in deletes : i.rec.deleted <= u
          BY <3>1, <4>2
        <5> HIDE DEF deletes
        <5> QED
          BY <5>1
      <4>3. CASE row[k].deleted = 0 /\ i.rec.deleted = 0
        BY <4>3
      <4> HIDE DEF deletes
      <4> QED
        BY <3>1, <4>1, <4>2, <4>3
    <3> HIDE DEF deletes
    <3> QED
      BY <3>2
  <2>4. deletes \subseteq Nat /\ 0 \notin deletes /\ (~ Live(row[k]) => row[k].deleted \in deletes)
    BY <1>0, <2>2 DEF Folder, Live
  <2>5. k \notin AllType
    BY <1>4
  <2> HIDE DEF deletes, first
  <2>6. deletes # {} => Tombstone(i.rec, first) \in Folder /\ Tombstone(i.rec, first).deleted = first
    BY <1>0, <2>3, <2>4, TombstoneType
  <2>7. \A f \in Merged(i) : f \in Folder /\ (deletes # {} => f.deleted = first)
    BY <1>0, <2>1, <2>6
  <2>8. ASSUME NEW f \in Merged(i), ~ Live(row[k]) PROVE ~ Live(f) /\ f.deleted <= row[k].deleted
    BY <2>3, <2>4, <2>7, <2>8 DEF Live
  <2> QED
    BY <2>5, <2>7, <2>8
<1> QED
  BY <1>0, <1>1, <1>2, <1>3, <1>4 DEF Ids

(* Collapsing leaves the order of the folders it keeps: a dead one stays   *)
(* as it was (ensure_single_all_chats_folder).                             *)
LEMMA CollapsedRow ==
  ASSUME TypeOK, Collapse
  PROVE  /\ DOMAIN row' \subseteq Stored
         /\ \A k \in DOMAIN row' : row'[k] \in Folder
         /\ \A k \in Stored : k \notin LiveAlls => k \in DOMAIN row' /\ row'[k] = row[k]
         /\ \A k \in LiveAlls \ Duplicates : k \in DOMAIN row' /\ row'[k] = row[k]
         /\ \A k \in Duplicates : k \notin DOMAIN row' \/ ~ Live(row'[k])
         /\ \A h \in ident : h.item.folder \in DOMAIN row'
         /\ flag' \subseteq DOMAIN row'
<1>1. /\ DOMAIN row' = Stored \ Unpublished
      /\ \A k \in Stored \ Unpublished : row'[k] = IF k \in Duplicates THEN Tombstone(row[k], ExpiredAt) ELSE row[k]
  BY DEF Collapse
<1>2. Duplicates \subseteq LiveAlls /\ Unpublished \subseteq Duplicates /\ LiveAlls \subseteq Stored
  BY DEF Duplicates, Unpublished, LiveAlls, Lives
<1>3. \A k \in Stored : row[k] \in Folder /\ Tombstone(row[k], ExpiredAt) \in Folder
                        /\ Tombstone(row[k], ExpiredAt).deleted = 1
  <2>1. \A k \in Stored : row[k] \in Folder
    BY DEF TypeOK
  <2>2. \A f \in Folder : Tombstone(f, 1) \in Folder /\ Tombstone(f, 1).deleted = 1
    BY TombstoneType
  <2> QED
    BY <2>1, <2>2 DEF ExpiredAt
<1>4. \A h \in ident : h.item.folder \notin Unpublished
  BY DEF Unpublished, Identified
<1>5. \A h \in ident : h.item.folder \in Stored
  BY DEF TypeOK
<1>6. flag' \subseteq DOMAIN row'
  BY <1>1 DEF Collapse, TypeOK
<1>7. \A k \in Duplicates : k \notin DOMAIN row' \/ ~ Live(row'[k])
  BY <1>1, <1>2, <1>3 DEF Live
<1> QED
  BY <1>1, <1>2, <1>3, <1>4, <1>5, <1>6, <1>7

(***************************************************************************)
(* Type correctness                                                        *)
(***************************************************************************)
(* What the locals refer to: an edit opens custom folders and renumbers    *)
(* live ones, a sync leaves out rows that are stored.                      *)
Locals ==
  /\ edit.phase \in {"idle", "open"} => edit.todo = {}
  /\ \A r \in edit.todo : Live(r.rec)
  /\ edit.phase = "open" => edit.folder \in Customs
  /\ sync.pending \subseteq Stored /\ (pc \notin SyncPCs => sync.pending = {})

(* A device that has never synced is well typed.                           *)
LEMMA TypeInit == Init => TypeOK /\ Locals
<1> SUFFICES ASSUME Init PROVE TypeOK /\ Locals
  OBVIOUS
<1>1. manifest \in Manifest
  <2>1. PICK S \in SUBSET Filed : manifest = [version |-> 1, items |-> [folder : S, id : {1}, rec : {AllChats}]]
    BY DEF Init
  <2>2. S \subseteq Ids /\ AllChats \in Folder
    BY Defaults DEF Ids, AllType
  <2>3. ASSUME NEW i \in [folder : S, id : {1}, rec : {AllChats}] PROVE i \in Item
    <3>1. i = [folder |-> i.folder, id |-> 1, rec |-> AllChats] /\ i.folder \in S
      OBVIOUS
    <3>2. i.folder \in Ids /\ 1 \in Nat /\ AllChats \in Folder
      BY <2>2, <3>1
    <3> HIDE DEF AllChats
    <3> QED
      BY <3>1, <3>2, Zenon DEF Item
  <2> QED
    BY <2>1, <2>3 DEF Manifest
<1>2. Stored = {} /\ cur \in Manifest /\ sync \in Syncing /\ push \in Pushing /\ edit \in EditLocals
  BY Defaults DEF Init, Stored
<1>3. FirstNow \in Nat /\ edit.phase = "idle" /\ edit.todo = {} /\ sync.pending = {}
  BY DEF Init, FirstNow, NoEdit, NoSync
<1> QED
  BY <1>1, <1>2, <1>3 DEF Init, PCs, TypeOK, Syncing, Pushing, EditLocals, History, Locals

(* Noting what an edit overlaps or revives.                                *)
LEMMA NoteType ==
  ASSUME TypeOK, NoteOverlap
  PROVE  /\ ghost' \in History
         /\ ghost'.torn = ghost.torn /\ ghost'.skipped = ghost.skipped
         /\ ghost'.overlap <=> ghost.overlap \/ ((Editing \/ Editing') /\ pc' # "idle")
         /\ ghost'.revived <=> ghost.revived \/ \E i \in manifest.items : i.folder \in DOMAIN row' \ Stored
BY DEF NoteOverlap, TypeOK, History

(* A sync, whoever calls it, starts from a fetched manifest and the marks. *)
LEMMA BeginSyncType ==
  ASSUME TypeOK, Locals, NEW caller \in {"idle", "pass"}, BeginSync(caller), push' \in Pushing
  PROVE  TypeOK' /\ Locals'
<1>1. sync' \in Syncing /\ sync'.pending = flag
  BY Defaults DEF BeginSync, TypeOK, Syncing
<1>2. ghost' \in History
  BY NoteType DEF BeginSync
<1> QED
  BY <1>1, <1>2 DEF BeginSync, PCs, SyncPCs, device, Locals, Stored, TypeOK, Syncing, Pushing, EditLocals, History

(* Every step of a sync keeps the types (sync_storage_service).            *)
LEMMA SyncType == TypeOK /\ Locals /\ Sync => TypeOK' /\ Locals'
<1> SUFFICES ASSUME TypeOK, Locals, Sync PROVE TypeOK' /\ Locals'
  OBVIOUS
<1> USE Defaults DEF PCs, SyncPCs, device
<1> USE DEF Syncing, Pushing, EditLocals, History, Manifest
<1>1. CASE StartSync
  BY <1>1, BeginSyncType DEF StartSync, TypeOK
<1>2. CASE SyncUnchanged
  BY <1>2, NoteType DEF SyncUnchanged, TypeOK, Locals, Stored, NoSync
<1>3. CASE ReadFolders
  BY <1>3 DEF ReadFolders, TypeOK, Locals, Stored
<1>4. ASSUME NEW i \in sync.unread, MergeFolder(i) PROVE TypeOK' /\ Locals'
  <2>1. i \in Item
    BY DEF TypeOK
  <2>2. Merged(i) \subseteq Folder
    BY <2>1, MergedFolder
  <2>3. /\ UNCHANGED <<manifest, row, flag, ident, version, now, cur, push, edit, spent, ghost>>
        /\ pc = "merge" /\ pc' = "save" /\ sync' = [sync EXCEPT !.unread = sync.unread \ {i}, !.item = {i}, !.merged = Merged(i)]
    BY <1>4 DEF MergeFolder
  <2>4. sync' \in Syncing /\ sync'.pending = sync.pending
    <3>1. sync \in Syncing
      BY DEF TypeOK
    <3> QED
      BY <2>1, <2>2, <2>3, <3>1
  <2>5. TypeOK'
    BY <2>3, <2>4 DEF TypeOK, Stored
  <2>6. Locals'
    BY <2>3, <2>4 DEF Locals, Stored
  <2> QED
    BY <2>5, <2>6
<1>5. CASE SaveMerged
  <2>1. PICK i \in sync.item :
          /\ \/ sync.merged = {} /\ UNCHANGED row
             \/ \E f \in sync.merged : row' = Saved(i.folder, f)
          /\ ident' = IF i.folder \in DOMAIN row' THEN WithIdentity(i, cur.version) ELSE ident
    BY <1>5 DEF SaveMerged
  <2>2. i \in Item /\ i.folder \in Ids /\ cur.version \in Nat
    BY DEF TypeOK, Item
  <2>3. Stored' \subseteq Ids /\ Stored \subseteq Stored' /\ \A k \in Stored' : row'[k] \in Folder
    <3>1. CASE UNCHANGED row
      BY <3>1 DEF TypeOK, Stored
    <3>2. ASSUME NEW f \in sync.merged, row' = Saved(i.folder, f) 
          PROVE  Stored' \subseteq Ids /\ Stored \subseteq Stored' /\ \A k \in Stored' : row'[k] \in Folder
      <4>1. f \in Folder
        BY DEF TypeOK
      <4> QED
        BY <2>2, <3>2, <4>1 DEF Saved, Stored, TypeOK
    <3> QED
      BY <2>1, <3>1, <3>2
  <2>4. /\ ident' \subseteq [item : Item, at : Nat] /\ \A h \in ident' : h.item.folder \in Stored'
        /\ \A g, h \in ident' : g.item.folder = h.item.folder => g = h
    <3>1. CASE i.folder \in DOMAIN row'
      <4>1. ident' = WithIdentity(i, cur.version)
        BY <2>1, <3>1
      <4>2. i.folder \in Stored'
        BY <3>1 DEF Stored
      <4> QED
        BY <2>2, <2>3, <4>1, <4>2, IdentityStored
    <3>2. CASE i.folder \notin DOMAIN row'
      BY <2>1, <2>3, <3>2 DEF TypeOK
    <3> QED
      BY <3>1, <3>2
  <2>5. /\ UNCHANGED <<manifest, flag, version, now, cur, sync, push, edit, spent, ghost>>
        /\ pc = "save" /\ pc' = "merge"
    BY <1>5 DEF SaveMerged
  <2>6. TypeOK'
    BY <2>3, <2>4, <2>5 DEF TypeOK
  <2>7. Locals'
    BY <2>3, <2>5 DEF Locals
  <2> QED
    BY <2>6, <2>7
<1>6. CASE StoreReadVersion
  BY <1>6 DEF StoreReadVersion, TypeOK, Locals, Stored
<1>7. CASE Reappend
  BY <1>7 DEF Reappend, TypeOK, Locals, Stored
<1>8. CASE FinishSync
  <2>1. /\ Stored' \subseteq Ids /\ (\A k \in Stored' : row'[k] \in Folder) /\ flag' \subseteq Stored'
        /\ ident' = ident /\ \A h \in ident' : h.item.folder \in Stored'
    BY <1>8, CollapsedRow DEF FinishSync, Collapse, Stored, TypeOK
  <2> QED
    BY <1>8, <2>1 DEF FinishSync, LeaveSync, TypeOK, Locals, NoSync
<1>9. ASSUME NEW n \in Own, CreateAll(n) PROVE TypeOK' /\ Locals'
  <2>1. n \in Ids /\ row' = Saved(n, AllChats)
    BY <1>9 DEF CreateAll, Ids, AllType
  <2>2. Stored' \subseteq Ids /\ Stored \subseteq Stored' /\ n \in Stored' /\ \A k \in Stored' : row'[k] \in Folder
    BY <2>1 DEF Saved, Stored, TypeOK
  <2> QED
    BY <1>9, <2>1, <2>2 DEF CreateAll, TypeOK, Locals
<1>10. CASE MarkAll
  BY <1>10 DEF MarkAll, LeaveSync, TypeOK, Locals, NoSync, Stored
<1> QED
  BY <1>1, <1>2, <1>3, <1>4, <1>5, <1>6, <1>7, <1>8, <1>9, <1>10 DEF Sync

(* What a push writes is a manifest of items.                              *)
LEMMA WrittenType ==
  ASSUME TypeOK
  PROVE  /\ Inserted \subseteq Item
         /\ \A i \in Inserted : i.folder \in Ids
         /\ Edited \in Manifest
<1>1. /\ push.inserts \subseteq Filled /\ cur.version + 1 \in Nat /\ cur.version \in Nat
      /\ cur.items \subseteq Item
  BY DEF TypeOK, Manifest
<1>2. Inserted \subseteq Item
  BY <1>1 DEF Inserted, Item, Filled
<1>3. \A i \in Inserted : i.folder \in Ids
  BY <1>2 DEF Item
<1> QED
  BY <1>1, <1>2, <1>3 DEF Edited, Manifest

(* Every step of a push keeps the types                                    *)
(* (push_pending_chat_folder_records).                                     *)
LEMMA PublishType == TypeOK /\ Locals /\ Publish => TypeOK' /\ Locals'
<1> SUFFICES ASSUME TypeOK, Locals, Publish PROVE TypeOK' /\ Locals'
  OBVIOUS
<1> USE Defaults DEF PCs, SyncPCs, device
<1> USE DEF Syncing, Pushing, EditLocals, History, Manifest
<1>0. push.passes + 1 \in Nat /\ push.attempts + 1 \in Nat
  BY DEF TypeOK
<1>1. CASE StartPush
  <2>1. ExpiredTombstones \subseteq Ids /\ flag \subseteq Ids
    BY DEF ExpiredTombstones, TypeOK
  <2>2. push' \in Pushing
    BY <1>1, <2>1 DEF StartPush
  <2> QED
    BY <1>1, <2>2, NoteType DEF StartPush, TypeOK, Locals, Stored
<1>2. CASE PassBehind
  <2>1. push' \in Pushing
    BY <1>0, <1>2 DEF PassBehind, NextPass, TypeOK
  <2> QED
    BY <1>2, <2>1, BeginSyncType DEF PassBehind
<1>3. CASE Build
  <2>1. /\ {[folder |-> k, rec |-> row[k]] : k \in push.pending \intersect Stored} \subseteq Filled
        /\ {h.item : h \in {g \in ident : g.item.folder \in (push.pending \intersect Stored) \union push.expired}} \subseteq Item
    BY DEF TypeOK, Filled
  <2>2. push' \in Pushing /\ pc' \in {"purge", "write"}
    BY <1>0, <1>3, <2>1 DEF Build, TypeOK
  <2>3. /\ UNCHANGED <<manifest, row, ident, version, now, sync, edit, spent, ghost>>
        /\ flag' \subseteq flag /\ cur' = manifest /\ pc = "pass"
    BY <1>3 DEF Build, Passing
  <2> QED
    BY <2>2, <2>3 DEF TypeOK, Locals, Stored
<1>4. CASE PassesExhausted
  BY <1>4 DEF PassesExhausted, TypeOK, Locals, Stored
<1>5. CASE RecordMoved \/ WriteConflict
  <2>0. pc = "write" /\ Retry
    BY <1>5 DEF RecordMoved, WriteConflict
  <2>1. push' \in Pushing /\ pc' \in {"idle", "pass"}
    <3>1. [push EXCEPT !.attempts = @ + 1, !.inserts = {}, !.deletes = {}] \in Pushing
      BY <1>0 DEF TypeOK
    <3> QED
      BY <2>0, <3>1 DEF Retry
  <2> QED
    BY <2>0, <2>1 DEF Retry, TypeOK, Locals, Stored
<1>6. CASE WriteAccepted
  BY <1>6, WrittenType DEF WriteAccepted, TypeOK, Locals, Stored
<1>7. CASE StoreWrittenVersion
  BY <1>7 DEF StoreWrittenVersion, TypeOK, Locals, Stored
<1>8. ASSUME NEW i \in Inserted, SavePublished(i) PROVE TypeOK' /\ Locals'
  <2>1. i \in Item /\ cur.version + 1 \in Nat
    BY WrittenType DEF TypeOK
  <2>2. /\ ident' \subseteq [item : Item, at : Nat] /\ \A h \in ident' : h.item.folder \in Stored
        /\ \A g, h \in ident' : g.item.folder = h.item.folder => g = h
    <3>1. CASE i.folder \in Stored
      <4>1. ident' = WithIdentity(i, cur.version + 1)
        BY <1>8, <3>1 DEF SavePublished
      <4> QED
        <5>1. Stored' = Stored
          BY <1>8 DEF SavePublished, Stored
        <5> QED
          BY <2>1, <3>1, <4>1, <5>1, IdentityStored
    <3>2. CASE i.folder \notin Stored
      BY <1>8, <3>2 DEF SavePublished, TypeOK
    <3> QED
      BY <3>1, <3>2
  <2> QED
    BY <1>8, <2>2 DEF SavePublished, TypeOK, Locals, Stored
<1>9. CASE AllPublished
  BY <1>9 DEF AllPublished, TypeOK, Locals, Stored
<1>10. CASE Purge
  <2>1. Stored' = Stored \ push.expired /\ \A k \in Stored' : row'[k] = row[k]
    BY <1>10 DEF Purge, Without, Stored
  <2>2. /\ ident' \subseteq ident /\ (\A h \in ident' : h.item.folder \in Stored') /\ flag' \subseteq Stored'
        /\ Stored' \subseteq Stored /\ pc = "purge"
    BY <1>10, <2>1 DEF Purge, TypeOK
  <2>3. /\ UNCHANGED <<manifest, version, now, sync, edit, spent, ghost>>
        /\ pc' = "idle" /\ push' \in Pushing /\ cur' \in Manifest
    BY <1>10, Defaults DEF Purge
  <2>4. sync.pending = {}
    BY <2>2 DEF Locals
  <2>5. \A k \in Stored' : row'[k] \in Folder
    BY <2>1, <2>2 DEF TypeOK
  <2>6. TypeOK'
    BY <2>2, <2>3, <2>5 DEF TypeOK
  <2>7. Locals'
    BY <2>3, <2>4 DEF Locals
  <2> QED
    BY <2>6, <2>7
<1> QED
  BY <1>1, <1>2, <1>3, <1>4, <1>5, <1>6, <1>7, <1>8, <1>9, <1>10 DEF Publish

(* Every step of an edit keeps the types (save_chat_folder,                *)
(* delete_chat_folder, renumber_chat_folders).                             *)
LEMMA UserType == TypeOK /\ Locals /\ User => TypeOK' /\ Locals'
<1> SUFFICES ASSUME TypeOK, Locals, User PROVE TypeOK' /\ Locals'
  OBVIOUS
<1> USE Defaults DEF UserStep
<1> USE DEF EditLocals, History
<1>0. ASSUME UserStep, edit' \in EditLocals, spent' \in [edits : Nat, remote : Nat, crashes : Nat, faults : Nat],
             edit'.phase \in {"idle", "open"} => edit'.todo = {}, \A r \in edit'.todo : Live(r.rec),
             edit'.phase = "open" => edit'.folder \in Customs,
             Stored' \subseteq Ids, Stored \subseteq Stored', \A k \in Stored' : row'[k] \in Folder,
             flag' \subseteq Stored'
      PROVE  TypeOK' /\ Locals'
  <2>1. /\ UNCHANGED <<manifest, ident, version, now, pc, cur, sync, push>> /\ ghost' \in History
    BY <1>0, NoteType
  <2>2. \A h \in ident : h.item.folder \in Stored'
    BY <1>0 DEF TypeOK
  <2>3. TypeOK'
    BY <1>0, <2>1, <2>2 DEF TypeOK
  <2>4. Locals'
    BY <1>0, <2>1 DEF Locals
  <2> QED
    BY <2>3, <2>4
<1>1. ASSUME NEW k \in Customs, OpenFolder(k) PROVE TypeOK' /\ Locals'
  <2>1. edit' = [NoEdit EXCEPT !.phase = "open", !.folder = k] /\ k \in Ids
    BY <1>1 DEF OpenFolder, Ids
  <2>2. edit' \in EditLocals /\ edit'.phase = "open" /\ edit'.folder = k /\ edit'.todo = {}
    BY <2>1 DEF NoEdit
  <2>3. spent' \in [edits : Nat, remote : Nat, crashes : Nat, faults : Nat]
    BY <1>1 DEF OpenFolder, TypeOK
  <2> QED
    BY <1>0, <1>1, <2>2, <2>3 DEF OpenFolder, TypeOK, Stored
<1>2. ASSUME NEW name \in Names, SubmitSave(name) PROVE TypeOK' /\ Locals'
  <2> DEFINE k == edit.folder
             f == [deleted |-> 0, name |-> name,
                   position |-> IF k \in Stored THEN row[k].position ELSE Cardinality(Lives)]
  <2>1. row' = Saved(k, f) /\ k \in Ids
    BY <1>2 DEF SubmitSave, Locals, Ids
  <2>2. f \in Folder
    <3>1. k \in Stored => row[k].position \in Nat
      BY DEF TypeOK, Folder
    <3> QED
      BY <3>1, RankType DEF Folder
  <2> HIDE DEF f
  <2>3. Stored' \subseteq Ids /\ Stored \subseteq Stored' /\ \A j \in Stored' : row'[j] \in Folder
    BY <2>1, <2>2 DEF Saved, Stored, TypeOK
  <2>4. edit' \in EditLocals /\ edit'.phase = "mark" /\ edit'.todo = edit.todo
    BY <1>2 DEF SubmitSave, TypeOK
  <2> QED
    BY <1>0, <1>2, <2>3, <2>4 DEF SubmitSave, TypeOK, Locals
<1>3. CASE SubmitDelete
  <2>1. /\ row' = [row EXCEPT ![edit.folder] = Tombstone(@, now)] /\ edit.folder \in Stored
        /\ edit' = [edit EXCEPT !.phase = "mark", !.renumber = TRUE]
    BY <1>3 DEF SubmitDelete
  <2>2. Stored' = Stored /\ \A j \in Stored' : row'[j] \in Folder
    BY <2>1, TombstoneType DEF Stored, TypeOK
  <2>3. edit' \in EditLocals /\ edit'.phase = "mark" /\ edit'.todo = edit.todo
    BY <2>1 DEF TypeOK
  <2> QED
    BY <1>0, <1>3, <2>2, <2>3 DEF SubmitDelete, TypeOK, Locals
<1>4. CASE MarkStaged
  <2>1. edit' \in EditLocals /\ (edit'.phase \in {"idle", "open"} => edit'.todo = {}) /\ edit'.phase # "open"
        /\ edit'.todo \subseteq edit.todo
    <3>1. /\ [edit EXCEPT !.phase = "list", !.renumber = FALSE] \in EditLocals
          /\ [edit EXCEPT !.phase = "stage"] \in EditLocals
          /\ NoEdit.phase = "idle" /\ NoEdit.todo = {}
      BY DEF TypeOK, NoEdit
    <3> QED
      BY <1>4, <3>1 DEF MarkStaged, TypeOK
  <2>2. Stored' = Stored /\ flag' \subseteq Stored'
    BY <1>4 DEF MarkStaged, Stored, TypeOK
  <2> QED
    BY <1>0, <1>4, <2>1, <2>2 DEF MarkStaged, TypeOK, Locals
<1>5. CASE ListLive
  <2> DEFINE todo == {[folder |-> k, rec |-> [row[k] EXCEPT !.position = Rank(k)]] :
                         k \in {j \in Lives : row[j].position # Rank(j)}}
  <2>1. edit' = IF todo = {} THEN NoEdit ELSE [edit EXCEPT !.phase = "stage", !.todo = todo]
    BY <1>5 DEF ListLive
  <2>2. todo \subseteq Filled /\ \A r \in todo : Live(r.rec)
    <3>1. \A k \in Lives : /\ k \in Ids /\ [row[k] EXCEPT !.position = Rank(k)] \in Folder
                           /\ Live([row[k] EXCEPT !.position = Rank(k)])
      <4>1. \A k \in Lives : k \in Ids /\ row[k] \in Folder /\ row[k].deleted = 0 /\ Rank(k) \in Nat
        BY RankType DEF Lives, TypeOK, Live
      <4>2. \A f \in Folder, p \in Nat : [f EXCEPT !.position = p] \in Folder /\ [f EXCEPT !.position = p].deleted = f.deleted
        BY TombstoneType
      <4> QED
        BY <4>1, <4>2 DEF Live
    <3> QED
      BY <3>1 DEF Filled
  <2> HIDE DEF todo
  <2>3. edit' \in EditLocals /\ (edit'.phase \in {"idle", "open"} => edit'.todo = {}) /\ edit'.phase # "open"
        /\ \A r \in edit'.todo : Live(r.rec)
    BY <2>1, <2>2 DEF TypeOK, NoEdit
  <2> QED
    BY <1>0, <1>5, <2>3 DEF ListLive, TypeOK, Stored
<1>6. CASE StageNext
  <2>1. PICK r \in edit.todo : /\ row' = Saved(r.folder, r.rec)
                               /\ edit' = [edit EXCEPT !.phase = "mark", !.folder = r.folder, !.todo = @ \ {r}]
    BY <1>6 DEF StageNext
  <2>2. r.folder \in Ids /\ r.rec \in Folder
    BY DEF TypeOK, Filled
  <2>3. Stored' \subseteq Ids /\ Stored \subseteq Stored' /\ \A j \in Stored' : row'[j] \in Folder
    BY <2>1, <2>2 DEF Saved, Stored, TypeOK
  <2>4. edit' \in EditLocals /\ edit'.phase = "mark" /\ edit'.todo \subseteq edit.todo
    BY <2>1, <2>2 DEF TypeOK
  <2> QED
    BY <1>0, <1>6, <2>3, <2>4 DEF StageNext, TypeOK, Locals
<1> QED
  BY <1>1, <1>2, <1>3, <1>4, <1>5, <1>6 DEF User, Stage

(* No two records of the account are of one folder.                        *)
Records == \A i, j \in manifest.items : i.folder = j.folder => i = j

(* Another device files at most one record and replaces what it lists of   *)
(* that folder.                                                            *)
LEMMA RemoteItems ==
  ASSUME TypeOK, Remote
  PROVE  \E gone \in SUBSET manifest.items, come \in SUBSET Item :
           /\ RemoteWrite(gone, come)
           /\ \A i, j \in come : i = j
           /\ Records => \A i \in come, j \in manifest.items : j.folder = i.folder => j \in gone
<1>0. manifest.version + 1 \in Nat /\ manifest.items \subseteq Item /\ now \in Nat
  BY DEF TypeOK, Manifest
<1>1. \A k \in Ids, f \in Folder : Filing(k, f) \in Item /\ Filing(k, f).folder = k
  BY <1>0 DEF Filing, Item
<1> DEFINE Goal(gone, come) ==
      /\ gone \in SUBSET manifest.items /\ come \in SUBSET Item /\ RemoteWrite(gone, come)
      /\ \A i, j \in come : i = j
      /\ Records => \A i \in come, j \in manifest.items : j.folder = i.folder => j \in gone
<1>2. ASSUME NEW k \in Filed, RemoteFile(k)
      PROVE  Goal({}, {Filing(k, AllChats)})
  <2>1. k \in Ids
    BY DEF Ids, AllType
  <2>2. Filing(k, AllChats) \in Item /\ Filing(k, AllChats).folder = k
    BY <1>1, <2>1, Defaults
  <2> QED
    BY <1>2, <2>2 DEF RemoteFile
<1>3. ASSUME NEW i \in manifest.items, NEW name \in Names, RemoteRewrite(i, name)
      PROVE  \E f \in Folder : Goal({i}, {Filing(i.folder, f)})
  <2>1. i.rec \in Folder /\ i.folder \in Ids
    BY <1>0 DEF Item
  <2>2. [AllChats EXCEPT !.name = name] \in Folder /\ Tombstone(i.rec, now) \in Folder
    BY <1>0, <2>1, Defaults, TombstoneType
  <2>3. PICK f \in Folder : RemoteWrite({i}, {Filing(i.folder, f)})
    BY <1>3, <2>2 DEF RemoteRewrite
  <2>4. Filing(i.folder, f) \in Item /\ Filing(i.folder, f).folder = i.folder
    BY <1>1, <2>1
  <2> QED
    BY <2>3, <2>4 DEF Records
<1>4. ASSUME NEW i \in manifest.items, RemoteDrop(i) PROVE Goal({i}, {})
  BY <1>4 DEF RemoteDrop
<1>5. \E gone, come : Goal(gone, come)
  <2> HIDE DEF Goal
  <2> QED
    BY <1>2, <1>3, <1>4 DEF Remote
<1> QED
  BY <1>5

(* The clock, other devices and failures keep the types.                   *)
LEMMA OtherType == TypeOK /\ Locals /\ (Tick \/ Remote \/ Failure) => TypeOK' /\ Locals'
<1> SUFFICES ASSUME TypeOK, Locals, Tick \/ Remote \/ Failure PROVE TypeOK' /\ Locals'
  OBVIOUS
<1> USE DEF device
<1>1. CASE Tick
  BY <1>1 DEF Tick, TypeOK, Locals, Stored
<1>2. CASE Remote
  <2>1. PICK gone \in SUBSET manifest.items, come \in SUBSET Item : RemoteWrite(gone, come)
    BY <1>2, RemoteItems
  <2>2. manifest' \in Manifest
    BY <2>1 DEF RemoteWrite, TypeOK, Manifest
  <2> QED
    BY <2>1, <2>2 DEF RemoteWrite, TypeOK, Locals, Stored
<1>3. CASE Failure
  <2>1. /\ UNCHANGED <<row, flag, ident, version, now>> /\ pc' = "idle" /\ cur' = NoManifest
        /\ sync' = NoSync /\ push' = NoPush /\ manifest' \in {manifest, Edited} /\ edit' \in {edit, NoEdit}
    BY <1>3 DEF Failure, RequestFails, AnswerLost, Crash, Abandon
  <2>2. /\ spent' \in [edits : Nat, remote : Nat, crashes : Nat, faults : Nat]
        /\ ghost' \in History
    <3>1. CASE RequestFails \/ AnswerLost
      BY <3>1 DEF RequestFails, AnswerLost, Fault, TypeOK, History
    <3>2. CASE Crash
      <4>1. spent' = [spent EXCEPT !.crashes = @ + 1]
        BY <3>2 DEF Crash
      <4>2. ghost' \in History
        BY <3>2 DEF Crash, TypeOK, History
      <4> QED
        BY <4>1, <4>2 DEF TypeOK
    <3> QED
      BY <1>3, <3>1, <3>2 DEF Failure
  <2>3. manifest' \in Manifest /\ edit' \in EditLocals
    BY <2>1, WrittenType, Defaults DEF TypeOK, EditLocals
  <2>4. Locals'
    BY <2>1 DEF Locals, NoSync, NoEdit
  <2> QED
    BY <2>1, <2>2, <2>3, <2>4, Defaults DEF TypeOK, PCs, Syncing, Pushing, EditLocals, History, Stored
<1> QED
  BY <1>1, <1>2, <1>3

(* Every step keeps the types.                                             *)
LEMMA TypeStep == TypeOK /\ Locals /\ [Next]_vars => TypeOK' /\ Locals'
<1> SUFFICES ASSUME TypeOK, Locals, [Next]_vars PROVE TypeOK' /\ Locals'
  OBVIOUS
<1>1. CASE UNCHANGED vars
  BY <1>1 DEF TypeOK, Locals, Stored, vars, device
<1> QED
  BY <1>1, SyncType, PublishType, UserType, OtherType DEF Next

(* Every reachable state is well typed: a mark or an identity belongs to a *)
(* stored folder and a folder has at most one (the columns of the          *)
(* chat_folders table).                                                    *)
THEOREM TypeCorrect == Spec => []TypeOK
<1>1. TypeOK /\ Locals /\ [Next]_vars => (TypeOK /\ Locals)'
  BY TypeStep
<1> QED
  BY <1>1, TypeInit, PTL DEF Spec

(***************************************************************************)
(* Versions                                                                *)
(***************************************************************************)
Typed == TypeOK /\ Locals

(* What the device knows never outruns the server, and a manifest it       *)
(* fetched is the server's own or already outdated.                        *)
Versions ==
  /\ manifest.version > 0
  /\ version <= manifest.version /\ cur.version <= manifest.version
  /\ cur.version = manifest.version => cur.items = manifest.items
  /\ \A h \in ident : h.at <= manifest.version
  /\ pc \in {"read", "merge", "save"} => version < cur.version
  /\ pc \in {"reappend", "write", "storeVersion"} => cur.version = version
  /\ pc = "ensure" => cur.version = version \/ LiveAlls # {}
  /\ pc = "storeVersion" => version < manifest.version
  /\ pc = "published" => version = cur.version + 1

(* What an edit may touch: it stores rows, forgets none, ends the life of  *)
(* no all-chats folder, and saving again what the account lists is noted.  *)
LEMMA UserFrame ==
  ASSUME Typed, User
  PROVE  /\ UNCHANGED <<manifest, ident, version, now, pc, cur, sync, push>>
         /\ Stored \subseteq Stored' /\ LiveAlls \subseteq LiveAlls'
         /\ ghost'.torn = ghost.torn /\ ghost'.skipped = ghost.skipped
         /\ ghost.revived => ghost'.revived
         /\ \A i \in manifest.items : i.folder \in Stored' => i.folder \in Stored \/ ghost'.revived
<1>1. UserStep
  BY DEF User, Stage, OpenFolder, SubmitSave, SubmitDelete, MarkStaged, ListLive, StageNext
<1>2. /\ UNCHANGED <<manifest, ident, version, now, pc, cur, sync, push>>
      /\ ghost'.torn = ghost.torn /\ ghost'.skipped = ghost.skipped
      /\ ghost.revived => ghost'.revived
      /\ \A i \in manifest.items : i.folder \in Stored' => i.folder \in Stored \/ ghost'.revived
  BY <1>1, NoteType DEF UserStep, Stored, Typed
<1> DEFINE Kept == Stored \subseteq Stored' /\ LiveAlls \subseteq LiveAlls'
<1>3. ASSUME row' = row PROVE Kept
  BY <1>3 DEF Stored, Lives, LiveAlls
<1>4. ASSUME NEW k, NEW f, row' = Saved(k, f), Live(f) PROVE Kept
  BY <1>4 DEF Saved, Stored, Lives, LiveAlls
<1>5. ASSUME NEW name \in Names, SubmitSave(name) PROVE Kept
  <2>1. PICK f : row' = Saved(edit.folder, f) /\ f.deleted = 0
    BY <1>5 DEF SubmitSave
  <2> QED
    BY <1>4, <2>1 DEF Live
<1>6. ASSUME SubmitDelete PROVE Kept
  BY <1>6 DEF SubmitDelete, Stored, Lives, LiveAlls, Typed, Locals
<1>7. ASSUME StageNext PROVE Kept
  BY <1>4, <1>7 DEF StageNext, Typed, Locals
<1>8. ASSUME (\E k \in Customs : OpenFolder(k)) \/ MarkStaged \/ ListLive PROVE Kept
  BY <1>3, <1>8 DEF OpenFolder, MarkStaged, ListLive
<1> QED
  BY <1>2, <1>5, <1>6, <1>7, <1>8 DEF User, Stage

(* What a failure may touch.                                               *)
LEMMA FailureFrame ==
  ASSUME Typed, Failure
  PROVE  /\ UNCHANGED <<row, flag, ident, version, now>> /\ pc' = "idle" /\ cur' = NoManifest
         /\ sync' = NoSync /\ push' = NoPush /\ edit' \in {edit, NoEdit}
         /\ ghost.torn \/ pc = "published" => ghost'.torn
         /\ ghost.skipped \/ pc \in {"reappend", "ensure"} => ghost'.skipped
         /\ ghost'.overlap = ghost.overlap /\ ghost'.revived = ghost.revived
         /\ \/ manifest' = manifest
            \/ manifest' = Edited /\ pc = "write" /\ Unchanged
<1>1. CASE RequestFails \/ AnswerLost
  BY <1>1 DEF RequestFails, AnswerLost, Passing, Abandon, device
<1>2. CASE Crash
  BY <1>2 DEF Crash, Abandon, device, Typed, TypeOK
<1> QED
  BY <1>1, <1>2 DEF Failure

(* Steps that fetch and store nothing keep the versions.                   *)
LEMMA SameVersions ==
  ASSUME Typed, Versions, UNCHANGED <<manifest, version>>,
         cur' \in {cur, NoManifest, manifest}, ident' \subseteq ident
  PROVE  /\ manifest'.version > 0
         /\ version' <= manifest'.version /\ cur'.version <= manifest'.version
         /\ cur'.version = manifest'.version => cur'.items = manifest'.items
         /\ \A h \in ident' : h.at <= manifest'.version
<1>1. manifest.version \in Nat /\ NoManifest.version = 0
  BY DEF Typed, TypeOK, Manifest, NoManifest
<1> QED
  BY <1>1 DEF Versions

LEMMA SyncVersions == Typed /\ Versions /\ Sync => Versions'
<1> SUFFICES ASSUME Typed, Versions, Sync PROVE Versions'
  OBVIOUS
<1>0. manifest.version \in Nat /\ version \in Nat /\ cur.version \in Nat /\ sync.caller \in {"idle", "pass"}
  BY DEF Typed, TypeOK, Manifest
<1>1. CASE StartSync
  <2>1. /\ UNCHANGED <<manifest, version, ident>> /\ cur' = manifest /\ pc' = "read" /\ version < manifest.version
    BY <1>0, <1>1 DEF StartSync, BeginSync, device, Versions
  <2> QED
    BY <2>1, SameVersions DEF Versions
<1>2. CASE SyncUnchanged
  <2>1. /\ UNCHANGED <<manifest, version, ident, row>> /\ cur' = NoManifest /\ pc' = "ensure" /\ Cardinality(LiveAlls) > 1
    BY <1>2 DEF SyncUnchanged, device
  <2>2. LiveAlls # {} /\ LiveAlls' = LiveAlls
    BY <2>1, FS_EmptySet DEF LiveAlls, Lives, Stored
  <2> QED
    BY <2>1, <2>2, SameVersions DEF Versions
<1>3. CASE ReadFolders
  <2>1. UNCHANGED <<manifest, version, ident, cur>> /\ pc = "read" /\ pc' = "merge"
    BY <1>3 DEF ReadFolders, device
  <2> QED
    BY <2>1, SameVersions DEF Versions
<1>4. ASSUME NEW i \in sync.unread, MergeFolder(i) PROVE Versions'
  <2>1. UNCHANGED <<manifest, version, ident, cur>> /\ pc = "merge" /\ pc' = "save"
    BY <1>4 DEF MergeFolder, device
  <2> QED
    BY <2>1, SameVersions DEF Versions
<1>5. CASE SaveMerged
  <2>1. /\ UNCHANGED <<manifest, version, cur>> /\ pc = "save" /\ pc' = "merge"
        /\ \E i \in sync.item : ident' \in {ident, WithIdentity(i, cur.version)}
    BY <1>5 DEF SaveMerged
  <2>2. \A h \in ident' : h.at <= manifest.version
    BY <2>1 DEF Versions, WithIdentity
  <2> QED
    BY <2>1, <2>2 DEF Versions
<1>6. CASE StoreReadVersion
  <2>1. UNCHANGED <<manifest, ident, cur>> /\ pc' = "reappend" /\ version' = cur.version
    BY <1>6 DEF StoreReadVersion
  <2> QED
    BY <2>1 DEF Versions
<1>7. CASE Reappend
  <2>1. UNCHANGED <<manifest, version, cur>> /\ pc = "reappend" /\ pc' = "ensure" /\ ident' \subseteq ident
    BY <1>7 DEF Reappend
  <2> QED
    BY <2>1, SameVersions DEF Versions
<1>8. CASE FinishSync
  <2>1. UNCHANGED <<manifest, version, ident>> /\ cur' = NoManifest /\ pc' \in {"idle", "pass"}
    BY <1>0, <1>8 DEF FinishSync, Collapse, LeaveSync
  <2> QED
    BY <2>1, SameVersions DEF Versions
<1>9. ASSUME NEW n \in Own, CreateAll(n) PROVE Versions'
  <2>1. UNCHANGED <<manifest, version, ident, cur>> /\ pc' = "markAll"
    BY <1>9 DEF CreateAll
  <2> QED
    BY <2>1, SameVersions DEF Versions
<1>10. CASE MarkAll
  <2>1. UNCHANGED <<manifest, version, ident>> /\ cur' = NoManifest /\ pc' \in {"idle", "pass"}
    BY <1>0, <1>10 DEF MarkAll, LeaveSync
  <2> QED
    BY <2>1, SameVersions DEF Versions
<1> QED
  BY <1>1, <1>2, <1>3, <1>4, <1>5, <1>6, <1>7, <1>8, <1>9, <1>10 DEF Sync

LEMMA PublishVersions == Typed /\ Versions /\ Publish => Versions'
<1> SUFFICES ASSUME Typed, Versions, Publish PROVE Versions'
  OBVIOUS
<1>0. manifest.version \in Nat /\ version \in Nat /\ cur.version \in Nat
  BY DEF Typed, TypeOK, Manifest
<1>1. CASE StartPush \/ PassesExhausted \/ RecordMoved \/ WriteConflict \/ AllPublished
  <2>1. /\ UNCHANGED <<manifest, version, ident>> /\ cur' \in {cur, NoManifest}
        /\ pc' \in {"idle", "pass", "purge"}
    BY <1>1 DEF StartPush, PassesExhausted, RecordMoved, WriteConflict, Retry, AllPublished, device
  <2> QED
    BY <2>1, SameVersions DEF Versions
<1>2. CASE PassBehind
  <2>1. /\ UNCHANGED <<manifest, version, ident>> /\ cur' = manifest /\ pc' = "read" /\ version < manifest.version
    BY <1>0, <1>2 DEF PassBehind, BeginSync, CaughtUp, device, Versions
  <2> QED
    BY <2>1, SameVersions DEF Versions
<1>3. CASE Build
  <2>1. /\ UNCHANGED <<manifest, version, ident>> /\ cur' = manifest /\ pc' \in {"write", "purge"}
        /\ version = manifest.version
    BY <1>3 DEF Build, CaughtUp
  <2> QED
    BY <2>1, SameVersions DEF Versions
<1>4. CASE WriteAccepted
  <2>1. /\ UNCHANGED <<version, ident, cur>> /\ pc = "write" /\ pc' = "storeVersion"
        /\ manifest.version = cur.version /\ manifest'.version = cur.version + 1
    BY <1>4 DEF WriteAccepted, Unchanged, Edited, device
  <2>2. \A h \in ident : h.at \in Nat
    BY DEF Typed, TypeOK
  <2> QED
    BY <1>0, <2>1, <2>2 DEF Versions
<1>5. CASE StoreWrittenVersion
  <2>1. /\ UNCHANGED <<manifest, ident, cur>> /\ pc = "storeVersion" /\ pc' = "published" /\ version' = cur.version + 1
    BY <1>5 DEF StoreWrittenVersion
  <2> QED
    BY <1>0, <2>1 DEF Versions
<1>6. ASSUME NEW i \in Inserted, SavePublished(i) PROVE Versions'
  <2>1. /\ UNCHANGED <<manifest, version, cur, pc>> /\ pc = "published"
        /\ ident' \in {ident, WithIdentity(i, cur.version + 1)}
    BY <1>6 DEF SavePublished
  <2>2. \A h \in ident' : h.at <= manifest.version
    BY <2>1 DEF Versions, WithIdentity
  <2> QED
    BY <2>1, <2>2 DEF Versions
<1>7. CASE Purge
  <2>1. UNCHANGED <<manifest, version>> /\ cur' = NoManifest /\ pc' = "idle" /\ ident' \subseteq ident
    BY <1>7 DEF Purge
  <2> QED
    BY <2>1, SameVersions DEF Versions
<1> QED
  BY <1>1, <1>2, <1>3, <1>4, <1>5, <1>6, <1>7 DEF Publish

(* Every step keeps the versions in order.                                 *)
LEMMA VersionsStep == Typed /\ Versions /\ [Next]_vars => Versions'
<1> SUFFICES ASSUME Typed, Versions, [Next]_vars PROVE Versions'
  OBVIOUS
<1>0. /\ manifest.version \in Nat /\ version \in Nat /\ cur.version \in Nat /\ NoManifest.version = 0
      /\ \A h \in ident : h.at \in Nat
  BY DEF Typed, TypeOK, Manifest, NoManifest
<1>1. CASE User
  <2>1. UNCHANGED <<manifest, ident, version, pc, cur>> /\ (LiveAlls # {} => LiveAlls' # {})
    BY <1>1, UserFrame
  <2> QED
    BY <2>1 DEF Versions
<1>2. CASE Remote
  <2>1. PICK gone, come : RemoteWrite(gone, come)
    BY <1>2, RemoteItems DEF Typed
  <2>2. /\ manifest'.version = manifest.version + 1
        /\ UNCHANGED <<row, ident, version, pc, cur>>
    BY <2>1 DEF RemoteWrite, device
  <2>3. LiveAlls' = LiveAlls
    BY <2>2 DEF LiveAlls, Lives, Stored
  <2> QED
    BY <1>0, <2>2, <2>3 DEF Versions
<1>3. CASE Failure
  <2>1. /\ UNCHANGED <<ident, version>> /\ pc' = "idle" /\ cur' = NoManifest
        /\ manifest' = manifest \/ manifest'.version = manifest.version + 1
    BY <1>3, FailureFrame DEF Edited, Unchanged
  <2> QED
    BY <1>0, <2>1 DEF Versions
<1>4. CASE Tick \/ UNCHANGED vars
  <2>1. UNCHANGED <<manifest, ident, version, pc, cur, row>>
    BY <1>4 DEF Tick, vars, device
  <2>2. LiveAlls' = LiveAlls
    BY <2>1 DEF LiveAlls, Lives, Stored
  <2> QED
    BY <2>1, <2>2 DEF Versions
<1> QED
  BY <1>1, <1>2, <1>3, <1>4, SyncVersions, PublishVersions DEF Next

LEMMA VersionsInit == Init => Versions
<1> SUFFICES ASSUME Init PROVE Versions
  OBVIOUS
<1>1. manifest.version = 1 /\ version = 0 /\ cur = NoManifest /\ ident = {} /\ pc = "idle"
  BY DEF Init
<1> QED
  BY <1>1 DEF Versions, NoManifest

(***************************************************************************)
(* The records a device knows                                              *)
(***************************************************************************)
Sound == ~ ghost.torn /\ ~ ghost.revived
Reached == cur.version = manifest.version
Identity(i) == \E h \in ident : h.item = i

(* What the running sync has still to store of what it read.               *)
ToDo(i) == i \in sync.unread \/ (pc = "save" /\ i \in sync.item)

(* A sync stores every listed all-chats folder before it asks whether      *)
(* there is one (ensure_single_all_chats_folder).                          *)
AllsFiled ==
  /\ pc \in {"merge", "save"} /\ Reached =>
       \A i \in manifest.items : i.folder \in AllType => i.folder \in Stored \/ ToDo(i)
  /\ pc \in {"reappend", "ensure"} /\ Reached =>
       \A i \in manifest.items : i.folder \in AllType => i.folder \in Stored
  /\ pc = "save" => /\ \A i \in sync.item : i.folder \in AllType /\ sync.merged = {} => i.folder \in Stored
                    /\ \A i, j \in sync.item : i = j

(* A push inserts one record per folder.                                   *)
OncePushed == \A r, q \in push.inserts : r.folder = q.folder => r = q

(* A sync of the server's version has stored or will store the identity of *)
(* every stored folder's record.                                           *)
Progress ==
  pc \in {"merge", "save"} /\ Reached =>
    /\ \A i \in manifest.items : i.folder \in Stored => Identity(i) \/ ToDo(i)
    /\ \A i : ToDo(i) => i \in manifest.items

(* A push deletes what it replaces.                                        *)
Replaces ==
  pc = "write" => \A i \in cur.items : (\E r \in push.inserts : r.folder = i.folder) => i \in push.deletes

(* While the server lists what a push wrote, what is not known yet is what *)
(* the push has still to store.                                            *)
Written ==
  pc \in {"storeVersion", "published"} /\ manifest.version = cur.version + 1 =>
    /\ \A i \in manifest.items : i.folder \in Stored => Identity(i) \/ i \in Inserted
    /\ Inserted \subseteq manifest.items

(* At the server's version every stored folder's record is known.          *)
Current ==
  version = manifest.version /\ pc # "published" =>
    \A i \in manifest.items : i.folder \in Stored => Identity(i)

Known == Records /\ Progress /\ Replaces /\ Written /\ Current
KnownInv == Typed /\ Versions /\ AllsFiled /\ OncePushed /\ (Sound => Known)

(* A sync stores every all-chats folder it reads, or keeps the one there.  *)
LEMMA SyncAlls == KnownInv /\ Sync => AllsFiled'
<1> SUFFICES ASSUME KnownInv, Sync PROVE AllsFiled'
  OBVIOUS
<1>0. /\ sync.caller \in {"idle", "pass"} /\ sync.pending \subseteq Stored
      /\ manifest.version \in Nat /\ manifest.version > 0 /\ NoManifest.version = 0
  BY DEF KnownInv, Typed, TypeOK, Locals, Versions, Manifest, NoManifest
<1>1. CASE StartSync
  BY <1>1 DEF StartSync, BeginSync, AllsFiled
<1>2. CASE SyncUnchanged
  BY <1>0, <1>2 DEF SyncUnchanged, AllsFiled, Reached
<1>3. CASE ReadFolders
  <2>1. /\ UNCHANGED <<manifest, row, cur>> /\ pc' = "merge" /\ sync'.unread = cur.items \intersect manifest.items
    BY <1>3 DEF ReadFolders, device, KnownInv, Typed, TypeOK
  <2> QED
    BY <2>1 DEF AllsFiled, Reached, ToDo, KnownInv, Versions
<1>4. ASSUME NEW i \in sync.unread, MergeFolder(i) PROVE AllsFiled'
  <2>1. /\ UNCHANGED <<manifest, row, cur>> /\ pc = "merge" /\ pc' = "save"
        /\ sync'.unread = sync.unread \ {i} /\ sync'.item = {i} /\ sync'.merged = Merged(i)
    BY <1>4 DEF MergeFolder, device, KnownInv, Typed, TypeOK
  <2>2. i \in Item
    BY DEF KnownInv, Typed, TypeOK
  <2>3. i.folder \in AllType /\ Merged(i) = {} => i.folder \in Stored
    BY <1>0, <2>2, MergedFolder DEF KnownInv, Typed
  <2> QED
    BY <2>1, <2>3 DEF AllsFiled, Reached, ToDo, Stored, KnownInv
<1>5. CASE SaveMerged
  <2>1. /\ UNCHANGED <<manifest, cur, sync>> /\ pc = "save" /\ pc' = "merge"
        /\ \E i \in sync.item : \/ sync.merged = {} /\ UNCHANGED row
                               \/ \E f \in sync.merged : row' = Saved(i.folder, f)
    BY <1>5 DEF SaveMerged
  <2>2. PICK i \in sync.item : /\ Stored \subseteq Stored'
                               /\ i.folder \in AllType => i.folder \in Stored'
    BY <2>1 DEF AllsFiled, KnownInv, Saved, Stored
  <2>3. \A j \in sync.item : j = i
    BY <2>1 DEF AllsFiled, KnownInv
  <2> QED
    BY <2>1, <2>2, <2>3 DEF AllsFiled, Reached, ToDo, KnownInv
<1>6. CASE StoreReadVersion
  <2>1. UNCHANGED <<manifest, row, cur>> /\ pc = "merge" /\ sync.unread = {} /\ pc' = "reappend"
    BY <1>6 DEF StoreReadVersion
  <2> QED
    BY <2>1 DEF AllsFiled, Reached, ToDo, Stored, KnownInv
<1>7. CASE Reappend
  <2>1. UNCHANGED <<manifest, row, cur>> /\ pc = "reappend" /\ pc' = "ensure"
    BY <1>7 DEF Reappend
  <2> QED
    BY <2>1 DEF AllsFiled, Reached, Stored, KnownInv
<1>8. CASE FinishSync \/ MarkAll
  BY <1>0, <1>8 DEF FinishSync, MarkAll, LeaveSync, AllsFiled
<1>9. ASSUME NEW n \in Own, CreateAll(n) PROVE AllsFiled'
  BY <1>9 DEF CreateAll, AllsFiled
<1> QED
  BY <1>1, <1>2, <1>3, <1>4, <1>5, <1>6, <1>7, <1>8, <1>9 DEF Sync

(* A push never inserts two records for a folder.                          *)
LEMMA PublishOnce == KnownInv /\ Publish => OncePushed' /\ AllsFiled'
<1> SUFFICES ASSUME KnownInv, Publish PROVE OncePushed' /\ AllsFiled'
  OBVIOUS
<1>0. AllsFiled'
  BY DEF AllsFiled, Publish, StartPush, PassBehind, BeginSync, Build, PassesExhausted, RecordMoved, WriteConflict,
         Retry, WriteAccepted, StoreWrittenVersion, SavePublished, AllPublished, Purge
<1>1. CASE Build
  <2>1. push'.inserts = {[folder |-> k, rec |-> row[k]] : k \in push.pending \intersect Stored}
    BY <1>1 DEF Build, KnownInv, Typed, TypeOK
  <2>2. OncePushed'
    BY <2>1 DEF OncePushed
  <2> QED
    BY <1>0, <2>2
<1>2. ASSUME NEW i \in Inserted, SavePublished(i) PROVE OncePushed'
  BY <1>2 DEF SavePublished, OncePushed, KnownInv, Typed, TypeOK
<1>3. CASE ~ Build /\ ~ \E i \in Inserted : SavePublished(i)
  <2>1. push'.inserts = push.inserts \/ push'.inserts = {}
    <3>0. push \in Pushing /\ NoPush.inserts = {}
      BY DEF KnownInv, Typed, TypeOK, Pushing, NoPush
    <3>1. CASE Retry
      BY <3>0, <3>1 DEF Retry, Pushing
    <3>2. CASE PassBehind
      BY <3>0, <3>2 DEF PassBehind, NextPass, Pushing
    <3>3. CASE StartPush
      BY <3>3 DEF StartPush, NoPush
    <3>4. CASE PassesExhausted \/ WriteAccepted \/ StoreWrittenVersion \/ AllPublished \/ Purge
      BY <3>0, <3>4 DEF PassesExhausted, WriteAccepted, StoreWrittenVersion, AllPublished, Purge
    <3> QED
      BY <1>3, <3>1, <3>2, <3>3, <3>4 DEF Publish, RecordMoved, WriteConflict
  <2> QED
    BY <1>0, <2>1 DEF OncePushed, KnownInv
<1> QED
  BY <1>0, <1>1, <1>2, <1>3

(* Users, other devices, the clock and failures leave both alone.          *)
LEMMA OtherAlls ==
  ASSUME KnownInv, User \/ Tick \/ Remote \/ Failure \/ UNCHANGED vars
  PROVE  AllsFiled' /\ OncePushed'
<1>1. CASE User
  BY <1>1, UserFrame DEF AllsFiled, OncePushed, Reached, ToDo, KnownInv
<1>2. CASE Remote
  <2>1. PICK gone, come : RemoteWrite(gone, come)
    BY <1>2, RemoteItems DEF KnownInv, Typed
  <2>2. UNCHANGED <<row, cur, pc, sync, push>> /\ manifest'.version = manifest.version + 1
    BY <2>1 DEF RemoteWrite, device
  <2>3. ~ Reached'
    BY <2>2 DEF Reached, KnownInv, Typed, TypeOK, Manifest, Versions
  <2> QED
    BY <2>2, <2>3 DEF AllsFiled, OncePushed, Stored, KnownInv
<1>3. CASE Failure
  BY <1>3, FailureFrame DEF AllsFiled, OncePushed, NoPush, KnownInv
<1>4. CASE Tick \/ UNCHANGED vars
  <2>1. UNCHANGED <<manifest, row, cur, pc, sync, push>>
    BY <1>4 DEF Tick, vars, device
  <2> QED
    BY <2>1 DEF AllsFiled, OncePushed, Reached, ToDo, Stored, KnownInv
<1> QED
  BY <1>1, <1>2, <1>3, <1>4

(* A sync knows what it has stored (sync_storage_service).                 *)
LEMMA SyncKnown ==
  ASSUME KnownInv, Known, Sync
  PROVE  Known'
<1>0. /\ sync.caller \in {"idle", "pass"}
      /\ manifest.version \in Nat /\ manifest.version > 0 /\ NoManifest.version = 0
      /\ version \in Nat /\ cur.version \in Nat
  BY DEF KnownInv, Typed, TypeOK, Versions, Manifest, NoManifest
<1>a. UNCHANGED manifest /\ Records'
  BY DEF Sync, StartSync, BeginSync, SyncUnchanged, ReadFolders, MergeFolder, SaveMerged, StoreReadVersion, Reappend,
         FinishSync, CreateAll, MarkAll, Known, Records
<1>1. CASE StartSync \/ SyncUnchanged
  <2>1. UNCHANGED <<version, row, ident>> /\ pc = "idle" /\ pc' \in {"read", "ensure"}
    BY <1>1 DEF StartSync, BeginSync, SyncUnchanged, device
  <2> QED
    BY <1>a, <2>1 DEF Known, Progress, Replaces, Written, Current, Identity, Stored
<1>2. CASE ReadFolders
  <2>1. /\ UNCHANGED <<version, row, ident, cur>> /\ pc = "read" /\ pc' = "merge"
        /\ sync'.unread = cur.items \intersect manifest.items
    BY <1>2 DEF ReadFolders, device, KnownInv, Typed, TypeOK
  <2> QED
    BY <1>a, <2>1 DEF Known, Progress, Replaces, Written, Current, Identity, Stored, Reached, ToDo, KnownInv, Versions
<1>3. ASSUME NEW i \in sync.unread, MergeFolder(i) PROVE Known'
  <2>1. /\ UNCHANGED <<version, row, ident, cur>> /\ pc = "merge" /\ pc' = "save"
        /\ sync'.unread = sync.unread \ {i} /\ sync'.item = {i}
    BY <1>3 DEF MergeFolder, device, KnownInv, Typed, TypeOK
  <2> QED
    BY <1>a, <2>1 DEF Known, Progress, Replaces, Written, Current, Identity, Stored, Reached, ToDo
<1>4. CASE SaveMerged
  <2>1. PICK i \in sync.item :
          /\ \/ sync.merged = {} /\ UNCHANGED row
             \/ \E f \in sync.merged : row' = Saved(i.folder, f)
          /\ ident' = IF i.folder \in DOMAIN row' THEN WithIdentity(i, cur.version) ELSE ident
    BY <1>4 DEF SaveMerged
  <2>2. UNCHANGED <<version, cur, sync>> /\ pc = "save" /\ pc' = "merge"
    BY <1>4 DEF SaveMerged
  <2>3. version < manifest.version
    BY <1>0, <2>2 DEF KnownInv, Versions
  <2>4. \A k \in Stored' : k = i.folder \/ k \in Stored
    BY <2>1 DEF Saved, Stored
  <2>5. \A j \in sync.item : j = i
    BY <2>2 DEF KnownInv, AllsFiled
  <2>6. \A j : Identity(j) /\ j.folder # i.folder => Identity(j)'
    BY <2>1 DEF Identity, WithIdentity
  <2>7. i.folder \in Stored' => Identity(i)'
    <3>1. i.folder \in Stored' => [item |-> i, at |-> cur.version] \in ident'
      BY <2>1 DEF WithIdentity, Stored
    <3> QED
      BY <3>1 DEF Identity
  <2>8. ASSUME Reached, NEW j \in manifest.items, j.folder \in Stored' PROVE Identity(j)' \/ j \in sync.unread
    <3>1. i \in manifest.items
      BY <2>2, <2>8 DEF Known, Progress, ToDo
    <3>2. CASE j.folder = i.folder
      <4>1. j = i
        BY <3>1, <3>2 DEF Known, Records
      <4> QED
        BY <2>7, <2>8, <4>1
    <3>3. CASE j.folder # i.folder
      <4>1. j.folder \in Stored /\ j # i
        BY <2>4, <2>8, <3>3
      <4>2. Identity(j) \/ j \in sync.unread
        BY <2>2, <2>5, <2>8, <4>1 DEF Known, Progress, ToDo
      <4> QED
        BY <2>6, <3>3, <4>2
    <3> QED
      BY <3>2, <3>3
  <2>9. Progress'
    BY <1>a, <2>2, <2>8 DEF Known, Progress, Reached, ToDo
  <2> QED
    BY <1>a, <1>0, <2>2, <2>3, <2>9 DEF Known, Replaces, Written, Current
<1>5. CASE StoreReadVersion
  <2>1. /\ UNCHANGED <<row, ident, cur>> /\ version' = cur.version /\ pc = "merge" /\ sync.unread = {}
        /\ pc' = "reappend"
    BY <1>5 DEF StoreReadVersion
  <2>2. Current'
    BY <1>a, <2>1 DEF Known, Progress, Current, Identity, Stored, Reached, ToDo
  <2> QED
    BY <1>a, <2>1, <2>2 DEF Known, Progress, Replaces, Written
<1>6. CASE Reappend
  <2>1. /\ UNCHANGED <<row, version, cur>> /\ pc = "reappend" /\ pc' = "ensure"
        /\ \A h \in ident : h.item \in cur.items => h \in ident'
    BY <1>6 DEF Reappend
  <2>2. Current'
    BY <1>a, <2>1 DEF Known, Current, Identity, Stored, KnownInv, Versions
  <2> QED
    BY <1>a, <2>1, <2>2 DEF Known, Progress, Replaces, Written
<1>7. CASE FinishSync
  <2>1. /\ UNCHANGED <<version, ident>> /\ pc = "ensure" /\ pc' \in {"idle", "pass"} /\ Stored' \subseteq Stored
    BY <1>0, <1>7 DEF FinishSync, Collapse, LeaveSync, Stored
  <2> QED
    BY <1>a, <2>1 DEF Known, Progress, Replaces, Written, Current, Identity
<1>8. ASSUME NEW n \in Own, CreateAll(n) PROVE Known'
  <2>1. /\ UNCHANGED <<version, ident>> /\ pc = "ensure" /\ pc' = "markAll" /\ LiveAlls = {}
        /\ n \notin Stored /\ Stored' \subseteq Stored \union {n}
    BY <1>8 DEF CreateAll, Saved, Stored
  <2>2. version = manifest.version => \A i \in manifest.items : i.folder # n
    BY <2>1 DEF KnownInv, Versions, AllsFiled, Reached, AllType
  <2> QED
    BY <1>a, <2>1, <2>2 DEF Known, Progress, Replaces, Written, Current, Identity
<1>9. CASE MarkAll
  <2>1. UNCHANGED <<version, ident, row>> /\ pc = "markAll" /\ pc' \in {"idle", "pass"}
    BY <1>0, <1>9 DEF MarkAll, LeaveSync
  <2> QED
    BY <1>a, <2>1 DEF Known, Progress, Replaces, Written, Current, Identity, Stored
<1> QED
  BY <1>1, <1>2, <1>3, <1>4, <1>5, <1>6, <1>7, <1>8, <1>9 DEF Sync

(* A write that is accepted replaces the records of the folders it files   *)
(* (write_manifest_edit).                                                  *)
LEMMA EditedRecords ==
  ASSUME KnownInv, Known, pc = "write", Unchanged
  PROVE  /\ \A i, j \in Edited.items : i.folder = j.folder => i = j
         /\ Edited.version = manifest.version + 1 /\ version = manifest.version
         /\ \A i \in Edited.items : i.folder \in Stored => Identity(i) \/ i \in Inserted
         /\ Inserted \subseteq Edited.items
<1>1. cur.items = manifest.items /\ cur.version = manifest.version /\ version = manifest.version
  BY DEF Unchanged, KnownInv, Versions
<1>2. Edited.items = (cur.items \ push.deletes) \union Inserted /\ Edited.version = cur.version + 1
  BY DEF Edited
<1>3. \A i, j \in Inserted : i.folder = j.folder => i = j
  BY DEF Inserted, KnownInv, OncePushed
<1>4. \A i \in cur.items, j \in Inserted : i.folder = j.folder => i \in push.deletes
  BY DEF Inserted, Known, Replaces
<1>5. \A i \in manifest.items : i.folder \in Stored => Identity(i)
  BY <1>1 DEF Known, Current
<1> QED
  BY <1>1, <1>2, <1>3, <1>4, <1>5 DEF Known, Records

(* A push writes on top of what it knows and knows what it wrote           *)
(* (push_pending_chat_folder_records).                                     *)
LEMMA PublishKnown ==
  ASSUME KnownInv, Known, Publish
  PROVE  Known'
<1>0. /\ manifest.version \in Nat /\ version \in Nat /\ cur.version \in Nat
  BY DEF KnownInv, Typed, TypeOK, Manifest
<1>1. CASE StartPush \/ PassBehind \/ PassesExhausted \/ RecordMoved \/ WriteConflict
  <2>1. /\ UNCHANGED <<manifest, row, ident, version>> /\ pc # "published"
        /\ pc' \in {"idle", "pass", "read"}
    BY <1>1 DEF StartPush, PassBehind, BeginSync, Passing, PassesExhausted, RecordMoved, WriteConflict, Retry, device
  <2> QED
    BY <2>1 DEF Known, Records, Progress, Replaces, Written, Current, Identity, Stored
<1>2. CASE Build
  <2> DEFINE there == push.pending \intersect Stored
  <2>1. /\ UNCHANGED <<manifest, row, ident, version>> /\ pc = "pass" /\ pc' \in {"write", "purge"}
        /\ cur' = manifest /\ version = manifest.version
        /\ push'.inserts = {[folder |-> k, rec |-> row[k]] : k \in there}
        /\ push'.deletes = {h.item : h \in {g \in ident : g.item.folder \in there \union push.expired}}
    BY <1>2 DEF Build, Passing, CaughtUp, KnownInv, Typed, TypeOK
  <2>2. ASSUME NEW i \in manifest.items, NEW r \in push'.inserts, r.folder = i.folder PROVE i \in push'.deletes
    <3>1. i.folder \in there
      BY <2>1, <2>2
    <3>2. PICK h \in ident : h.item = i
      BY <2>1, <3>1 DEF Known, Current, Identity
    <3> HIDE DEF there
    <3> QED
      BY <2>1, <3>1, <3>2
  <2>3. Replaces'
    BY <2>1, <2>2 DEF Replaces
  <2> QED
    BY <2>1, <2>3 DEF Known, Records, Progress, Written, Current, Identity, Stored
<1>3. CASE WriteAccepted
  <2>1. /\ UNCHANGED <<row, ident, version, cur, push>> /\ pc = "write" /\ pc' = "storeVersion"
        /\ manifest' = Edited /\ Unchanged
    BY <1>3 DEF WriteAccepted, device
  <2>2. Records' /\ version' # manifest'.version
    BY <1>0, <2>1, EditedRecords DEF Records
  <2>3. Inserted' = Inserted
    BY <2>1 DEF Inserted
  <2>4. Written'
    BY <2>1, <2>3, EditedRecords DEF Written, Identity, Stored
  <2> QED
    BY <2>1, <2>2, <2>4 DEF Known, Progress, Replaces, Current
<1>4. CASE StoreWrittenVersion
  <2>1. /\ UNCHANGED <<manifest, row, ident, cur, push>> /\ pc = "storeVersion" /\ pc' = "published"
    BY <1>4 DEF StoreWrittenVersion
  <2> QED
    BY <2>1 DEF Known, Records, Progress, Replaces, Written, Current, Identity, Stored, Inserted
<1>5. ASSUME NEW i \in Inserted, SavePublished(i) PROVE Known'
  <2>1. /\ UNCHANGED <<manifest, row, version, cur, pc>> /\ pc = "published"
        /\ ident' = IF i.folder \in Stored THEN WithIdentity(i, cur.version + 1) ELSE ident
        /\ push'.inserts = {r \in push.inserts : r.folder # i.folder}
    BY <1>5 DEF SavePublished, KnownInv, Typed, TypeOK
  <2>2. Inserted' = {j \in Inserted : j.folder # i.folder}
    BY <2>1 DEF Inserted
  <2>3. \A j : Identity(j) /\ j.folder # i.folder => Identity(j)'
    BY <2>1 DEF Identity, WithIdentity
  <2>4. i.folder \in Stored => Identity(i)'
    <3>1. i.folder \in Stored => [item |-> i, at |-> cur.version + 1] \in ident'
      BY <2>1 DEF WithIdentity
    <3> QED
      BY <3>1 DEF Identity
  <2>5. ASSUME manifest.version = cur.version + 1, NEW j \in manifest.items, j.folder \in Stored
        PROVE  Identity(j)' \/ j \in Inserted'
    <3>1. i \in manifest.items /\ (Identity(j) \/ j \in Inserted)
      BY <2>1, <2>5 DEF Known, Written
    <3>2. CASE j.folder = i.folder
      <4>1. j = i
        BY <3>1, <3>2 DEF Known, Records
      <4> QED
        BY <2>4, <2>5, <4>1
    <3>3. CASE j.folder # i.folder
      BY <2>2, <2>3, <3>1, <3>3
    <3> QED
      BY <3>2, <3>3
  <2>6. Written'
    BY <2>1, <2>2, <2>5 DEF Known, Written, Stored
  <2> QED
    BY <2>1, <2>6 DEF Known, Records, Progress, Replaces, Current
<1>6. CASE AllPublished
  <2>1. /\ UNCHANGED <<manifest, row, ident, version>> /\ pc = "published" /\ pc' = "purge" /\ push.inserts = {}
    BY <1>6 DEF AllPublished, device
  <2>2. Inserted = {}
    BY <2>1 DEF Inserted
  <2> QED
    BY <2>1, <2>2 DEF Known, Records, Progress, Replaces, Written, Current, Identity, Stored, KnownInv, Versions
<1>7. CASE Purge
  <2>1. /\ UNCHANGED <<manifest, version>> /\ pc = "purge" /\ pc' = "idle" /\ Stored' = Stored \ push.expired
        /\ ident' = {h \in ident : h.item.folder \notin push.expired}
    BY <1>7 DEF Purge, Without, Stored
  <2> QED
    BY <2>1 DEF Known, Records, Progress, Replaces, Written, Current, Identity
<1> QED
  BY <1>1, <1>2, <1>3, <1>4, <1>5, <1>6, <1>7 DEF Publish

(* Edits, other devices and failures leave a device knowing what it knew,  *)
(* or no longer at the server's version.                                   *)
LEMMA OtherKnown ==
  ASSUME KnownInv, Known, User \/ Tick \/ Remote \/ Failure \/ UNCHANGED vars, Sound'
  PROVE  Known'
<1>0. /\ manifest.version \in Nat /\ version \in Nat /\ cur.version \in Nat
  BY DEF KnownInv, Typed, TypeOK, Manifest
<1>1. CASE User
  <2>1. /\ UNCHANGED <<manifest, ident, version, pc, cur, sync, push>>
        /\ \A i \in manifest.items : i.folder \in Stored' => i.folder \in Stored
    BY <1>1, UserFrame DEF KnownInv, Sound
  <2> QED
    BY <2>1 DEF Known, Records, Progress, Replaces, Written, Current, Identity, Inserted, Reached, ToDo
<1>2. CASE Remote
  <2>1. PICK gone, come : /\ RemoteWrite(gone, come)
                          /\ \A i, j \in come : i = j
                          /\ \A i \in come, j \in manifest.items : j.folder = i.folder => j \in gone
    BY <1>2, RemoteItems DEF KnownInv, Known, Typed
  <2>2. /\ UNCHANGED <<row, ident, version, cur, pc, sync, push>> /\ manifest'.version = manifest.version + 1
        /\ manifest'.items = (manifest.items \ gone) \union come
    BY <2>1 DEF RemoteWrite, device
  <2>3. /\ ~ Reached' /\ version' # manifest'.version
        /\ pc \in {"storeVersion", "published"} => manifest'.version # cur'.version + 1
    BY <1>0, <2>2 DEF Reached, KnownInv, Versions
  <2>4. Records'
    BY <2>1, <2>2 DEF Records, Known
  <2> QED
    BY <2>2, <2>3, <2>4 DEF Known, Progress, Replaces, Written, Current
<1>3. CASE Failure
  <2>1. /\ UNCHANGED <<row, ident, version>> /\ pc' = "idle" /\ pc # "published"
        /\ manifest' = manifest \/ (manifest' = Edited /\ pc = "write" /\ Unchanged)
    BY <1>3, FailureFrame DEF KnownInv, Sound
  <2>2. Records' /\ Current'
    <3>1. CASE manifest' = manifest
      BY <2>1, <3>1 DEF Known, Records, Current, Identity, Stored
    <3>2. CASE manifest' = Edited /\ pc = "write" /\ Unchanged
      BY <1>0, <2>1, <3>2, EditedRecords DEF Records, Current
    <3> QED
      BY <2>1, <3>1, <3>2
  <2> QED
    BY <2>1, <2>2 DEF Known, Progress, Replaces, Written
<1>4. CASE Tick \/ UNCHANGED vars
  <2>1. UNCHANGED <<manifest, row, ident, version, pc, cur, sync, push>>
    BY <1>4 DEF Tick, vars, device
  <2> QED
    BY <2>1 DEF Known, Records, Progress, Replaces, Written, Current, Identity, Inserted, Reached, ToDo, Stored
<1> QED
  BY <1>1, <1>2, <1>3, <1>4

(* No step repairs the history.                                            *)
LEMMA SoundStep == KnownInv /\ [Next]_vars /\ Sound' => Sound
<1> SUFFICES ASSUME KnownInv, [Next]_vars PROVE (ghost.torn => ghost'.torn) /\ (ghost.revived => ghost'.revived)
  BY DEF Sound
<1>1. CASE NoteOverlap
  BY <1>1, NoteType DEF KnownInv, Typed
<1>2. CASE User \/ Failure
  BY <1>2, UserFrame, FailureFrame DEF KnownInv
<1>3. CASE Sync
  BY <1>1, <1>3 DEF Sync, StartSync, BeginSync, SyncUnchanged, ReadFolders, MergeFolder, SaveMerged, StoreReadVersion,
     Reappend, FinishSync, CreateAll, MarkAll
<1>4. CASE Publish
  BY <1>1, <1>4 DEF Publish, StartPush, PassBehind, BeginSync, Build, PassesExhausted, RecordMoved, WriteConflict,
         Retry, WriteAccepted, StoreWrittenVersion, SavePublished, AllPublished, Purge
<1>5. CASE Tick \/ Remote \/ UNCHANGED vars
  BY <1>5 DEF Tick, vars, Remote, RemoteFile, RemoteRewrite, RemoteDrop, RemoteWrite
<1> QED
  BY <1>2, <1>3, <1>4, <1>5 DEF Next

(* Every step keeps the device knowing its records.                        *)
LEMMA KnownStep == KnownInv /\ [Next]_vars => KnownInv'
<1> SUFFICES ASSUME KnownInv, [Next]_vars PROVE KnownInv'
  OBVIOUS
<1>1. Typed' /\ Versions'
  BY TypeStep, VersionsStep DEF KnownInv, Typed
<1>2. AllsFiled' /\ OncePushed'
  <2>1. CASE Sync
    <3>1. push' = push
      BY <2>1 DEF Sync, StartSync, BeginSync, SyncUnchanged, ReadFolders, MergeFolder, SaveMerged, StoreReadVersion,
         Reappend, FinishSync, CreateAll, MarkAll
    <3> QED
      BY <2>1, <3>1, SyncAlls DEF KnownInv, OncePushed
  <2> QED
    BY <2>1, PublishOnce, OtherAlls DEF Next
<1>3. ASSUME Sound' PROVE Known'
  <2>1. Known
    BY <1>3, SoundStep DEF KnownInv
  <2> QED
    BY <1>3, <2>1, SyncKnown, PublishKnown, OtherKnown DEF Next
<1> QED
  BY <1>1, <1>2, <1>3 DEF KnownInv

LEMMA KnownInit == Init => KnownInv
<1> SUFFICES ASSUME Init PROVE KnownInv
  OBVIOUS
<1>1. /\ pc = "idle" /\ Stored = {} /\ push.inserts = {}
      /\ \A i \in manifest.items : i = [folder |-> i.folder, id |-> 1, rec |-> AllChats]
  BY DEF Init, Stored, NoPush
<1>2. Known
  BY <1>1 DEF Known, Records, Progress, Replaces, Written, Current
<1> QED
  BY <1>1, <1>2, TypeInit, VersionsInit DEF KnownInv, Typed, AllsFiled, OncePushed

LEMMA KnownAlways == Spec => []KnownInv
BY KnownInit, KnownStep, PTL DEF Spec

(* A device at the server's version knows the record of every folder it    *)
(* stores (push_pending_chat_folder_records replaces records unread).      *)
THEOREM CurrentCorrect == Spec => []CurrentWhenCaughtUp
<1>1. KnownInv => CurrentWhenCaughtUp
  BY DEF KnownInv, Sound, Known, Current, Identity, CurrentWhenCaughtUp
<1> QED
  BY <1>1, KnownAlways, PTL

(* No push, conflict or lost answer files a second record for a folder     *)
(* (write_manifest_edit).                                                  *)
THEOREM FoldersUnique == Spec => []OneRecordPerFolder
<1>1. KnownInv => OneRecordPerFolder
  BY DEF KnownInv, Sound, Known, Records, OneRecordPerFolder
<1> QED
  BY <1>1, KnownAlways, PTL
=============================================================================
