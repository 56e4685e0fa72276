------------------------- MODULE StorageSync_proofs -------------------------
(***************************************************************************)
(* What StorageSync guarantees for every set of records and fields, every  *)
(* batch size and retry limit, and every bound on the environment.         *)
(*                                                                         *)
(* TypeOK is inductive.  VersionReached is inductive relative to it.       *)
(* Together they give what the refinement of StorageManifest needs: the    *)
(* manifest a write goes on top of is the one the server lists.            *)
(***************************************************************************)
EXTENDS StorageSync, FiniteSetTheorems, TLAPS

USE StorageSyncAssumption

(***************************************************************************)
(* The operators the actions are built from                                *)
(***************************************************************************)
(* The constants the initial locals are made of have their types.          *)
LEMMA Defaults ==
  /\ AnyOne \in Keys /\ Keys \subseteq AnyKey
  /\ Blank \in Rec
  /\ NoManifest \in Manifest
  /\ NoCursor \in [target : Nat, next : Nat]
  /\ NoJob \in [todo : SUBSET Keys, key : Keys, want : Rec, passes : Nat, attempts : Nat]
  /\ NoSync \in [caller : {"idle", "pass"}, pending : SUBSET Keys, batch : Nat,
                 unread : SUBSET Modelled, item : Modelled, merged : Rec]
  /\ NoEdit \in [phase : {"idle", "save", "mark"}, key : Keys, rec : Rec]
<1>1. AnyOne \in Keys
  BY DEF AnyOne
<1>2. Keys \subseteq AnyKey
  BY DEF AnyKey
<1>3. Blank \in Rec
  BY DEF Blank, Rec
<1>4. NoManifest \in Manifest
  BY DEF NoManifest, Manifest
<1>5. [key |-> AnyOne, id |-> 0, rec |-> Blank] \in Modelled
  BY <1>1, <1>2, <1>3 DEF Item, Modelled
<1> QED
  BY <1>1, <1>2, <1>3, <1>4, <1>5 DEF NoCursor, NoJob, NoSync, NoEdit

(* Publishing one record's fields over another (PendingPublish::apply)     *)
(* makes a record.                                                         *)
LEMMA OverlayType ==
  ASSUME NEW a \in Rec, NEW b \in Rec, NEW F
  PROVE  Overlay(a, b, F) \in Rec
BY DEF Overlay, Rec

(* A key with a stored identity has the record stored with it.             *)
LEMMA HeldRecType ==
  ASSUME TypeOK, NEW k, Held(k) # {}
  PROVE  HeldRec(k) \in Rec
<1>1. PICK i \in ident : i.key = k
  BY DEF Held
<1>2. (CHOOSE j \in ident : j.key = k) \in ident
  BY <1>1
<1> QED
  BY <1>2 DEF HeldRec, TypeOK, Item, Modelled

(* A function on 1..n is a sequence of length n.                           *)
LEMMA FunctionSeq ==
  ASSUME NEW T, NEW n \in Nat, NEW s \in [1..n -> T]
  PROVE  s \in Seq(T) /\ Len(s) = n
OBVIOUS

(* A finite set of items has an order to read it in.                       *)
LEMMA InOrderType ==
  ASSUME NEW S, IsFiniteSet(S)
  PROVE  /\ Cardinality(S) \in Nat
         /\ InOrder(S) \in [1..Cardinality(S) -> S]
         /\ \A x \in S : \E n \in 1..Cardinality(S) : InOrder(S)[n] = x
<1> DEFINE Order(s) == \A x \in S : \E n \in DOMAIN s : s[n] = x
<1>1. Cardinality(S) \in Nat /\ ExistsBijection(1..Cardinality(S), S)
  BY FS_CardinalityType
<1>2. PICK b \in Bijection(1..Cardinality(S), S) : TRUE
  BY <1>1 DEF ExistsBijection
<1>3. b \in [1..Cardinality(S) -> S] /\ Order(b)
  BY <1>2 DEF Bijection, Injection, Surjection
<1>4. InOrder(S) \in [1..Cardinality(S) -> S] /\ Order(InOrder(S))
  BY <1>3, Zenon DEF InOrder
<1> QED
  BY <1>1, <1>4

(* The batches of a finite set of items.                                   *)
LEMMA ChunksType ==
  ASSUME NEW T, IsFiniteSet(T)
  PROVE  Chunks(InOrder(T)) \in Seq(SUBSET T)
<1>1. Cardinality(T) \in Nat /\ InOrder(T) \in [1..Cardinality(T) -> T]
  BY InOrderType
<1>2. Len(InOrder(T)) \in Nat /\ \A m \in DOMAIN InOrder(T) : InOrder(T)[m] \in T
  BY <1>1, FunctionSeq
<1> DEFINE N == (Len(InOrder(T)) + BatchSize - 1) \div BatchSize
<1>3. N \in Nat
  BY <1>2
<1>4. Chunks(InOrder(T)) \in [1..N -> SUBSET T]
  BY <1>2 DEF Chunks
<1> QED
  BY <1>3, <1>4, FunctionSeq

(* A sync only ever reads items of the manifest it fetched, of the types   *)
(* it merges.                                                              *)
LEMMA BatchItems ==
  ASSUME NEW items, IsFiniteSet(items)
  PROVE  Batches(items) \in Seq(SUBSET {i \in items : i.key \in Keys})
<1> DEFINE S == {i \in items : i.key \in Subjects}
           A == {i \in items : i.key \in Accounts}
           M == {i \in items : i.key \in Keys}
           s == Chunks(InOrder(S))
           a == Chunks(InOrder(A))
<1>1. s \in Seq(SUBSET S) /\ a \in Seq(SUBSET A)
  BY FS_Subset, ChunksType
<1>2. Batches(items) = s \o a
  BY Zenon DEF Batches
<1>3. S \subseteq M /\ A \subseteq M
  BY DEF Keys
<1> HIDE DEF s, a, S, A, M
<1>4. s \in Seq(SUBSET M) /\ a \in Seq(SUBSET M)
  BY <1>1, <1>3
<1> QED
  BY <1>2, <1>4 DEF M

(* What a sync writes for a record it read is a row.                       *)
LEMMA MergedType ==
  ASSUME TypeOK, NEW i \in Modelled
  PROVE  Merged(i) \in Rec
<1>1. i.rec \in Rec /\ row[i.key] \in Rec
  BY DEF TypeOK, Item, Modelled
<1>2. Adopted(i) \in Rec
  BY Zenon DEF Rec, Adopted
<1>3. Overlay(i.rec, row[i.key], Intent(i.key)) \in Rec
  BY <1>1, OverlayType
<1>4. MergedAccount(i) \in Rec /\ MergedSubject(i) \in Rec
  BY <1>2, <1>3 DEF MergedAccount, MergedSubject
<1> QED
  BY <1>1, <1>4 DEF Merged

(* What a push writes is an item the service can list.                     *)
LEMMA NewItemType ==
  ASSUME TypeOK
  PROVE  NewItem \in [key : {job.key}, id : {cur.version + 1}, rec : Rec] /\ NewItem \in Modelled
<1>1. job.key \in Keys /\ job.want \in Rec /\ cur.version + 1 \in Nat
  BY DEF TypeOK, Manifest
<1>2. Held(job.key) # {} =>
        Overlay(HeldRec(job.key), job.want, Differ(HeldRec(job.key), job.want)) \in Rec
  BY <1>1, HeldRecType, OverlayType
<1> QED
  BY <1>1, <1>2, Defaults DEF NewItem, Item, Modelled

(* Storing an identity keeps at most one per key (the primary key).        *)
LEMMA WithIdentityType ==
  ASSUME TypeOK, NEW i \in Modelled
  PROVE  /\ WithIdentity(i) \subseteq Modelled
         /\ \A g, h \in WithIdentity(i) : g.key = h.key => g = h
BY DEF WithIdentity, TypeOK

(***************************************************************************)
(* Type correctness                                                        *)
(***************************************************************************)
(* The records the account holds at the start are finitely many items.     *)
LEMMA InitManifest ==
  ASSUME Init
  PROVE  manifest \in Manifest /\ IsFiniteSet(manifest.items)
<1> DEFINE K == Filed \union Unmodelled
           f == [k \in K |-> [key |-> k, id |-> 1, rec |-> Blank]]
<1>1. IsFiniteSet(K)
  <2>1. IsFiniteSet(Filed)
    BY FS_Subset
  <2> QED
    BY <2>1, FS_Union
<1>2. manifest.items = [key : K, id : {1}, rec : {Blank}]
  BY DEF Init
<1> HIDE DEF K
<1>3. f \in Surjection(K, manifest.items)
  <2>1. \A k \in K : f[k] \in manifest.items
    BY <1>2
  <2>2. \A i \in manifest.items : i.key \in K /\ i = f[i.key]
    BY <1>2
  <2> HIDE DEF f
  <2>3. f \in [K -> manifest.items]
    BY <2>1 DEF f
  <2> QED
    BY <2>2, <2>3 DEF Surjection
<1>4. IsFiniteSet(manifest.items)
  BY <1>1, <1>3, FS_Surjection, Zenon
<1>5. manifest.items \subseteq Item
  BY <1>2, Defaults DEF Item, AnyKey, K
<1> QED
  BY <1>4, <1>5 DEF Init, Manifest

(* A linked device that has never synced is well typed.                    *)
LEMMA TypeInit == Init => TypeOK
<1> SUFFICES ASSUME Init PROVE TypeOK
  OBVIOUS
<1>1. manifest \in Manifest /\ IsFiniteSet(manifest.items)
  BY InitManifest
<1>2. cur \in Manifest /\ IsFiniteSet(cur.items)
  BY Defaults, FS_EmptySet DEF Init, NoManifest
<1>3. row \in [Keys -> Rec] /\ flag \subseteq Keys
  BY Defaults DEF Init
<1>4. job \in [todo : SUBSET Keys, key : Keys, want : Rec, passes : Nat, attempts : Nat]
  BY Defaults DEF Init
<1>5. sync \in [caller : {"idle", "pass"}, pending : SUBSET Keys, batch : Nat,
                unread : SUBSET Modelled, item : Modelled, merged : Rec]
  BY Defaults DEF Init
<1>6. cursor \in [target : Nat, next : Nat] /\ edit \in [phase : {"idle", "save", "mark"}, key : Keys, rec : Rec]
  BY Defaults DEF Init
<1> QED
  BY <1>1, <1>2, <1>3, <1>4, <1>5, <1>6 DEF Init, TypeOK, PCs

(* A sync, whoever calls it, starts from a fetched manifest and the marks. *)
LEMMA BeginSyncType ==
  ASSUME TypeOK, NEW caller \in {"idle", "pass"}, BeginSync(caller),
         job' \in [todo : SUBSET Keys, key : Keys, want : Rec, passes : Nat, attempts : Nat]
  PROVE  TypeOK'
<1>1. sync' \in [caller : {"idle", "pass"}, pending : SUBSET Keys, batch : Nat,
                 unread : SUBSET Modelled, item : Modelled, merged : Rec]
  BY Defaults DEF BeginSync, TypeOK
<1>2. cursor' \in [target : Nat, next : Nat]
  BY Defaults DEF BeginSync, TypeOK
<1> QED
  BY <1>1, <1>2 DEF BeginSync, TypeOK, PCs, SyncPCs

(* Every step of a sync stores rows and identities of the modelled types   *)
(* (sync_storage_service).                                                 *)
LEMMA SyncType == TypeOK /\ Sync => TypeOK'
<1> SUFFICES ASSUME TypeOK, Sync PROVE TypeOK'
  OBVIOUS
<1> USE DEF PCs, SyncPCs, device
<1>1. CASE StartSync
  BY <1>1, BeginSyncType DEF StartSync, TypeOK
<1>2. CASE SyncUnchanged
  BY <1>2, Defaults DEF SyncUnchanged, TypeOK
<1>3. CASE ReadBatch
  <2> DEFINE unread == Batches(cur.items)[sync.batch + 1] \intersect manifest.items
  <2>1. IsFiniteSet(cur.items) /\ sync.batch \in Nat
    BY DEF TypeOK
  <2>2. sync.batch + 1 \in DOMAIN Batches(cur.items)
    BY <1>3, <2>1, BatchItems DEF ReadBatch
  <2>3. unread \subseteq Modelled
    <3>1. Batches(cur.items) \in Seq(SUBSET {i \in cur.items : i.key \in Keys})
      BY <2>1, BatchItems
    <3>2. Batches(cur.items)[sync.batch + 1] \in SUBSET {i \in cur.items : i.key \in Keys}
      BY <2>2, <3>1
    <3>3. cur.items \subseteq Item
      BY DEF TypeOK, Manifest
    <3> QED
      BY <3>2, <3>3 DEF Modelled
  <2>4. sync' = [sync EXCEPT !.unread = unread] /\ pc' \in {"checkpoint", "merge"}
    BY <1>3 DEF ReadBatch
  <2> HIDE DEF unread
  <2>5. sync' = [sync EXCEPT !.unread = sync'.unread] /\ sync'.unread \subseteq Modelled
    <3>1. sync \in [caller : {"idle", "pass"}, pending : SUBSET Keys, batch : Nat,
                    unread : SUBSET Modelled, item : Modelled, merged : Rec]
      BY DEF TypeOK
    <3> QED
      BY <2>3, <2>4, <3>1
  <2>6. UNCHANGED <<manifest, row, flag, ident, version, cursor, cur, job, edit, spent, ghost>>
    BY <1>3 DEF ReadBatch
  <2>7. pc' \in PCs
    BY <2>4
  <2> QED
    BY <2>5, <2>6, <2>7 DEF TypeOK
<1>4. CASE LastBatchRead
  BY <1>4 DEF LastBatchRead, TypeOK
<1>5. ASSUME NEW i \in sync.unread, MergeRecord(i) PROVE TypeOK'
  <2>1. i \in Modelled
    BY DEF TypeOK
  <2>2. Merged(i) \in Rec
    BY <2>1, MergedType
  <2> QED
    BY <1>5, <2>1, <2>2 DEF MergeRecord, TypeOK
<1>6. CASE SaveRow
  BY <1>6 DEF SaveRow, TypeOK
<1>7. CASE SaveReadIdentity
  <2>1. sync.item \in Modelled
    BY DEF TypeOK
  <2> QED
    BY <1>7, <2>1, WithIdentityType DEF SaveReadIdentity, TypeOK
<1>8. CASE Checkpoint
  BY <1>8 DEF Checkpoint, TypeOK, Manifest
<1>9. CASE StoreReadVersion
  BY <1>9 DEF StoreReadVersion, TypeOK, Manifest
<1>10. CASE FinishSync
  BY <1>10, Defaults, FS_EmptySet DEF FinishSync, TypeOK, NoManifest
<1> QED
  BY <1>1, <1>2, <1>3, <1>4, <1>5, <1>6, <1>7, <1>8, <1>9, <1>10 DEF Sync

(* Taking work from the marks and marking it again keeps the types         *)
(* (the push_pending_* functions).                                         *)
LEMMA DrainType == TypeOK /\ Drain => TypeOK'
<1> SUFFICES ASSUME TypeOK, Drain PROVE TypeOK'
  OBVIOUS
<1> USE Defaults DEF PCs, SyncPCs, device
<1>1. ASSUME NEW type \in {Subjects \ Packs, Packs, Accounts}, StartDrain(type) PROVE TypeOK'
  BY <1>1 DEF StartDrain, TypeOK
<1>2. ASSUME NEW k \in Keys, NextKey(k) PROVE TypeOK'
  <2>1. job' \in [todo : SUBSET Keys, key : Keys, want : Rec, passes : Nat, attempts : Nat]
    BY <1>2 DEF NextKey, TypeOK
  <2> QED
    BY <1>2, <2>1 DEF NextKey, TypeOK
<1>3. CASE FinishDrain
  BY <1>3 DEF FinishDrain, TypeOK
<1>4. CASE Mark
  BY <1>4 DEF Mark, TypeOK
<1> QED
  BY <1>1, <1>2, <1>3, <1>4 DEF Drain

(* What a push leaves on the server is a finite manifest of items.         *)
LEMMA WrittenType ==
  ASSUME TypeOK
  PROVE  /\ Edited \in Manifest /\ IsFiniteSet(Edited.items)
         /\ Appended \in Manifest /\ IsFiniteSet(Appended.items)
<1>1. NewItem \in Item
  BY NewItemType DEF Modelled
<1>2. cur \in Manifest /\ IsFiniteSet(cur.items)
  BY DEF TypeOK
<1>3. IsFiniteSet(cur.items \ Held(job.key))
  BY <1>2, FS_Difference
<1>4. IsFiniteSet(Edited.items) /\ IsFiniteSet(Appended.items)
  BY <1>2, <1>3, FS_AddElement DEF Edited, Appended
<1> QED
  BY <1>1, <1>2, <1>4 DEF Edited, Appended, Manifest

(* Backing off after a conflict or a moved record keeps the types.         *)
LEMMA RetryType ==
  ASSUME TypeOK, NEW again \in {"pass", "append"}, Retry(again)
  PROVE  TypeOK'
<1>1. job' \in [todo : SUBSET Keys, key : Keys, want : Rec, passes : Nat, attempts : Nat]
  BY DEF Retry, TypeOK
<1> QED
  BY <1>1, Defaults, FS_EmptySet DEF Retry, TypeOK, PCs, device, NoManifest

(* Every step of a push keeps the types (update_storage_record,            *)
(* append_storage_record).                                                 *)
LEMMA PublishType == TypeOK /\ Publish => TypeOK'
<1> SUFFICES ASSUME TypeOK, Publish PROVE TypeOK'
  OBVIOUS
<1> USE DEF PCs, SyncPCs, device
<1> DEFINE Job == [todo : SUBSET Keys, key : Keys, want : Rec, passes : Nat, attempts : Nat]
<1>0. job \in Job
  BY DEF TypeOK
<1>a. NextPass => job' \in Job
  BY <1>0 DEF NextPass
<1>1. CASE PassBehind
  BY <1>a, <1>1, BeginSyncType DEF PassBehind
<1>2. CASE PassUnknown
  <2>1. job' \in Job
    <3>1. job.passes + 1 \in Nat
      BY <1>0
    <3> QED
      BY <1>0, <1>2, <3>1, Zenon DEF PassUnknown
  <2> QED
    BY <1>2, <2>1 DEF PassUnknown, TypeOK
<1>3. CASE PassAgrees
  BY <1>a, <1>3 DEF PassAgrees, TypeOK
<1>4. CASE PassEdits
  BY <1>a, <1>4 DEF PassEdits, TypeOK
<1>5. CASE PassesExhausted
  BY <1>5 DEF PassesExhausted, TypeOK
<1>6. CASE RecordMoved
  BY <1>6, RetryType DEF RecordMoved
<1>7. CASE WriteConflict
  BY <1>7, RetryType DEF WriteConflict
<1>8. CASE WriteAccepted
  BY <1>8, WrittenType DEF WriteAccepted, TypeOK
<1>9. CASE AppendFetch
  BY <1>9 DEF AppendFetch, TypeOK
<1>10. CASE AppendConflict
  BY <1>10, RetryType DEF AppendConflict
<1>11. CASE AppendAccepted
  BY <1>11, WrittenType, Zenon DEF AppendAccepted, BlindIfBehind, TypeOK
<1>12. CASE StoreWrittenVersion
  BY <1>12 DEF StoreWrittenVersion, TypeOK, Manifest
<1>13. CASE SaveWrittenIdentity
  BY <1>13, NewItemType, WithIdentityType, Defaults, FS_EmptySet
  DEF SaveWrittenIdentity, TypeOK, NoManifest
<1>14. CASE ClearMark
  BY <1>14 DEF ClearMark, TypeOK
<1>15. CASE Recheck
  <2>1. flag' \subseteq Keys
    BY <1>15 DEF Recheck, TypeOK
  <2> QED
    BY <1>15, <2>1 DEF Recheck, TypeOK
<1> QED
  BY <1>1, <1>2, <1>3, <1>4, <1>5, <1>6, <1>7, <1>8, <1>9, <1>10, <1>11, <1>12, <1>13,
     <1>14, <1>15 DEF Publish

(* An edit reads, saves and marks a row of a modelled key.                 *)
LEMMA UserType == TypeOK /\ User => TypeOK'
<1> SUFFICES ASSUME TypeOK, User PROVE TypeOK'
  OBVIOUS
<1> USE DEF device
<1>1. ASSUME NEW k \in Keys, NEW f \in Fields, NEW b \in BOOLEAN, BeginEdit(k, f, b) PROVE TypeOK'
  <2>1. [row[k] EXCEPT ![f] = b] \in Rec
    BY DEF TypeOK, Rec
  <2>2. edit' \in [phase : {"idle", "save", "mark"}, key : Keys, rec : Rec]
    BY <1>1, <2>1 DEF BeginEdit
  <2>3. spent' \in [edits : Nat, remote : Nat, crashes : Nat, faults : Nat]
    BY <1>1 DEF BeginEdit, TypeOK
  <2>4. ghost' = [ghost EXCEPT !.touched = @ \union {<<k, f>>}]
    BY <1>1 DEF BeginEdit
  <2>5. ghost' \in [touched : SUBSET (Keys \X Fields), blind : BOOLEAN, torn : BOOLEAN]
    <3>1. ghost \in [touched : SUBSET (Keys \X Fields), blind : BOOLEAN, torn : BOOLEAN]
      BY DEF TypeOK
    <3> QED
      BY <2>4, <3>1
  <2> QED
    BY <1>1, <2>2, <2>3, <2>5 DEF BeginEdit, TypeOK
<1>2. CASE SaveEdit
  BY <1>2 DEF SaveEdit, TypeOK
<1>3. CASE MarkEdit
  BY <1>3, Defaults DEF MarkEdit, TypeOK
<1> QED
  BY <1>1, <1>2, <1>3 DEF User

(* A write of another device, of some records gone and some fresh ones.    *)
LEMMA RemoteWriteType ==
  ASSUME TypeOK, NEW gone, NEW come \in SUBSET Item, IsFiniteSet(come), RemoteWrite(gone, come)
  PROVE  TypeOK'
<1>1. IsFiniteSet((manifest.items \ gone) \union come)
  BY FS_Difference, FS_Union DEF TypeOK
<1>2. manifest' \in Manifest /\ IsFiniteSet(manifest'.items)
  BY <1>1 DEF RemoteWrite, TypeOK, Manifest
<1>3. spent' \in [edits : Nat, remote : Nat, crashes : Nat, faults : Nat]
  BY DEF RemoteWrite, TypeOK
<1> QED
  BY <1>2, <1>3 DEF RemoteWrite, TypeOK, device

(* Another device files, rewrites or drops well-formed records only.       *)
LEMMA RemoteType == TypeOK /\ Remote => TypeOK'
<1> SUFFICES ASSUME TypeOK, Remote PROVE TypeOK'
  OBVIOUS
<1>0. manifest.version \in Nat /\ manifest.items \subseteq Item
  BY DEF TypeOK, Manifest
<1>1. ASSUME NEW i \in manifest.items, NEW f \in Fields, RemoteRewrite(i, f) PROVE TypeOK'
  <2>1. [i.rec EXCEPT ![f] = ~ @] \in Rec
    BY <1>0 DEF Item, Rec
  <2>2. Fresh(i.key, [i.rec EXCEPT ![f] = ~ @]) \in Item
    BY <1>0, <2>1 DEF Fresh, Item
  <2> DEFINE come == {Fresh(i.key, [i.rec EXCEPT ![f] = ~ @])}
  <2>3. RemoteWrite({i}, come)
    BY <1>1 DEF RemoteRewrite
  <2>4. come \in SUBSET Item /\ IsFiniteSet(come)
    BY <2>2, FS_Singleton
  <2> HIDE DEF come
  <2> QED
    BY <2>3, <2>4, RemoteWriteType
<1>2. ASSUME NEW k \in Keys, NEW rec \in Rec, RemoteFile(k, rec) PROVE TypeOK'
  <2>1. Fresh(k, rec) \in Item
    BY <1>0, Defaults DEF Fresh, Item
  <2> DEFINE come == {Fresh(k, rec)}
  <2>2. RemoteWrite({}, come)
    BY <1>2 DEF RemoteFile
  <2>3. come \in SUBSET Item /\ IsFiniteSet(come)
    BY <2>1, FS_Singleton
  <2> HIDE DEF come
  <2> QED
    BY <2>2, <2>3, RemoteWriteType
<1>3. ASSUME NEW i \in manifest.items, RemoteRemove(i) PROVE TypeOK'
  BY <1>3, FS_EmptySet, RemoteWriteType DEF RemoteRemove
<1> QED
  BY <1>1, <1>2, <1>3 DEF Remote

(* A failed request, a lost answer or a crash resets locals to their       *)
(* defaults and keeps what is stored.                                      *)
LEMMA FailureType == TypeOK /\ Failure => TypeOK'
<1> SUFFICES ASSUME TypeOK, Failure PROVE TypeOK'
  OBVIOUS
<1> USE Defaults, FS_EmptySet DEF PCs, SyncPCs, device, NoManifest, Abandoned
<1>0. Fault \/ Crash => spent' \in [edits : Nat, remote : Nat, crashes : Nat, faults : Nat]
  BY DEF Fault, Crash, TypeOK
<1>1. CASE RequestFails
  <2>1. pc' \in PCs /\ cur' = NoManifest /\ sync' = NoSync
    BY <1>1 DEF RequestFails
  <2>2. UNCHANGED <<manifest, row, flag, ident, version, cursor, job, edit, ghost>>
    BY <1>1 DEF RequestFails
  <2>3. spent' \in [edits : Nat, remote : Nat, crashes : Nat, faults : Nat]
    BY <1>0, <1>1 DEF RequestFails
  <2> QED
    BY <2>1, <2>2, <2>3 DEF TypeOK
<1>2. CASE AnswerLost
  <2>1. manifest' \in Manifest /\ IsFiniteSet(manifest'.items)
    BY <1>2, WrittenType DEF AnswerLost
  <2>2. ghost' \in [touched : SUBSET (Keys \X Fields), blind : BOOLEAN, torn : BOOLEAN]
    <3>1. ghost \in [touched : SUBSET (Keys \X Fields), blind : BOOLEAN, torn : BOOLEAN]
      BY DEF TypeOK
    <3>2. BlindIfBehind =>
            ghost' = [ghost EXCEPT !.blind = ghost'.blind] /\ ghost'.blind \in BOOLEAN
      BY <3>1, Zenon DEF BlindIfBehind
    <3>3. ghost' = ghost \/ BlindIfBehind
      BY <1>2 DEF AnswerLost
    <3> QED
      BY <3>1, <3>2, <3>3
  <2>3. UNCHANGED <<row, flag, ident, version, cursor, job, sync, edit>>
    BY <1>2 DEF AnswerLost
  <2>4. pc' \in PCs /\ cur' \in Manifest /\ IsFiniteSet(cur'.items)
    BY <1>2 DEF AnswerLost
  <2>5. spent' \in [edits : Nat, remote : Nat, crashes : Nat, faults : Nat]
    BY <1>0, <1>2 DEF AnswerLost
  <2> QED
    BY <2>1, <2>2, <2>3, <2>4, <2>5 DEF TypeOK
<1>3. CASE Crash
  <2>1. ghost' \in [touched : SUBSET (Keys \X Fields), blind : BOOLEAN, torn : BOOLEAN]
    BY <1>3, Zenon DEF Crash, TypeOK
  <2> QED
    BY <1>0, <1>3, <2>1 DEF Crash, TypeOK
<1> QED
  BY <1>1, <1>2, <1>3 DEF Failure

(* Every reachable state is well typed: the locals a crash, a conflict or  *)
(* a failed request leaves behind, and the identities, of which there is   *)
(* at most one per key however syncs and pushes interleave.                *)
THEOREM TypeCorrect == Spec => []TypeOK
<1>1. TypeOK /\ [Next]_vars => TypeOK'
  <2>1. CASE UNCHANGED vars
    BY <2>1 DEF vars, TypeOK
  <2> QED
    BY <2>1, SyncType, DrainType, PublishType, UserType, RemoteType, FailureType DEF Next
<1> QED
  BY TypeInit, <1>1, PTL DEF Spec

(***************************************************************************)
(* Versions                                                                *)
(***************************************************************************)
(* No step of the lock holder that leaves the server alone invalidates     *)
(* what it knows of versions.                                              *)
LEMMA SyncVersions == TypeOK /\ VersionReached /\ Sync => VersionReached'
<1> SUFFICES ASSUME TypeOK, VersionReached, Sync PROVE VersionReached'
  OBVIOUS
<1> USE DEF VersionReached, Unchanged
<1>0. manifest.version \in Nat /\ cur.version \in Nat /\ version \in Nat /\ NoManifest.version = 0
  BY DEF TypeOK, Manifest, NoManifest
<1>1. CASE StartSync
  BY <1>0, <1>1 DEF StartSync, BeginSync
<1>2. CASE SyncUnchanged
  BY <1>0, <1>2 DEF SyncUnchanged
<1>3. CASE ReadBatch
  BY <1>0, <1>3 DEF ReadBatch, device
<1>4. CASE LastBatchRead
  BY <1>0, <1>4 DEF LastBatchRead, device
<1>5. ASSUME NEW i \in sync.unread, MergeRecord(i) PROVE VersionReached'
  BY <1>0, <1>5 DEF MergeRecord, device
<1>6. CASE SaveRow
  BY <1>0, <1>6 DEF SaveRow
<1>7. CASE SaveReadIdentity
  BY <1>0, <1>7 DEF SaveReadIdentity
<1>8. CASE Checkpoint
  BY <1>0, <1>8 DEF Checkpoint
<1>9. CASE StoreReadVersion
  BY <1>0, <1>9 DEF StoreReadVersion
<1>10. CASE FinishSync
  <2>1. pc' \in {"idle", "pass"}
    BY <1>10 DEF FinishSync, TypeOK
  <2> QED
    BY <1>0, <1>10, <2>1 DEF FinishSync
<1> QED
  BY <1>1, <1>2, <1>3, <1>4, <1>5, <1>6, <1>7, <1>8, <1>9, <1>10 DEF Sync

(* Drains neither fetch nor store a version while one is being written.    *)
LEMMA DrainVersions == TypeOK /\ VersionReached /\ Drain => VersionReached'
<1> SUFFICES ASSUME TypeOK, VersionReached, Drain PROVE VersionReached'
  OBVIOUS
<1> QED
  BY DEF Drain, StartDrain, NextKey, FinishDrain, Mark, VersionReached, Unchanged, device

(* A push fetches the server's manifest, writes on top of it and stores    *)
(* the version it wrote (update_storage_record).                           *)
LEMMA PublishVersions == TypeOK /\ VersionReached /\ Publish => VersionReached'
<1> SUFFICES ASSUME TypeOK, VersionReached, Publish PROVE VersionReached'
  OBVIOUS
<1> USE DEF VersionReached, Unchanged, device
<1>0. manifest.version \in Nat /\ cur.version \in Nat /\ version \in Nat /\ NoManifest.version = 0
  BY DEF TypeOK, Manifest, NoManifest
<1>1. CASE PassBehind
  BY <1>0, <1>1 DEF PassBehind, BeginSync
<1>2. CASE PassUnknown
  BY <1>0, <1>2 DEF PassUnknown
<1>3. CASE PassAgrees
  BY <1>0, <1>3 DEF PassAgrees
<1>4. CASE PassEdits
  BY <1>0, <1>4 DEF PassEdits
<1>5. CASE PassesExhausted
  BY <1>0, <1>5 DEF PassesExhausted
<1>6. ASSUME NEW again \in {"pass", "append"}, Retry(again) PROVE VersionReached'
  BY <1>0, <1>6 DEF Retry
<1>7. CASE RecordMoved \/ WriteConflict \/ AppendConflict
  BY <1>6, <1>7 DEF RecordMoved, WriteConflict, AppendConflict
<1>8. CASE WriteAccepted
  BY <1>0, <1>8 DEF WriteAccepted, Edited
<1>9. CASE AppendFetch
  BY <1>0, <1>9 DEF AppendFetch
<1>10. CASE AppendAccepted
  BY <1>0, <1>10 DEF AppendAccepted, Appended
<1>11. CASE StoreWrittenVersion
  BY <1>0, <1>11 DEF StoreWrittenVersion
<1>12. CASE SaveWrittenIdentity
  BY <1>0, <1>12 DEF SaveWrittenIdentity
<1>13. CASE ClearMark
  BY <1>0, <1>13 DEF ClearMark
<1>14. CASE Recheck
  BY <1>0, <1>14 DEF Recheck
<1> QED
  BY <1>1, <1>2, <1>3, <1>4, <1>5, <1>7, <1>8, <1>9, <1>10, <1>11, <1>12, <1>13, <1>14
  DEF Publish

(* Other actors only ever move the server forward.                         *)
LEMMA OtherVersions ==
  TypeOK /\ VersionReached /\ (User \/ Remote \/ Failure) => VersionReached'
<1> SUFFICES ASSUME TypeOK, VersionReached, User \/ Remote \/ Failure PROVE VersionReached'
  OBVIOUS
<1> USE DEF VersionReached, Unchanged, device
<1>0. manifest.version \in Nat /\ cur.version \in Nat /\ version \in Nat /\ NoManifest.version = 0
  BY DEF TypeOK, Manifest, NoManifest
<1>1. CASE User
  BY <1>1 DEF User, BeginEdit, SaveEdit, MarkEdit
<1>2. ASSUME NEW gone, NEW come, RemoteWrite(gone, come) PROVE VersionReached'
  BY <1>0, <1>2 DEF RemoteWrite
<1>3. CASE Remote
  BY <1>2, <1>3, Zenon DEF Remote, RemoteRewrite, RemoteFile, RemoteRemove
<1>4. CASE RequestFails
  BY <1>0, <1>4 DEF RequestFails, Abandoned
<1>5. CASE AnswerLost
  BY <1>0, <1>5 DEF AnswerLost, Edited, Appended
<1>6. CASE Crash
  BY <1>0, <1>6 DEF Crash
<1> QED
  BY <1>1, <1>3, <1>4, <1>5, <1>6 DEF Failure

(* Every step keeps the versions in order.                                 *)
LEMMA VersionsStep == TypeOK /\ VersionReached /\ [Next]_vars => VersionReached'
<1>1. ASSUME VersionReached, UNCHANGED vars PROVE VersionReached'
  BY <1>1 DEF vars, VersionReached, Unchanged
<1> QED
  BY <1>1, SyncVersions, DrainVersions, PublishVersions, OtherVersions DEF Next

(* Nothing has been read or fetched at the start.                          *)
LEMMA VersionsInit == Init => VersionReached
BY DEF Init, VersionReached, NoManifest

(* The stored version is never one the server has not reached, and a       *)
(* manifest about to be written on top of is what the server lists, or its *)
(* version is no longer the server's (storage_manifest_version,            *)
(* write_manifest_edit).                                                   *)
THEOREM VersionsReached == Spec => []VersionReached
<1>1. Spec => []TypeOK
  BY TypeCorrect
<1> QED
  BY <1>1, VersionsInit, VersionsStep, PTL DEF Spec

(***************************************************************************)
(* Refinement                                                              *)
(***************************************************************************)
(* A write on top of what the server lists is a write about its key.       *)
LEMMA PushRefines ==
  ASSUME TypeOK, cur.version = manifest.version, cur.items = manifest.items,
         \/ manifest' = Edited /\ Listed
         \/ manifest' = Appended
  PROVE  Service!Next
<1>1. /\ job.key \in AnyKey
      /\ NewItem \in [key : {job.key}, id : {manifest.version + 1}, rec : Rec]
  BY NewItemType, Defaults DEF TypeOK
<1>2. NewItem = [key |-> job.key, id |-> manifest.version + 1, rec |-> NewItem.rec] /\ NewItem.rec \in Rec
  BY <1>1
<1>3. PICK gone \in SUBSET {i \in manifest.items : i.key = job.key} :
        /\ manifest'.items = (manifest.items \ gone) \union {NewItem}
        /\ manifest'.version = manifest.version + 1
  <2>1. CASE manifest' = Edited /\ Listed
    <3>1. Held(job.key) \in SUBSET {i \in manifest.items : i.key = job.key}
      BY <2>1 DEF Listed, Held
    <3> QED
      BY <2>1, <3>1 DEF Edited
  <2>2. CASE manifest' = Appended
    <3>1. {} \in SUBSET {i \in manifest.items : i.key = job.key}
      OBVIOUS
    <3>2. manifest'.items = (manifest.items \ {}) \union {NewItem} /\ manifest'.version = manifest.version + 1
      BY <2>2 DEF Appended
    <3> QED
      BY <3>1, <3>2
  <2> QED
    BY <2>1, <2>2
<1>4. Service!Write(job.key)
  BY <1>2, <1>3 DEF Service!Write
<1> QED
  BY <1>1, <1>4 DEF Service!Next

(* A write of another device is a write of the service.                    *)
LEMMA RemoteRefines == TypeOK /\ Remote => Service!Next
<1> SUFFICES ASSUME TypeOK, Remote PROVE Service!Next
  OBVIOUS
<1>0. manifest.items \subseteq Item
  BY DEF TypeOK, Manifest
<1>1. ASSUME NEW k \in AnyKey, NEW gone \in SUBSET {i \in manifest.items : i.key = k},
             NEW rec \in Rec, RemoteWrite(gone, {Fresh(k, rec)}) \/ RemoteWrite(gone, {})
      PROVE  Service!Next
  <2>1. Service!Write(k)
    BY <1>1 DEF Service!Write, RemoteWrite, Fresh
  <2> QED
    BY <2>1 DEF Service!Next
<1>2. ASSUME NEW i \in manifest.items, NEW f \in Fields, RemoteRewrite(i, f) PROVE Service!Next
  <2>1. i.key \in AnyKey /\ [i.rec EXCEPT ![f] = ~ @] \in Rec
    BY <1>0 DEF Item, Rec
  <2>2. {i} \in SUBSET {j \in manifest.items : j.key = i.key}
    OBVIOUS
  <2>3. RemoteWrite({i}, {Fresh(i.key, [i.rec EXCEPT ![f] = ~ @])})
    BY <1>2 DEF RemoteRewrite
  <2> QED
    BY <1>1, <2>1, <2>2, <2>3
<1>3. ASSUME NEW k \in Keys, NEW rec \in Rec, RemoteFile(k, rec) PROVE Service!Next
  <2>1. k \in AnyKey /\ {} \in SUBSET {i \in manifest.items : i.key = k}
    BY Defaults
  <2>2. RemoteWrite({}, {Fresh(k, rec)})
    BY <1>3 DEF RemoteFile
  <2> QED
    BY <1>1, <2>1, <2>2
<1>4. ASSUME NEW i \in manifest.items, RemoteRemove(i) PROVE Service!Next
  <2>1. i.key \in AnyKey /\ {i} \in SUBSET {j \in manifest.items : j.key = i.key}
    BY <1>0 DEF Item
  <2>2. RemoteWrite({i}, {})
    BY <1>4 DEF RemoteRemove
  <2> QED
    BY <1>1, <2>1, <2>2, Defaults
<1> QED
  BY <1>2, <1>3, <1>4 DEF Remote

(* Whatever this device and the others do, the server is a storage service *)
(* as every device relies on it: each push, lost answer or remote write is *)
(* one version, about one subject, and keeps every other record listed.    *)
THEOREM ServiceImplemented == Spec => ServiceSpec
<1>1. Init => Service!Init
  BY Defaults DEF Init, Service!Init, AnyKey
<1>2. TypeOK /\ VersionReached /\ [Next]_vars => [Service!Next]_(Service!vars)
  <2> SUFFICES ASSUME TypeOK, VersionReached, [Next]_vars, ~ UNCHANGED manifest
               PROVE  Service!Next
    BY DEF Service!vars
  <2>1. CASE Remote
    BY <2>1, RemoteRefines
  <2>2. CASE WriteAccepted
    BY <2>2, PushRefines DEF WriteAccepted, VersionReached, Unchanged
  <2>3. CASE AppendAccepted
    BY <2>3, PushRefines DEF AppendAccepted, VersionReached, Unchanged
  <2>4. CASE AnswerLost
    BY <2>4, PushRefines DEF AnswerLost, VersionReached, Unchanged
  <2>5. Sync \/ Drain \/ User => UNCHANGED manifest
    BY DEF Sync, StartSync, BeginSync, SyncUnchanged, ReadBatch, LastBatchRead, MergeRecord,
           SaveRow, SaveReadIdentity, Checkpoint, StoreReadVersion, FinishSync,
           Drain, StartDrain, NextKey, FinishDrain, Mark, User, BeginEdit, SaveEdit, MarkEdit
  <2>6. Publish => UNCHANGED manifest \/ WriteAccepted \/ AppendAccepted
    BY DEF Publish, PassBehind, BeginSync, PassUnknown, PassAgrees, PassEdits, PassesExhausted,
           RecordMoved, WriteConflict, AppendConflict, Retry, AppendFetch, StoreWrittenVersion,
           SaveWrittenIdentity, ClearMark, Recheck
  <2>7. Failure => UNCHANGED manifest \/ AnswerLost
    BY DEF Failure, RequestFails, Crash
  <2>8. UNCHANGED vars => UNCHANGED manifest
    BY DEF vars
  <2> QED
    BY <2>1, <2>2, <2>3, <2>4, <2>5, <2>6, <2>7, <2>8 DEF Next
<1>3. Spec => []TypeOK /\ []VersionReached
  BY TypeCorrect, VersionsReached
<1> QED
  BY <1>1, <1>2, <1>3, PTL DEF Spec, ServiceSpec, Service!Spec

=============================================================================
