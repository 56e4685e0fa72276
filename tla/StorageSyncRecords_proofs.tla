---------------------- MODULE StorageSyncRecords_proofs ----------------------
(***************************************************************************)
(* What a device may believe of the records it holds: at the server's      *)
(* version it holds them all (CurrentWhenCaughtUp), a resumed sync skips   *)
(* none it lacks (ResumeSkipsNothing) and no push files a second record    *)
(* for a key (OneRecordPerKey).  The three lean on each other: a push      *)
(* replaces one record because the device is current, a sync stores each   *)
(* record it read because a key has one, and it is current because none    *)
(* was skipped.  Then what becomes of local changes: none is forgotten     *)
(* (UnpublishedIsMarked) and no sync reverts one (OutstandingKept).        *)
(***************************************************************************)
EXTENDS StorageSync_proofs

USE StorageSyncAssumption

(***************************************************************************)
(* Batches                                                                 *)
(***************************************************************************)
(* The place of an item's batch does not exceed the number of batches.     *)
LEMMA DivShift ==
  ASSUME NEW b \in Nat \ {0}, NEW x \in Nat, NEW y \in Nat, x + b <= y
  PROVE  x \div b \in Nat /\ y \div b \in Nat /\ (x \div b) + 1 <= y \div b
<1> DEFINE q == x \div b
           r == y \div b
<1>1. q \in Nat /\ r \in Nat /\ b * q <= x /\ y < b * (r + 1)
  OBVIOUS
<1> HIDE DEF q, r
<1>2. SUFFICES ASSUME r + 1 <= q + 1 PROVE FALSE
  BY <1>1 DEF q, r
<1>3. b * (r + 1) <= b * (q + 1)
  BY <1>1, <1>2
<1>4. b * (q + 1) = b * q + b
  BY <1>1
<1> QED
  BY <1>1, <1>3, <1>4

(* Every item of a finite set is in one of its chunks.                     *)
LEMMA ChunksCover ==
  ASSUME NEW T, IsFiniteSet(T), NEW x \in T
  PROVE  \E n \in 1..Len(Chunks(InOrder(T))) : x \in Chunks(InOrder(T))[n]
<1> DEFINE s == InOrder(T)
           N == (Len(s) + BatchSize - 1) \div BatchSize
<1>1. /\ Cardinality(T) \in Nat /\ s \in [1..Cardinality(T) -> T]
      /\ \A y \in T : \E m \in 1..Cardinality(T) : s[m] = y
  BY InOrderType
<1>2. Len(s) = Cardinality(T) /\ DOMAIN s = 1..Cardinality(T)
  BY <1>1, FunctionSeq
<1>3. PICK m \in 1..Cardinality(T) : s[m] = x
  BY <1>1
<1> HIDE DEF s
<1>4. N \in Nat /\ (m - 1) \div BatchSize \in Nat /\ (m - 1) \div BatchSize + 1 <= N
  <2>1. m - 1 \in Nat /\ Len(s) + BatchSize - 1 \in Nat /\ (m - 1) + BatchSize <= Len(s) + BatchSize - 1
    BY <1>1, <1>2
  <2> QED
    BY <2>1, DivShift
<1> DEFINE n == (m - 1) \div BatchSize + 1
<1>5. n \in 1..N
  BY <1>4
<1>6. Chunks(s) = [k \in 1..N |-> {s[j] : j \in {i \in DOMAIN s : (i - 1) \div BatchSize = k - 1}}]
  BY DEF Chunks
<1>7. Chunks(s) \in [1..N -> SUBSET {s[j] : j \in DOMAIN s}]
  BY <1>6
<1>8. Len(Chunks(s)) = N
  BY <1>4, <1>7, FunctionSeq
<1>9. m \in {i \in DOMAIN s : (i - 1) \div BatchSize = n - 1}
  BY <1>2, <1>4
<1>10. x \in Chunks(s)[n]
  BY <1>3, <1>5, <1>6, <1>9
<1> QED
  BY <1>5, <1>8, <1>10 DEF s

(* The items of a manifest that presage models.                            *)
Ours(items) == {i \in items : i.key \in Keys}

(* A sync that has read every batch of a manifest has read every record it *)
(* models.                                                                 *)
LEMMA BatchesCover ==
  ASSUME NEW items, IsFiniteSet(items), NEW i \in Ours(items)
  PROVE  \E n \in 1..Len(Batches(items)) : i \in Batches(items)[n]
<1> DEFINE S == {j \in items : j.key \in Subjects}
           A == {j \in items : j.key \in Accounts}
           s == Chunks(InOrder(S))
           a == Chunks(InOrder(A))
<1>1. IsFiniteSet(S) /\ IsFiniteSet(A)
  BY FS_Subset
<1>2. s \in Seq(SUBSET S) /\ a \in Seq(SUBSET A)
  BY <1>1, ChunksType
<1>3. Batches(items) = s \o a
  BY Zenon DEF Batches
<1>4. i \in S => \E n \in 1..Len(s) : i \in s[n]
  BY <1>1, ChunksCover
<1>5. i \in A => \E n \in 1..Len(a) : i \in a[n]
  BY <1>1, ChunksCover
<1>6. i \in S \/ i \in A
  BY DEF Ours, Keys
<1> HIDE DEF s, a, S, A
<1>7. /\ Len(s) \in Nat /\ Len(a) \in Nat /\ Len(s \o a) = Len(s) + Len(a)
      /\ \A n \in 1..Len(s) : (s \o a)[n] = s[n]
      /\ \A n \in 1..Len(a) : (s \o a)[n + Len(s)] = a[n]
  BY <1>2
<1>8. CASE i \in S
  BY <1>3, <1>4, <1>7, <1>8
<1>9. CASE i \in A
  <2>1. PICK n \in 1..Len(a) : i \in a[n]
    BY <1>5, <1>9
  <2>2. n + Len(s) \in 1..Len(s \o a) /\ i \in (s \o a)[n + Len(s)]
    BY <1>7, <2>1
  <2> QED
    BY <1>3, <2>2
<1> QED
  BY <1>6, <1>8, <1>9

(***************************************************************************)
(* The inductive invariant                                                 *)
(***************************************************************************)
Reading == {"merge", "saveRow", "saveIdentity", "checkpoint"}

(* How the versions a device holds stand to each other and to the server's.*)
(* A manifest at the server's version is the server's.  A sync reads a     *)
(* version the device has not stored yet, with a cursor for that version   *)
(* or none; an edit goes on top of the version that is stored.             *)
Abreast ==
  /\ manifest.version > 0 /\ cursor.target <= manifest.version
  /\ cur.version = manifest.version => cur.items = manifest.items
  /\ pc \in SyncPCs \ {"clearCursor"} => version < cur.version /\ cursor.target \in {0, cur.version}
  /\ pc = "write" => version = cur.version
  /\ pc \in {"appendWrite", "storeVersion"} => version <= cur.version
  /\ pc = "storeIdentity" => version = cur.version + 1
  /\ pc \in {"storeVersion", "storeIdentity"} => cur.version < manifest.version /\ cursor.target < manifest.version

(* Where the holder of the lock is in its work: within the batches of the  *)
(* manifest, at an item of it, or appending a key that has no identity.    *)
InPlace ==
  /\ cursor.target = manifest.version => cursor.next <= Len(Batches(manifest.items))
  /\ pc = "batch" => sync.batch <= Len(Batches(cur.items))
  /\ pc \in Reading => sync.batch < Len(Batches(cur.items)) /\ sync.unread \subseteq cur.items
  /\ pc \in {"saveRow", "saveIdentity"} => sync.item \in cur.items
  /\ pc = "checkpoint" => sync.unread = {}
  /\ pc \in {"append", "appendWrite"} => Held(job.key) = {}

(* What a sync of the server's version has stored so far: the batches      *)
(* before its own, and of its own all but what it has left to do.          *)
LeftToDo == sync.unread \union (IF pc \in {"saveRow", "saveIdentity"} THEN {sync.item} ELSE {})
Progress ==
  cur.version = manifest.version /\ Intact =>
    /\ pc \in Reading \union {"batch"} => \A n \in 1..sync.batch : Batches(cur.items)[n] \subseteq ident
    /\ pc \in Reading => Batches(cur.items)[sync.batch + 1] \subseteq ident \union LeftToDo
    /\ pc = "finish" => Ours(cur.items) \subseteq ident

(* Between a write and storing the identity it made, that record is the    *)
(* only one the device lacks.                                              *)
Written ==
  pc \in {"storeVersion", "storeIdentity"} /\ manifest.version = cur.version + 1 /\ Intact =>
    \A i \in Ours(manifest.items) : i = NewItem \/ (i \in ident /\ i.key # job.key)

Records == /\ Abreast /\ InPlace /\ Progress /\ Written
           /\ CurrentWhenCaughtUp /\ OneRecordPerKey /\ ResumeSkipsNothing
IInv == TypeOK /\ VersionReached /\ Records

(* What the proofs below need of the types.                                *)
LEMMA NaturalsOf ==
  ASSUME TypeOK
  PROVE  /\ manifest.version \in Nat /\ cur.version \in Nat /\ version \in Nat
         /\ cursor.target \in Nat /\ cursor.next \in Nat /\ sync.batch \in Nat
         /\ IsFiniteSet(manifest.items) /\ IsFiniteSet(cur.items)
         /\ NoManifest.version = 0 /\ NoCursor.target = 0 /\ NoCursor.next = 0
         /\ sync.caller \in {"idle", "pass"}
BY DEF TypeOK, Manifest, NoManifest, NoCursor

(* The length of a list of batches, and what a batch holds.                *)
LEMMA BatchesType ==
  ASSUME NEW items, IsFiniteSet(items)
  PROVE  /\ Len(Batches(items)) \in Nat
         /\ \A n \in 1..Len(Batches(items)) : Batches(items)[n] \subseteq Ours(items)
<1>1. Batches(items) \in Seq(SUBSET {i \in items : i.key \in Keys})
  BY BatchItems
<1> HIDE DEF Batches
<1> QED
  BY <1>1 DEF Ours

(* Nothing is listed twice and nothing is under way at the start.          *)
LEMMA RecordsInit == Init => Records
<1> SUFFICES ASSUME Init PROVE Records
  OBVIOUS
<1>1. manifest.version = 1 /\ version = 0 /\ cursor.target = 0 /\ cursor.next = 0 /\ cur.version = 0 /\ pc = "idle"
  BY DEF Init, NoCursor, NoManifest
<1>2. Abreast /\ Progress /\ Written /\ CurrentWhenCaughtUp /\ ResumeSkipsNothing
  BY <1>1 DEF Abreast, Progress, Written, CurrentWhenCaughtUp, ResumeSkipsNothing, SyncPCs, Reading
<1>3. InPlace
  BY <1>1 DEF InPlace, Reading
<1>4. OneRecordPerKey
  BY DEF Init, OneRecordPerKey
<1> QED
  BY <1>2, <1>3, <1>4 DEF Records

(***************************************************************************)
(* Steps that leave the records alone                                      *)
(***************************************************************************)
(* The server, the identities and the sync's locals stay: user edits, and  *)
(* saving a row.                                                           *)
LEMMA SameRecords ==
  ASSUME Records, UNCHANGED <<manifest, version, cursor, ident, cur, job, sync>>,
         Intact' = Intact,
         pc' = pc \/ (pc = "saveRow" /\ pc' = "saveIdentity")
  PROVE  Records'
<1>1. NewItem' = NewItem /\ \A k : Held(k)' = Held(k)
  BY DEF NewItem, Held, HeldRec, Overlay, Differ
<1>2. Abreast' /\ InPlace'
  BY <1>1 DEF Records, Abreast, InPlace, SyncPCs, Reading
<1>3. Progress'
  BY DEF Records, Progress, LeftToDo, Reading
<1>4. Written'
  BY <1>1 DEF Records, Written
<1>5. CurrentWhenCaughtUp' /\ OneRecordPerKey' /\ ResumeSkipsNothing'
  BY DEF Records, CurrentWhenCaughtUp, OneRecordPerKey, ResumeSkipsNothing
<1> QED
  BY <1>2, <1>3, <1>4, <1>5 DEF Records

(* The lock holder moves to a place that promises nothing: it begins or    *)
(* ends a drain, marks, retries, gives up, fails.                          *)
LEMMA QuietRecords ==
  ASSUME IInv, UNCHANGED <<manifest, version, cursor, ident>>,
         Intact' => Intact /\ pc # "storeIdentity",
         cur' \in {cur, NoManifest},
         pc' \in {"idle", "next", "mark", "pass", "clear", "recheck"}
  PROVE  Records'
<1>1. manifest.version > 0 /\ NoManifest.version = 0
  BY DEF IInv, Records, Abreast, NoManifest
<1>2. Abreast' /\ InPlace' /\ Progress' /\ Written'
  BY <1>1 DEF IInv, Records, Abreast, InPlace, Progress, Written, SyncPCs, Reading
<1>3. CurrentWhenCaughtUp' /\ OneRecordPerKey' /\ ResumeSkipsNothing'
  BY DEF IInv, Records, CurrentWhenCaughtUp, OneRecordPerKey, ResumeSkipsNothing
<1> QED
  BY <1>2, <1>3 DEF Records

(* A new version at the server: what is known of the one before is         *)
(* history, but a key still has one record.                                *)
LEMMA ServerMoved ==
  ASSUME IInv, manifest'.version = manifest.version + 1,
         UNCHANGED <<version, cursor, ident>>,
         \/ UNCHANGED <<pc, cur, job, sync, ghost>>
         \/ cur' = NoManifest /\ pc' = "next",
         OneRecordPerKey'
  PROVE  Records'
<1>0. /\ manifest.version \in Nat /\ cur.version \in Nat /\ version \in Nat /\ cursor.target \in Nat
      /\ NoManifest.version = 0
  BY NaturalsOf DEF IInv
<1>1. version <= manifest.version /\ cur.version <= manifest.version /\ cursor.target <= manifest.version
  BY DEF IInv, VersionReached, Records, Abreast
<1>2. Abreast' /\ InPlace'
  BY <1>0, <1>1 DEF IInv, Records, Abreast, InPlace, SyncPCs, Reading, Held
<1>3. Progress' /\ CurrentWhenCaughtUp' /\ ResumeSkipsNothing'
  BY <1>0, <1>1 DEF Progress, CurrentWhenCaughtUp, ResumeSkipsNothing
<1>4. Written'
  BY <1>0, <1>1 DEF IInv, Records, Abreast, Written
<1> QED
  BY <1>2, <1>3, <1>4 DEF Records

(***************************************************************************)
(* Syncing                                                                 *)
(***************************************************************************)
(* A sync begins at the batch its cursor stands at, if the cursor is for   *)
(* this version, or at the first.                                          *)
LEMMA BeginSyncRecords ==
  ASSUME IInv, NEW caller, BeginSync(caller), manifest.version # version
  PROVE  Records'
<1>0. /\ manifest.version \in Nat /\ cursor.target \in Nat /\ cursor.next \in Nat /\ version \in Nat
      /\ NoCursor.target = 0 /\ NoCursor.next = 0
      /\ version <= manifest.version /\ manifest.version > 0
      /\ Len(Batches(manifest.items)) \in Nat
  BY NaturalsOf, BatchesType DEF IInv, VersionReached, Records, Abreast
<1>1. /\ cur' = manifest /\ manifest' = manifest /\ pc' = "batch" /\ version' = version
      /\ ident' = ident /\ ghost' = ghost
      /\ cursor' = IF cursor.target = manifest.version THEN cursor ELSE NoCursor
      /\ sync'.batch = IF cursor.target = manifest.version THEN cursor.next ELSE 0
  BY DEF BeginSync, NoSync
<1>2. cursor'.target \in {0, manifest.version} /\ cursor'.next \in Nat
  BY <1>0, <1>1
<1>3. Abreast'
  BY <1>0, <1>1, <1>2 DEF Abreast
<1>4. InPlace'
  BY <1>0, <1>1 DEF IInv, Records, InPlace, Reading
<1>5. ResumeSkipsNothing'
  BY <1>0, <1>1 DEF IInv, Records, ResumeSkipsNothing, Intact
<1>6. Progress'
  BY <1>0, <1>1 DEF IInv, Records, ResumeSkipsNothing, Progress, Intact, Reading
<1>7. Written' /\ OneRecordPerKey' /\ CurrentWhenCaughtUp'
  BY <1>0, <1>1 DEF IInv, Records, Written, OneRecordPerKey, CurrentWhenCaughtUp, Intact
<1> QED
  BY <1>3, <1>4, <1>5, <1>6, <1>7 DEF Records

(* Nothing new: only the cursor goes.                                      *)
LEMMA SyncUnchangedRecords == ASSUME IInv, SyncUnchanged PROVE Records'
<1>0. manifest.version > 0 /\ NoCursor.target = 0 /\ pc = "idle" /\ pc' = "idle"
  BY DEF IInv, Records, Abreast, NoCursor, SyncUnchanged
<1>1. Abreast' /\ InPlace' /\ ResumeSkipsNothing'
  BY <1>0, NaturalsOf DEF IInv, Records, Abreast, InPlace, ResumeSkipsNothing, SyncUnchanged, SyncPCs, Reading
<1>2. Progress' /\ Written' /\ OneRecordPerKey' /\ CurrentWhenCaughtUp'
  BY <1>0 DEF IInv, Records, Progress, Written, OneRecordPerKey, CurrentWhenCaughtUp, Intact, Reading, SyncUnchanged
<1> QED
  BY <1>1, <1>2 DEF Records

(* At the server's version a batch is read whole: its records are listed.  *)
LEMMA ReadBatchRecords == ASSUME IInv, ReadBatch PROVE Records'
<1> DEFINE batch == Batches(cur.items)[sync.batch + 1]
<1>0. /\ sync.batch \in Nat /\ Len(Batches(cur.items)) \in Nat /\ sync.batch < Len(Batches(cur.items))
      /\ batch \subseteq Ours(cur.items)
  <2>1. /\ sync.batch \in Nat /\ IsFiniteSet(cur.items) /\ sync.batch < Len(Batches(cur.items))
    BY NaturalsOf DEF IInv, ReadBatch
  <2>2. Len(Batches(cur.items)) \in Nat /\ sync.batch + 1 \in 1..Len(Batches(cur.items))
    BY <2>1, BatchesType
  <2> QED
    BY <2>1, <2>2, BatchesType
<1>1. /\ UNCHANGED <<manifest, version, cursor, ident, cur, ghost, job>>
      /\ pc = "batch" /\ pc' \in {"merge", "checkpoint"}
      /\ sync'.batch = sync.batch /\ sync'.unread = batch \intersect manifest.items
      /\ pc' = "checkpoint" => sync'.unread = {}
  BY DEF ReadBatch, device, IInv, TypeOK
<1> HIDE DEF batch
<1>2. Abreast'
  BY <1>1 DEF IInv, Records, Abreast, SyncPCs
<1>3. InPlace'
  BY <1>0, <1>1 DEF IInv, Records, InPlace, Reading, Ours
<1>4. Progress'
  <2> SUFFICES ASSUME cur.version = manifest.version, Intact PROVE Progress'
    BY <1>1 DEF Progress, Intact
  <2>1. cur.items = manifest.items /\ sync'.unread = batch
    BY <1>0, <1>1 DEF IInv, Records, Abreast, Ours
  <2>2. \A n \in 1..sync.batch : Batches(cur.items)[n] \subseteq ident
    BY <1>1 DEF IInv, Records, Progress
  <2>3. batch' = batch
    BY <1>1 DEF batch
  <2> QED
    BY <1>1, <2>1, <2>2, <2>3 DEF Progress, LeftToDo, batch
<1>5. Written' /\ OneRecordPerKey' /\ CurrentWhenCaughtUp' /\ ResumeSkipsNothing'
  BY <1>1 DEF IInv, Records, Written, OneRecordPerKey, CurrentWhenCaughtUp, ResumeSkipsNothing, Intact
<1> QED
  BY <1>2, <1>3, <1>4, <1>5 DEF Records

(* The batches are all read: every record of the manifest is stored.       *)
LEMMA LastBatchRecords == ASSUME IInv, LastBatchRead PROVE Records'
<1>0. sync.batch \in Nat /\ IsFiniteSet(cur.items) /\ Len(Batches(cur.items)) \in Nat
  BY NaturalsOf, BatchesType DEF IInv
<1>1. /\ UNCHANGED <<manifest, version, cursor, ident, cur, ghost, job, sync>>
      /\ pc = "batch" /\ pc' = "finish" /\ sync.batch >= Len(Batches(cur.items))
  BY DEF LastBatchRead, device
<1>2. Abreast' /\ InPlace'
  BY <1>1 DEF IInv, Records, Abreast, InPlace, SyncPCs, Reading
<1>3. Progress'
  <2> SUFFICES ASSUME cur.version = manifest.version, Intact, NEW i \in Ours(cur.items) PROVE i \in ident
    BY <1>1 DEF Progress, Intact, Reading
  <2>1. PICK n \in 1..Len(Batches(cur.items)) : i \in Batches(cur.items)[n]
    BY <1>0, BatchesCover
  <2>2. n \in 1..sync.batch
    BY <1>0, <1>1
  <2> QED
    BY <1>1, <2>1, <2>2 DEF IInv, Records, Progress
<1>4. Written' /\ OneRecordPerKey' /\ CurrentWhenCaughtUp' /\ ResumeSkipsNothing'
  BY <1>1 DEF IInv, Records, Written, OneRecordPerKey, CurrentWhenCaughtUp, ResumeSkipsNothing, Intact
<1> QED
  BY <1>2, <1>3, <1>4 DEF Records

(* One record of the batch is taken up.                                    *)
LEMMA MergeRecords == ASSUME IInv, NEW i \in sync.unread, MergeRecord(i) PROVE Records'
<1>1. /\ UNCHANGED <<manifest, version, cursor, ident, cur, ghost, job>>
      /\ pc = "merge" /\ pc' = "saveRow"
      /\ sync'.unread = sync.unread \ {i} /\ sync'.item = i /\ sync'.batch = sync.batch
  BY DEF MergeRecord, device, IInv, TypeOK
<1>2. Abreast' /\ InPlace'
  BY <1>1 DEF IInv, Records, Abreast, InPlace, SyncPCs, Reading
<1>3. Progress'
  BY <1>1 DEF IInv, Records, Progress, Intact, LeftToDo, Reading
<1>4. Written' /\ OneRecordPerKey' /\ CurrentWhenCaughtUp' /\ ResumeSkipsNothing'
  BY <1>1 DEF IInv, Records, Written, OneRecordPerKey, CurrentWhenCaughtUp, ResumeSkipsNothing, Intact
<1> QED
  BY <1>2, <1>3, <1>4 DEF Records

(* It is stored.  Its key has no other record, so nothing read before is   *)
(* displaced.                                                              *)
LEMMA SaveIdentityRecords == ASSUME IInv, SaveReadIdentity PROVE Records'
<1>0. /\ manifest.version \in Nat /\ cur.version \in Nat /\ version \in Nat /\ sync.batch \in Nat
      /\ version < cur.version /\ cur.version <= manifest.version /\ manifest.version > 0
      /\ cursor.target \in {0, cur.version} /\ cursor.next \in Nat
  BY NaturalsOf DEF IInv, Records, Abreast, VersionReached, SyncPCs, SaveReadIdentity
<1>1. /\ UNCHANGED <<manifest, version, cursor, cur, ghost, job, sync>>
      /\ pc = "saveIdentity" /\ pc' \in {"merge", "checkpoint"} /\ ident' = WithIdentity(sync.item)
      /\ pc' = "checkpoint" => sync.unread = {}
  BY DEF SaveReadIdentity
<1>2. Abreast' /\ InPlace'
  BY <1>1 DEF IInv, Records, Abreast, InPlace, SyncPCs, Reading
<1>3. ASSUME cur.version = manifest.version, Intact,
             NEW i \in manifest.items, i \in ident \/ i = sync.item
      PROVE  i \in ident'
  <2>1. sync.item \in manifest.items
    BY <1>1, <1>3 DEF IInv, Records, Abreast, InPlace
  <2>2. i.key = sync.item.key => i = sync.item
    BY <1>3, <2>1 DEF IInv, Records, OneRecordPerKey
  <2> QED
    BY <1>1, <1>3, <2>2 DEF WithIdentity
<1>4. Progress'
  <2> SUFFICES ASSUME cur.version = manifest.version, Intact PROVE Progress'
    BY <1>1 DEF Progress, Intact
  <2>1. cur.items = manifest.items /\ sync.batch < Len(Batches(cur.items))
    BY <1>1 DEF IInv, Records, Abreast, InPlace, Reading
  <2>2. \A n \in 1..Len(Batches(cur.items)) : Batches(cur.items)[n] \subseteq manifest.items
    BY <2>1, NaturalsOf, BatchesType DEF IInv, Ours
  <2>3. Len(Batches(cur.items)) \in Nat
    BY NaturalsOf, BatchesType DEF IInv
  <2>4. \A n \in 1..sync.batch : Batches(cur.items)[n] \subseteq ident'
    <3> SUFFICES ASSUME NEW n \in 1..sync.batch, NEW i \in Batches(cur.items)[n] PROVE i \in ident'
      OBVIOUS
    <3>1. i \in manifest.items
      BY <1>0, <2>1, <2>2, <2>3
    <3>2. i \in ident
      BY <1>1 DEF IInv, Records, Progress, Reading
    <3> QED
      BY <1>3, <3>1, <3>2
  <2>5. Batches(cur.items)[sync.batch + 1] \subseteq ident' \union sync.unread
    <3> SUFFICES ASSUME NEW i \in Batches(cur.items)[sync.batch + 1], i \notin sync.unread PROVE i \in ident'
      OBVIOUS
    <3>1. i \in manifest.items
      BY <1>0, <2>1, <2>2, <2>3
    <3>2. i \in ident \/ i = sync.item
      BY <1>1 DEF IInv, Records, Progress, Reading, LeftToDo
    <3> QED
      BY <1>3, <3>1, <3>2
  <2> QED
    BY <1>1, <2>4, <2>5 DEF Progress, LeftToDo
<1>5. ResumeSkipsNothing'
  <2> SUFFICES ASSUME cursor.target = manifest.version, Intact, NEW n \in 1..cursor.next,
                      NEW i \in Batches(manifest.items)[n]
               PROVE  i \in ident'
    BY <1>1 DEF ResumeSkipsNothing, Intact
  <2>1. cur.version = manifest.version /\ i \in ident
    BY <1>0 DEF IInv, Records, ResumeSkipsNothing
  <2>2. n \in 1..Len(Batches(manifest.items)) /\ IsFiniteSet(manifest.items)
    BY <1>0, NaturalsOf, BatchesType DEF IInv, Records, InPlace
  <2>3. i \in manifest.items
    BY <2>2, BatchesType DEF Ours
  <2> QED
    BY <1>3, <2>1, <2>3
<1>6. Written' /\ OneRecordPerKey'
  BY <1>1 DEF IInv, Records, Written, OneRecordPerKey, Intact
<1>7. CurrentWhenCaughtUp'
  BY <1>0, <1>1 DEF CurrentWhenCaughtUp
<1> QED
  BY <1>2, <1>4, <1>5, <1>6, <1>7 DEF Records

(* A checkpoint follows the records of its batch.                          *)
LEMMA CheckpointRecords == ASSUME IInv, Checkpoint PROVE Records'
<1>0. /\ sync.batch \in Nat /\ Len(Batches(cur.items)) \in Nat /\ cur.version \in Nat /\ manifest.version \in Nat
      /\ sync.batch < Len(Batches(cur.items)) /\ cur.version <= manifest.version
      /\ cur.version = manifest.version => cur.items = manifest.items
  BY NaturalsOf, BatchesType DEF IInv, VersionReached, Records, Abreast, InPlace, Reading, Checkpoint
<1>1. /\ UNCHANGED <<manifest, version, ident, cur, ghost, job>>
      /\ pc = "checkpoint" /\ pc' = "batch" /\ sync'.batch = sync.batch + 1
      /\ cursor'.target = cur.version /\ cursor'.next = sync.batch + 1
  BY DEF Checkpoint, IInv, TypeOK
<1>2. Abreast' /\ InPlace'
  BY <1>0, <1>1 DEF IInv, Records, Abreast, InPlace, SyncPCs, Reading
<1>3. ASSUME cur.version = manifest.version, Intact
      PROVE  \A n \in 1..sync.batch + 1 : Batches(cur.items)[n] \subseteq ident
  <2>1. \A n \in 1..sync.batch : Batches(cur.items)[n] \subseteq ident
    BY <1>1, <1>3 DEF IInv, Records, Progress, Reading
  <2>2. Batches(cur.items)[sync.batch + 1] \subseteq ident
    BY <1>1, <1>3 DEF IInv, Records, Progress, Reading, InPlace, LeftToDo
  <2>3. \A n \in 1..sync.batch + 1 : n \in 1..sync.batch \/ n = sync.batch + 1
    BY <1>0
  <2> QED
    BY <2>1, <2>2, <2>3
<1>4. Progress'
  BY <1>1, <1>3 DEF Progress, Intact, Reading
<1>5. ResumeSkipsNothing'
  BY <1>0, <1>1, <1>3 DEF ResumeSkipsNothing, Intact
<1>6. Written' /\ OneRecordPerKey' /\ CurrentWhenCaughtUp'
  BY <1>1 DEF IInv, Records, Written, OneRecordPerKey, CurrentWhenCaughtUp, Intact
<1> QED
  BY <1>2, <1>4, <1>5, <1>6 DEF Records

(* The version is stored when all its records are.                         *)
LEMMA StoreReadRecords == ASSUME IInv, StoreReadVersion PROVE Records'
<1>1. /\ UNCHANGED <<manifest, cursor, ident, cur, ghost, job, sync>>
      /\ pc = "finish" /\ pc' = "clearCursor" /\ version' = cur.version
  BY DEF StoreReadVersion
<1>2. Abreast' /\ InPlace'
  BY <1>1 DEF IInv, Records, Abreast, InPlace, Reading
<1>3. CurrentWhenCaughtUp'
  BY <1>1 DEF IInv, Records, Abreast, CurrentWhenCaughtUp, Progress, Intact, Ours
<1>4. Progress' /\ Written' /\ OneRecordPerKey' /\ ResumeSkipsNothing'
  BY <1>1 DEF IInv, Records, Progress, Written, OneRecordPerKey, ResumeSkipsNothing, Intact, Reading
<1> QED
  BY <1>2, <1>3, <1>4 DEF Records

(* The sync is over and its cursor is forgotten.                           *)
LEMMA FinishSyncRecords == ASSUME IInv, FinishSync PROVE Records'
<1>0. manifest.version \in Nat /\ manifest.version > 0 /\ NoManifest.version = 0 /\ NoCursor.target = 0 /\ NoCursor.next = 0
  BY NaturalsOf DEF IInv, Records, Abreast
<1>1. /\ UNCHANGED <<manifest, version, ident, ghost, job>>
      /\ pc = "clearCursor" /\ pc' \in {"idle", "pass"} /\ cursor' = NoCursor /\ cur' = NoManifest
  BY NaturalsOf DEF FinishSync, IInv
<1>2. Abreast' /\ InPlace'
  BY <1>0, <1>1 DEF Abreast, InPlace, SyncPCs, Reading
<1>3. Progress' /\ Written' /\ OneRecordPerKey' /\ ResumeSkipsNothing' /\ CurrentWhenCaughtUp'
  BY <1>0, <1>1 DEF IInv, Records, Progress, Written, OneRecordPerKey, ResumeSkipsNothing,
     CurrentWhenCaughtUp, Intact, Reading
<1> QED
  BY <1>2, <1>3 DEF Records

(* Every step of a sync keeps the records in order.                        *)
LEMMA SyncRecords == IInv /\ Sync => Records'
<1> SUFFICES ASSUME IInv, Sync PROVE Records'
  OBVIOUS
<1>1. CASE StartSync
  BY <1>1, BeginSyncRecords DEF StartSync
<1>2. CASE SaveRow
  BY <1>2, SameRecords DEF IInv, SaveRow, Intact
<1> QED
  BY <1>1, <1>2, SyncUnchangedRecords, ReadBatchRecords, LastBatchRecords, MergeRecords,
     SaveIdentityRecords, CheckpointRecords, StoreReadRecords, FinishSyncRecords DEF Sync

(***************************************************************************)
(* Publishing                                                              *)
(***************************************************************************)
(* A drain only moves the lock holder and the marks.                       *)
LEMMA DrainRecords == IInv /\ Drain => Records'
<1> SUFFICES ASSUME IInv, Drain PROVE Records'
  OBVIOUS
<1>1. /\ UNCHANGED <<manifest, version, cursor, ident, cur, ghost>>
      /\ pc # "storeIdentity" /\ pc' \in {"idle", "next", "mark", "pass"}
  BY DEF Drain, StartDrain, NextKey, FinishDrain, Mark, device
<1> QED
  BY <1>1, QuietRecords DEF Intact

(* Nothing the device knows of a key that is unknown: it is appended.      *)
LEMMA PassUnknownRecords == ASSUME IInv, PassUnknown PROVE Records'
<1>1. /\ UNCHANGED <<manifest, version, cursor, ident, cur, ghost>>
      /\ pc = "pass" /\ pc' \in {"append", "next"} /\ job'.key = job.key /\ Held(job.key) = {}
  BY DEF PassUnknown, device, IInv, TypeOK
<1>2. CASE pc' = "next"
  BY <1>1, <1>2, QuietRecords DEF Intact
<1>3. CASE pc' = "append"
  <2>1. Abreast' /\ InPlace'
    BY <1>1, <1>3 DEF IInv, Records, Abreast, InPlace, SyncPCs, Reading, Held
  <2>2. Progress' /\ Written' /\ OneRecordPerKey' /\ ResumeSkipsNothing' /\ CurrentWhenCaughtUp'
    BY <1>1, <1>3 DEF IInv, Records, Progress, Written, OneRecordPerKey, ResumeSkipsNothing,
       CurrentWhenCaughtUp, Intact, Reading
  <2> QED
    BY <2>1, <2>2 DEF Records
<1> QED
  BY <1>1, <1>2, <1>3

(* The server's manifest is fetched, to edit it or to append to it.        *)
LEMMA FetchRecords == ASSUME IInv, PassEdits \/ AppendFetch PROVE Records'
<1>0. manifest.version \in Nat /\ version <= manifest.version
  BY NaturalsOf DEF IInv, VersionReached
<1>1. /\ UNCHANGED <<manifest, version, cursor, ident, ghost>> /\ job'.key = job.key
      /\ cur' = manifest /\ pc # "storeIdentity"
      /\ \/ pc = "pass" /\ pc' = "write" /\ version = manifest.version
         \/ pc = "append" /\ pc' = "appendWrite"
  BY DEF PassEdits, AppendFetch, NextPass, CaughtUp, device, IInv, TypeOK
<1>2. Abreast' /\ InPlace'
  BY <1>0, <1>1 DEF IInv, Records, Abreast, InPlace, SyncPCs, Reading, Held
<1>3. Progress' /\ Written' /\ OneRecordPerKey' /\ ResumeSkipsNothing' /\ CurrentWhenCaughtUp'
  BY <1>1 DEF IInv, Records, Progress, Written, OneRecordPerKey, ResumeSkipsNothing,
     CurrentWhenCaughtUp, Intact, Reading
<1> QED
  BY <1>2, <1>3 DEF Records

(* A conflict sends the push back, or ends it.                             *)
LEMMA RetryRecords ==
  ASSUME IInv, RecordMoved \/ WriteConflict \/ AppendConflict PROVE Records'
<1>0. manifest.version > 0 /\ NoManifest.version = 0
  BY DEF IInv, Records, Abreast, NoManifest
<1>1. /\ UNCHANGED <<manifest, version, cursor, ident, ghost>> /\ job'.key = job.key
      /\ cur' = NoManifest /\ pc # "storeIdentity"
      /\ \/ pc' \in {"next", "pass"}
         \/ pc = "appendWrite" /\ pc' = "append"
  BY DEF RecordMoved, WriteConflict, AppendConflict, Retry, device, IInv, TypeOK
<1>2. CASE pc' \in {"next", "pass"}
  BY <1>1, <1>2, QuietRecords DEF Intact
<1>3. CASE pc = "appendWrite" /\ pc' = "append"
  <2>1. Abreast' /\ InPlace'
    BY <1>0, <1>1, <1>3 DEF IInv, Records, Abreast, InPlace, SyncPCs, Reading, Held
  <2>2. Progress' /\ Written' /\ OneRecordPerKey' /\ ResumeSkipsNothing' /\ CurrentWhenCaughtUp'
    BY <1>0, <1>1, <1>3 DEF IInv, Records, Progress, Written, OneRecordPerKey, ResumeSkipsNothing,
       CurrentWhenCaughtUp, Intact, Reading
  <2> QED
    BY <2>1, <2>2 DEF Records
<1> QED
  BY <1>1, <1>2, <1>3

(* What a write on top of the device's own version makes of the server's   *)
(* records: a device that is current replaces the one record of the key,   *)
(* and appends only a key that has none.                                   *)
LEMMA WriteKeepsOne ==
  ASSUME IInv, Intact, cur.version = manifest.version, version = cur.version,
         \/ pc = "write" /\ manifest' = Edited
         \/ pc = "appendWrite" /\ manifest' = Appended
  PROVE  /\ \A i \in Ours(manifest'.items) : i = NewItem \/ (i \in ident /\ i.key # job.key)
         /\ \A i, j \in manifest'.items : i.key = j.key => i = j
<1>1. cur.items = manifest.items /\ NewItem.key = job.key /\ job.key \in Keys
  BY NewItemType DEF IInv, Records, Abreast, TypeOK
<1>2. \A i \in cur.items : i.key \in Keys => i \in ident
  BY <1>1 DEF IInv, Records, CurrentWhenCaughtUp
<1>3. \A i, j \in cur.items : i.key = j.key => i = j
  BY <1>1 DEF IInv, Records, OneRecordPerKey
<1>4. /\ \A i \in manifest'.items : i = NewItem \/ i \in cur.items \ Held(job.key)
  <2>1. CASE pc = "write" /\ manifest' = Edited
    BY <2>1 DEF Edited
  <2>2. CASE pc = "appendWrite" /\ manifest' = Appended
    BY <2>2 DEF Appended, IInv, Records, InPlace
  <2> QED
    BY <2>1, <2>2
<1>5. \A i \in manifest'.items : i = NewItem \/ (i \in cur.items /\ i.key # job.key)
  <2> SUFFICES ASSUME NEW i \in cur.items \ Held(job.key) PROVE i.key # job.key
    BY <1>4
  <2> QED
    BY <1>1, <1>2 DEF Held
<1> QED
  BY <1>1, <1>2, <1>3, <1>5 DEF Ours

(* A write the server took.                                                *)
LEMMA AcceptedRecords == ASSUME IInv, WriteAccepted \/ AppendAccepted PROVE Records'
<1>0. /\ manifest.version \in Nat /\ cur.version \in Nat /\ version \in Nat /\ cursor.target \in Nat
      /\ version <= cur.version /\ cursor.target <= manifest.version
  BY NaturalsOf DEF IInv, Records, Abreast, WriteAccepted, AppendAccepted
<1>1. /\ UNCHANGED <<version, cursor, ident, cur, job, sync>>
      /\ cur.version = manifest.version /\ manifest'.version = cur.version + 1 /\ pc' = "storeVersion"
      /\ \/ pc = "write" /\ manifest' = Edited
         \/ pc = "appendWrite" /\ manifest' = Appended
      /\ Intact' => Intact /\ version = cur.version
  <2>1. CASE WriteAccepted
    BY <2>1 DEF WriteAccepted, Unchanged, Edited, device, Intact, IInv, Records, Abreast
  <2>2. CASE AppendAccepted
    BY <2>2 DEF AppendAccepted, Unchanged, Appended, BlindIfBehind, device, Intact, IInv, TypeOK
  <2> QED
    BY <2>1, <2>2
<1>2. Abreast' /\ InPlace'
  BY <1>0, <1>1 DEF IInv, Records, Abreast, InPlace, SyncPCs, Reading
<1>3. Progress' /\ CurrentWhenCaughtUp' /\ ResumeSkipsNothing'
  BY <1>0, <1>1 DEF Progress, CurrentWhenCaughtUp, ResumeSkipsNothing
<1>4. NewItem' = NewItem
  BY <1>1 DEF NewItem, Held, HeldRec, Overlay, Differ
<1>5. Written' /\ OneRecordPerKey'
  BY <1>1, <1>4, WriteKeepsOne DEF Written, OneRecordPerKey
<1> QED
  BY <1>2, <1>3, <1>5 DEF Records

(* Its version is stored.                                                  *)
LEMMA StoreWrittenRecords == ASSUME IInv, StoreWrittenVersion PROVE Records'
<1>0. cur.version < manifest.version /\ cursor.target < manifest.version /\ cur.version \in Nat
  BY NaturalsOf DEF IInv, Records, Abreast, StoreWrittenVersion
<1>1. /\ UNCHANGED <<manifest, cursor, ident, cur, ghost, job, sync>>
      /\ pc = "storeVersion" /\ pc' = "storeIdentity" /\ version' = cur.version + 1
  BY DEF StoreWrittenVersion
<1>2. Abreast' /\ InPlace'
  BY <1>0, <1>1 DEF IInv, Records, Abreast, InPlace, SyncPCs, Reading
<1>3. NewItem' = NewItem
  BY <1>1 DEF NewItem, Held, HeldRec, Overlay, Differ
<1>4. Written'
  BY <1>1, <1>3 DEF IInv, Records, Written, Intact
<1>5. Progress' /\ OneRecordPerKey' /\ ResumeSkipsNothing' /\ CurrentWhenCaughtUp'
  BY <1>0, <1>1 DEF IInv, Records, Progress, OneRecordPerKey, ResumeSkipsNothing, CurrentWhenCaughtUp, Intact, Reading
<1> QED
  BY <1>2, <1>4, <1>5 DEF Records

(* And the identity: unless another device wrote meanwhile, the device is  *)
(* current again.                                                          *)
LEMMA SaveWrittenRecords == ASSUME IInv, SaveWrittenIdentity PROVE Records'
<1>0. /\ manifest.version > 0 /\ cursor.target < manifest.version /\ version = cur.version + 1
      /\ NoManifest.version = 0 /\ manifest.version \in Nat
  BY NaturalsOf DEF IInv, Records, Abreast, SaveWrittenIdentity
<1>1. /\ UNCHANGED <<manifest, cursor, version, ghost, job, sync>>
      /\ pc = "storeIdentity" /\ pc' = "clear" /\ cur' = NoManifest /\ ident' = WithIdentity(NewItem)
  BY DEF SaveWrittenIdentity
<1>2. Abreast' /\ InPlace'
  BY <1>0, <1>1 DEF IInv, Records, Abreast, InPlace, SyncPCs, Reading
<1>3. CurrentWhenCaughtUp'
  <2> SUFFICES ASSUME version = manifest.version, Intact, NEW i \in Ours(manifest.items) PROVE i \in ident'
    BY <1>1 DEF CurrentWhenCaughtUp, Intact, Ours
  <2>1. i = NewItem \/ (i \in ident /\ i.key # job.key)
    BY <1>0, <1>1 DEF IInv, Records, Written
  <2>2. NewItem.key = job.key
    BY NewItemType DEF IInv
  <2> QED
    BY <1>1, <2>1, <2>2 DEF WithIdentity
<1>4. Progress' /\ Written' /\ OneRecordPerKey' /\ ResumeSkipsNothing'
  BY <1>0, <1>1 DEF IInv, Records, Progress, Written, OneRecordPerKey, ResumeSkipsNothing, Intact, Reading
<1> QED
  BY <1>2, <1>3, <1>4 DEF Records

(* Every step of a push keeps the records in order.                        *)
LEMMA PublishRecords == IInv /\ Publish => Records'
<1> SUFFICES ASSUME IInv, Publish PROVE Records'
  OBVIOUS
<1>1. CASE PassBehind
  BY <1>1, BeginSyncRecords DEF PassBehind, CaughtUp
<1>2. CASE PassAgrees \/ PassesExhausted \/ ClearMark \/ Recheck
  <2>1. /\ UNCHANGED <<manifest, version, cursor, ident, cur, ghost>>
        /\ pc # "storeIdentity" /\ pc' \in {"clear", "recheck", "next"}
    BY <1>2 DEF PassAgrees, PassesExhausted, ClearMark, Recheck, device
  <2> QED
    BY <2>1, QuietRecords DEF Intact
<1> QED
  BY <1>1, <1>2, PassUnknownRecords, FetchRecords, RetryRecords, AcceptedRecords, StoreWrittenRecords,
     SaveWrittenRecords DEF Publish

(***************************************************************************)
(* The user, the other devices and failures                                *)
(***************************************************************************)
(* Another device files one record of a key that has none, or replaces or  *)
(* drops one.                                                              *)
LEMMA RemoteRecords == IInv /\ Remote => Records'
<1> SUFFICES ASSUME IInv, Remote PROVE Records'
  OBVIOUS
<1>1. /\ manifest'.version = manifest.version + 1
      /\ UNCHANGED <<version, cursor, ident, pc, cur, job, sync, ghost>>
  <2>1. PICK gone, come : RemoteWrite(gone, come)
    BY Zenon DEF Remote, RemoteRewrite, RemoteFile, RemoteRemove
  <2> QED
    BY <2>1 DEF RemoteWrite, device
<1>2. ASSUME NEW gone, NEW k, NEW rec, RemoteWrite(gone, {Fresh(k, rec)}),
             \A i \in manifest.items \ gone : i.key # k, Intact,
             NEW i \in manifest'.items, NEW j \in manifest'.items, i.key = j.key
      PROVE  i = j
  BY <1>2 DEF RemoteWrite, Fresh, IInv, Records, OneRecordPerKey
<1>3. ASSUME NEW i \in manifest.items, NEW f \in Fields, RemoteRewrite(i, f), Intact
      PROVE  OneRecordPerKey'
  <2>1. \A j \in manifest.items \ {i} : j.key # i.key
    BY <1>3 DEF IInv, Records, OneRecordPerKey
  <2>2. RemoteWrite({i}, {Fresh(i.key, [i.rec EXCEPT ![f] = ~ @])})
    BY <1>3 DEF RemoteRewrite
  <2> QED
    BY <1>2, <1>3, <2>1, <2>2 DEF OneRecordPerKey
<1>4. ASSUME NEW k \in Keys, NEW rec \in Rec, RemoteFile(k, rec), Intact PROVE OneRecordPerKey'
  <2>1. \A j \in manifest.items \ {} : j.key # k
    BY <1>4 DEF RemoteFile
  <2>2. RemoteWrite({}, {Fresh(k, rec)})
    BY <1>4 DEF RemoteFile
  <2> QED
    BY <1>2, <1>4, <2>1, <2>2 DEF OneRecordPerKey
<1>5. ASSUME NEW i \in manifest.items, RemoteRemove(i), Intact PROVE OneRecordPerKey'
  BY <1>5 DEF RemoteRemove, RemoteWrite, IInv, Records, OneRecordPerKey
<1>6. Intact => OneRecordPerKey'
  BY <1>3, <1>4, <1>5 DEF Remote
<1>7. OneRecordPerKey'
  BY <1>1, <1>6 DEF OneRecordPerKey, Intact
<1> QED
  BY <1>1, <1>7, ServerMoved

(* A user's edit changes a row and its mark.                               *)
LEMMA UserRecords == IInv /\ User => Records'
<1> SUFFICES ASSUME IInv, User PROVE Records'
  OBVIOUS
<1>1. UNCHANGED <<manifest, version, cursor, ident, pc, cur, job, sync>> /\ Intact' = Intact
  BY DEF User, BeginEdit, SaveEdit, MarkEdit, device, Intact, IInv, TypeOK
<1> QED
  BY <1>1, SameRecords DEF IInv

(* A lost answer is a write whose version is never stored.                 *)
LEMMA AnswerLostRecords == ASSUME IInv, AnswerLost PROVE Records'
<1>1. /\ UNCHANGED <<version, cursor, ident>>
      /\ cur.version = manifest.version /\ manifest'.version = manifest.version + 1
      /\ pc' = "next" /\ cur' = NoManifest
      /\ \/ pc = "write" /\ manifest' = Edited
         \/ pc = "appendWrite" /\ manifest' = Appended
      /\ Intact' => Intact /\ version = cur.version
  <2>1. CASE pc = "write" /\ Listed /\ Unchanged /\ manifest' = Edited /\ UNCHANGED ghost
    BY <2>1 DEF AnswerLost, Unchanged, Edited, device, Intact, IInv, Records, Abreast
  <2>2. CASE pc = "appendWrite" /\ Unchanged /\ manifest' = Appended /\ BlindIfBehind
    BY <2>2 DEF AnswerLost, Unchanged, Appended, BlindIfBehind, device, Intact, IInv, TypeOK
  <2> QED
    BY <2>1, <2>2 DEF AnswerLost
<1>2. OneRecordPerKey'
  BY <1>1, WriteKeepsOne DEF OneRecordPerKey
<1> QED
  BY <1>1, <1>2, ServerMoved

(* A failed request or a crash ends what was under way; a crash between a  *)
(* written version and its identity is remembered.                         *)
LEMMA FailureRecords == IInv /\ Failure => Records'
<1> SUFFICES ASSUME IInv, Failure PROVE Records'
  OBVIOUS
<1>1. CASE RequestFails
  <2>1. /\ UNCHANGED <<manifest, version, cursor, ident, ghost>>
        /\ pc # "storeIdentity" /\ pc' \in {"idle", "next"} /\ cur' = NoManifest
    BY <1>1 DEF RequestFails, Abandoned, device
  <2> QED
    BY <2>1, QuietRecords DEF Intact
<1>2. CASE Crash
  <2>1. /\ UNCHANGED <<manifest, version, cursor, ident>> /\ pc' = "idle" /\ cur' = NoManifest
        /\ Intact' => Intact /\ pc # "storeIdentity"
    BY <1>2 DEF Crash, device, Intact, IInv, TypeOK
  <2> QED
    BY <2>1, QuietRecords
<1> QED
  BY <1>1, <1>2, AnswerLostRecords DEF Failure

(* Every step keeps the records in order.                                  *)
LEMMA RecordsStep == IInv /\ [Next]_vars => Records'
<1>1. IInv /\ UNCHANGED vars => Records'
  <2> SUFFICES ASSUME IInv, UNCHANGED vars PROVE Records'
    OBVIOUS
  <2> QED
    BY SameRecords DEF vars, IInv, Intact
<1> QED
  BY <1>1, SyncRecords, DrainRecords, PublishRecords, UserRecords, RemoteRecords, FailureRecords DEF Next

(* Abreast, InPlace, Progress and Written are what makes the three         *)
(* properties inductive.                                                   *)
THEOREM RecordsInOrder == Spec => []Records
<1>1. Init => Records
  BY RecordsInit
<1>2. TypeOK /\ VersionReached /\ Records /\ [Next]_vars => Records'
  BY RecordsStep DEF IInv
<1>3. Spec => []TypeOK /\ []VersionReached
  BY TypeCorrect, VersionsReached
<1> QED
  BY <1>1, <1>2, <1>3, PTL DEF Spec

(* A device at the server's version holds every record the account lists,  *)
(* so that a push may replace what it never reads: for any records, batch  *)
(* size and writes of other devices, any conflicts, lost answers and       *)
(* resumed syncs (update_storage_record, sync_storage_service).            *)
THEOREM CurrentCorrect == Spec => []CurrentWhenCaughtUp
<1>1. Records => CurrentWhenCaughtUp
  BY DEF Records
<1> QED
  BY <1>1, RecordsInOrder, PTL

(* No key is ever filed twice (append_storage_record, write_manifest_edit).*)
THEOREM KeysUnique == Spec => []OneRecordPerKey
<1>1. Records => OneRecordPerKey
  BY DEF Records
<1> QED
  BY <1>1, RecordsInOrder, PTL

(* A sync resumed from a cursor skips only records that are stored here    *)
(* (StorageSyncCursor).                                                    *)
THEOREM ResumesCorrect == Spec => []ResumeSkipsNothing
<1>1. Records => ResumeSkipsNothing
  BY DEF Records
<1> QED
  BY <1>1, RecordsInOrder, PTL

(***************************************************************************)
(* Local changes                                                           *)
(***************************************************************************)
(* A change that will be found: marked, or saved and about to be.          *)
Marking(k) == k \in flag \/ (edit.phase = "mark" /\ edit.key = k)

(* From its mark to its clearing the key being pushed stays marked.        *)
Holding == {"pass", "write", "append", "appendWrite", "storeVersion", "storeIdentity", "clear"}

(* What a sync merges out of a record is the record, or else the change    *)
(* that made the difference will be found; a push clears the mark of what  *)
(* it has seen published.                                                  *)
Marks ==
  spent.crashes = 0 =>
    /\ pc \in SyncPCs => sync.pending \subseteq flag
    /\ pc \in Holding \/ (pc \in SyncPCs /\ sync.caller = "pass") => job.key \in flag
    /\ pc = "saveRow" /\ sync.merged # sync.item.rec => Marking(sync.item.key)
    /\ pc = "saveIdentity" /\ row[sync.item.key] # sync.item.rec => Marking(sync.item.key)
    /\ pc \in {"clear", "recheck"} => Held(job.key) # {} /\ HeldRec(job.key) = job.want
MarksInv == TypeOK /\ Marks /\ UnpublishedIsMarked

(* Storing an identity changes what is known of its key alone.             *)
LEMMA IdentityStored ==
  ASSUME TypeOK, NEW i \in Modelled, ident' = WithIdentity(i), NEW k
  PROVE  /\ k = i.key => Held(k)' # {} /\ HeldRec(k)' = i.rec
         /\ k # i.key => Held(k)' = Held(k) /\ (Held(k) # {} => HeldRec(k)' = HeldRec(k))
<1>1. \A g, h \in ident' : g.key = h.key => g = h
  BY WithIdentityType
<1>2. i \in ident' /\ \A h \in ident : h.key # i.key => h \in ident'
  BY DEF WithIdentity
<1>3. Held(k)' = IF k = i.key THEN {i} ELSE Held(k)
  BY DEF Held, WithIdentity
<1>4. ASSUME NEW h \in ident', h.key = k PROVE HeldRec(k)' = h.rec
  <2>1. (CHOOSE g \in ident' : g.key = k) = h
    BY <1>1, <1>4
  <2> QED
    BY <2>1 DEF HeldRec
<1>5. ASSUME NEW h \in ident, h.key = k PROVE HeldRec(k) = h.rec
  <2>1. (CHOOSE g \in ident : g.key = k) = h
    BY <1>5 DEF TypeOK
  <2> QED
    BY <2>1 DEF HeldRec
<1>6. ASSUME k # i.key, Held(k) # {} PROVE HeldRec(k)' = HeldRec(k)
  <2>1. PICK h \in ident : h.key = k
    BY <1>6 DEF Held
  <2> QED
    BY <1>2, <1>4, <1>5, <1>6, <2>1
<1> QED
  BY <1>2, <1>3, <1>4, <1>6

(* A record with the fields that differ set is the record they were set    *)
(* from.                                                                   *)
LEMMA OverlayDiffers ==
  ASSUME NEW a \in Rec, NEW b \in Rec
  PROVE  /\ Overlay(a, b, Differ(a, b)) = b
         /\ Overlay(a, b, {}) = a
         /\ Differ(a, b) = {} => a = b
BY DEF Overlay, Differ, Rec

(* What a push writes is the row it read.                                  *)
LEMMA NewItemWanted == ASSUME TypeOK PROVE NewItem.rec = job.want
<1>1. job.want \in Rec
  BY DEF TypeOK
<1>2. Held(job.key) # {} =>
        Overlay(HeldRec(job.key), job.want, Differ(HeldRec(job.key), job.want)) = job.want
  BY <1>1, HeldRecType, OverlayDiffers
<1> QED
  BY <1>2 DEF NewItem

(* A merge that does not adopt the record as it is has found a change made *)
(* here.                                                                   *)
LEMMA MergedMarked ==
  ASSUME MarksInv, spent.crashes = 0, pc = "merge", NEW i \in sync.unread, Merged(i) # i.rec
  PROVE  Marking(i.key)
<1>1. i \in Modelled /\ i.rec \in Rec /\ i.key \in Keys /\ row[i.key] \in Rec
  BY DEF MarksInv, TypeOK, Modelled, Item
<1>2. sync.pending \subseteq flag
  BY DEF MarksInv, Marks, SyncPCs
<1>3. Overlay(i.rec, row[i.key], Intent(i.key)) # i.rec => i.key \in flag
  BY <1>1, <1>2, OverlayDiffers DEF Intent
<1>4. Held(i.key) = {} /\ Adopted(i) # i.rec => Marking(i.key)
  <2>1. row[i.key] = Blank => Adopted(i) = i.rec
    BY <1>1 DEF Adopted, Blank, Rec
  <2>2. Held(i.key) = {} /\ row[i.key] # Blank => Marking(i.key)
    BY <1>1 DEF MarksInv, UnpublishedIsMarked, Marking
  <2> QED
    BY <2>1, <2>2
<1>5. PackKept(i.key) => i.key \in flag
  BY <1>2 DEF PackKept
<1> QED
  BY <1>3, <1>4, <1>5 DEF Merged, MergedAccount, MergedSubject, Marking

(* Nothing is stored or marked: what was marked still is.                  *)
LEMMA SameMarks ==
  ASSUME MarksInv, spent'.crashes = 0, spent.crashes = 0, UNCHANGED <<row, flag, ident, edit>>,
         pc \notin {"saveIdentity", "recheck"} \/ UNCHANGED <<pc, sync, job>>
  PROVE  UnpublishedIsMarked'
<1>1. \A k : Held(k)' = Held(k) /\ HeldRec(k)' = HeldRec(k)
  BY DEF Held, HeldRec
<1>2. \A k \in Keys : row[k] # (IF Held(k) = {} THEN Blank ELSE HeldRec(k)) =>
        \/ Marking(k)
        \/ pc = "saveIdentity" /\ sync.item.key = k
        \/ pc = "recheck" /\ job.key = k
  BY DEF MarksInv, UnpublishedIsMarked, Marking
<1> QED
  BY <1>1, <1>2 DEF UnpublishedIsMarked, Marking

(* What the holder of the lock does spends none of the environment's       *)
(* bounds.                                                                 *)
LEMMA HolderSpends ==
  ASSUME Sync \/ Drain \/ Publish
  PROVE  spent' = spent
<1>1. CASE StartSync \/ SyncUnchanged \/ ReadBatch \/ LastBatchRead
  BY <1>1 DEF StartSync, BeginSync, SyncUnchanged, ReadBatch, LastBatchRead
<1>2. ASSUME NEW i \in sync.unread, MergeRecord(i) PROVE spent' = spent
  BY <1>2 DEF MergeRecord
<1>3. CASE SaveRow \/ SaveReadIdentity
  BY <1>3 DEF SaveRow, SaveReadIdentity
<1>4. CASE Checkpoint \/ StoreReadVersion \/ FinishSync
  BY <1>4 DEF Checkpoint, StoreReadVersion, FinishSync
<1>5. CASE Drain
  BY <1>5 DEF Drain, StartDrain, NextKey, FinishDrain, Mark
<1>6. CASE PassBehind \/ PassUnknown \/ PassAgrees \/ PassEdits \/ PassesExhausted
  BY <1>6 DEF PassBehind, BeginSync, PassUnknown, PassAgrees, PassEdits, PassesExhausted
<1>7. CASE RecordMoved \/ WriteConflict \/ AppendConflict
  BY <1>7 DEF RecordMoved, WriteConflict, AppendConflict, Retry
<1>8. CASE WriteAccepted \/ AppendFetch \/ AppendAccepted
  BY <1>8 DEF WriteAccepted, AppendFetch, AppendAccepted
<1>9. CASE StoreWrittenVersion \/ SaveWrittenIdentity
  BY <1>9 DEF StoreWrittenVersion, SaveWrittenIdentity
<1>10. CASE ClearMark \/ Recheck
  BY <1>10 DEF ClearMark, Recheck
<1>11. Sync => spent' = spent
  BY <1>1, <1>2, <1>3, <1>4 DEF Sync
<1>12. Publish => spent' = spent
  BY <1>6, <1>7, <1>8, <1>9, <1>10 DEF Publish
<1> QED
  BY <1>5, <1>11, <1>12

(* Only a crash counts as one.                                             *)
LEMMA CrashesSame ==
  ASSUME TypeOK, Sync \/ Drain \/ Publish \/ User \/ Remote \/ RequestFails \/ AnswerLost
  PROVE  spent'.crashes = spent.crashes
<1>0. spent \in [edits : Nat, remote : Nat, crashes : Nat, faults : Nat]
  BY DEF TypeOK
<1> DEFINE Same == spent'.crashes = spent.crashes
<1>1. ASSUME NEW k \in Keys, NEW f \in Fields, NEW b \in BOOLEAN, BeginEdit(k, f, b) PROVE Same
  BY <1>0, <1>1 DEF BeginEdit
<1>2. ASSUME SaveEdit \/ MarkEdit PROVE Same
  BY <1>2 DEF SaveEdit, MarkEdit
<1>3. ASSUME NEW gone, NEW come, RemoteWrite(gone, come) PROVE Same
  BY <1>0, <1>3 DEF RemoteWrite
<1>4. ASSUME Remote PROVE Same
  <2>1. PICK gone, come : RemoteWrite(gone, come)
    BY <1>4, Zenon DEF Remote, RemoteRewrite, RemoteFile, RemoteRemove
  <2> QED
    BY <1>3, <2>1
<1>5. ASSUME RequestFails \/ AnswerLost PROVE Same
  <2>1. Fault
    BY <1>5 DEF RequestFails, AnswerLost
  <2> QED
    BY <1>0, <2>1 DEF Fault
<1>6. ASSUME User PROVE Same
  BY <1>1, <1>2, <1>6 DEF User
<1> QED
  BY <1>4, <1>5, <1>6, HolderSpends

(* A sync keeps every unpublished change in sight.                         *)
LEMMA SyncMarks ==
  ASSUME MarksInv, Sync, spent.crashes = 0
  PROVE  Marks' /\ UnpublishedIsMarked'
<1> USE DEF Marks, Marking, SyncPCs, Holding
<1>0. spent' = spent
  BY HolderSpends
<1>1. CASE StartSync \/ SyncUnchanged \/ ReadBatch \/ LastBatchRead \/ Checkpoint \/ StoreReadVersion \/ FinishSync
  <2> DEFINE Still == UNCHANGED <<row, flag, ident, edit>> /\ pc \notin {"saveIdentity", "recheck"}
  <2>6. ASSUME StartSync \/ SyncUnchanged PROVE Still
    BY <2>6 DEF StartSync, BeginSync, SyncUnchanged
  <2>7. ASSUME ReadBatch \/ LastBatchRead PROVE Still
    BY <2>7 DEF ReadBatch, LastBatchRead, device
  <2>8. ASSUME Checkpoint \/ StoreReadVersion \/ FinishSync PROVE Still
    BY <2>8 DEF Checkpoint, StoreReadVersion, FinishSync
  <2>1. Still
    BY <1>1, <2>6, <2>7, <2>8
  <2>2. UnpublishedIsMarked'
    BY <1>0, <2>1, SameMarks
  <2>3. CASE StartSync \/ SyncUnchanged
    <3>1. \/ pc' = "idle"
          \/ pc' = "batch" /\ sync'.pending = flag /\ sync'.caller = "idle"
      BY <2>3 DEF StartSync, SyncUnchanged, BeginSync, NoSync
    <3> QED
      BY <1>0, <2>1, <2>2, <3>1
  <2>4. CASE ReadBatch \/ LastBatchRead \/ Checkpoint \/ StoreReadVersion
    <3>0. sync \in [caller : {"idle", "pass"}, pending : SUBSET Keys, batch : Nat,
                    unread : SUBSET Modelled, item : Modelled, merged : Rec]
      BY DEF MarksInv, TypeOK
    <3> DEFINE Onward == /\ job' = job /\ sync'.pending = sync.pending /\ sync'.caller = sync.caller
                         /\ pc \in SyncPCs
                         /\ pc' \in {"batch", "merge", "checkpoint", "finish", "clearCursor"}
    <3>1. ASSUME ReadBatch PROVE Onward
      BY <3>0, <3>1 DEF ReadBatch
    <3>2. ASSUME LastBatchRead \/ StoreReadVersion PROVE Onward
      BY <3>2 DEF LastBatchRead, StoreReadVersion
    <3>3. ASSUME Checkpoint PROVE Onward
      BY <3>0, <3>3 DEF Checkpoint
    <3>4. Onward
      BY <2>4, <3>1, <3>2, <3>3
    <3> QED
      BY <1>0, <2>1, <2>2, <3>4 DEF MarksInv
  <2>5. CASE FinishSync
    <3>1. pc' \in {"idle", "pass"} /\ pc' = sync.caller /\ job' = job /\ pc = "clearCursor"
      BY <2>5 DEF FinishSync, MarksInv, TypeOK
    <3> QED
      BY <2>1, <2>2, <3>1 DEF MarksInv
  <2> QED
    BY <1>1, <2>2, <2>3, <2>4, <2>5, <1>0, <2>1 DEF MarksInv
<1>2. ASSUME NEW i \in sync.unread, MergeRecord(i) PROVE Marks' /\ UnpublishedIsMarked'
  <2>1. /\ UNCHANGED <<row, flag, ident, edit, job>> /\ pc = "merge" /\ pc' = "saveRow"
        /\ sync'.item = i /\ sync'.merged = Merged(i)
        /\ sync'.pending = sync.pending /\ sync'.caller = sync.caller
    BY <1>2 DEF MergeRecord, device, MarksInv, TypeOK
  <2>2. Merged(i) # i.rec => Marking(i.key)
    BY <2>1, MergedMarked
  <2> QED
    BY <1>0, <2>1, <2>2, SameMarks DEF MarksInv
<1>3. CASE SaveRow
  <2> DEFINE k == sync.item.key
  <2>1. /\ UNCHANGED <<flag, ident, edit, job, sync>> /\ pc = "saveRow" /\ pc' = "saveIdentity"
        /\ row' = IF PackKept(k) THEN row ELSE [row EXCEPT ![k] = sync.merged]
    BY <1>3 DEF SaveRow
  <2>2. k \in Keys /\ row \in [Keys -> Rec]
    BY DEF MarksInv, TypeOK, Modelled
  <2>3. row'[k] # sync.item.rec => Marking(k)
    BY <2>1, <2>2 DEF MarksInv, PackKept
  <2>4. \A j \in Keys \ {k} : row'[j] = row[j]
    BY <2>1, <2>2
  <2>5. \A j : Held(j)' = Held(j) /\ HeldRec(j)' = HeldRec(j)
    BY <2>1 DEF Held, HeldRec
  <2>6. UnpublishedIsMarked'
    BY <1>0, <2>1, <2>4, <2>5 DEF MarksInv, UnpublishedIsMarked
  <2> QED
    BY <1>0, <2>1, <2>3, <2>6 DEF MarksInv
<1>4. CASE SaveReadIdentity
  <2> DEFINE k == sync.item.key
  <2>1. /\ UNCHANGED <<row, flag, edit, job, sync>> /\ pc = "saveIdentity" /\ pc' \in {"merge", "checkpoint"}
        /\ ident' = WithIdentity(sync.item) /\ sync.item \in Modelled
    BY <1>4 DEF SaveReadIdentity, MarksInv, TypeOK
  <2>2. \A j : j = k => Held(j)' # {} /\ HeldRec(j)' = sync.item.rec
    BY <2>1, IdentityStored DEF MarksInv
  <2>3. \A j : j # k => Held(j)' = Held(j) /\ (Held(j) # {} => HeldRec(j)' = HeldRec(j))
    BY <2>1, IdentityStored DEF MarksInv
  <2>4. row[k] # sync.item.rec => Marking(k)
    BY <2>1 DEF MarksInv
  <2>5. UnpublishedIsMarked'
    <3> SUFFICES ASSUME NEW j \in Keys, row[j] # (IF Held(j)' = {} THEN Blank ELSE HeldRec(j)') PROVE Marking(j)
      BY <2>1 DEF UnpublishedIsMarked
    <3>1. CASE j = k
      BY <2>2, <2>4, <3>1
    <3>2. CASE j # k
      BY <2>1, <2>3, <3>2 DEF MarksInv, UnpublishedIsMarked
    <3> QED
      BY <3>1, <3>2
  <2> QED
    BY <1>0, <2>1, <2>5 DEF MarksInv
<1> QED
  BY <1>1, <1>2, <1>3, <1>4 DEF Sync

(* A drain marks what it is about to push.                                 *)
LEMMA DrainMarks ==
  ASSUME MarksInv, Drain, spent.crashes = 0
  PROVE  Marks' /\ UnpublishedIsMarked'
<1>0. /\ spent' = spent /\ UNCHANGED <<row, ident, edit>>
      /\ pc \in {"idle", "next", "mark"} /\ pc' \in {"idle", "next", "mark", "pass"}
      /\ \/ flag' = flag /\ pc' # "pass"
         \/ flag' = flag \union {job.key} /\ pc' = "pass" /\ job' = job
  BY DEF Drain, StartDrain, NextKey, FinishDrain, Mark, device
<1>1. Marks'
  BY <1>0 DEF Marks, SyncPCs, Holding
<1>2. \A k : Held(k)' = Held(k) /\ HeldRec(k)' = HeldRec(k)
  BY <1>0 DEF Held, HeldRec
<1> QED
  BY <1>0, <1>1, <1>2 DEF MarksInv, UnpublishedIsMarked

(* A push clears a mark when the row is what the account's record says,    *)
(* and sets it again when the row has changed since it was read.           *)
LEMMA PublishMarks ==
  ASSUME MarksInv, Publish, spent.crashes = 0
  PROVE  Marks' /\ UnpublishedIsMarked'
<1> USE DEF Marks, Marking, SyncPCs, Holding
<1>0. spent' = spent /\ job.key \in Keys /\ job.want \in Rec
  BY HolderSpends DEF MarksInv, TypeOK
<1>1. CASE PassBehind
  <2>1. /\ UNCHANGED <<row, flag, ident, edit>> /\ pc = "pass" /\ pc' = "batch" /\ job'.key = job.key
        /\ sync'.pending = flag /\ sync'.caller = "pass"
    BY <1>1 DEF PassBehind, BeginSync, NextPass, NoSync, MarksInv, TypeOK
  <2> QED
    BY <1>0, <2>1, SameMarks DEF MarksInv
<1>2. CASE PassAgrees
  <2>1. /\ UNCHANGED <<row, flag, ident, edit>> /\ pc = "pass" /\ pc' = "clear"
        /\ job'.key = job.key /\ job'.want = job.want
        /\ Held(job.key) # {} /\ Differ(HeldRec(job.key), job.want) = {}
    BY <1>2 DEF PassAgrees, NextPass, device, MarksInv, TypeOK
  <2>2. HeldRec(job.key) = job.want
    BY <1>0, <2>1, HeldRecType, OverlayDiffers DEF MarksInv
  <2>3. Held(job.key)' = Held(job.key) /\ HeldRec(job.key)' = HeldRec(job.key)
    BY <2>1 DEF Held, HeldRec
  <2> QED
    BY <1>0, <2>1, <2>2, <2>3, SameMarks DEF MarksInv
<1>3. CASE PassUnknown \/ PassEdits \/ PassesExhausted \/ RecordMoved \/ WriteConflict \/ AppendConflict
           \/ WriteAccepted \/ AppendFetch \/ AppendAccepted \/ StoreWrittenVersion
  <2>0. job \in [todo : SUBSET Keys, key : Keys, want : Rec, passes : Nat, attempts : Nat]
    BY DEF MarksInv, TypeOK
  <2> DEFINE Still == /\ UNCHANGED <<row, flag, ident, edit>> /\ pc \in Holding \ {"clear"} /\ job'.key = job.key
                      /\ pc' \in (Holding \ {"clear"}) \union {"next"}
  <2>1. ASSUME PassUnknown PROVE Still
    BY <2>0, <2>1 DEF PassUnknown, device
  <2>2. ASSUME PassEdits \/ PassesExhausted PROVE Still
    BY <2>0, <2>2 DEF PassEdits, PassesExhausted, NextPass, device
  <2>3. ASSUME RecordMoved \/ WriteConflict PROVE Still
    BY <2>0, <2>3 DEF RecordMoved, WriteConflict, Retry, device
  <2>4. ASSUME AppendConflict PROVE Still
    BY <2>0, <2>4 DEF AppendConflict, Retry, device
  <2>5. ASSUME WriteAccepted \/ AppendFetch \/ AppendAccepted \/ StoreWrittenVersion PROVE Still
    BY <2>5 DEF WriteAccepted, AppendFetch, AppendAccepted, StoreWrittenVersion, device
  <2>6. Still
    BY <1>3, <2>1, <2>2, <2>3, <2>4, <2>5
  <2> QED
    BY <1>0, <2>6, SameMarks DEF MarksInv
<1>4. CASE SaveWrittenIdentity
  <2>1. /\ UNCHANGED <<row, flag, edit, job>> /\ pc = "storeIdentity" /\ pc' = "clear"
        /\ ident' = WithIdentity(NewItem)
    BY <1>4 DEF SaveWrittenIdentity
  <2>2. NewItem \in Modelled /\ NewItem.key = job.key /\ NewItem.rec = job.want /\ job.key \in flag
    BY <1>0, <2>1, NewItemType, NewItemWanted DEF MarksInv
  <2>3. Held(job.key)' # {} /\ HeldRec(job.key)' = job.want
    BY <2>1, <2>2, IdentityStored DEF MarksInv
  <2>4. \A j : j # job.key => Held(j)' = Held(j) /\ (Held(j) # {} => HeldRec(j)' = HeldRec(j))
    BY <2>1, <2>2, IdentityStored DEF MarksInv
  <2>5. UnpublishedIsMarked'
    <3> SUFFICES ASSUME NEW j \in Keys, row[j] # (IF Held(j)' = {} THEN Blank ELSE HeldRec(j)') PROVE Marking(j)
      BY <2>1 DEF UnpublishedIsMarked
    <3> QED
      BY <2>1, <2>2, <2>4 DEF MarksInv, UnpublishedIsMarked
  <2> QED
    BY <1>0, <2>1, <2>2, <2>3, <2>5
<1>5. CASE ClearMark
  <2>1. /\ UNCHANGED <<row, ident, edit, job>> /\ pc = "clear" /\ pc' = "recheck" /\ flag' = flag \ {job.key}
    BY <1>5 DEF ClearMark
  <2>2. \A j : Held(j)' = Held(j) /\ HeldRec(j)' = HeldRec(j)
    BY <2>1 DEF Held, HeldRec
  <2> QED
    BY <1>0, <2>1, <2>2 DEF MarksInv, UnpublishedIsMarked
<1>6. CASE Recheck
  <2>1. /\ UNCHANGED <<row, ident, edit, job>> /\ pc = "recheck" /\ pc' = "next"
        /\ flag' = IF Differ(row[job.key], job.want) # {} THEN flag \union {job.key} ELSE flag
    BY <1>6 DEF Recheck
  <2>2. \A j : Held(j)' = Held(j) /\ HeldRec(j)' = HeldRec(j)
    BY <2>1 DEF Held, HeldRec
  <2>3. row[job.key] # HeldRec(job.key) => job.key \in flag'
    <3>1. HeldRec(job.key) = job.want /\ row[job.key] \in Rec
      BY <1>0, <2>1 DEF MarksInv, TypeOK
    <3> QED
      BY <1>0, <2>1, <3>1, OverlayDiffers
  <2>4. Held(job.key) # {}
    BY <2>1 DEF MarksInv
  <2> QED
    BY <1>0, <2>1, <2>2, <2>3, <2>4 DEF MarksInv, UnpublishedIsMarked
<1> QED
  BY <1>1, <1>2, <1>3, <1>4, <1>5, <1>6 DEF Publish

(* An edit is about to be marked as soon as its row is saved.              *)
LEMMA UserMarks ==
  ASSUME MarksInv, User, spent.crashes = 0
  PROVE  Marks' /\ UnpublishedIsMarked'
<1> USE DEF Marks, Marking
<1>0. /\ UNCHANGED <<ident, pc, sync, job>> /\ spent'.crashes = 0
      /\ \A k : Held(k)' = Held(k) /\ HeldRec(k)' = HeldRec(k)
  <2>1. UNCHANGED <<ident, pc, sync, job>>
    BY DEF User, BeginEdit, SaveEdit, MarkEdit, device
  <2>2. spent'.crashes = 0
    BY CrashesSame DEF MarksInv
  <2> QED
    BY <2>1, <2>2 DEF Held, HeldRec
<1>1. ASSUME NEW k \in Keys, NEW f \in Fields, NEW b \in BOOLEAN, BeginEdit(k, f, b)
      PROVE  Marks' /\ UnpublishedIsMarked'
  <2>1. UNCHANGED <<row, flag>> /\ edit.phase = "idle"
    BY <1>1 DEF BeginEdit, device
  <2> QED
    BY <1>0, <2>1 DEF MarksInv, UnpublishedIsMarked
<1>2. CASE SaveEdit
  <2>1. /\ flag' = flag /\ row' = [row EXCEPT ![edit.key] = edit.rec] /\ row \in [Keys -> Rec]
        /\ edit.phase = "save" /\ edit'.phase = "mark" /\ edit'.key = edit.key
    BY <1>2 DEF SaveEdit, MarksInv, TypeOK
  <2>2. \A k \in Keys \ {edit.key} : row'[k] = row[k]
    BY <2>1
  <2>3. sync.item.key \in Keys
    BY DEF MarksInv, TypeOK, Modelled
  <2> QED
    BY <1>0, <2>1, <2>2, <2>3 DEF MarksInv, UnpublishedIsMarked
<1>3. CASE MarkEdit
  <2>1. row' = row /\ flag' = flag \union {edit.key}
    BY <1>3 DEF MarkEdit
  <2> QED
    BY <1>0, <2>1 DEF MarksInv, UnpublishedIsMarked
<1> QED
  BY <1>1, <1>2, <1>3 DEF User

(* What other devices and failing requests do changes no row and no mark.  *)
LEMMA OtherMarks ==
  ASSUME MarksInv, Remote \/ RequestFails \/ AnswerLost, spent.crashes = 0
  PROVE  Marks' /\ UnpublishedIsMarked'
<1>1. CASE Remote
  <2>1. PICK gone, come : RemoteWrite(gone, come)
    BY <1>1, Zenon DEF Remote, RemoteRewrite, RemoteFile, RemoteRemove
  <2>2. UNCHANGED <<row, flag, ident, edit, pc, sync, job>> /\ spent'.crashes = 0
    BY <2>1 DEF RemoteWrite, device, MarksInv, TypeOK
  <2>3. \A k : Held(k)' = Held(k) /\ HeldRec(k)' = HeldRec(k)
    BY <2>2 DEF Held, HeldRec
  <2> QED
    BY <2>2, <2>3, SameMarks DEF MarksInv, Marks, Marking
<1>2. CASE RequestFails \/ AnswerLost
  <2>1. /\ UNCHANGED <<row, flag, ident, edit, job>> /\ spent'.crashes = 0
        /\ pc \notin {"saveIdentity", "recheck"} /\ pc' \in {"idle", "next"}
    BY <1>2 DEF RequestFails, AnswerLost, Fault, Abandoned, device, MarksInv, TypeOK
  <2> QED
    BY <2>1, SameMarks DEF Marks, SyncPCs, Holding
<1> QED
  BY <1>1, <1>2

(* Every step but a crash keeps every unpublished change in sight.         *)
LEMMA MarksStep == MarksInv /\ [Next]_vars => Marks' /\ UnpublishedIsMarked'
<1> SUFFICES ASSUME MarksInv, [Next]_vars, spent'.crashes = 0 PROVE Marks' /\ UnpublishedIsMarked'
  BY DEF Marks, UnpublishedIsMarked
<1>1. CASE UNCHANGED vars
  <2>1. \A k : Held(k)' = Held(k) /\ HeldRec(k)' = HeldRec(k)
    BY <1>1 DEF Held, HeldRec, vars
  <2> QED
    BY <1>1, <2>1, SameMarks DEF vars, MarksInv, Marks, Marking
<1>2. CASE Crash
  BY <1>2 DEF Crash, MarksInv, TypeOK
<1>3. CASE Next /\ ~ Crash
  <2>1. spent.crashes = 0
    BY <1>3, CrashesSame DEF Next, Failure, MarksInv
  <2> QED
    BY <1>3, <2>1, SyncMarks, DrainMarks, PublishMarks, UserMarks, OtherMarks DEF Next, Failure
<1> QED
  BY <1>1, <1>2, <1>3

(* At the start nothing is stored, marked or known.                        *)
LEMMA MarksInit == Init => Marks /\ UnpublishedIsMarked
BY DEF Init, Marks, UnpublishedIsMarked, SyncPCs, Holding, Held

(* Without a crash no interleaving of edits, syncs, drains, conflicts and  *)
(* lost answers leaves a change that nobody will publish                   *)
(* (edit_contact_for_publish, push_contact_record).                        *)
THEOREM ChangesMarked == Spec => []UnpublishedIsMarked
<1>1. Spec => []TypeOK
  BY TypeCorrect
<1>2. TypeOK /\ (Marks /\ UnpublishedIsMarked) /\ [Next]_vars => (Marks /\ UnpublishedIsMarked)'
  BY MarksStep DEF MarksInv
<1> QED
  BY <1>1, <1>2, MarksInit, PTL DEF Spec

(***************************************************************************)
(* Syncs that no edit overlaps                                             *)
(***************************************************************************)
(* A sync then works on the marks and the rows as they are.                *)
Undisturbed ==
  /\ pc \in SyncPCs => edit.phase = "idle" /\ sync.pending = flag
  /\ pc = "saveRow" => sync.merged = Merged(sync.item)

(* What a merge makes of a record is a matter of the row, the identity and *)
(* the marks the sync began with.                                          *)
LEMMA SameMerge ==
  ASSUME UNCHANGED <<row, ident>>, sync'.pending = sync.pending, NEW i
  PROVE  Merged(i)' = Merged(i)
BY DEF Merged, MergedAccount, MergedSubject, Adopted, Intent, Overlay, Differ, Held, HeldRec, PackKept

(* No step but the sync's own comes between its steps to the device.       *)
LEMMA UndisturbedStep ==
  ASSUME ~ EditsDuringSync, TypeOK, Undisturbed, [Next]_vars
  PROVE  Undisturbed'
<1> USE DEF Undisturbed, SyncPCs
<1>1. CASE Sync
  <2>1. CASE StartSync
    BY <1>1, <2>1 DEF StartSync, BeginSync, EditAllowsSync, NoSync
  <2>2. ASSUME NEW i \in sync.unread, MergeRecord(i) PROVE Undisturbed'
    <3>1. /\ UNCHANGED <<row, flag, ident, edit>> /\ sync'.pending = sync.pending
          /\ sync'.item = i /\ sync'.merged = Merged(i) /\ pc = "merge" /\ pc' = "saveRow"
      BY <2>2 DEF MergeRecord, device, TypeOK
    <3>2. Merged(i)' = Merged(i)
      BY <3>1, SameMerge
    <3> QED
      BY <3>1, <3>2
  <2>3. CASE SyncUnchanged
    BY <2>3 DEF SyncUnchanged
  <2>4. CASE ReadBatch \/ LastBatchRead \/ SaveRow \/ SaveReadIdentity \/ Checkpoint \/ StoreReadVersion
    <3>0. sync \in [caller : {"idle", "pass"}, pending : SUBSET Keys, batch : Nat,
                    unread : SUBSET Modelled, item : Modelled, merged : Rec]
      BY DEF TypeOK
    <3> DEFINE Onward == /\ UNCHANGED <<flag, edit>> /\ sync'.pending = sync.pending
                         /\ pc \in SyncPCs /\ pc' # "saveRow"
    <3>1. ASSUME ReadBatch PROVE Onward
      BY <3>0, <3>1 DEF ReadBatch, device
    <3>2. ASSUME Checkpoint PROVE Onward
      BY <3>0, <3>2 DEF Checkpoint
    <3>3. ASSUME LastBatchRead \/ SaveRow \/ SaveReadIdentity \/ StoreReadVersion PROVE Onward
      BY <3>3 DEF LastBatchRead, SaveRow, SaveReadIdentity, StoreReadVersion, device
    <3>4. Onward
      BY <2>4, <3>1, <3>2, <3>3
    <3> QED
      BY <3>4
  <2>5. CASE FinishSync
    BY <2>5 DEF FinishSync, TypeOK
  <2> QED
    BY <1>1, <2>1, <2>2, <2>3, <2>4, <2>5 DEF Sync
<1>2. CASE Drain
  BY <1>2 DEF Drain, StartDrain, NextKey, FinishDrain, Mark
<1>3. CASE Publish
  <2>1. CASE PassBehind
    BY <2>1 DEF PassBehind, BeginSync, EditAllowsSync, NoSync
  <2>2. CASE Publish /\ ~ PassBehind
    <3>1. pc' \notin {"batch", "merge", "saveRow", "saveIdentity", "checkpoint", "finish", "clearCursor"}
      BY <2>2 DEF Publish, PassUnknown, PassAgrees, PassEdits, PassesExhausted, RecordMoved, WriteConflict,
         AppendConflict, Retry, WriteAccepted, AppendFetch, AppendAccepted, StoreWrittenVersion,
         SaveWrittenIdentity, ClearMark, Recheck
    <3> QED
      BY <3>1
  <2> QED
    BY <1>3, <2>1, <2>2
<1>4. CASE User
  <2>1. UNCHANGED <<pc, sync, ident>> /\ (edit.phase # "idle" \/ pc \notin SyncPCs)
    BY <1>4 DEF User, BeginEdit, SaveEdit, MarkEdit, device
  <2> QED
    BY <2>1
<1>5. CASE Remote
  <2>1. PICK gone, come : RemoteWrite(gone, come)
    BY <1>5, Zenon DEF Remote, RemoteRewrite, RemoteFile, RemoteRemove
  <2>2. UNCHANGED <<row, flag, ident, edit, pc, sync>>
    BY <2>1 DEF RemoteWrite, device
  <2> QED
    BY <2>2, SameMerge
<1>6. CASE Failure
  BY <1>6 DEF Failure, RequestFails, AnswerLost, Abandoned, Crash
<1>7. CASE UNCHANGED vars
  BY <1>7, SameMerge DEF vars
<1> QED
  BY <1>1, <1>2, <1>3, <1>4, <1>5, <1>6, <1>7 DEF Next

(* The one step that writes a row for a sync keeps what is outstanding.    *)
LEMMA SaveRowKeeps ==
  ASSUME TypeOK, Undisturbed, SaveRow, NEW k \in flag, NEW f \in Fields,
         Held(k) # {}, HeldRec(k)[f] # row[k][f]
  PROVE  row'[k][f] = row[k][f]
<1> DEFINE i == sync.item
<1>1. /\ pc = "saveRow" /\ sync.pending = flag /\ sync.merged = Merged(i)
      /\ row' = IF PackKept(i.key) THEN row ELSE [row EXCEPT ![i.key] = sync.merged]
      /\ row \in [Keys -> Rec] /\ k \in Keys /\ i.key \in Keys
  BY DEF Undisturbed, SaveRow, SyncPCs, TypeOK, Modelled
<1>2. CASE i.key # k \/ PackKept(i.key)
  BY <1>1, <1>2
<1>3. CASE i.key = k /\ ~ PackKept(i.key)
  <2>1. row'[k] = Merged(i) /\ k \notin Packs
    BY <1>1, <1>3 DEF PackKept
  <2>2. Merged(i) = Overlay(i.rec, row[k], Intent(k))
    BY <1>3, <2>1 DEF Merged, MergedAccount, MergedSubject
  <2>3. f \in Intent(k)
    BY <1>1 DEF Intent, Differ
  <2> QED
    BY <2>1, <2>2, <2>3 DEF Overlay
<1> QED
  BY <1>2, <1>3

(* Where the application keeps edits and syncs apart, no sync reverts a    *)
(* change whose publish is outstanding, however often it was cut off and   *)
(* resumed (pending_publish_intent, PendingPublish::apply).                *)
THEOREM OutstandingStays ==
  ASSUME ~ EditsDuringSync
  PROVE  Spec => OutstandingKept
<1>1. Init => Undisturbed
  BY DEF Init, Undisturbed, SyncPCs
<1>2. TypeOK /\ Undisturbed /\ [Next]_vars => Undisturbed'
  BY UndisturbedStep
<1>3. TypeOK /\ Undisturbed /\ [Next]_vars =>
        [pc = "saveRow" /\ pc' = "saveIdentity" =>
           \A k \in flag, f \in Fields :
             Held(k) # {} /\ HeldRec(k)[f] # row[k][f] => row'[k][f] = row[k][f]]_vars
  <2> SUFFICES ASSUME TypeOK, Undisturbed, Next, pc = "saveRow", pc' = "saveIdentity",
                      NEW k \in flag, NEW f \in Fields, Held(k) # {}, HeldRec(k)[f] # row[k][f]
               PROVE  row'[k][f] = row[k][f]
    OBVIOUS
  <2>1. SaveRow
    <3>1. ~ (Drain \/ Publish \/ User \/ Failure)
      BY DEF Drain, StartDrain, NextKey, FinishDrain, Mark,
         Publish, PassBehind, PassUnknown, PassAgrees, PassEdits, PassesExhausted, RecordMoved, WriteConflict,
         AppendConflict, Retry, WriteAccepted, AppendFetch, AppendAccepted, StoreWrittenVersion,
         SaveWrittenIdentity, ClearMark, Recheck, User, BeginEdit, SaveEdit, MarkEdit,
         Failure, RequestFails, AnswerLost, Crash
    <3>2. ~ Remote
      BY DEF Remote, RemoteRewrite, RemoteFile, RemoteRemove, RemoteWrite
    <3>3. Sync
      BY <3>1, <3>2 DEF Next
    <3> QED
      BY <3>3 DEF Sync, StartSync, SyncUnchanged, ReadBatch, LastBatchRead, MergeRecord, SaveReadIdentity,
         Checkpoint, StoreReadVersion, FinishSync
  <2> QED
    BY <2>1, SaveRowKeeps
<1>4. Spec => []TypeOK
  BY TypeCorrect
<1> QED
  BY <1>1, <1>2, <1>3, <1>4, PTL DEF Spec, OutstandingKept
=============================================================================
