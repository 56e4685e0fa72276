---------------------- MODULE ChatFoldersDeletes_proofs ----------------------
(***************************************************************************)
(* What syncs and pushes do to the folders themselves while no edit        *)
(* overlaps one: they keep every delete (DeleteStands), and a device at    *)
(* the server's version holds one live all-chats folder (OneAllChats).     *)
(***************************************************************************)
EXTENDS ChatFolders_proofs, WellFoundedInduction

USE ChatFoldersAssumption

(***************************************************************************)
(* The folder a clean-up keeps                                             *)
(***************************************************************************)
LEMMA Minimum ==
  ASSUME NEW T \in SUBSET Nat, T # {}
  PROVE  \E x \in T : \A y \in T : x <= y
<1>1. \E x \in T : \A y \in T : ~ (<<y, x>> \in OpToRel(<, Nat))
  BY NatLessThanWellFounded, WFMin, Zenon
<1>2. PICK x \in T : \A y \in T : ~ (<<y, x>> \in OpToRel(<, Nat))
  BY <1>1, Zenon
<1>3. \A y \in T : ~ (y < x)
  BY <1>2, Zenon DEF OpToRel
<1> QED
  BY <1>3

(* Of the live all-chats folders one comes before all others               *)
(* (ensure_single_all_chats_folder).                                       *)
LEMMA FirstKept ==
  ASSUME Typed, Versions, LiveAlls # {}
  PROVE  \E k \in LiveAlls : LiveAlls \ Duplicates = {k}
<1> DEFINE B == manifest.version
<1>1. B \in Nat /\ LiveAlls \subseteq Nat
  BY DEF Typed, TypeOK, Manifest, LiveAlls, Ids
<1>2. \A k : ReadAt(k) \in Nat /\ ReadAt(k) <= B
  <2> SUFFICES ASSUME NEW k PROVE ReadAt(k) \in Nat /\ ReadAt(k) <= B
    OBVIOUS
  <2>1. CASE Identified(k) = {}
    BY <1>1, <2>1 DEF ReadAt
  <2>2. CASE Identified(k) # {}
    <3>1. (CHOOSE h \in Identified(k) : TRUE) \in Identified(k)
      BY <2>2
    <3> QED
      BY <2>2, <3>1 DEF ReadAt, Identified, Typed, TypeOK, Versions
  <2> QED
    BY <2>1, <2>2
<1> DEFINE M == {B - ReadAt(k) : k \in LiveAlls}
<1>3. M \in SUBSET Nat /\ M # {}
  <2>1. \A k \in LiveAlls : B - ReadAt(k) \in Nat
    BY <1>1, <1>2
  <2> QED
    BY <2>1
<1>4. PICK m \in M : \A x \in M : m <= x
  <2> HIDE DEF M
  <2> QED
    BY <1>3, Minimum
<1> DEFINE S == {k \in LiveAlls : B - ReadAt(k) = m}
<1>5. S \in SUBSET Nat /\ S # {}
  BY <1>1
<1>6. PICK first \in S : \A k \in S : first <= k
  <2> HIDE DEF S
  <2> QED
    BY <1>5, Minimum
<1>7. \A k \in LiveAlls : ReadAt(k) <= ReadAt(first)
  <2>1. ASSUME NEW k \in LiveAlls PROVE ReadAt(k) <= ReadAt(first)
    <3>1. B - ReadAt(k) \in M
      OBVIOUS
    <3>2. m <= B - ReadAt(k) /\ B - ReadAt(first) = m
      BY <1>4, <3>1
    <3>3. ReadAt(k) \in Nat /\ ReadAt(first) \in Nat
      BY <1>2
    <3> HIDE DEF M, S
    <3> QED
      BY <1>1, <3>2, <3>3
  <2> QED
    BY <2>1
<1>8. \A k \in LiveAlls : ~ Before(k, first)
  BY <1>1, <1>2, <1>6, <1>7 DEF Before
<1>9. \A k \in LiveAlls \ {first} : Before(first, k)
  BY <1>1, <1>2, <1>6, <1>7 DEF Before
<1> QED
  BY <1>8, <1>9 DEF Duplicates

(* A clean-up leaves one live all-chats folder.                            *)
LEMMA CollapsedOne ==
  ASSUME Typed, Versions, Collapse, LiveAlls # {}
  PROVE  \E k : LiveAlls' = {k}
<1>1. PICK k \in LiveAlls : LiveAlls \ Duplicates = {k}
  BY FirstKept
<1>2. /\ DOMAIN row' \subseteq Stored
      /\ \A j \in Stored : j \notin LiveAlls => j \in DOMAIN row' /\ row'[j] = row[j]
      /\ \A j \in LiveAlls \ Duplicates : j \in DOMAIN row' /\ row'[j] = row[j]
      /\ \A j \in Duplicates : j \notin DOMAIN row' \/ ~ Live(row'[j])
  BY CollapsedRow DEF Typed
<1>3. \A j : j \in LiveAlls <=> j \in AllType /\ j \in Stored /\ Live(row[j])
  BY DEF LiveAlls, Lives
<1>4. \A j : j \in LiveAlls' <=> j \in AllType /\ j \in DOMAIN row' /\ Live(row'[j])
  BY DEF LiveAlls, Lives, Stored
<1>5. \A j : j \in LiveAlls' <=> j \in LiveAlls \ Duplicates
  BY <1>2, <1>3, <1>4
<1> QED
  BY <1>1, <1>5

(***************************************************************************)
(* While no edit overlaps a sync or a push                                 *)
(***************************************************************************)
Alone == ~ ghost.overlap
Resting == pc = "idle" \/ (pc \in SyncPCs /\ sync.caller = "idle")

(* A merge about to be saved keeps the stored delete; what a push purges   *)
(* is stored and dead; nothing is staged while the lock is held; and the   *)
(* renumbering stages live folders.                                        *)
Undisturbed ==
  /\ pc = "save" => \A i \in sync.item, f \in sync.merged :
       i.folder \in Stored /\ ~ Live(row[i.folder]) => ~ Live(f) /\ f.deleted <= row[i.folder].deleted
  /\ \A k \in push.expired : k \in Stored /\ ~ Live(row[k])
  /\ Resting => push.expired = {}
  /\ Editing => pc = "idle"
  /\ \A r \in edit.todo : r.folder \in Lives

(* What a sync does to the rows: it keeps the dead ones, and brings one    *)
(* all-chats folder about.                                                 *)
LEMMA SyncRows ==
  ASSUME Typed, Undisturbed, Sync
  PROVE  /\ \A k \in Stored : ~ Live(row[k]) => /\ k \in Stored' /\ ~ Live(row'[k])
                                               /\ row'[k].deleted <= row[k].deleted
         /\ pc' = "save" => \A i \in sync'.item, f \in sync'.merged :
              i.folder \in Stored' /\ ~ Live(row'[i.folder]) => ~ Live(f) /\ f.deleted <= row'[i.folder].deleted
<1>0. \A k \in Stored : row[k].deleted \in Nat
  BY DEF Typed, TypeOK, Folder
<1>1. CASE StartSync \/ SyncUnchanged \/ ReadFolders \/ StoreReadVersion \/ Reappend \/ MarkAll
  <2>1. row' = row /\ pc' # "save"
    BY <1>1 DEF StartSync, BeginSync, SyncUnchanged, ReadFolders, StoreReadVersion, Reappend, MarkAll, LeaveSync,
       device, Typed, TypeOK
  <2> QED
    BY <1>0, <2>1 DEF Stored
<1> DEFINE Keeps == \A k \in Stored : ~ Live(row[k]) => /\ k \in Stored' /\ ~ Live(row'[k])
                                                        /\ row'[k].deleted <= row[k].deleted
<1>2. ASSUME NEW i \in sync.unread, MergeFolder(i)
      PROVE  /\ Keeps
             /\ \A j \in sync'.item, f \in sync'.merged :
                  j.folder \in Stored' /\ ~ Live(row'[j.folder]) => ~ Live(f) /\ f.deleted <= row'[j.folder].deleted
  <2>1. row' = row /\ sync'.item = {i} /\ sync'.merged = Merged(i) /\ i \in Item
    BY <1>2 DEF MergeFolder, device, Typed, TypeOK
  <2> QED
    BY <1>0, <2>1, MergedFolder DEF Stored, Typed
<1>3. CASE SaveMerged
  <2>1. PICK i \in sync.item : \/ sync.merged = {} /\ UNCHANGED row
                              \/ \E f \in sync.merged : row' = Saved(i.folder, f)
    BY <1>3 DEF SaveMerged
  <2>2. pc = "save" /\ pc' = "merge"
    BY <1>3 DEF SaveMerged
  <2>3. CASE UNCHANGED row
    BY <1>0, <2>2, <2>3 DEF Stored
  <2>4. ASSUME NEW f \in sync.merged, row' = Saved(i.folder, f) PROVE Keeps
    <3>1. Stored \subseteq Stored' /\ \A k \in Stored : row'[k] = IF k = i.folder THEN f ELSE row[k]
      BY <2>4 DEF Saved, Stored
    <3> QED
      BY <1>0, <2>2, <3>1 DEF Undisturbed
  <2> QED
    BY <2>1, <2>2, <2>3, <2>4
<1>4. CASE FinishSync
  <2>1. Collapse /\ pc' # "save"
    BY <1>4 DEF FinishSync, LeaveSync, Typed, TypeOK
  <2>2. \A k \in Stored : k \notin LiveAlls => k \in DOMAIN row' /\ row'[k] = row[k]
    BY <2>1, CollapsedRow DEF Typed
  <2> QED
    BY <1>0, <2>1, <2>2 DEF LiveAlls, Lives, Stored
<1>5. ASSUME NEW n \in Own, CreateAll(n) PROVE Keeps /\ pc' # "save"
  <2>1. row' = Saved(n, AllChats) /\ n \notin Stored /\ pc' = "markAll"
    BY <1>5 DEF CreateAll
  <2> QED
    BY <1>0, <2>1 DEF Saved, Stored
<1> QED
  BY <1>1, <1>2, <1>3, <1>4, <1>5 DEF Sync

(* A push keeps every row but the expired tombstones it purges, and calls  *)
(* what has expired now expired.                                           *)
LEMMA PublishRows ==
  ASSUME Typed, Undisturbed, Publish
  PROVE  /\ Stored' \subseteq Stored /\ \A k \in Stored' : row'[k] = row[k]
         /\ \A k \in Lives : k \in Stored'
         /\ \A k \in push'.expired : k \in Stored' /\ ~ Live(row[k])
         /\ pc' # "save" /\ pc \notin SyncPCs
         /\ pc' = "idle" => push'.expired = {}
         /\ pc' \in SyncPCs => sync'.caller = "pass"
         /\ UNCHANGED edit
<1> USE DEF SyncPCs
<1>0. push \in Pushing /\ NoPush.expired = {}
  BY DEF Typed, TypeOK, Pushing, NoPush
<1>1. CASE Purge
  BY <1>0, <1>1 DEF Purge, Without, Stored, Lives, Undisturbed
<1>2. CASE StartPush
  <2>1. row' = row /\ push'.expired = ExpiredTombstones /\ pc = "idle" /\ pc' = "pass" /\ UNCHANGED edit
    BY <1>2 DEF StartPush, device, NoPush
  <2> QED
    BY <2>1 DEF ExpiredTombstones, Expired, Live, Stored, Lives
<1>3. CASE PassBehind
  <2>1. /\ UNCHANGED <<row, edit>> /\ pc = "pass" /\ pc' = "read" /\ push'.expired = push.expired
        /\ sync'.caller = "pass"
    BY <1>0, <1>3 DEF PassBehind, BeginSync, Passing, NextPass, device, NoSync, Pushing
  <2> QED
    BY <2>1 DEF Undisturbed, Stored, Lives
<1>4. CASE Retry /\ pc = "write"
  <2>1. /\ UNCHANGED <<row, edit>> /\ pc = "write"
        /\ \/ pc' = "idle" /\ push'.expired = {}
           \/ pc' = "pass" /\ push'.expired = push.expired
    BY <1>0, <1>4 DEF Retry, device, Pushing
  <2> QED
    BY <2>1 DEF Undisturbed, Stored, Lives
<1>5. CASE Build \/ PassesExhausted \/ WriteAccepted \/ StoreWrittenVersion
           \/ (\E i \in Inserted : SavePublished(i)) \/ AllPublished
  <2>1. /\ UNCHANGED <<row, edit>> /\ pc \in {"pass", "write", "storeVersion", "published"}
        /\ \/ pc' = "idle" /\ push'.expired = {}
           \/ pc' \in {"write", "storeVersion", "published", "purge"} /\ push'.expired = push.expired
    BY <1>0, <1>5 DEF Build, Passing, PassesExhausted, WriteAccepted, StoreWrittenVersion, SavePublished, AllPublished,
       device, Pushing
  <2> QED
    BY <2>1 DEF Undisturbed, Stored, Lives
<1> QED
  BY <1>1, <1>2, <1>3, <1>4, <1>5 DEF Publish, RecordMoved, WriteConflict

(* An edit that overlaps nothing starts no all-chats folder and ends none. *)
LEMMA UserRows ==
  ASSUME Typed, Undisturbed, User, Alone'
  PROVE  /\ Alone /\ UNCHANGED <<version, manifest, pc, sync, push>>
         /\ Editing' => pc = "idle"
         /\ pc # "idle" => row' = row
         /\ LiveAlls' = LiveAlls
         /\ \A r \in edit'.todo : r.folder \in Lives'
<1>0. /\ UNCHANGED <<version, manifest, pc, sync, push>>
      /\ Alone /\ ((Editing \/ Editing') => pc = "idle")
  <2>1. UserStep
    BY DEF User, Stage, OpenFolder, SubmitSave, SubmitDelete, MarkStaged, ListLive, StageNext
  <2>2. ghost'.overlap <=> ghost.overlap \/ ((Editing \/ Editing') /\ pc' # "idle")
    BY <2>1, NoteType DEF UserStep, Typed
  <2> QED
    BY <2>1, <2>2 DEF UserStep, Alone
<1> DEFINE Same == LiveAlls' = LiveAlls /\ \A r \in edit'.todo : r.folder \in Lives'
<1>1. ASSUME NEW k \in Customs, OpenFolder(k) PROVE row' = row /\ Same
  <2>1. row' = row /\ edit'.todo = {}
    BY <1>1 DEF OpenFolder, NoEdit
  <2> QED
    BY <2>1 DEF LiveAlls, Lives, Stored
<1>2. ASSUME NEW name \in Names, SubmitSave(name) PROVE Editing' /\ Same
  <2>1. PICK f : row' = Saved(edit.folder, f)
    BY <1>2 DEF SubmitSave
  <2>2. edit'.phase = "mark" /\ edit'.todo = {} /\ edit.folder \in Customs
    BY <1>2 DEF SubmitSave, Typed, Locals, TypeOK
  <2> QED
    BY <2>1, <2>2 DEF Saved, LiveAlls, Lives, Stored, Editing
<1>3. CASE SubmitDelete
  <2>1. /\ row' = [row EXCEPT ![edit.folder] = Tombstone(@, now)]
        /\ edit'.phase = "mark" /\ edit'.todo = {} /\ edit.folder \in Customs
    BY <1>3 DEF SubmitDelete, Typed, Locals, TypeOK
  <2>2. LiveAlls' = LiveAlls
    BY <2>1 DEF LiveAlls, Lives, Stored
  <2> QED
    BY <1>0, <2>1, <2>2 DEF Editing
<1>4. CASE MarkStaged \/ ListLive
  <2>1. row' = row /\ Editing
    BY <1>4 DEF MarkStaged, ListLive, Editing
  <2>2. \A r \in edit'.todo : r.folder \in Lives
    <3>1. CASE MarkStaged
      <4>1. edit'.todo = edit.todo \/ edit'.todo = {}
        <5>1. edit \in EditLocals /\ NoEdit.todo = {}
          BY DEF Typed, TypeOK, EditLocals, NoEdit
        <5> QED
          BY <3>1, <5>1 DEF MarkStaged, EditLocals
      <4> QED
        BY <4>1 DEF Undisturbed
    <3>2. CASE ListLive
      <4> DEFINE todo == {[folder |-> k, rec |-> [row[k] EXCEPT !.position = Rank(k)]] :
                             k \in {j \in Lives : row[j].position # Rank(j)}}
      <4>1. edit'.todo = {} \/ edit'.todo = todo
        BY <3>2 DEF ListLive, NoEdit, Typed, TypeOK
      <4>2. \A r \in todo : r.folder \in Lives
        OBVIOUS
      <4> QED
        BY <4>1, <4>2
    <3> QED
      BY <1>4, <3>1, <3>2
  <2> QED
    BY <1>0, <2>1, <2>2 DEF LiveAlls, Lives, Stored
<1>5. CASE StageNext
  <2>1. PICK r \in edit.todo : row' = Saved(r.folder, r.rec) /\ edit'.todo = edit.todo \ {r}
    BY <1>5 DEF StageNext, Typed, TypeOK
  <2>2. Live(r.rec) /\ r.folder \in Lives /\ Editing
    BY <1>5 DEF Typed, Locals, Undisturbed, StageNext, Editing
  <2>3. LiveAlls' = LiveAlls /\ Lives' = Lives
    BY <2>1, <2>2 DEF Saved, LiveAlls, Lives, Stored
  <2> QED
    BY <1>0, <2>1, <2>2, <2>3 DEF Undisturbed
<1> QED
  BY <1>0, <1>1, <1>2, <1>3, <1>4, <1>5 DEF User, Stage

(* What is not overlapped was not overlapped before, and starting a sync   *)
(* or a push overlaps an edit under way.                                   *)
LEMMA AloneStep ==
  ASSUME Typed, [Next]_vars, Alone'
  PROVE  /\ Alone
         /\ (Sync \/ Publish) /\ pc = "idle" => ~ Editing
<1> DEFINE Goal == Alone /\ ((Sync \/ Publish) /\ pc = "idle" => ~ Editing)
<1>1. ASSUME StartSync \/ SyncUnchanged \/ StartPush \/ PassBehind PROVE Goal
  <2>1. NoteOverlap /\ pc' \in {"read", "ensure", "pass"} /\ UNCHANGED edit
    BY <1>1 DEF StartSync, BeginSync, SyncUnchanged, StartPush, PassBehind
  <2>2. ghost'.overlap <=> ghost.overlap \/ ((Editing \/ Editing') /\ pc' # "idle")
    BY <2>1, NoteType DEF Typed
  <2> QED
    BY <2>1, <2>2 DEF Alone
<1>2. CASE Sync /\ ~ (StartSync \/ SyncUnchanged)
  <2>1. ghost' = ghost /\ pc \in SyncPCs
    BY <1>2 DEF Sync, ReadFolders, MergeFolder, SaveMerged, StoreReadVersion, Reappend, FinishSync, CreateAll, MarkAll, SyncPCs
  <2> QED
    BY <1>2, <2>1 DEF Alone, SyncPCs
<1>3. CASE Publish /\ ~ (StartPush \/ PassBehind)
  <2>1. ghost' = ghost /\ pc # "idle"
    BY <1>3 DEF Publish, Build, Passing, PassesExhausted, RecordMoved, WriteConflict, Retry, WriteAccepted,
       StoreWrittenVersion, SavePublished, AllPublished, Purge
  <2> QED
    BY <1>3, <2>1 DEF Alone
<1>4. ASSUME ~ Sync, ~ Publish PROVE Alone
  <2>1. CASE User
    <3>1. NoteOverlap
      BY <2>1 DEF User, Stage, OpenFolder, SubmitSave, SubmitDelete, MarkStaged, ListLive, StageNext, UserStep
    <3> QED
      BY <3>1, NoteType DEF Typed, Alone
  <2>2. CASE Failure
    BY <2>2, FailureFrame DEF Alone
  <2>3. CASE Tick \/ Remote \/ UNCHANGED vars
    BY <2>3 DEF Alone, Tick, vars, Remote, RemoteFile, RemoteRewrite, RemoteDrop, RemoteWrite
  <2> QED
    BY <1>4, <2>1, <2>2, <2>3 DEF Next
<1> QED
  BY <1>1, <1>2, <1>3, <1>4

(* A step that overlaps nothing leaves syncs and pushes undisturbed.       *)
LEMMA UndisturbedStep == Typed /\ Undisturbed /\ [Next]_vars /\ Alone' => Undisturbed'
<1> SUFFICES ASSUME Typed, Undisturbed, [Next]_vars, Alone' PROVE Undisturbed'
  OBVIOUS
<1>1. CASE Sync
  <2>1. /\ UNCHANGED <<edit, push>> /\ pc \in SyncPCs \union {"idle"}
        /\ sync.caller \in {"idle", "pass"}
        /\ \/ pc = "idle" /\ pc' \in SyncPCs /\ sync'.caller = "idle"
           \/ pc \in SyncPCs /\ pc' \in SyncPCs /\ sync'.caller = sync.caller
           \/ pc \in SyncPCs /\ pc' = sync.caller
    <3> USE DEF SyncPCs, device
    <3>0. sync \in Syncing
      BY DEF Typed, TypeOK, Syncing
    <3>1. CASE StartSync \/ SyncUnchanged
      <4>1. /\ UNCHANGED <<edit, push>> /\ pc = "idle" /\ pc' \in {"read", "ensure"}
            /\ sync'.caller = "idle"
        <5>1. CASE StartSync
          BY <5>1 DEF StartSync, BeginSync, NoSync
        <5>2. CASE SyncUnchanged
          BY <5>2 DEF SyncUnchanged, NoSync
        <5> QED
          BY <3>1, <5>1, <5>2
      <4> QED
        BY <3>0, <4>1 DEF Syncing
    <3>2. CASE ReadFolders \/ SaveMerged \/ StoreReadVersion \/ Reappend
      BY <3>0, <3>2 DEF ReadFolders, SaveMerged, StoreReadVersion, Reappend, Syncing
    <3>3. CASE (\E i \in sync.unread : MergeFolder(i)) \/ (\E n \in Own : CreateAll(n))
      <4>1. /\ UNCHANGED <<edit, push>> /\ pc \in {"merge", "ensure"} /\ pc' \in {"save", "markAll"}
            /\ sync'.caller = sync.caller
        BY <3>0, <3>3 DEF MergeFolder, CreateAll, Syncing
      <4> QED
        BY <3>0, <4>1 DEF Syncing
    <3>4. CASE FinishSync \/ MarkAll
      BY <3>0, <3>4 DEF FinishSync, MarkAll, LeaveSync, Syncing
    <3> QED
      BY <1>1, <3>1, <3>2, <3>3, <3>4 DEF Sync
  <2>2. ~ Editing
    BY <1>1, <2>1, AloneStep DEF Undisturbed, SyncPCs
  <2>3. edit.todo = {} /\ ~ Editing'
    BY <2>1, <2>2 DEF Editing, Typed, Locals
  <2>4. Resting' => Resting
    BY <2>1 DEF Resting, SyncPCs
  <2> QED
    BY <1>1, <2>1, <2>3, <2>4, SyncRows DEF Undisturbed
<1>2. CASE Publish
  <2>0. /\ \A k \in Stored' : row'[k] = row[k]
        /\ \A k \in push'.expired : k \in Stored' /\ ~ Live(row[k])
        /\ pc' # "save" /\ pc \notin SyncPCs /\ UNCHANGED edit
        /\ pc' = "idle" => push'.expired = {}
        /\ pc' \in SyncPCs => sync'.caller = "pass"
    BY <1>2, PublishRows
  <2>1. ~ Editing
    BY <1>2, AloneStep DEF Undisturbed
  <2>2. edit.todo = {} /\ ~ Editing'
    BY <2>0, <2>1 DEF Editing, Typed, Locals
  <2>3. Resting' => push'.expired = {}
    BY <2>0 DEF Resting
  <2> QED
    BY <2>0, <2>2, <2>3 DEF Undisturbed
<1>3. CASE User
  <2>1. /\ UNCHANGED <<pc, sync, push>> /\ (Editing' => pc = "idle") /\ (pc # "idle" => row' = row)
        /\ \A r \in edit'.todo : r.folder \in Lives'
    BY <1>3, UserRows
  <2>2. pc = "idle" => push.expired = {}
    BY DEF Undisturbed, Resting
  <2> QED
    BY <2>1, <2>2 DEF Undisturbed, Resting, Stored
<1>4. CASE Failure
  <2>1. /\ UNCHANGED row /\ pc' = "idle" /\ push' = NoPush /\ edit' \in {edit, NoEdit}
    BY <1>4, FailureFrame
  <2>2. NoPush.expired = {} /\ edit'.todo \subseteq edit.todo
    BY <2>1 DEF NoPush, NoEdit
  <2> QED
    BY <2>1, <2>2 DEF Undisturbed, Lives, Stored
<1>5. CASE Tick \/ Remote \/ UNCHANGED vars
  <2>1. UNCHANGED <<row, pc, sync, push, edit>>
    BY <1>5 DEF Tick, vars, Remote, RemoteFile, RemoteRewrite, RemoteDrop, RemoteWrite, device
  <2> QED
    BY <2>1 DEF Undisturbed, Lives, Stored, Editing, Resting
<1> QED
  BY <1>1, <1>2, <1>3, <1>4, <1>5 DEF Next

(***************************************************************************)
(* Deletes                                                                 *)
(***************************************************************************)
QuietInv == Typed /\ (Alone => Undisturbed)

LEMMA QuietStep == QuietInv /\ [Next]_vars => QuietInv'
BY TypeStep, AloneStep, UndisturbedStep DEF QuietInv, Typed

LEMMA QuietInit == Init => QuietInv
<1> SUFFICES ASSUME Init PROVE QuietInv
  OBVIOUS
<1>1. Undisturbed
  BY DEF Init, Undisturbed, NoPush, NoEdit, Editing
<1> QED
  BY <1>1, TypeInit DEF QuietInv, Typed

LEMMA QuietAlways == Spec => []QuietInv
BY QuietInit, QuietStep, PTL DEF Spec

(* No sync and no push revives a stored tombstone or dates it later while  *)
(* no edit overlaps one (merge_chat_folder_from_snapshot).                 *)
LEMMA DeleteKept ==
  ASSUME QuietInv, [Next]_vars, edit' = edit, Alone',
         NEW k \in Stored \intersect DOMAIN row', ~ Live(row[k])
  PROVE  ~ Live(row'[k]) /\ row'[k].deleted <= row[k].deleted
<1>0. Typed /\ Undisturbed /\ row[k].deleted \in Nat
  BY AloneStep DEF QuietInv, Typed, TypeOK, Folder
<1>1. CASE Sync
  BY <1>0, <1>1, SyncRows
<1>2. CASE Publish
  <2>1. row'[k] = row[k]
    BY <1>0, <1>2, PublishRows DEF Stored
  <2> QED
    BY <1>0, <2>1
<1>3. CASE User
  <2> DEFINE Same == row' = row
  <2>1. ASSUME NEW j \in Customs, OpenFolder(j) PROVE Same
    BY <2>1 DEF OpenFolder
  <2>2. ASSUME NEW name \in Names, SubmitSave(name) PROVE Same
    BY <1>0, <2>2 DEF SubmitSave, Typed, TypeOK
  <2>3. ASSUME SubmitDelete PROVE Same
    BY <1>0, <2>3 DEF SubmitDelete, Typed, TypeOK
  <2>4. ASSUME MarkStaged \/ ListLive PROVE Same
    BY <2>4 DEF MarkStaged, ListLive
  <2>5. ASSUME StageNext PROVE Same
    BY <1>0, <2>5 DEF StageNext, Typed, TypeOK
  <2>6. row' = row
    BY <1>3, <2>1, <2>2, <2>3, <2>4, <2>5 DEF User, Stage
  <2> QED
    BY <1>0, <2>6
<1>4. CASE Failure \/ Tick \/ Remote \/ UNCHANGED vars
  <2>1. row' = row
    BY <1>0, <1>4, FailureFrame DEF Tick, vars, Remote, RemoteFile, RemoteRewrite, RemoteDrop, RemoteWrite, device
  <2> QED
    BY <1>0, <2>1
<1> QED
  BY <1>1, <1>2, <1>3, <1>4 DEF Next

(* While no edit overlaps, nothing a sync merges and nothing a push        *)
(* publishes brings a folder the user deleted back to life                 *)
(* (merge_chat_folder_record, push_pending_chat_folder_records).           *)
THEOREM DeletesKept == Spec => DeleteStands
<1>1. QuietInv /\ [Next]_vars =>
        [edit' = edit /\ ~ghost'.overlap =>
           \A k \in Stored \intersect DOMAIN row' :
             ~Live(row[k]) => ~Live(row'[k]) /\ row'[k].deleted <= row[k].deleted]_vars
  BY DeleteKept DEF Alone
<1> QED
  BY <1>1, QuietAlways, PTL DEF Spec, DeleteStands

(***************************************************************************)
(* The all-chats folder                                                    *)
(***************************************************************************)
One == \E k : LiveAlls = {k}

(* A push begins and ends with the one folder its sync left.               *)
OneAll ==
  /\ pc \in {"idle", "pass"} /\ version = manifest.version => One
  /\ pc \in {"markAll", "write", "storeVersion", "published", "purge"} => One

Tidy == Alone /\ ~ ghost.skipped
OneInv == QuietInv /\ Versions /\ (Tidy => OneAll)

(* No step repairs this history either.                                    *)
LEMMA TidyStep == QuietInv /\ [Next]_vars /\ Tidy' => Tidy
<1> SUFFICES ASSUME QuietInv, [Next]_vars, Tidy' PROVE ~ ghost.skipped
  BY AloneStep DEF Tidy, QuietInv
<1>1. CASE NoteOverlap
  BY <1>1, NoteType DEF QuietInv, Typed, Tidy
<1>2. CASE User \/ Failure
  BY <1>2, UserFrame, FailureFrame DEF QuietInv, Tidy
<1>3. CASE Sync
  BY <1>1, <1>3 DEF Sync, StartSync, BeginSync, SyncUnchanged, ReadFolders, MergeFolder, SaveMerged, StoreReadVersion,
     Reappend, FinishSync, CreateAll, MarkAll, Tidy
<1>4. CASE Publish
  BY <1>1, <1>4 DEF Publish, StartPush, PassBehind, BeginSync, Build, PassesExhausted, RecordMoved, WriteConflict,
         Retry, WriteAccepted, StoreWrittenVersion, SavePublished, AllPublished, Purge, Tidy
<1>5. CASE Tick \/ Remote \/ UNCHANGED vars
  BY <1>5 DEF Tick, vars, Remote, RemoteFile, RemoteRewrite, RemoteDrop, RemoteWrite, Tidy
<1> QED
  BY <1>2, <1>3, <1>4, <1>5 DEF Next

(* A sync ends with one live all-chats folder (FinishSync, CreateAll) and  *)
(* until then is behind or says nothing of it.                             *)
LEMMA SyncOne ==
  ASSUME OneInv, OneAll, Sync
  PROVE  OneAll'
<1>0. /\ version \in Nat /\ manifest.version \in Nat /\ sync.caller \in {"idle", "pass"}
  BY DEF OneInv, QuietInv, Typed, TypeOK, Manifest
<1>1. CASE FinishSync
  <2>1. One'
    BY <1>1, CollapsedOne DEF FinishSync, One, OneInv, QuietInv
  <2> QED
    BY <2>1 DEF OneAll
<1>2. ASSUME NEW n \in Own, CreateAll(n) PROVE One'
  <2>1. row' = Saved(n, AllChats) /\ LiveAlls = {} /\ n \in AllType /\ n \notin Stored
    BY <1>2 DEF CreateAll, AllType
  <2>2. LiveAlls' = {n}
    BY <2>1, Defaults DEF Saved, LiveAlls, Lives, Stored
  <2> QED
    BY <2>2 DEF One
<1>3. CASE MarkAll
  <2>1. One /\ row' = row
    BY <1>3 DEF MarkAll, OneAll
  <2>2. One'
    BY <2>1 DEF One, LiveAlls, Lives, Stored
  <2> QED
    BY <2>2 DEF OneAll
<1>4. CASE StartSync \/ SyncUnchanged \/ ReadFolders \/ (\E i \in sync.unread : MergeFolder(i))
           \/ SaveMerged \/ StoreReadVersion \/ Reappend
  BY <1>4 DEF StartSync, BeginSync, SyncUnchanged, ReadFolders, MergeFolder, SaveMerged, StoreReadVersion, Reappend, OneAll
<1> QED
  BY <1>1, <1>2, <1>3, <1>4 DEF Sync, OneAll

(* A push leaves the all-chats folder as its last sync did.                *)
LEMMA PublishOne ==
  ASSUME OneInv, OneAll, Undisturbed, Publish
  PROVE  OneAll'
<1>1. LiveAlls' = LiveAlls
  <2>1. Stored' \subseteq Stored /\ (\A k \in Stored' : row'[k] = row[k]) /\ \A k \in Lives : k \in Stored'
    BY PublishRows DEF OneInv, QuietInv
  <2> QED
    BY <2>1 DEF LiveAlls, Lives, Stored
<1>2. CASE PassBehind
  <2>1. pc' = "read"
    BY <1>2 DEF PassBehind, BeginSync
  <2> QED
    BY <2>1 DEF OneAll
<1>3. CASE StartPush \/ PassesExhausted
  <2>1. UNCHANGED <<version, manifest>> /\ pc \in {"idle", "pass"} /\ pc' \in {"idle", "pass"}
    BY <1>3 DEF StartPush, PassesExhausted, device
  <2> QED
    BY <1>1, <2>1 DEF OneAll, One
<1>4. CASE Build
  <2>1. pc = "pass" /\ version = manifest.version
    BY <1>4 DEF Build, Passing, CaughtUp
  <2> QED
    BY <1>1, <2>1 DEF OneAll, One
<1>5. CASE RecordMoved \/ WriteConflict \/ WriteAccepted \/ StoreWrittenVersion
           \/ (\E i \in Inserted : SavePublished(i)) \/ AllPublished \/ Purge
  <2>1. pc \in {"write", "storeVersion", "published", "purge"}
    BY <1>5 DEF RecordMoved, WriteConflict, WriteAccepted, StoreWrittenVersion, SavePublished, AllPublished, Purge
  <2> QED
    BY <1>1, <2>1 DEF OneAll, One
<1> QED
  BY <1>2, <1>3, <1>4, <1>5 DEF Publish

(* Edits, other devices, the clock and failures create and end none, or    *)
(* the device is no longer at the server's version.                        *)
LEMMA OtherOne ==
  ASSUME OneInv, OneAll, Undisturbed, User \/ Tick \/ Remote \/ Failure \/ UNCHANGED vars, Tidy'
  PROVE  OneAll'
<1>0. /\ version \in Nat /\ manifest.version \in Nat /\ cur.version \in Nat
  BY DEF OneInv, QuietInv, Typed, TypeOK, Manifest
<1>1. CASE User
  <2>1. UNCHANGED <<version, manifest, pc>> /\ LiveAlls' = LiveAlls
    BY <1>1, UserRows DEF OneInv, QuietInv, Tidy
  <2> QED
    BY <2>1 DEF OneAll, One
<1>2. CASE Remote
  <2>1. PICK gone, come : RemoteWrite(gone, come)
    BY <1>2, RemoteItems DEF OneInv, QuietInv, Typed
  <2>2. UNCHANGED <<row, version, pc>> /\ manifest'.version = manifest.version + 1
    BY <2>1 DEF RemoteWrite, device
  <2>3. LiveAlls' = LiveAlls /\ version' # manifest'.version
    BY <1>0, <2>2 DEF LiveAlls, Lives, Stored, OneInv, Versions
  <2> QED
    BY <2>2, <2>3 DEF OneAll, One
<1>3. CASE Failure
  <2>1. /\ UNCHANGED <<row, version>> /\ pc' = "idle" /\ pc \notin {"reappend", "ensure"}
        /\ manifest' = manifest \/ (manifest' = Edited /\ pc = "write" /\ Unchanged)
    BY <1>3, FailureFrame DEF OneInv, QuietInv, Tidy
  <2>2. LiveAlls' = LiveAlls
    BY <2>1 DEF LiveAlls, Lives, Stored
  <2>3. version' = manifest'.version => One
    <3>1. CASE manifest' = manifest
      <4>1. pc \in {"read", "merge", "save"} => version # manifest.version
        BY <1>0 DEF OneInv, Versions
      <4>2. pc \in PCs
        BY DEF OneInv, QuietInv, Typed, TypeOK
      <4> QED
        BY <2>1, <3>1, <4>1, <4>2 DEF OneAll, PCs, SyncPCs
    <3>2. CASE manifest' = Edited /\ pc = "write" /\ Unchanged
      BY <3>2 DEF OneAll
    <3> QED
      BY <2>1, <3>1, <3>2
  <2> QED
    BY <2>1, <2>2, <2>3 DEF OneAll, One
<1>4. CASE Tick \/ UNCHANGED vars
  <2>1. UNCHANGED <<row, version, manifest, pc>>
    BY <1>4 DEF Tick, vars, device
  <2> QED
    BY <2>1 DEF OneAll, One, LiveAlls, Lives, Stored
<1> QED
  BY <1>1, <1>2, <1>3, <1>4

LEMMA OneStep == OneInv /\ [Next]_vars => OneInv'
<1> SUFFICES ASSUME OneInv, [Next]_vars PROVE OneInv'
  OBVIOUS
<1>1. QuietInv' /\ Versions'
  BY QuietStep, VersionsStep DEF OneInv, QuietInv
<1>2. ASSUME Tidy' PROVE OneAll'
  <2>1. OneAll /\ Undisturbed
    BY <1>2, TidyStep DEF OneInv, QuietInv, Tidy
  <2> QED
    BY <1>2, <2>1, SyncOne, PublishOne, OtherOne DEF Next
<1> QED
  BY <1>1, <1>2 DEF OneInv

LEMMA OneInit == Init => OneInv
<1> SUFFICES ASSUME Init PROVE OneInv
  OBVIOUS
<1>1. pc = "idle" /\ version = 0 /\ manifest.version = 1
  BY DEF Init
<1> QED
  BY <1>1, QuietInit, VersionsInit DEF OneInv, OneAll

(* At the server's version a device that is not syncing holds exactly one  *)
(* live all-chats folder, unless a crash cut off a clean-up or an edit     *)
(* overlapped one (ensure_single_all_chats_folder).                        *)
THEOREM AllChatsUnique == Spec => []OneAllChats
<1>1. OneInv => OneAllChats
  BY FS_Singleton DEF OneInv, Tidy, Alone, OneAll, One, OneAllChats
<1> QED
  BY <1>1, OneInit, OneStep, PTL DEF Spec
=============================================================================
