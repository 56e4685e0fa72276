------------------------- MODULE StorageSyncClaims -------------------------
(***************************************************************************)
(* What the comments of manager/storage.rs, manager/registered.rs and      *)
(* store.rs say of StorageSync and its interleavings contradict.  Each     *)
(* property quotes the comment it states.                                  *)
(***************************************************************************)
EXTENDS StorageSync

(* A device that has read every record the account holds, and has not been *)
(* used since: what a first sync leaves.                                   *)
InitRead ==
  /\ manifest = [version |-> 1,
                 items |-> [key : Filed \union Unmodelled, id : {1}, rec : {Blank}]]
  /\ row = [k \in Keys |-> Blank]
  /\ ident = {i \in manifest.items : i.key \in Keys} /\ version = 1
  /\ flag = {} /\ cursor = NoCursor
  /\ pc = "idle" /\ cur = NoManifest /\ job = NoJob /\ sync = NoSync /\ edit = NoEdit
  /\ spent = [edits |-> 0, remote |-> 0, crashes |-> 0, faults |-> 0]
  /\ ghost = [touched |-> {}, blind |-> FALSE, torn |-> FALSE]
SpecRead == InitRead /\ [][Next]_vars

(* "blanket-preserving every publishable field under it would keep stale   *)
(* local values for fields nobody edited, which the next publish would     *)
(* then push over a remote change" (merge_contact_from_snapshot): a device *)
(* that has read the account's records publishes, with a field that was    *)
(* edited here, no field that was not.                                     *)
Published(i, j) == {f \in Fields : i.rec[f] # j.rec[f]}
EditedHere(k) == {f \in Fields : <<k, f>> \in ghost.touched}
RemoteEditStands ==
  [][pc = "write" /\ pc' = "storeVersion" =>
       \A i \in Held(job.key), j \in manifest'.items :
         i.key = j.key /\ Published(i, j) \intersect EditedHere(i.key) # {} =>
           Published(i, j) \subseteq EditedHere(i.key)]_vars

(* "Callers must treat that as a reason to sync before writing, never as a *)
(* reason to write blind -- appending a record the account already holds   *)
(* under another id duplicates it on every device"                         *)
(* (contact_storage_identity): the account never holds two records of one  *)
(* subject.                                                                *)
NoDuplicateRecord ==
  \A i, j \in manifest.items : i.key = j.key => i = j

(* "fails as StorageRecordMoved so the caller re-syncs and rebuilds"       *)
(* (write_manifest_edit) and "a crash leaves a durable record of what      *)
(* still needs publishing" (update_storage_record): a marked change is     *)
(* published sooner or later.                                              *)
MarkedIsPublished == \A k \in Keys : k \in flag ~> k \notin flag
=============================================================================
