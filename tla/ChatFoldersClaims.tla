------------------------- MODULE ChatFoldersClaims -------------------------
(***************************************************************************)
(* What the comments of manager/chat_folders.rs and manager/storage.rs say *)
(* of ChatFolders and its interleavings contradict.                        *)
(***************************************************************************)
EXTENDS ChatFolders

(* "the local write and the storage-sync mark are one step"                *)
(* (manager/chat_folders.rs) and "Same contract as the contact and group   *)
(* drains" (push_pending_chat_folder_records), whose push marks a row      *)
(* again when it changed meanwhile: a live custom folder that is not what  *)
(* its record says is marked, or is about to be.                           *)
FolderChangeIsMarked ==
  spent.crashes = 0 =>
    \A k \in Lives \intersect Customs :
      (\A h \in Identified(k) : h.item.rec # row[k]) =>
        k \in flag \/ (edit.phase = "mark" /\ edit.folder = k)
=============================================================================
