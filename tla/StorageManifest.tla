-------------------------- MODULE StorageManifest --------------------------
(***************************************************************************)
(* What every device of an account relies on the storage service for: one  *)
(* manifest with a version, listing immutable records.  A write moves the  *)
(* version by exactly one and touches the records of a single subject; all *)
(* the other records stay listed, whatever their type and whoever wrote    *)
(* them.  A changed record is a new record: it is filed under the version  *)
(* that inserted it, so no identifier is ever reused.                      *)
(*                                                                         *)
(* StorageSync implements this module: the server it writes to behaves     *)
(* like this however its pushes, syncs, crashes and lost answers           *)
(* interleave with the writes of other devices.                            *)
(***************************************************************************)
EXTENDS Naturals

CONSTANTS Key,  \* the subjects a record can be about
          Rec   \* the contents of a record

VARIABLES version, items

vars == <<version, items>>

Item == [key : Key, id : Nat, rec : Rec]

Init == /\ version = 1
        /\ items \subseteq [key : Key, id : {1}, rec : Rec]

(* One write about subject k: some of its records go, at most one fresh    *)
(* record of it comes.                                                     *)
Write(k) ==
  /\ version' = version + 1
  /\ \E gone \in SUBSET {i \in items : i.key = k} :
       \/ items' = items \ gone
       \/ \E rec \in Rec :
            items' = (items \ gone) \union {[key |-> k, id |-> version + 1, rec |-> rec]}

Next == \E k \in Key : Write(k)

Spec == Init /\ [][Next]_vars
=============================================================================
