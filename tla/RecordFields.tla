---------------------------- MODULE RecordFields ----------------------------
(***************************************************************************)
(* Editing a storage record without re-encoding it                         *)
(* (presage/src/storage_record.rs): the record is walked, every field is   *)
(* copied through, and one is replaced.  StorageSync takes a record for a  *)
(* function from its fields to values, and an edit for the change of one   *)
(* of them (Overlay); the theorems of RecordFields_proofs say that this is *)
(* what the edits of encoded records are.                                  *)
(*                                                                         *)
(* An encoded message is the places its fields stand at, in wire order,    *)
(* with the last place it ever used: a field that goes leaves its place    *)
(* empty, and one that comes stands behind all others.  A record is such a *)
(* message, holding the record proper as the value of one field.           *)
(***************************************************************************)
EXTENDS Naturals

Wires == {"varint", "len", "fixed"}
Numbers == Nat \ {0}

(* What scan makes of bytes: a malformed message is not one of these, and  *)
(* is refused before anything is changed.                                  *)
IsField(f) == f.number \in Numbers /\ f.wire \in Wires
IsMessage(m) ==
  /\ m.end \in Nat /\ DOMAIN m.at \subseteq 1..m.end
  /\ \A p \in DOMAIN m.at : IsField(m.at[p])

Field(number, wire, value) == [number |-> number, wire |-> wire, value |-> value]

(* The places of a field's occurrences.                                    *)
Places(m, number) == {p \in DOMAIN m.at : m.at[p].number = number}
First(places) == CHOOSE p \in places : \A q \in places : p <= q
Last(places) == CHOOSE p \in places : \A q \in places : q <= p

(* set_field with no replacement.                                          *)
Without(m, number) == [end |-> m.end, at |-> [p \in DOMAIN m.at \ Places(m, number) |-> m.at[p]]]

(* set_field: once, where the first occurrence stood, or else at the end.  *)
PlaceFor(m, number) == IF Places(m, number) = {} THEN m.end + 1 ELSE First(Places(m, number))
With(m, f) ==
  LET place == PlaceFor(m, f.number) IN
  [end |-> IF place > m.end THEN place ELSE m.end,
   at |-> [p \in (DOMAIN m.at \ Places(m, f.number)) \union {place} |-> IF p = place THEN f ELSE m.at[p]]]

(* A varint field's value: the last occurrence's, or 0 when there is none; *)
(* an occurrence of another wire type is an error.                         *)
Readable(m, number) == Places(m, number) # {} => m.at[Last(Places(m, number))].wire = "varint"
Varint(m, number) == IF Places(m, number) = {} THEN 0 ELSE m.at[Last(Places(m, number))].value

(* record_payload: the arm is there, and there once.                       *)
Holds(record, arm) == \E p \in DOMAIN record.at : Places(record, arm) = {p}
Payload(record, arm) == record.at[First(Places(record, arm))].value
IsRecord(record, arm) == IsMessage(record) /\ Holds(record, arm) /\ IsMessage(Payload(record, arm))

(* set_record_field: the wrapper is edited as the payload is.              *)
Rewrapped(record, arm, payload) == With(record, Field(arm, "len", payload))
SetRecordField(record, arm, f) == Rewrapped(record, arm, With(Payload(record, arm), f))
RemoveRecordField(record, arm, number) == Rewrapped(record, arm, Without(Payload(record, arm), number))

(* set_varint_field_or_remove, and set_bool_field for 0 and 1: the default *)
(* of a field is its absence.                                              *)
SetVarint(record, arm, number, value) ==
  IF value = 0 THEN RemoveRecordField(record, arm, number)
  ELSE SetRecordField(record, arm, Field(number, "varint", value))
RecordVarint(record, arm, number) == Varint(Payload(record, arm), number)

(***************************************************************************)
(* The fields presage edits, each by the arm of its record and its number. *)
(***************************************************************************)
ContactArm == 1
GroupArm == 3
AccountArm == 4
PackArm == 6
Flags ==      \* blocked and archived of a contact, archived of a group and of Note to Self
  {<<ContactArm, 9>>, <<ContactArm, 11>>, <<GroupArm, 4>>, <<AccountArm, 5>>}
Timestamps == {<<ContactArm, 13>>, <<GroupArm, 6>>} \* muted until

IsOn(record, flag) == RecordVarint(record, flag[1], flag[2]) # 0
Switched(record, flag, on) == SetVarint(record, flag[1], flag[2], IF on THEN 1 ELSE 0)
MutedUntil(record, time) == RecordVarint(record, time[1], time[2])
Muted(record, time, until) == SetVarint(record, time[1], time[2], until)

(* set_sticker_pack_state: an installed pack has a key and a position, a   *)
(* removed one the time it was removed.                                    *)
KeyField == 2
PositionField == 3
DeletedField == 4
Installed(record, key, position) ==
  LET keyed == SetRecordField(record, PackArm, Field(KeyField, "len", key))
      placed == SetVarint(keyed, PackArm, PositionField, position)
  IN SetVarint(placed, PackArm, DeletedField, 0)
Removed(record, deleted) ==
  LET unkeyed == RemoveRecordField(record, PackArm, KeyField)
      unplaced == SetVarint(unkeyed, PackArm, PositionField, 0)
  IN SetVarint(unplaced, PackArm, DeletedField, deleted)

(* A chat folder is rebuilt from the model and the fields the model does   *)
(* not know, which are carried over from the record that was read.         *)
KnownFolderFields == 1..11
Unknown(folder) == {p \in DOMAIN folder.at : folder.at[p].number \notin KnownFolderFields}
EncodedFolder(model, folder) ==
  [end |-> model.end + folder.end,
   at |-> [p \in DOMAIN model.at \union {model.end + q : q \in Unknown(folder)} |->
             IF p <= model.end THEN model.at[p] ELSE folder.at[p - model.end]]]
=============================================================================
