------------------------- MODULE RecordFields_proofs -------------------------
(***************************************************************************)
(* What the edits of RecordFields leave alone, and what they set.          *)
(***************************************************************************)
EXTENDS RecordFields, NaturalsInduction, WellFoundedInduction, TLAPS

(* The order of places as a relation.                                      *)
LEMMA Below ==
  ASSUME NEW p \in Nat, NEW q \in Nat, q < p
  PROVE  <<q, p>> \in OpToRel(<, Nat)
<1> DEFINE pair == <<q, p>>
<1>1. pair \in Nat \X Nat /\ pair[1] < pair[2]
  OBVIOUS
<1> HIDE DEF pair
<1>2. pair \in {ss \in Nat \X Nat : ss[1] < ss[2]}
  BY <1>1
<1>3. pair \in OpToRel(<, Nat)
  BY <1>2, Zenon DEF OpToRel
<1> QED BY <1>3 DEF pair

(* A field that occurs has a first occurrence.                             *)
LEMMA FirstExists ==
  ASSUME NEW places \in SUBSET Nat, places # {}
  PROVE  /\ First(places) \in places
         /\ \A q \in places : First(places) <= q
<1>1. IsWellFoundedOn(OpToRel(<, Nat), Nat)
  BY NatLessThanWellFounded, Zenon
<1>2. PICK p \in places : \A q \in places : ~ (<<q, p>> \in OpToRel(<, Nat))
  BY <1>1, WFMin, Zenon
<1>3. \A q \in places : ~ (q < p)
  <2> SUFFICES ASSUME NEW q \in places, q < p PROVE FALSE
    OBVIOUS
  <2>1. <<q, p>> \in OpToRel(<, Nat)
    BY Below
  <2> QED BY <1>2, <2>1, Zenon
<1>4. \A q \in places : p <= q
  BY <1>3
<1> QED BY <1>4 DEF First

LEMMA PlacesKnown ==
  ASSUME NEW m, IsMessage(m), NEW number
  PROVE  /\ Places(m, number) \subseteq DOMAIN m.at
         /\ Places(m, number) \in SUBSET Nat
         /\ m.end \in Nat /\ DOMAIN m.at \subseteq 1..m.end
BY DEF Places, IsMessage

LEMMA PlaceIsFree ==
  ASSUME NEW m, IsMessage(m), NEW number
  PROVE  /\ PlaceFor(m, number) \in 1..(m.end + 1)
         /\ PlaceFor(m, number) \notin DOMAIN m.at \ Places(m, number)
<1>1. CASE Places(m, number) = {}
  BY <1>1, PlacesKnown DEF PlaceFor
<1>2. CASE Places(m, number) # {}
  <2>1. First(Places(m, number)) \in Places(m, number)
    BY <1>2, PlacesKnown, FirstExists
  <2> QED BY <1>2, <2>1, PlacesKnown DEF PlaceFor
<1> QED BY <1>1, <1>2

LEMMA WithAt ==
  ASSUME NEW m, NEW f
  PROVE  /\ DOMAIN With(m, f).at = (DOMAIN m.at \ Places(m, f.number)) \union {PlaceFor(m, f.number)}
         /\ \A p \in DOMAIN With(m, f).at :
              With(m, f).at[p] = IF p = PlaceFor(m, f.number) THEN f ELSE m.at[p]
         /\ With(m, f).end = IF PlaceFor(m, f.number) > m.end THEN PlaceFor(m, f.number) ELSE m.end
BY DEF With

LEMMA WithoutAt ==
  ASSUME NEW m, NEW number
  PROVE  /\ DOMAIN Without(m, number).at = DOMAIN m.at \ Places(m, number)
         /\ \A p \in DOMAIN Without(m, number).at : Without(m, number).at[p] = m.at[p]
         /\ Without(m, number).end = m.end
BY DEF Without

(* An edited message is a message: scan takes what set_field writes, so    *)
(* edits can be chained.                                                   *)
THEOREM EditsAreMessages ==
  ASSUME NEW m, IsMessage(m)
  PROVE  /\ \A f : IsField(f) => IsMessage(With(m, f))
         /\ \A number : IsMessage(Without(m, number))
<1>1. ASSUME NEW f, IsField(f) PROVE IsMessage(With(m, f))
  <2>1. PlaceFor(m, f.number) \in 1..(m.end + 1) /\ m.end \in Nat /\ DOMAIN m.at \subseteq 1..m.end
    BY PlaceIsFree, PlacesKnown
  <2>2. With(m, f).end \in Nat /\ DOMAIN With(m, f).at \subseteq 1..With(m, f).end
    BY <2>1, WithAt
  <2>3. ASSUME NEW p \in DOMAIN With(m, f).at PROVE IsField(With(m, f).at[p])
    <3>1. With(m, f).at[p] = f \/ (p \in DOMAIN m.at /\ With(m, f).at[p] = m.at[p])
      BY WithAt
    <3> QED BY <3>1, <1>1 DEF IsMessage
  <2> QED BY <2>2, <2>3 DEF IsMessage
<1>2. ASSUME NEW number PROVE IsMessage(Without(m, number))
  BY WithoutAt DEF IsMessage
<1> QED BY <1>1, <1>2

(* Every other field keeps its bytes and its position, and none appears    *)
(* (set_field).                                                            *)
THEOREM SetKeepsOthers ==
  ASSUME NEW m, IsMessage(m), NEW f, IsField(f), NEW number, number # f.number
  PROVE  /\ Places(With(m, f), number) = Places(m, number)
         /\ \A p \in Places(m, number) : With(m, f).at[p] = m.at[p]
<1> DEFINE place == PlaceFor(m, f.number)
<1>1. place \notin DOMAIN m.at \ Places(m, f.number)
  BY PlaceIsFree
<1>2. place \notin Places(m, number)
  BY <1>1 DEF Places
<1>3. \A p \in Places(m, number) : p \in DOMAIN With(m, f).at /\ p # place
  BY <1>2, WithAt DEF Places
<1>4. \A p \in Places(With(m, f), number) : p \in DOMAIN m.at /\ p # place
  BY WithAt DEF Places
<1> HIDE DEF place
<1>5. \A p \in DOMAIN With(m, f).at : p # place => With(m, f).at[p] = m.at[p]
  BY WithAt DEF place
<1> QED BY <1>3, <1>4, <1>5 DEF Places

(* The field that is set is there once, in the place of the first          *)
(* occurrence, so that last-wins and first-wins readers agree on it.       *)
THEOREM SetIsThere ==
  ASSUME NEW m, IsMessage(m), NEW f, IsField(f)
  PROVE  /\ Places(With(m, f), f.number) = {PlaceFor(m, f.number)}
         /\ With(m, f).at[PlaceFor(m, f.number)] = f
<1> DEFINE place == PlaceFor(m, f.number)
<1>1. place \in DOMAIN With(m, f).at /\ With(m, f).at[place] = f
  BY WithAt
<1>2. \A p \in DOMAIN With(m, f).at : p # place => p \in DOMAIN m.at \ Places(m, f.number) /\ With(m, f).at[p] = m.at[p]
  BY WithAt
<1> HIDE DEF place
<1>3. Places(With(m, f), f.number) = {place}
  BY <1>1, <1>2 DEF Places
<1> QED BY <1>1, <1>3 DEF place

(* A field that is removed is gone, all its occurrences with it, and the   *)
(* others are as they were.                                                *)
THEOREM RemovedIsGone ==
  ASSUME NEW m, IsMessage(m), NEW number
  PROVE  /\ Places(Without(m, number), number) = {}
         /\ \A other : other # number =>
              /\ Places(Without(m, number), other) = Places(m, other)
              /\ \A p \in Places(m, other) : Without(m, number).at[p] = m.at[p]
BY WithoutAt DEF Places

LEMMA OnlyPlace ==
  ASSUME NEW p \in Nat
  PROVE  First({p}) = p /\ Last({p}) = p
BY DEF First, Last

(* The wrapper keeps everything but the payload, and holds the new one.    *)
LEMMA RewrappedHolds ==
  ASSUME NEW arm \in Numbers, NEW record, IsRecord(record, arm), NEW payload, IsMessage(payload)
  PROVE  /\ IsRecord(Rewrapped(record, arm, payload), arm)
         /\ Payload(Rewrapped(record, arm, payload), arm) = payload
         /\ \A number : number # arm =>
              /\ Places(Rewrapped(record, arm, payload), number) = Places(record, number)
              /\ \A p \in Places(record, number) : Rewrapped(record, arm, payload).at[p] = record.at[p]
<1> DEFINE f == Field(arm, "len", payload)
           new == With(record, f)
           place == PlaceFor(record, arm)
<1>1. IsField(f) /\ f.number = arm /\ f.value = payload
  BY DEF IsField, Field, Wires
<1>2. Rewrapped(record, arm, payload) = new
  BY DEF Rewrapped
<1>3. IsMessage(record)
  BY DEF IsRecord
<1> HIDE DEF f
<1>4. IsMessage(new)
  BY <1>1, <1>3, EditsAreMessages
<1>5. Places(new, arm) = {place} /\ new.at[place] = f
  BY <1>1, <1>3, SetIsThere
<1>6. \A number : number # arm =>
        /\ Places(new, number) = Places(record, number)
        /\ \A p \in Places(record, number) : new.at[p] = record.at[p]
  BY <1>1, <1>3, SetKeepsOthers
<1>7. place \in Nat
  BY <1>3, PlaceIsFree, PlacesKnown
<1> HIDE DEF new, place
<1>8. First(Places(new, arm)) = place
  BY <1>5, <1>7, OnlyPlace
<1>9. Payload(new, arm) = payload
  BY <1>1, <1>5, <1>8 DEF Payload
<1>10. Holds(new, arm)
  <2>1. place \in DOMAIN new.at
    BY <1>5 DEF Places
  <2> QED BY <1>5, <2>1 DEF Holds
<1> QED BY <1>2, <1>4, <1>6, <1>9, <1>10 DEF IsRecord

(* An edit of a field inside a record leaves a record of the same arm,     *)
(* whose payload is edited as the message alone would be (splicing the     *)
(* wrapper, set_record_field).                                             *)
LEMMA RecordEdit ==
  ASSUME NEW arm \in Numbers, NEW record, IsRecord(record, arm)
  PROVE  /\ \A f : IsField(f) =>
              /\ IsRecord(SetRecordField(record, arm, f), arm)
              /\ Payload(SetRecordField(record, arm, f), arm) = With(Payload(record, arm), f)
         /\ \A number :
              /\ IsRecord(RemoveRecordField(record, arm, number), arm)
              /\ Payload(RemoveRecordField(record, arm, number), arm) = Without(Payload(record, arm), number)
<1>1. IsMessage(Payload(record, arm))
  BY DEF IsRecord
<1>2. ASSUME NEW f, IsField(f)
      PROVE  /\ IsRecord(SetRecordField(record, arm, f), arm)
             /\ Payload(SetRecordField(record, arm, f), arm) = With(Payload(record, arm), f)
  <2>1. IsMessage(With(Payload(record, arm), f))
    BY <1>1, <1>2, EditsAreMessages
  <2> QED BY <2>1, RewrappedHolds DEF SetRecordField
<1>3. ASSUME NEW number
      PROVE  /\ IsRecord(RemoveRecordField(record, arm, number), arm)
             /\ Payload(RemoveRecordField(record, arm, number), arm) = Without(Payload(record, arm), number)
  <2>1. IsMessage(Without(Payload(record, arm), number))
    BY <1>1, EditsAreMessages
  <2> QED BY <2>1, RewrappedHolds DEF RemoveRecordField
<1> QED BY <1>2, <1>3

(* What set_bool_field and set_varint_field_or_remove write is what        *)
(* record_varint_field reads, for the default too, which is written as an  *)
(* absence; and no other field of the record is touched, not even one this *)
(* program knows nothing of.                                               *)
THEOREM VarintReadBack ==
  ASSUME NEW arm \in Numbers, NEW record, IsRecord(record, arm),
         NEW number \in Numbers, NEW value \in Nat
  PROVE  LET new == SetVarint(record, arm, number, value)
             old == Payload(record, arm)
         IN  /\ IsRecord(new, arm)
             /\ Readable(Payload(new, arm), number) /\ RecordVarint(new, arm, number) = value
             /\ \A other : other # number =>
                  /\ Places(Payload(new, arm), other) = Places(old, other)
                  /\ \A p \in Places(old, other) : Payload(new, arm).at[p] = old.at[p]
<1> DEFINE new == SetVarint(record, arm, number, value)
           old == Payload(record, arm)
           f == Field(number, "varint", value)
<1>1. IsMessage(old)
  BY DEF IsRecord
<1>2. IsField(f) /\ f.number = number /\ f.value = value /\ f.wire = "varint"
  BY DEF IsField, Field, Wires
<1>3. CASE value = 0
  <2>1. IsRecord(new, arm) /\ Payload(new, arm) = Without(old, number)
    BY <1>3, RecordEdit DEF SetVarint
  <2> HIDE DEF new, old
  <2>2. Places(Payload(new, arm), number) = {}
    BY <1>1, <2>1, RemovedIsGone
  <2>3. Readable(Payload(new, arm), number) /\ RecordVarint(new, arm, number) = value
    BY <1>3, <2>2 DEF Readable, RecordVarint, Varint
  <2>4. \A other : other # number =>
          /\ Places(Payload(new, arm), other) = Places(old, other)
          /\ \A p \in Places(old, other) : Payload(new, arm).at[p] = old.at[p]
    BY <1>1, <2>1, RemovedIsGone
  <2> QED BY <2>1, <2>3, <2>4 DEF new, old
<1>4. CASE value # 0
  <2> DEFINE place == PlaceFor(old, number)
  <2>1. IsRecord(new, arm) /\ Payload(new, arm) = With(old, f)
    BY <1>2, <1>4, RecordEdit DEF SetVarint
  <2>2. place \in Nat
    BY <1>1, PlaceIsFree, PlacesKnown
  <2> HIDE DEF new, old, f
  <2>3. Places(Payload(new, arm), number) = {place} /\ Payload(new, arm).at[place] = f
    BY <1>1, <1>2, <2>1, SetIsThere
  <2> HIDE DEF place
  <2>4. Last(Places(Payload(new, arm), number)) = place
    BY <2>2, <2>3, OnlyPlace
  <2>5. Readable(Payload(new, arm), number) /\ RecordVarint(new, arm, number) = value
    BY <1>2, <2>3, <2>4 DEF Readable, RecordVarint, Varint
  <2>6. \A other : other # number =>
          /\ Places(Payload(new, arm), other) = Places(old, other)
          /\ \A p \in Places(old, other) : Payload(new, arm).at[p] = old.at[p]
    BY <1>1, <1>2, <2>1, SetKeepsOthers
  <2> QED BY <2>1, <2>5, <2>6 DEF new, old
<1> QED BY <1>3, <1>4

LEMMA LastExists ==
  ASSUME NEW m, IsMessage(m), NEW number, Places(m, number) # {}
  PROVE  Last(Places(m, number)) \in Places(m, number)
<1> DEFINE places == Places(m, number)
           mirror == {m.end - p : p \in places}
<1>1. m.end \in Nat /\ \A p \in places : p \in 1..m.end
  BY PlacesKnown
<1>2. mirror \in SUBSET Nat /\ mirror # {}
  BY <1>1
<1>3. First(mirror) \in mirror /\ \A q \in mirror : First(mirror) <= q
  <2> HIDE DEF mirror
  <2> QED BY <1>2, FirstExists
<1>4. PICK p \in places : First(mirror) = m.end - p
  BY <1>3
<1>5. \A q \in places : q <= p
  <2> SUFFICES ASSUME NEW q \in places PROVE q <= p
    OBVIOUS
  <2>1. m.end - p <= m.end - q
    BY <1>3, <1>4
  <2> QED BY <1>1, <2>1
<1> HIDE DEF places
<1>6. Last(places) \in places
  BY <1>5 DEF Last
<1> QED BY <1>6 DEF places

(* Blocking, archiving and muting are independent: each is read back as it *)
(* was written, and writing one leaves what the others of its record say,  *)
(* however often a record's fields were written by whoever wrote it.       *)
THEOREM EditsAreIndependent ==
  ASSUME NEW field \in Flags \union Timestamps, NEW other \in Flags \union Timestamps,
         other # field, other[1] = field[1],
         NEW record, IsRecord(record, field[1]), NEW on \in BOOLEAN, NEW until \in Nat
  PROVE  /\ IsOn(Switched(record, field, on), field) = on
         /\ MutedUntil(Muted(record, field, until), field) = until
         /\ IsOn(Switched(record, field, on), other) = IsOn(record, other)
         /\ MutedUntil(Muted(record, field, until), other) = MutedUntil(record, other)
<1> DEFINE arm == field[1]
           old == Payload(record, arm)
<1>1. /\ arm \in Numbers /\ field[2] \in Numbers /\ other[2] \in Numbers
      /\ other[2] # field[2]
  BY DEF Flags, Timestamps, ContactArm, GroupArm, AccountArm, Numbers
<1>2. IsMessage(old) /\ IsRecord(record, arm)
  BY DEF IsRecord
<1> HIDE DEF old, arm
<1>3. ASSUME NEW value \in Nat
      PROVE  LET new == SetVarint(record, arm, field[2], value) IN
             /\ RecordVarint(new, arm, field[2]) = value
             /\ RecordVarint(new, arm, other[2]) = RecordVarint(record, arm, other[2])
  <2> DEFINE new == SetVarint(record, arm, field[2], value)
  <2>1. /\ RecordVarint(new, arm, field[2]) = value
        /\ Places(Payload(new, arm), other[2]) = Places(old, other[2])
        /\ \A p \in Places(old, other[2]) : Payload(new, arm).at[p] = old.at[p]
    BY <1>1, <1>2, VarintReadBack DEF old
  <2> HIDE DEF new
  <2>2. Places(old, other[2]) # {} => Last(Places(old, other[2])) \in Places(old, other[2])
    BY <1>2, LastExists
  <2>3. Varint(Payload(new, arm), other[2]) = Varint(old, other[2])
    BY <2>1, <2>2 DEF Varint
  <2> QED BY <2>1, <2>3 DEF RecordVarint, new, old
<1>4. MutedUntil(Muted(record, field, until), field) = until
  BY <1>3 DEF MutedUntil, Muted, arm
<1>5. MutedUntil(Muted(record, field, until), other) = MutedUntil(record, other)
  BY <1>3 DEF MutedUntil, Muted, arm
<1> DEFINE value == IF on THEN 1 ELSE 0
<1>6. value \in Nat /\ (value # 0) = on
  OBVIOUS
<1> HIDE DEF value
<1>7. Switched(record, field, on) = SetVarint(record, arm, field[2], value)
  BY DEF Switched, value, arm
<1>8. IsOn(Switched(record, field, on), field) = on
  BY <1>3, <1>6, <1>7 DEF IsOn, arm
<1>9. IsOn(Switched(record, field, on), other) = IsOn(record, other)
  BY <1>3, <1>6, <1>7 DEF IsOn, arm
<1> QED BY <1>4, <1>5, <1>8, <1>9

(* A pack's record is an installed one or a removed one, never both: what  *)
(* set_sticker_pack_state leaves has a key and no removal time, or a       *)
(* removal time and no key, whatever the record was before.                *)
THEOREM PackIsOneOrTheOther ==
  ASSUME NEW record, IsRecord(record, PackArm), NEW key,
         NEW position \in Nat, NEW deleted \in Nat \ {0}
  PROVE  /\ RecordVarint(Installed(record, key, position), PackArm, DeletedField) = 0
         /\ Places(Payload(Installed(record, key, position), PackArm), KeyField) # {}
         /\ RecordVarint(Removed(record, deleted), PackArm, DeletedField) = deleted
         /\ Places(Payload(Removed(record, deleted), PackArm), KeyField) = {}
<1> DEFINE keyed == SetRecordField(record, PackArm, Field(KeyField, "len", key))
           placed == SetVarint(keyed, PackArm, PositionField, position)
           unkeyed == RemoveRecordField(record, PackArm, KeyField)
           unplaced == SetVarint(unkeyed, PackArm, PositionField, 0)
           f == Field(KeyField, "len", key)
<1>0. /\ PackArm \in Numbers /\ KeyField \in Numbers /\ PositionField \in Numbers /\ DeletedField \in Numbers
      /\ KeyField # PositionField /\ KeyField # DeletedField /\ 0 \in Nat /\ deleted \in Nat
  BY DEF PackArm, KeyField, PositionField, DeletedField, Numbers
<1>1. IsField(f) /\ f.number = KeyField
  BY <1>0 DEF IsField, Field, Wires
<1>2. Installed(record, key, position) = SetVarint(placed, PackArm, DeletedField, 0)
  BY DEF Installed
<1>3. Removed(record, deleted) = SetVarint(unplaced, PackArm, DeletedField, deleted)
  BY DEF Removed
<1>4. IsRecord(keyed, PackArm) /\ Payload(keyed, PackArm) = With(Payload(record, PackArm), f)
  BY <1>0, <1>1, RecordEdit
<1>5. IsRecord(unkeyed, PackArm) /\ Payload(unkeyed, PackArm) = Without(Payload(record, PackArm), KeyField)
  BY <1>0, RecordEdit
<1>6. IsMessage(Payload(record, PackArm))
  BY DEF IsRecord
<1> HIDE DEF f
<1>7. Places(Payload(keyed, PackArm), KeyField) # {}
  BY <1>1, <1>4, <1>6, SetIsThere
<1>8. Places(Payload(unkeyed, PackArm), KeyField) = {}
  BY <1>5, <1>6, RemovedIsGone
<1> HIDE DEF keyed, unkeyed
<1>9. IsRecord(placed, PackArm) /\ Places(Payload(placed, PackArm), KeyField) # {}
  BY <1>0, <1>4, <1>7, VarintReadBack
<1>10. IsRecord(unplaced, PackArm) /\ Places(Payload(unplaced, PackArm), KeyField) = {}
  BY <1>0, <1>5, <1>8, VarintReadBack
<1> HIDE DEF placed, unplaced
<1>11. /\ RecordVarint(SetVarint(placed, PackArm, DeletedField, 0), PackArm, DeletedField) = 0
       /\ Places(Payload(SetVarint(placed, PackArm, DeletedField, 0), PackArm), KeyField) # {}
  BY <1>0, <1>9, VarintReadBack
<1>12. /\ RecordVarint(SetVarint(unplaced, PackArm, DeletedField, deleted), PackArm, DeletedField) = deleted
       /\ Places(Payload(SetVarint(unplaced, PackArm, DeletedField, deleted), PackArm), KeyField) = {}
  BY <1>0, <1>10, VarintReadBack
<1> QED BY <1>2, <1>3, <1>11, <1>12

(* Rebuilding a folder's record from the model carries over exactly the    *)
(* fields the model does not know, as they were and after its own          *)
(* (encode_chat_folder_record).                                            *)
THEOREM FolderKeepsUnknown ==
  ASSUME NEW model, IsMessage(model), NEW folder, IsMessage(folder),
         \A p \in DOMAIN model.at : model.at[p].number \in KnownFolderFields
  PROVE  /\ IsMessage(EncodedFolder(model, folder))
         /\ Unknown(EncodedFolder(model, folder)) = {model.end + p : p \in Unknown(folder)}
         /\ \A p \in Unknown(folder) : EncodedFolder(model, folder).at[model.end + p] = folder.at[p]
         /\ \A p \in DOMAIN model.at : EncodedFolder(model, folder).at[p] = model.at[p]
<1> DEFINE new == EncodedFolder(model, folder)
<1>1. /\ model.end \in Nat /\ DOMAIN model.at \subseteq 1..model.end
      /\ folder.end \in Nat /\ DOMAIN folder.at \subseteq 1..folder.end
      /\ \A p \in DOMAIN model.at : IsField(model.at[p])
      /\ \A p \in DOMAIN folder.at : IsField(folder.at[p])
  BY DEF IsMessage
<1>2. /\ new.end = model.end + folder.end
      /\ DOMAIN new.at = DOMAIN model.at \union {model.end + q : q \in Unknown(folder)}
      /\ \A p \in DOMAIN new.at : new.at[p] = IF p <= model.end THEN model.at[p] ELSE folder.at[p - model.end]
  BY DEF EncodedFolder
<1>3. Unknown(folder) \subseteq DOMAIN folder.at
  BY DEF Unknown
<1> HIDE DEF new
<1>4. \A p \in DOMAIN model.at : p \in DOMAIN new.at /\ new.at[p] = model.at[p]
  BY <1>1, <1>2
<1>5. ASSUME NEW q \in Unknown(folder)
      PROVE  /\ model.end + q \in DOMAIN new.at /\ new.at[model.end + q] = folder.at[q]
             /\ model.end + q \in 1..new.end
  <2>1. q \in 1..folder.end
    BY <1>1, <1>3
  <2>2. model.end + q \in DOMAIN new.at /\ ~ (model.end + q <= model.end) /\ (model.end + q) - model.end = q
    BY <1>1, <1>2, <2>1
  <2> QED BY <1>1, <1>2, <2>1, <2>2
<1>6. IsMessage(new)
  <2>1. DOMAIN new.at \subseteq 1..new.end
    BY <1>1, <1>2, <1>5
  <2>2. ASSUME NEW p \in DOMAIN new.at PROVE IsField(new.at[p])
    BY <1>1, <1>2, <1>3, <1>4, <1>5
  <2> QED BY <1>1, <1>2, <2>1, <2>2 DEF IsMessage
<1>7. Unknown(new) = {model.end + p : p \in Unknown(folder)}
  <2>1. \A q \in Unknown(folder) : model.end + q \in Unknown(new)
    BY <1>5 DEF Unknown
  <2>2. \A p \in Unknown(new) : p \in {model.end + q : q \in Unknown(folder)}
    BY <1>2, <1>4 DEF Unknown
  <2> QED BY <2>1, <2>2
<1> QED BY <1>4, <1>5, <1>6, <1>7 DEF new
=============================================================================
