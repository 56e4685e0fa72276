--------------------------- MODULE ProtocolStore ---------------------------
(***************************************************************************)
(* The keys that let a stranger start a session with this device, as the   *)
(* SQLite store keeps them (presage-store-sqlite/src/protocol.rs) for one  *)
(* of the account's two identities.  Everything here is a function of the  *)
(* tables; Device says when each is called.                                *)
(*                                                                         *)
(* A table is a set of rows with distinct ids.  The two kinds of kyber key *)
(* share a table and its ids: a one-time key goes when it is used, a last- *)
(* resort key stays and remembers the base keys it was used with.          *)
(***************************************************************************)
EXTENDS Naturals, FiniteSets, FiniteSetsExt

CONSTANTS TrustNewIdentities \* OnNewIdentity::Trust rather than Reject

ASSUME TrustAssumption == TrustNewIdentities \in BOOLEAN

(* `key` stands for the secret, and names the batch it was drawn in.       *)
Key == [id : Nat, key : Nat, last : BOOLEAN]
Tables == [pre : SUBSET Key, signed : SUBSET Key, kyber : SUBSET Key,
           seen : SUBSET (Nat \X Nat \X Nat), sessions : SUBSET Nat, identity : Nat]
NoTables == [pre |-> {}, signed |-> {}, kyber |-> {}, seen |-> {}, sessions |-> {}, identity |-> 0]

(* A message that starts a session: the keys it was made with, the base    *)
(* key it brings, and the identity that wrote it.                          *)
Message == [base : Nat, pre : SUBSET Key, kyber : Key, signed : Key, from : Nat]

(* Faulty: ids count the rows, so a used key's id comes back too early.    *)
NextIdOfCount(table) == Cardinality(table) + 1

(* next_pre_key_id, next_signed_pre_key_id and next_pq_pre_key_id.         *)
NextId(table) == IF table = {} THEN 1 ELSE Max({k.id : k \in table}) + 1

(* save_pre_key and save_signed_pre_key replace the row of an id; a        *)
(* one-time kyber key leaves the row's last_resort flag alone.             *)
Upsert(table, k) == {r \in table : r.id # k.id} \union {k}
SaveKyber(table, k) == Upsert(table, [k EXCEPT !.last = \E r \in table : r.id = k.id /\ r.last])
SaveLastResort(table, k) == Upsert(table, [k EXCEPT !.last = TRUE])

LastResorts(db) == {k \in db.kyber : k.last}

(* What an account needs locally before the server's stock is trusted:     *)
(* signed_pre_keys_count, kyber_pre_keys_count and the two ids.            *)
Stocked(db) == db.signed # {} /\ LastResorts(db) # {}

(* replenish_pre_keys: one key of each kind stands for a batch of them.    *)
(* A last-resort key is only made when there is none.                      *)
Batch(db, b) ==
  LET new(table, ahead) == [id |-> NextId(table) + ahead, key |-> b, last |-> FALSE] IN
  [pre |-> new(db.pre, 0), signed |-> new(db.signed, 0), kyber |-> new(db.kyber, 0),
   last |-> IF LastResorts(db) # {} THEN CHOOSE k \in LastResorts(db) : \A r \in LastResorts(db) : k.id <= r.id
            ELSE [new(db.kyber, 1) EXCEPT !.last = TRUE]]

Saved(db, batch) ==
  [db EXCEPT !.pre = Upsert(@, batch.pre), !.signed = Upsert(@, batch.signed),
             !.kyber = SaveLastResort(SaveKyber(@, batch.kyber), batch.last)]

(* What the server hands out once a batch has been uploaded.               *)
Shelf == [pre : SUBSET Key, kyber : SUBSET Key, signed : SUBSET Key, last : SUBSET Key]
EmptyShelf == [pre |-> {}, kyber |-> {}, signed |-> {}, last |-> {}]
Shelved(batch) == [pre |-> {batch.pre}, kyber |-> {batch.kyber}, signed |-> {batch.signed}, last |-> {batch.last}]

(* The secrets a message was made with are still the ones of those ids.    *)
HasKyber(db, k) == \E r \in db.kyber : r.id = k.id /\ r.key = k.key
Holds(db, m) == m.pre \subseteq db.pre /\ m.signed \in db.signed /\ HasKyber(db, m.kyber)

LastResort(db, m) == \E r \in db.kyber : r.id = m.kyber.id /\ r.last
Use(m) == <<m.kyber.id, m.signed.id, m.base>>
Replayed(db, m) == LastResort(db, m) /\ Use(m) \in db.seen

(* Faulty: a last-resort key's use leaves no trace.                        *)
MarkUsedOneTime(db, m) ==
  IF LastResort(db, m) THEN db ELSE [db EXCEPT !.kyber = {r \in @ : r.id # m.kyber.id}]

(* mark_kyber_pre_key_used.                                                *)
MarkUsed(db, m) ==
  IF LastResort(db, m) THEN [db EXCEPT !.seen = @ \union {Use(m)}]
  ELSE [db EXCEPT !.kyber = {r \in @ : r.id # m.kyber.id}]

(* is_trusted_identity, and save_identity with the session.                *)
Trusted(db, from) == db.identity \in {0, from} \/ TrustNewIdentities
Opens(db, m) == Trusted(db, m.from) /\ Holds(db, m) /\ ~ Replayed(db, m)
Opened(db, m) ==
  [MarkUsed(db, m) EXCEPT !.pre = @ \ m.pre, !.sessions = @ \union {m.base}, !.identity = m.from]
=============================================================================
