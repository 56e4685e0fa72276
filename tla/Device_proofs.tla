---------------------------- MODULE Device_proofs ----------------------------
(***************************************************************************)
(* What Device guarantees for any number of enrolments, entropy pools,     *)
(* calls, failures, pre-keys and messages, and archives of any length.     *)
(***************************************************************************)
EXTENDS Device, WellFoundedInduction, TLAPS

(***************************************************************************)
(* The tables of pre-keys                                                  *)
(***************************************************************************)
LEMMA Minimum ==
  ASSUME NEW S \in SUBSET Nat, S # {}
  PROVE  \E x \in S : \A y \in S : x <= y
<1>1. \E x \in S : \A y \in S : ~ (<<y, x>> \in OpToRel(<, Nat))
  BY NatLessThanWellFounded, WFMin, Zenon
<1>2. PICK x \in S : \A y \in S : ~ (<<y, x>> \in OpToRel(<, Nat))
  BY <1>1, Zenon
<1>3. \A y \in S : ~ (y < x)
  BY <1>2, Zenon DEF OpToRel
<1> QED BY <1>3

(* Ids are never unlimited: every table is finite.                         *)
Bounded(table) == \E n \in Nat : \A k \in table : k.id <= n

LEMMA NextIdIsFree ==
  ASSUME NEW table \in SUBSET Key, Bounded(table)
  PROVE  NextId(table) \in Nat \ {0} /\ \A k \in table : k.id < NextId(table)
<1>1. CASE table = {}
  BY <1>1 DEF NextId
<1>2. CASE table # {}
  <2> DEFINE ids == {k.id : k \in table}
             bounds == {n \in Nat : \A k \in table : k.id <= n}
  <2>1. PICK n \in bounds : \A y \in bounds : n <= y
    BY Minimum DEF Bounded
  <2>2. ids \in SUBSET Nat /\ ids # {}
    BY <1>2 DEF Key
  <2>3. n \in ids
    <3>1. SUFFICES ASSUME n \notin ids PROVE FALSE
      OBVIOUS
    <3>2. \A k \in table : k.id \in Nat /\ k.id <= n /\ k.id # n
      BY <2>1, <3>1 DEF Key
    <3>3. PICK k \in table : TRUE
      BY <1>2
    <3>4. n - 1 \in bounds
      BY <2>1, <3>2, <3>3
    <3> QED BY <2>1, <3>4
  <2>4. \A y \in ids : n >= y
    BY <2>1
  <2>5. Max(ids) \in ids /\ \A y \in ids : Max(ids) >= y
    BY <2>3, <2>4 DEF Max
  <2>6. NextId(table) = Max(ids) + 1
    BY <1>2 DEF NextId
  <2> HIDE DEF ids
  <2>7. NextId(table) \in Nat \ {0} /\ \A y \in ids : y < NextId(table)
    <3>1. PICK x \in Nat : x = Max(ids)
      BY <2>2, <2>5
    <3>2. NextId(table) = x + 1 /\ \A y \in ids : y \in Nat /\ y <= x
      BY <2>2, <2>5, <2>6, <3>1
    <3> QED BY <3>2
  <2> QED BY <2>7 DEF ids
<1> QED BY <1>1, <1>2

LEMMA UpsertType ==
  ASSUME NEW table \in SUBSET Key, Bounded(table), NEW k \in Key
  PROVE  /\ Upsert(table, k) \in SUBSET Key /\ Bounded(Upsert(table, k))
         /\ SaveKyber(table, k) \in SUBSET Key /\ Bounded(SaveKyber(table, k))
         /\ SaveLastResort(table, k) \in SUBSET Key /\ Bounded(SaveLastResort(table, k))
<1>1. ASSUME NEW r \in Key
      PROVE  Upsert(table, r) \in SUBSET Key /\ Bounded(Upsert(table, r))
  <2>1. PICK n \in Nat : \A q \in table : q.id <= n
    BY DEF Bounded
  <2>2. r.id \in Nat /\ \A q \in table : q.id \in Nat
    BY DEF Key
  <2>3. n + r.id \in Nat /\ \A q \in Upsert(table, r) : q.id <= n + r.id
    BY <2>1, <2>2 DEF Upsert
  <2> QED BY <2>3 DEF Upsert, Bounded
<1>2. [k EXCEPT !.last = TRUE] \in Key
  BY DEF Key
<1>3. [k EXCEPT !.last = \E r \in table : r.id = k.id /\ r.last] \in Key
  BY DEF Key
<1> QED BY <1>1, <1>2, <1>3 DEF SaveKyber, SaveLastResort

Batches == [pre : Key, signed : Key, kyber : Key, last : Key]
Sized(tables) == Bounded(tables.pre) /\ Bounded(tables.signed) /\ Bounded(tables.kyber)

(* The last-resort key a batch takes again is one of the table.            *)
LEMMA LeastResort ==
  ASSUME NEW tables \in Tables, LastResorts(tables) # {}
  PROVE  (CHOOSE k \in LastResorts(tables) : \A r \in LastResorts(tables) : k.id <= r.id) \in LastResorts(tables)
<1>1. LastResorts(tables) \in SUBSET Key
  BY DEF LastResorts, Tables
<1>2. {k.id : k \in LastResorts(tables)} \in SUBSET Nat /\ {k.id : k \in LastResorts(tables)} # {}
  BY <1>1 DEF Key
<1>3. PICK x \in {k.id : k \in LastResorts(tables)} : \A y \in {k.id : k \in LastResorts(tables)} : x <= y
  BY <1>2, Minimum
<1>4. PICK k \in LastResorts(tables) : k.id = x
  BY <1>3
<1>5. \A r \in LastResorts(tables) : k.id <= r.id
  BY <1>3, <1>4
<1> QED BY <1>5

LEMMA BatchType ==
  ASSUME NEW tables \in Tables, Sized(tables), NEW b \in Nat
  PROVE  Batch(tables, b) \in Batches
<1>1. NextId(tables.pre) \in Nat /\ NextId(tables.signed) \in Nat /\ NextId(tables.kyber) \in Nat
  BY NextIdIsFree DEF Sized, Tables
<1>2. LastResorts(tables) \in SUBSET Key
  BY DEF LastResorts, Tables
<1>3. \A id \in Nat : [id |-> id, key |-> b, last |-> FALSE] \in Key
  BY DEF Key
<1>4. \A k \in Key : [k EXCEPT !.last = TRUE] \in Key
  BY DEF Key
<1>5. NextId(tables.pre) + 0 \in Nat /\ NextId(tables.signed) + 0 \in Nat /\ NextId(tables.kyber) + 0 \in Nat
      /\ NextId(tables.kyber) + 1 \in Nat
  BY <1>1
<1> QED BY <1>2, <1>3, <1>4, <1>5, LeastResort DEF Batch, Batches

LEMMA SavedType ==
  ASSUME NEW tables \in Tables, Sized(tables), NEW batch \in Batches
  PROVE  Saved(tables, batch) \in Tables /\ Sized(Saved(tables, batch))
<1>1. tables.pre \in SUBSET Key /\ tables.signed \in SUBSET Key /\ tables.kyber \in SUBSET Key
  BY DEF Tables
<1>2. batch.pre \in Key /\ batch.signed \in Key /\ batch.kyber \in Key /\ batch.last \in Key
  BY DEF Batches
<1>3. Upsert(tables.pre, batch.pre) \in SUBSET Key /\ Bounded(Upsert(tables.pre, batch.pre))
  BY <1>1, <1>2, UpsertType DEF Sized
<1>4. Upsert(tables.signed, batch.signed) \in SUBSET Key /\ Bounded(Upsert(tables.signed, batch.signed))
  BY <1>1, <1>2, UpsertType DEF Sized
<1>5. SaveKyber(tables.kyber, batch.kyber) \in SUBSET Key /\ Bounded(SaveKyber(tables.kyber, batch.kyber))
  BY <1>1, <1>2, UpsertType DEF Sized
<1>6. /\ SaveLastResort(SaveKyber(tables.kyber, batch.kyber), batch.last) \in SUBSET Key
      /\ Bounded(SaveLastResort(SaveKyber(tables.kyber, batch.kyber), batch.last))
  BY <1>2, <1>5, UpsertType
<1>7. Saved(tables, batch) =
        [tables EXCEPT !.pre = Upsert(tables.pre, batch.pre), !.signed = Upsert(tables.signed, batch.signed),
                       !.kyber = SaveLastResort(SaveKyber(tables.kyber, batch.kyber), batch.last)]
  BY DEF Saved
<1> QED BY <1>3, <1>4, <1>6, <1>7 DEF Tables, Sized

LEMMA OpenedType ==
  ASSUME NEW tables \in Tables, Sized(tables), NEW m \in Message
  PROVE  /\ MarkUsed(tables, m) \in Tables /\ Sized(MarkUsed(tables, m))
         /\ Opened(tables, m) \in Tables /\ Sized(Opened(tables, m))
<1>1. MarkUsed(tables, m) \in Tables /\ MarkUsed(tables, m).kyber \subseteq tables.kyber
      /\ MarkUsed(tables, m).pre = tables.pre /\ MarkUsed(tables, m).signed = tables.signed
  <2>1. Use(m) \in Nat \X Nat \X Nat
    BY DEF Use, Message, Key
  <2> QED BY <2>1 DEF MarkUsed, Tables
<1>2. Sized(MarkUsed(tables, m))
  BY <1>1 DEF Sized, Bounded
<1>3. /\ Opened(tables, m) \in Tables
      /\ Opened(tables, m).kyber = MarkUsed(tables, m).kyber /\ Opened(tables, m).signed = MarkUsed(tables, m).signed
      /\ Opened(tables, m).pre \subseteq MarkUsed(tables, m).pre
  BY <1>1 DEF Opened, Message, Tables
<1> QED BY <1>1, <1>2, <1>3 DEF Sized, Bounded

(***************************************************************************)
(* The rows of an archive                                                  *)
(***************************************************************************)
Runs == [item : Item, of : SUBSET Nat, creates : SUBSET Nat]

LEMMA ArchiveType == Archives \subseteq Seq(Item)
<1>1. ASSUME NEW a \in SeqOf(Item, MaxItems) PROVE a \in Seq(Item)
  BY DEF SeqOf
<1> QED BY <1>1 DEF Archives

LEMMA ItemType ==
  ASSUME NEW item \in Item
  PROVE  item.kind \in ItemKinds /\ item.author \in Authors /\ item.at \in 1..MaxTime
BY DEF Item

LEMMA RunType ==
  /\ NoRun \in Runs
  /\ \A item \in Item, i \in Nat : Run(item, i) \in Runs
  /\ \A held \in Runs, item \in Item, i \in Nat : Absorb(held, item, i) \in Runs
<1>1. AnyAuthor \in Authors
  BY ArchiveAssumption DEF AnyAuthor
<1>2. [kind |-> "unknown", author |-> AnyAuthor, at |-> 1] \in Item
  BY <1>1, ArchiveAssumption DEF Item, ItemKinds, Groupish
<1>3. NoRun \in Runs
  BY <1>2 DEF NoRun, Runs
<1>4. \A item \in Item, i \in Nat : Run(item, i) \in Runs
  BY DEF Run, Runs
<1>5. \A held \in Runs, item \in Item, i \in Nat : Absorb(held, item, i) \in Runs
  BY DEF Absorb, Runs
<1> QED BY <1>3, <1>4, <1>5

LEMMA ImportedType ==
  ASSUME NEW old \in History, NEW run \in Runs
  PROVE  Imported(old, run) \in History
<1>1. run.item \in Item /\ run.of \in SUBSET Nat /\ run.creates \in SUBSET Nat
  BY DEF Runs
<1>2. run.item.kind \in ItemKinds
  BY <1>1, ItemType
<1>3. GroupRow(run) \in Row /\ PlainRow(run) \in Row /\ EditRow(run) \in Row
  BY <1>1, <1>2 DEF GroupRow, PlainRow, EditRow, Row, ItemKinds, Groupish
<1>4. \A t \in DOMAIN RowsOf(run) : RowsOf(run)[t] \in Row
  <2>1. CASE run.item.kind = "unknown"
    BY <2>1 DEF RowsOf, Groupish
  <2>2. CASE run.item.kind \in Groupish
    BY <1>3, <2>2 DEF RowsOf, Groupish
  <2>3. CASE run.item.kind = "edited"
    BY <1>3, <2>3 DEF RowsOf, Groupish
  <2>4. CASE run.item.kind \notin Groupish \union {"unknown", "edited"}
    BY <1>3, <2>4 DEF RowsOf
  <2> QED BY <2>1, <2>2, <2>3, <2>4
<1>5. old.rows \in [1..MaxTime + 1 -> Row] /\ old.call \in CallEntry
  BY DEF History
<1>6. Imported(old, run).rows \in [1..MaxTime + 1 -> Row]
  BY <1>4, <1>5 DEF Imported
<1>7. Transition(old.call, CallOf(run.item)) \in CallEntry
  <2>1. CallOf(run.item).mode = "direct" /\ CallOf(run.item).kind \in Kinds
    BY DEF CallOf, Kinds
  <2>2. old.call.status \in Statuses
    BY <1>5 DEF CallEntry
  <2> QED BY <2>1, <2>2 DEF Transition, DirectStatus, Prior, CallEntry, Statuses, Modes
<1>8. Imported(old, run).call \in CallEntry
  BY <1>5, <1>7 DEF Imported
<1> QED BY <1>6, <1>8 DEF Imported, History

LEMMA ShortSequence ==
  ASSUME NEW R, NEW s \in Seq(R), Len(s) <= 2
  PROVE  \/ s = <<>>
         \/ s # <<>> /\ Len(s) = 1 /\ s[1] \in R
         \/ s # <<>> /\ Len(s) = 2 /\ s[1] \in R /\ s[2] \in R
<1>1. PICK n \in Nat : n = Len(s)
  OBVIOUS
<1>2. n = 0 \/ n = 1 \/ n = 2
  BY <1>1
<1> QED BY <1>1, <1>2

LEMMA ImportedAllType ==
  ASSUME NEW old \in History, NEW ready \in Seq(Runs), Len(ready) <= 2
  PROVE  ImportedAll(old, ready) \in History
<1>1. CASE ready = <<>>
  BY <1>1 DEF ImportedAll
<1>2. CASE ready # <<>> /\ Len(ready) = 1 /\ ready[1] \in Runs
  BY <1>2, ImportedType DEF ImportedAll
<1>3. CASE ready # <<>> /\ Len(ready) = 2 /\ ready[1] \in Runs /\ ready[2] \in Runs
  <2>1. Imported(Imported(old, ready[1]), ready[2]) \in History
    BY <1>3, ImportedType
  <2> QED BY <1>3, <2>1 DEF ImportedAll
<1> QED BY <1>1, <1>2, <1>3, ShortSequence

(* An item makes no more than two runs ready.                              *)
LEMMA CoalesceType ==
  ASSUME NEW held \in Runs, NEW item \in Item, NEW i \in Nat
  PROVE  /\ Coalesce(held, item, i).held \in Runs
         /\ Coalesce(held, item, i).ready \in Seq(Runs)
         /\ Len(Coalesce(held, item, i).ready) <= 2
<1> DEFINE read == Coalesce(held, item, i)
           before == IF held.of = {} THEN <<>> ELSE <<held>>
<1>1. Run(item, i) \in Runs /\ Absorb(held, item, i) \in Runs /\ NoRun \in Runs
  BY RunType
<1>2. before \in Seq(Runs) /\ Len(before) <= 1 /\ Len(before) \in Nat
  OBVIOUS
<1>3. read.held \in Runs /\ read.ready \in {<<>>, before, Append(before, Run(item, i))}
  BY <1>1 DEF Coalesce
<1> HIDE DEF before, read
<1>4. Append(before, Run(item, i)) \in Seq(Runs) /\ Len(Append(before, Run(item, i))) = Len(before) + 1
  BY <1>1, <1>2
<1>5. <<>> \in Seq(Runs) /\ Len(<<>>) = 0
  OBVIOUS
<1>6. read.ready \in Seq(Runs) /\ Len(read.ready) <= 2
  <2>1. ASSUME read.ready = <<>> PROVE read.ready \in Seq(Runs) /\ Len(read.ready) <= 2
    BY <1>5, <2>1
  <2>2. ASSUME read.ready = before PROVE read.ready \in Seq(Runs) /\ Len(read.ready) <= 2
    BY <1>2, <2>2
  <2>3. ASSUME read.ready = Append(before, Run(item, i)) PROVE read.ready \in Seq(Runs) /\ Len(read.ready) <= 2
    BY <1>2, <1>4, <2>3
  <2> QED BY <1>3, <2>1, <2>2, <2>3
<1> QED BY <1>3, <1>6 DEF read

(***************************************************************************)
(* The stores still to be made of a linking or a registration.             *)
(***************************************************************************)
AfterPni == {<<"wire", "reg">>, <<"reg">>, <<"master", "pool", "reg">>, <<"pool", "reg">>}
AfterAci == AfterPni \union {<<"pni", "wire", "reg">>, <<"pni", "master", "pool", "reg">>}
Pending == AfterAci \union {<<"code", "aci", "pni", "wire", "reg">>, <<"aci", "pni", "wire", "reg">>,
                            <<"backup", "aci", "pni", "master", "pool", "reg">>,
                            <<"aci", "pni", "master", "pool", "reg">>}
(* Those left once the server has been told.                               *)
AfterServer == {<<"reg">>, <<"pool", "reg">>, <<"master", "pool", "reg">>, <<"pni", "master", "pool", "reg">>,
                <<"aci", "pni", "master", "pool", "reg">>, <<"backup", "aci", "pni", "master", "pool", "reg">>}
Todos == Pending \union {<<>>, <<"scan">>}

LEMMA TodoSteps ==
  ASSUME NEW s \in Pending
  PROVE  /\ Tail(s) \in Pending \union {<<>>}
         /\ Head(s) \in {"backup", "aci", "pni", "master", "pool", "reg", "code", "wire"}
         /\ Tail(s) = <<>> <=> Head(s) = "reg"
         /\ Tail(s) = <<>> => s \in AfterPni
         /\ Tail(s) \in AfterAci => s \in AfterAci \/ Head(s) = "aci"
         /\ Tail(s) \in AfterPni => s \in AfterPni \/ Head(s) = "pni"
         /\ Tail(s) \in AfterServer => s \in AfterServer \/ Head(s) = "wire"
         /\ Head(s) = "reg" => s \in AfterAci \intersect AfterPni \intersect AfterServer
         /\ s # <<>> /\ s # <<"scan">>
         /\ Head(s) = "pool" => s = <<"pool", "reg">>
         /\ Tail(s) # <<>> /\ Head(Tail(s)) = "pool" => Head(s) = "master"
<1>1. CASE s = <<"code", "aci", "pni", "wire", "reg">>
  BY <1>1 DEF Pending, AfterAci, AfterPni, AfterServer
<1>2. CASE s = <<"backup", "aci", "pni", "master", "pool", "reg">>
  BY <1>2 DEF Pending, AfterAci, AfterPni, AfterServer
<1>3. CASE s = <<"aci", "pni", "wire", "reg">>
  BY <1>3 DEF Pending, AfterAci, AfterPni, AfterServer
<1>4. CASE s = <<"pni", "wire", "reg">>
  BY <1>4 DEF Pending, AfterAci, AfterPni, AfterServer
<1>5. CASE s = <<"wire", "reg">>
  BY <1>5 DEF Pending, AfterAci, AfterPni, AfterServer
<1>6. CASE s = <<"reg">>
  BY <1>6 DEF Pending, AfterAci, AfterPni, AfterServer
<1>7. CASE s = <<"aci", "pni", "master", "pool", "reg">>
  BY <1>7 DEF Pending, AfterAci, AfterPni, AfterServer
<1>8. CASE s = <<"pni", "master", "pool", "reg">>
  BY <1>8 DEF Pending, AfterAci, AfterPni, AfterServer
<1>9. CASE s = <<"master", "pool", "reg">>
  BY <1>9 DEF Pending, AfterAci, AfterPni, AfterServer
<1>10. CASE s = <<"pool", "reg">>
  BY <1>10 DEF Pending, AfterAci, AfterPni, AfterServer
<1> QED BY <1>1, <1>2, <1>3, <1>4, <1>5, <1>6, <1>7, <1>8, <1>9, <1>10 DEF Pending, AfterAci, AfterPni, AfterServer

(* What is left after a step that is no store.                             *)
LEMMA AnswerSteps ==
  ASSUME NEW s \in Pending, Head(s) \in {"wire", "code"}
  PROVE  /\ Tail(s) # <<>> /\ Tail(s) # <<"pool", "reg">> /\ s # <<"pool", "reg">>
         /\ Tail(s) \in Pending
         /\ Tail(s) \in AfterAci => s \in AfterAci
         /\ Tail(s) \in AfterPni => s \in AfterPni
         /\ Head(s) = "code" => Tail(s) \notin AfterServer
<1>1. s \in {<<"code", "aci", "pni", "wire", "reg">>, <<"wire", "reg">>}
  BY DEF Pending, AfterAci, AfterPni
<1>2. CASE s = <<"code", "aci", "pni", "wire", "reg">>
  BY <1>2 DEF Pending, AfterAci, AfterPni, AfterServer
<1>3. CASE s = <<"wire", "reg">>
  BY <1>3 DEF Pending, AfterAci, AfterPni, AfterServer
<1> QED BY <1>1, <1>2, <1>3

LEMMA Orders ==
  /\ RegisterOrder \in Pending /\ RegisterOrder \notin AfterAci \union AfterServer
  /\ LinkOrder \in Pending /\ LinkOrder \notin AfterAci
  /\ Tail(LinkOrder) \in Pending /\ Tail(LinkOrder) \notin AfterAci
  /\ <<>> \notin AfterServer \union AfterAci /\ <<"scan">> \notin AfterServer \union AfterAci
  /\ Head(RegisterOrder) # "pool" /\ Head(LinkOrder) # "pool" /\ Head(Tail(LinkOrder)) # "pool"
  /\ Head(<<"scan">>) = "scan" /\ <<"scan">> # <<>> /\ <<>> \notin Pending /\ <<"scan">> \notin Pending
BY DEF Pending, AfterAci, AfterPni, AfterServer, RegisterOrder, LinkOrder

(***************************************************************************)
(* The pre-keys.  Rows of a table have distinct ids.                       *)
(***************************************************************************)
Distinct(table) == \A r, s \in table : r.id = s.id => r = s
Rows(d) == Distinct(d.pre) /\ Distinct(d.signed) /\ Distinct(d.kyber)
Free(table, id) == \A r \in table : r.id # id

(* A batch still to be saved overwrites nothing.                           *)
Drawn(d, batch) ==
  /\ Free(d.pre, batch.pre.id) /\ Free(d.signed, batch.signed.id) /\ Free(d.kyber, batch.kyber.id)
  /\ \/ batch.last \in d.kyber
     \/ Free(d.kyber, batch.last.id) /\ batch.last.id # batch.kyber.id /\ batch.last.key = batch.kyber.key

InStore(d, batch) ==
  batch.pre \in d.pre /\ batch.signed \in d.signed /\ batch.kyber \in d.kyber /\ batch.last \in d.kyber

(* Its one-time keys have a number of their own, its last-resort key may   *)
(* be an old one.                                                          *)
Numbered(batch, n) ==
  /\ batch.pre.key = batch.kyber.key /\ batch.kyber.key <= n /\ batch.last.key <= n
  /\ ~ batch.kyber.last /\ batch.last.last

(* No key of batch `n` was ever handed out.                                *)
Avoids(n, shelf, wire) ==
  /\ \A k \in shelf.pre \union shelf.kyber \union shelf.last : k.key # n
  /\ \A m \in wire : m.kyber.key # n /\ \A k \in m.pre : k.key # n

(* A one-time key is handed out once.                                      *)
HandedOnce(shelf, wire) ==
  /\ \A k \in shelf.kyber : ~ k.last
  /\ \A k \in shelf.last : k.last
  /\ \A m \in wire : m.pre \intersect shelf.pre = {} /\ (~ m.kyber.last => m.kyber \notin shelf.kyber)
  /\ \A m, o \in wire : m # o => m.base # o.base /\ m.pre \intersect o.pre = {} /\ (~ m.kyber.last => m.kyber # o.kyber)

Kept(d, shelf) ==
  shelf.pre \subseteq d.pre /\ shelf.signed \subseteq d.signed /\ shelf.kyber \subseteq d.kyber /\ shelf.last \subseteq d.kyber
Openable(d, m) == m.pre \subseteq d.pre /\ m.signed \in d.signed /\ m.kyber \in d.kyber

(* A message that used its keys is refused from then on.                   *)
Refused(d, m) == ~ HasKyber(d, m.kyber) \/ Replayed(d, m)
Used(m, opened, half) == opened[m.base] # 0 \/ m.base \in half

Drawing(d, r, n) ==
  /\ Rows(d) /\ \A k \in d.kyber : k.key <= n
  /\ r.step \in {"save", "upload"} => Numbered(r.batch, n)
  /\ r.step = "save" => Drawn(d, r.batch)
  /\ r.step = "upload" => InStore(d, r.batch)
Handing(shelf, wire, r, n) ==
  /\ HandedOnce(shelf, wire)
  /\ \A i \in Nat : i > n => Avoids(i, shelf, wire)
  /\ r.step \in {"save", "upload"} => Avoids(r.batch.kyber.key, shelf, wire)
Receiving(d, wire, opened, half, n) ==
  /\ n <= MaxSends
  /\ \A b \in 1..MaxSends : opened[b] <= 1 /\ (opened[b] # 0 => b <= n)
  /\ half \subseteq 1..n
  /\ \A m \in wire : m.base \in 1..n /\ (Used(m, opened, half) => Refused(d, m))
Holding(d, shelf, wire, opened, half) == Kept(d, shelf) /\ \A m \in wire : Used(m, opened, half) \/ Openable(d, m)

(* The stock the server has is the one of this device's enrolment.         *)
Ours == server.owner # 0 /\ server.owner \in {kv.reg, job.e}

PreKeys ==
  /\ Drawing(db, refresh, spent.batches)
  /\ Handing(server.shelf, server.wire, refresh, spent.batches)
  /\ Receiving(db, server.wire, told.opened, told.half, spent.sends)
  /\ Ours => Holding(db, server.shelf, server.wire, told.opened, told.half)

(***************************************************************************)
(* What becomes of them                                                    *)
(***************************************************************************)
Refreshes == [step : {"idle", "status", "save", "upload"}, batch : Batches]

LEMMA BatchDrawn ==
  ASSUME NEW d \in Tables, Sized(d), NEW n \in Nat, \A k \in d.kyber : k.key <= n
  PROVE  /\ Batch(d, n + 1) \in Batches
         /\ Drawn(d, Batch(d, n + 1)) /\ Numbered(Batch(d, n + 1), n + 1)
         /\ Batch(d, n + 1).kyber.key = n + 1
<1> DEFINE b == Batch(d, n + 1)
           resort == CHOOSE k \in LastResorts(d) : \A r \in LastResorts(d) : k.id <= r.id
<1>1. b \in Batches
  BY BatchType
<1>2. /\ NextId(d.pre) \in Nat /\ NextId(d.signed) \in Nat /\ NextId(d.kyber) \in Nat
      /\ \A k \in d.pre : k.id < NextId(d.pre)
      /\ \A k \in d.signed : k.id < NextId(d.signed)
      /\ \A k \in d.kyber : k.id < NextId(d.kyber)
  BY NextIdIsFree DEF Sized, Tables
<1>3. \A k \in d.pre \union d.signed \union d.kyber : k.id \in Nat /\ k.key \in Nat
  BY DEF Tables, Key
<1>4. LastResorts(d) # {} => resort \in d.kyber /\ resort.last
  BY <1>1, LeastResort DEF LastResorts
<1>5. /\ b.pre.id = NextId(d.pre) /\ b.signed.id = NextId(d.signed) /\ b.kyber.id = NextId(d.kyber)
      /\ b.pre.key = n + 1 /\ b.kyber.key = n + 1 /\ ~ b.kyber.last
      /\ IF LastResorts(d) # {} THEN b.last = resort
         ELSE b.last.id = NextId(d.kyber) + 1 /\ b.last.key = n + 1 /\ b.last.last
  BY <1>2 DEF Batch
<1> HIDE DEF b, resort
<1>6. Drawn(d, b)
  BY <1>2, <1>3, <1>4, <1>5 DEF Drawn, Free
<1>7. Numbered(b, n + 1)
  BY <1>3, <1>4, <1>5 DEF Numbered
<1> QED BY <1>1, <1>4, <1>5, <1>6, <1>7 DEF b

LEMMA UpsertFree ==
  ASSUME NEW table, NEW k, Free(table, k.id), Distinct(table)
  PROVE  Upsert(table, k) = table \union {k} /\ Distinct(Upsert(table, k))
<1>1. Upsert(table, k) = table \union {k}
  BY DEF Upsert, Free
<1> QED BY <1>1 DEF Distinct, Free

LEMMA UpsertSame ==
  ASSUME NEW table, NEW k \in table, Distinct(table)
  PROVE  Upsert(table, k) = table
BY DEF Upsert, Distinct

LEMMA SavedDrawn ==
  ASSUME NEW d \in Tables, Rows(d), NEW batch \in Batches, Drawn(d, batch), NEW n, Numbered(batch, n)
  PROVE  /\ Saved(d, batch).pre = d.pre \union {batch.pre}
         /\ Saved(d, batch).signed = d.signed \union {batch.signed}
         /\ Saved(d, batch).kyber = d.kyber \union {batch.kyber, batch.last}
         /\ Saved(d, batch).seen = d.seen
         /\ Rows(Saved(d, batch))
<1> DEFINE t == d.kyber \union {batch.kyber}
<1>1. [batch.kyber EXCEPT !.last = FALSE] = batch.kyber /\ [batch.last EXCEPT !.last = TRUE] = batch.last
  BY DEF Batches, Key, Numbered
<1>2. ~ \E r \in d.kyber : r.id = batch.kyber.id /\ r.last
  BY DEF Drawn, Free
<1>3. SaveKyber(d.kyber, batch.kyber) = Upsert(d.kyber, batch.kyber)
  BY <1>1, <1>2 DEF SaveKyber
<1>4. Upsert(d.kyber, batch.kyber) = t /\ Distinct(t)
  <2>1. Free(d.kyber, batch.kyber.id) /\ Distinct(d.kyber)
    BY DEF Drawn, Rows
  <2> QED BY <2>1, UpsertFree
<1>5. Upsert(t, batch.last) = t \union {batch.last} /\ Distinct(t \union {batch.last})
  <2>1. CASE batch.last \in d.kyber
    BY <1>4, <2>1, UpsertSame
  <2>2. CASE Free(d.kyber, batch.last.id) /\ batch.last.id # batch.kyber.id
    <3>1. Free(t, batch.last.id)
      BY <2>2 DEF Free
    <3> HIDE DEF t
    <3> QED BY <1>4, <3>1, UpsertFree
  <2> QED BY <2>1, <2>2 DEF Drawn
<1>6. SaveLastResort(SaveKyber(d.kyber, batch.kyber), batch.last) = d.kyber \union {batch.kyber, batch.last}
  BY <1>1, <1>3, <1>4, <1>5 DEF SaveLastResort
<1>7. Upsert(d.pre, batch.pre) = d.pre \union {batch.pre} /\ Distinct(Upsert(d.pre, batch.pre))
  BY UpsertFree DEF Drawn, Rows
<1>8. Upsert(d.signed, batch.signed) = d.signed \union {batch.signed} /\ Distinct(Upsert(d.signed, batch.signed))
  BY UpsertFree DEF Drawn, Rows
<1>9. /\ Saved(d, batch).pre = Upsert(d.pre, batch.pre) /\ Saved(d, batch).signed = Upsert(d.signed, batch.signed)
      /\ Saved(d, batch).kyber = SaveLastResort(SaveKyber(d.kyber, batch.kyber), batch.last)
      /\ Saved(d, batch).seen = d.seen
  BY DEF Saved, Tables
<1>10. Rows(Saved(d, batch))
  <2>1. Distinct(Saved(d, batch).kyber)
    BY <1>3, <1>4, <1>5, <1>6, <1>9
  <2> QED BY <1>7, <1>8, <1>9, <2>1 DEF Rows
<1> QED BY <1>6, <1>7, <1>8, <1>9, <1>10

(* What a stranger's message needs of the tables outlives a batch.         *)
LEMMA SavedRefuses ==
  ASSUME NEW d \in Tables, Rows(d), NEW batch \in Batches, Drawn(d, batch), NEW n, Numbered(batch, n),
         NEW m \in Message, m.kyber.key # batch.kyber.key
  PROVE  Refused(d, m) => Refused(Saved(d, batch), m)
<1> DEFINE e == Saved(d, batch)
<1>1. e.kyber = d.kyber \union {batch.kyber, batch.last} /\ e.seen = d.seen
  BY SavedDrawn
<1> HIDE DEF e
<1>2. HasKyber(e, m.kyber) => HasKyber(d, m.kyber)
  BY <1>1 DEF HasKyber, Drawn
<1>3. Replayed(d, m) => Replayed(e, m)
  BY <1>1 DEF Replayed, LastResort
<1> QED BY <1>2, <1>3 DEF Refused, e

(* register_pre_keys saves its batch.                                      *)
LEMMA SaveKeeps ==
  ASSUME NEW d \in Tables, NEW r \in Refreshes, NEW wire \in SUBSET Message, NEW shelf \in Shelf,
         NEW opened, NEW half, NEW n, NEW sends,
         r.step = "save",
         Drawing(d, r, n), Handing(shelf, wire, r, n), Receiving(d, wire, opened, half, sends)
  PROVE  /\ Drawing(Saved(d, r.batch), [r EXCEPT !.step = "upload"], n)
         /\ Handing(shelf, wire, [r EXCEPT !.step = "upload"], n)
         /\ Receiving(Saved(d, r.batch), wire, opened, half, sends)
         /\ Holding(d, shelf, wire, opened, half) => Holding(Saved(d, r.batch), shelf, wire, opened, half)
<1> DEFINE e == Saved(d, r.batch)
           s == [r EXCEPT !.step = "upload"]
<1>1. r.batch \in Batches /\ s.step = "upload" /\ s.batch = r.batch
  BY DEF Refreshes
<1>2. Rows(d) /\ Drawn(d, r.batch) /\ Numbered(r.batch, n) /\ Avoids(r.batch.kyber.key, shelf, wire)
  BY DEF Drawing, Handing
<1>3. /\ e.pre = d.pre \union {r.batch.pre} /\ e.signed = d.signed \union {r.batch.signed}
      /\ e.kyber = d.kyber \union {r.batch.kyber, r.batch.last} /\ Rows(e)
  BY <1>1, <1>2, SavedDrawn
<1>4. \A m \in wire : Refused(d, m) => Refused(e, m)
  BY <1>1, <1>2, SavedRefuses DEF Avoids
<1> HIDE DEF e, s
<1>5. Drawing(e, s, n)
  BY <1>1, <1>2, <1>3 DEF Drawing, InStore, Numbered
<1>6. Handing(shelf, wire, s, n)
  BY <1>1 DEF Handing
<1>7. Receiving(e, wire, opened, half, sends)
  BY <1>4 DEF Receiving
<1>8. Holding(d, shelf, wire, opened, half) => Holding(e, shelf, wire, opened, half)
  BY <1>3 DEF Holding, Kept, Openable
<1> QED BY <1>5, <1>6, <1>7, <1>8 DEF e, s

(* Then it uploads it.                                                     *)
LEMMA UploadKeeps ==
  ASSUME NEW d \in Tables, NEW r \in Refreshes, NEW wire \in SUBSET Message, NEW shelf \in Shelf,
         NEW opened, NEW half, NEW n \in Nat,
         r.step = "upload", Drawing(d, r, n), Handing(shelf, wire, r, n)
  PROVE  /\ Shelved(r.batch) \in Shelf
         /\ Handing(Shelved(r.batch), wire, NoRefresh, n)
         /\ Holding(d, shelf, wire, opened, half) => Holding(d, Shelved(r.batch), wire, opened, half)
<1> DEFINE b == r.batch
           new == Shelved(b)
<1>1. b \in Batches /\ Numbered(b, n) /\ InStore(d, b) /\ Avoids(b.kyber.key, shelf, wire)
  BY DEF Refreshes, Drawing, Handing
<1>2. b.pre \in Key /\ b.signed \in Key /\ b.kyber \in Key /\ b.last \in Key
  BY <1>1 DEF Batches
<1>3. new \in Shelf /\ new.pre = {b.pre} /\ new.signed = {b.signed} /\ new.kyber = {b.kyber} /\ new.last = {b.last}
  BY <1>2 DEF Shelved, Shelf
<1>4. NoRefresh.step = "idle"
  BY DEF NoRefresh
<1>5. b.pre.key \in Nat /\ b.kyber.key \in Nat /\ b.last.key \in Nat
  BY <1>2 DEF Key
<1>6. HandedOnce(shelf, wire) /\ \A i \in Nat : i > n => Avoids(i, shelf, wire)
  BY DEF Handing
<1> HIDE DEF b, new
<1>7. HandedOnce(new, wire)
  <2>1. \A m \in wire : m.pre \intersect new.pre = {} /\ (~ m.kyber.last => m.kyber \notin new.kyber)
    BY <1>1, <1>3 DEF Avoids, Numbered
  <2>2. (\A k \in new.kyber : ~ k.last) /\ \A k \in new.last : k.last
    BY <1>1, <1>3 DEF Numbered
  <2> QED BY <1>6, <2>1, <2>2 DEF HandedOnce
<1>8. ASSUME NEW i \in Nat, i > n PROVE Avoids(i, new, wire)
  <2>1. \A k \in new.pre \union new.kyber \union new.last : k.key # i
    BY <1>1, <1>3, <1>5, <1>8 DEF Numbered
  <2> QED BY <1>6, <1>8, <2>1 DEF Avoids
<1>9. Holding(d, shelf, wire, opened, half) => Holding(d, new, wire, opened, half)
  BY <1>1, <1>3 DEF Holding, Kept, InStore
<1> QED BY <1>3, <1>4, <1>7, <1>8, <1>9 DEF Handing, b, new

(* An enrolment uploads a first batch, and what was sent before is gone.   *)
LEMMA EnrolKeeps ==
  ASSUME NEW d \in Tables, Sized(d), NEW n \in Nat, NEW sends \in Nat, NEW opened, NEW half, NEW wire,
         Drawing(d, NoRefresh, n), Receiving(d, wire, opened, half, sends)
  PROVE  LET b == Batch(d, n + 1) IN
         /\ Drawing(Saved(d, b), NoRefresh, n + 1)
         /\ Shelved(b) \in Shelf
         /\ Handing(Shelved(b), {}, NoRefresh, n + 1)
         /\ Receiving(Saved(d, b), {}, opened, half, sends)
         /\ Holding(Saved(d, b), Shelved(b), {}, opened, half)
<1> DEFINE b == Batch(d, n + 1)
           e == Saved(d, b)
           new == Shelved(b)
<1>1. b \in Batches /\ Drawn(d, b) /\ Numbered(b, n + 1)
  BY BatchDrawn DEF Drawing
<1>2. e.pre = d.pre \union {b.pre} /\ e.signed = d.signed \union {b.signed}
      /\ e.kyber = d.kyber \union {b.kyber, b.last} /\ Rows(e)
  BY <1>1, SavedDrawn DEF Drawing
<1>3. b.pre \in Key /\ b.signed \in Key /\ b.kyber \in Key /\ b.last \in Key
  BY <1>1 DEF Batches
<1>4. new \in Shelf /\ new.pre = {b.pre} /\ new.signed = {b.signed} /\ new.kyber = {b.kyber} /\ new.last = {b.last}
  BY <1>3 DEF Shelved, Shelf
<1>5. NoRefresh.step = "idle"
  BY DEF NoRefresh
<1>6. b.pre.key \in Nat /\ b.kyber.key \in Nat /\ b.last.key \in Nat /\ \A k \in d.kyber : k.key \in Nat /\ k.key <= n
  BY <1>3 DEF Key, Tables, Drawing
<1> HIDE DEF b, e, new
<1>7. Drawing(e, NoRefresh, n + 1)
  <2>1. \A k \in e.kyber : k.key <= n + 1
    BY <1>1, <1>2, <1>6 DEF Numbered
  <2> QED BY <1>2, <1>5, <2>1 DEF Drawing
<1>8. Handing(new, {}, NoRefresh, n + 1)
  BY <1>1, <1>4, <1>5, <1>6 DEF Handing, HandedOnce, Avoids, Numbered
<1>9. Receiving(e, {}, opened, half, sends)
  BY DEF Receiving
<1>10. Holding(e, new, {}, opened, half)
  BY <1>2, <1>4 DEF Holding, Kept
<1> QED BY <1>4, <1>7, <1>8, <1>9, <1>10 DEF b, e, new

(* clear_registration and the tables of a new device.                      *)
LEMMA NoTablesKeep ==
  ASSUME NEW n, NEW wire, NEW opened, NEW half, NEW sends, NEW d, Receiving(d, wire, opened, half, sends)
  PROVE  NoTables \in Tables /\ Sized(NoTables) /\ Drawing(NoTables, NoRefresh, n)
         /\ Receiving(NoTables, wire, opened, half, sends)
<1>1. NoTables.pre = {} /\ NoTables.signed = {} /\ NoTables.kyber = {}
  BY DEF NoTables
<1>2. \A m \in wire : Refused(NoTables, m)
  BY <1>1 DEF Refused, HasKyber
<1>3. Sized(NoTables)
  BY <1>1 DEF Sized, Bounded
<1>4. Rows(NoTables)
  BY <1>1 DEF Rows, Distinct
<1>5. NoRefresh.step = "idle"
  BY DEF NoRefresh
<1>6. NoTables \in Tables
  BY DEF NoTables, Tables
<1>7. Drawing(NoTables, NoRefresh, n)
  BY <1>1, <1>4, <1>5 DEF Drawing
<1>8. Receiving(NoTables, wire, opened, half, sends)
  BY <1>2 DEF Receiving
<1> QED BY <1>3, <1>6, <1>7, <1>8

(* A batch saved for an enrolment that came to nothing.                    *)
LEMMA LeftoverKeeps ==
  ASSUME NEW d \in Tables, Sized(d), NEW n \in Nat, NEW sends \in Nat, NEW opened, NEW half, NEW wire \in SUBSET Message, NEW shelf,
         Drawing(d, NoRefresh, n), Handing(shelf, wire, NoRefresh, n), Receiving(d, wire, opened, half, sends)
  PROVE  LET e == Saved(d, Batch(d, n + 1)) IN
         /\ e \in Tables /\ Sized(e)
         /\ Drawing(e, NoRefresh, n + 1) /\ Handing(shelf, wire, NoRefresh, n + 1)
         /\ Receiving(e, wire, opened, half, sends)
<1> DEFINE b == Batch(d, n + 1)
           e == Saved(d, b)
<1>1. b \in Batches /\ Drawn(d, b) /\ Numbered(b, n + 1) /\ b.kyber.key = n + 1
  BY BatchDrawn DEF Drawing
<1>2. e \in Tables /\ Sized(e)
  BY <1>1, SavedType
<1>3. Drawing(e, NoRefresh, n + 1)
  BY EnrolKeeps
<1>4. NoRefresh.step = "idle"
  BY DEF NoRefresh
<1>5. n + 1 > n /\ n + 1 \in Nat /\ \A i \in Nat : i > n + 1 => i > n
  OBVIOUS
<1>6. Handing(shelf, wire, NoRefresh, n + 1) /\ Avoids(n + 1, shelf, wire)
  BY <1>4, <1>5 DEF Handing
<1> HIDE DEF b
<1>7. \A m \in wire : Refused(d, m) => Refused(e, m)
  BY <1>1, <1>6, SavedRefuses DEF Drawing, Avoids
<1> HIDE DEF e
<1>8. Receiving(e, wire, opened, half, sends)
  BY <1>7 DEF Receiving
<1> QED BY <1>2, <1>3, <1>6, <1>8 DEF e, b

(* register_pre_keys draws its batch.                                      *)
LEMMA DrawKeeps ==
  ASSUME NEW d \in Tables, Sized(d), NEW n \in Nat, NEW shelf, NEW wire, NEW r,
         Drawing(d, r, n), Handing(shelf, wire, r, n)
  PROVE  LET s == [step |-> "save", batch |-> Batch(d, n + 1)] IN
         s \in Refreshes /\ Drawing(d, s, n + 1) /\ Handing(shelf, wire, s, n + 1)
<1> DEFINE s == [step |-> "save", batch |-> Batch(d, n + 1)]
<1>1. s.step = "save" /\ s.batch = Batch(d, n + 1)
  OBVIOUS
<1>2. s.batch \in Batches /\ Drawn(d, s.batch) /\ Numbered(s.batch, n + 1) /\ s.batch.kyber.key = n + 1
  BY <1>1, BatchDrawn DEF Drawing
<1>3. s \in Refreshes
  BY <1>2 DEF Refreshes
<1> HIDE DEF s
<1>4. \A k \in d.kyber : k.key \in Nat /\ k.key <= n
  BY DEF Drawing, Tables, Key
<1>5. Drawing(d, s, n + 1)
  <2>1. \A k \in d.kyber : k.key <= n + 1
    BY <1>4
  <2> QED BY <1>1, <1>2, <2>1 DEF Drawing
<1>6. Handing(shelf, wire, s, n + 1)
  <2>1. \A i \in Nat : i > n + 1 => i > n
    OBVIOUS
  <2>2. n + 1 \in Nat /\ n + 1 > n
    OBVIOUS
  <2> QED BY <1>2, <2>1, <2>2 DEF Handing
<1> QED BY <1>3, <1>5, <1>6 DEF s

(* A stranger takes a bundle and writes.                                   *)
LEMMA SendKeeps ==
  ASSUME NEW d \in Tables, NEW shelf \in Shelf, NEW wire \in SUBSET Message, NEW r, NEW n,
         NEW opened \in [1..MaxSends -> Nat], NEW half, NEW sends \in Nat, sends < MaxSends,
         NEW pre \in SUBSET shelf.pre, NEW kyber \in shelf.kyber \union shelf.last, NEW signed \in shelf.signed,
         NEW from \in Nat,
         Handing(shelf, wire, r, n), Receiving(d, wire, opened, half, sends)
  PROVE  LET m == [base |-> sends + 1, pre |-> pre, kyber |-> kyber, signed |-> signed, from |-> from]
             rest == [shelf EXCEPT !.pre = @ \ pre, !.kyber = @ \ {kyber}]
         IN
         /\ m \in Message /\ rest \in Shelf
         /\ Handing(rest, wire \union {m}, r, n)
         /\ Receiving(d, wire \union {m}, opened, half, sends + 1)
         /\ Holding(d, shelf, wire, opened, half) => Holding(d, rest, wire \union {m}, opened, half)
<1> DEFINE m == [base |-> sends + 1, pre |-> pre, kyber |-> kyber, signed |-> signed, from |-> from]
           rest == [shelf EXCEPT !.pre = @ \ pre, !.kyber = @ \ {kyber}]
           more == wire \union {m}
<1>1. m \in Message /\ rest \in Shelf
  <2>1. pre \in SUBSET Key /\ kyber \in Key /\ signed \in Key /\ sends + 1 \in Nat
    BY DEF Shelf
  <2>2. m \in Message
    BY <2>1 DEF Message
  <2>3. rest \in Shelf
    BY DEF Shelf
  <2> QED BY <2>2, <2>3
<1>2. m.base = sends + 1 /\ m.pre = pre /\ m.kyber = kyber /\ m.signed = signed
  OBVIOUS
<1>3. rest.pre = shelf.pre \ pre /\ rest.kyber = shelf.kyber \ {kyber} /\ rest.signed = shelf.signed /\ rest.last = shelf.last
  BY DEF Shelf
<1>4. HandedOnce(shelf, wire) /\ (\A i \in Nat : i > n => Avoids(i, shelf, wire))
      /\ (r.step \in {"save", "upload"} => Avoids(r.batch.kyber.key, shelf, wire))
  BY DEF Handing
<1>5. \A o \in wire : o.base \in 1..sends
  BY DEF Receiving
<1> HIDE DEF m, rest
<1>6. HandedOnce(rest, more)
  <2>1. /\ \A k \in rest.kyber : ~ k.last
        /\ \A k \in rest.last : k.last
    BY <1>3, <1>4 DEF HandedOnce
  <2>2. \A o \in more : o.pre \intersect rest.pre = {} /\ (~ o.kyber.last => o.kyber \notin rest.kyber)
    BY <1>2, <1>3, <1>4 DEF HandedOnce
  <2>3. \A o \in wire : o.base # m.base /\ o.pre \intersect m.pre = {}
    BY <1>2, <1>4, <1>5 DEF HandedOnce
  <2>4. \A o \in wire : o.kyber = m.kyber => o.kyber.last
    BY <1>2, <1>4 DEF HandedOnce
  <2> QED BY <1>4, <2>1, <2>2, <2>3, <2>4 DEF HandedOnce
<1>7. ASSUME NEW i, Avoids(i, shelf, wire) PROVE Avoids(i, rest, more)
  BY <1>2, <1>3, <1>7 DEF Avoids
<1>8. Handing(rest, more, r, n)
  BY <1>4, <1>6, <1>7 DEF Handing
<1>9. Receiving(d, more, opened, half, sends + 1)
  <2>1. ~ Used(m, opened, half)
    <3>1. sends + 1 \in 1..MaxSends /\ ~ (sends + 1 <= sends) /\ sends + 1 \notin 1..sends
      BY DeviceAssumption
    <3>2. opened[sends + 1] = 0 /\ sends + 1 \notin half
      BY <3>1 DEF Receiving
    <3> QED BY <1>2, <3>2 DEF Used
  <2>2. sends + 1 <= MaxSends /\ half \subseteq 1..sends + 1
    BY DeviceAssumption DEF Receiving
  <2>3. \A b \in 1..MaxSends : opened[b] <= 1 /\ (opened[b] # 0 => b <= sends + 1)
    BY DeviceAssumption DEF Receiving
  <2>4. \A o \in more : o.base \in 1..sends + 1
    BY <1>2, <1>5
  <2> QED BY <2>1, <2>2, <2>3, <2>4 DEF Receiving
<1>10. Holding(d, shelf, wire, opened, half) => Holding(d, rest, more, opened, half)
  <2>1. SUFFICES ASSUME Holding(d, shelf, wire, opened, half) PROVE Holding(d, rest, more, opened, half)
    OBVIOUS
  <2>2. Openable(d, m)
    BY <1>2, <2>1 DEF Holding, Kept, Openable
  <2>3. Kept(d, rest)
    BY <1>3, <2>1 DEF Holding, Kept
  <2> QED BY <2>1, <2>2, <2>3 DEF Holding
<1> QED BY <1>1, <1>8, <1>9, <1>10 DEF m, rest

LEMMA MarkUsedKeys ==
  ASSUME NEW d \in Tables, Rows(d), NEW m \in Message, m.kyber \in d.kyber
  PROVE  LET e == MarkUsed(d, m) IN
         /\ e.kyber = {k \in d.kyber : k # m.kyber \/ m.kyber.last}
         /\ e.pre = d.pre /\ e.signed = d.signed /\ d.seen \subseteq e.seen
         /\ m.kyber.last => Use(m) \in e.seen
<1>1. LastResort(d, m) <=> m.kyber.last
  BY DEF LastResort, Rows, Distinct
<1>2. CASE m.kyber.last
  BY <1>1, <1>2 DEF MarkUsed, Tables
<1>3. CASE ~ m.kyber.last
  <2>1. MarkUsed(d, m) = [d EXCEPT !.kyber = {k \in d.kyber : k.id # m.kyber.id}]
    BY <1>1, <1>3 DEF MarkUsed
  <2>2. {k \in d.kyber : k.id # m.kyber.id} = {k \in d.kyber : k # m.kyber}
    BY DEF Rows, Distinct
  <2> QED BY <1>3, <2>1, <2>2 DEF Tables
<1> QED BY <1>2, <1>3

(* A message uses its keys, and nobody else's.                             *)
LEMMA UseKeeps ==
  ASSUME NEW d \in Tables, NEW e \in Tables, NEW wire \in SUBSET Message, NEW m \in wire, NEW shelf \in Shelf,
         NEW r \in Refreshes, NEW n, NEW opened, NEW half, NEW opened2, NEW half2,
         m.kyber \in d.kyber,
         e.kyber = {k \in d.kyber : k # m.kyber \/ m.kyber.last},
         e.pre \in {d.pre, d.pre \ m.pre}, e.signed = d.signed, d.seen \subseteq e.seen,
         m.kyber.last => Use(m) \in e.seen,
         Drawing(d, r, n), Handing(shelf, wire, r, n),
         \A o \in wire : Used(o, opened2, half2) <=> Used(o, opened, half) \/ o = m,
         \A o \in wire : Used(o, opened, half) => Refused(d, o)
  PROVE  /\ Drawing(e, r, n)
         /\ \A o \in wire : Used(o, opened2, half2) => Refused(e, o)
         /\ Holding(d, shelf, wire, opened, half) => Holding(e, shelf, wire, opened2, half2)
<1>1. HandedOnce(shelf, wire) /\ (r.step \in {"save", "upload"} => Avoids(r.batch.kyber.key, shelf, wire)) /\ Rows(d)
  BY DEF Handing, Drawing
<1>2. \A o \in wire : LastResort(d, o) => LastResort(e, o)
  BY <1>1 DEF LastResort, Rows, Distinct
<1>3. \A o \in wire : Refused(d, o) => Refused(e, o)
  BY <1>2 DEF Refused, HasKyber, Replayed
<1>4. Refused(e, m)
  <2>1. CASE m.kyber.last
    BY <2>1 DEF Refused, Replayed, LastResort
  <2>2. CASE ~ m.kyber.last
    BY <1>1, <2>2 DEF Refused, HasKyber, Rows, Distinct
  <2> QED BY <2>1, <2>2
<1>5. Drawing(e, r, n)
  <2>1. Rows(e) /\ \A k \in e.kyber : k.key <= n
    BY <1>1 DEF Rows, Distinct, Drawing
  <2>2. r.step = "save" => Drawn(e, r.batch)
    BY DEF Drawing, Drawn, Free, Numbered
  <2>3. r.step = "upload" => InStore(e, r.batch)
    BY <1>1 DEF Drawing, InStore, Numbered, Avoids
  <2> QED BY <2>1, <2>2, <2>3 DEF Drawing
<1>6. ASSUME Holding(d, shelf, wire, opened, half) PROVE Holding(e, shelf, wire, opened2, half2)
  <2>1. Kept(e, shelf)
    BY <1>1, <1>6 DEF Holding, Kept, HandedOnce
  <2>2. ASSUME NEW o \in wire, o # m, Openable(d, o) PROVE Openable(e, o)
    BY <1>1, <2>2 DEF Openable, HandedOnce
  <2> QED BY <1>6, <2>1, <2>2 DEF Holding
<1> QED BY <1>3, <1>4, <1>5, <1>6

(* What is no longer on the wire asks for nothing.                         *)
LEMMA FewerKeep ==
  ASSUME NEW wire, NEW less \in SUBSET wire, NEW d, NEW shelf, NEW r, NEW n, NEW opened, NEW half, NEW sends
  PROVE  /\ Handing(shelf, wire, r, n) => Handing(shelf, less, r, n)
         /\ Receiving(d, wire, opened, half, sends) => Receiving(d, less, opened, half, sends)
         /\ Holding(d, shelf, wire, opened, half) => Holding(d, shelf, less, opened, half)
<1>1. \A i : Avoids(i, shelf, wire) => Avoids(i, shelf, less)
  BY DEF Avoids
<1>2. Handing(shelf, wire, r, n) => Handing(shelf, less, r, n)
  BY <1>1 DEF Handing, HandedOnce
<1>3. Receiving(d, wire, opened, half, sends) => Receiving(d, less, opened, half, sends)
  BY DEF Receiving
<1> QED BY <1>2, <1>3 DEF Holding

(***************************************************************************)
(* The inductive invariant                                                 *)
(***************************************************************************)
Mems == [reg : Nat, cert : Nat, pool : Nat, streaming : BOOLEAN]
Jobs == [todo : Todos, e : Nat, pool : Nat]
Imports == [step : {"idle", "ask", "download", "frames", "discard", "forget"}, at : Nat, held : Runs]
Servers == [live : SUBSET Nat, linked : SUBSET Nat, shelf : Shelf, owner : Nat, wire : SUBSET Message,
            upload : Seq(Item), of : Nat]
Accounts == [issued : SUBSET Nat, given : SUBSET Nat, torn : BOOLEAN, halved : BOOLEAN, unlinked : SUBSET Nat,
             opened : [1..MaxSends -> Nat], half : SUBSET Nat, imported : BOOLEAN]
Counts == [ops : Nat, faults : Nat, enrolments : Nat, pools : Nat, batches : Nat, sends : Nat]

Typed ==
  /\ kv \in [KvKeys -> Nat]
  /\ db \in Tables /\ Sized(db)
  /\ history \in History /\ file \in Seq(1..Chunks)
  /\ mem \in Mems /\ job \in Jobs
  /\ pooling \in [Callers -> Nat] /\ unlink \in 0..3 /\ keys \in BOOLEAN
  /\ refresh \in Refreshes /\ imp \in Imports
  /\ server \in Servers /\ told \in Accounts /\ spent \in Counts

(* A manager speaks for the stored registration; before the last store of  *)
(* a linking or a registration there is none, and what has been stored is  *)
(* of the latest enrolment; without a manager nothing is under way.        *)
Phases ==
  /\ mem.reg # 0 => kv.reg = mem.reg /\ job.todo = <<>>
  /\ job.todo # <<>> => kv.reg = 0 /\ job.e = spent.enrolments /\ job.e # 0
  /\ mem.reg = 0 => mem = NoMem /\ unlink = 0 /\ ~ keys /\ pooling = [c \in Callers |-> 0]
                    /\ refresh = NoRefresh /\ imp = NoImport
  /\ kv.reg <= spent.enrolments /\ server.owner <= spent.enrolments
  /\ job.todo \in AfterAci => kv.aci = job.e
  /\ job.todo \in AfterPni => kv.pni = job.e
  /\ job.todo \in AfterServer => server.owner = job.e
  /\ kv.reg # 0 => kv.aci = kv.reg /\ kv.pni = kv.reg /\ server.owner = kv.reg

(* Only enrolments that were loaded got a certificate or an unlinking.     *)
Enrolments ==
  /\ told.unlinked \union told.issued \subseteq 1..spent.enrolments
  /\ job.todo # <<>> => job.e \notin told.unlinked \union told.issued
  /\ told.unlinked \intersect server.live = {}
  /\ kv.reg \in told.issued => kv.cert = kv.reg
  /\ mem.reg \in told.issued => mem.cert = mem.reg

(* A stream's copy of the pool and the pools given away are the stored     *)
(* one; only a primary draws one, when it has none.                        *)
Pools ==
  /\ 0 \notin told.given
  /\ kv.reg = 0 => told.given = {} /\ mem.reg = 0
  /\ \A c \in Callers : pooling[c] # 0 => Primary(mem.reg)
  /\ kv.reg # 0 /\ Primary(kv.reg) /\ ~ told.torn => told.given \subseteq {kv.pool}
  /\ mem.reg # 0 /\ Primary(mem.reg) /\ ~ told.torn => mem.pool \in {0, kv.pool}

(* The master key is written before the pool when linking, and after it    *)
(* when a Keys message came.                                               *)
Masters ==
  /\ ~ told.halved /\ ~ keys /\ job.todo # <<"pool", "reg">> => kv.master \in {0, kv.pool}
  /\ job.todo = <<"pool", "reg">> => kv.master = job.pool
  /\ keys => ~ Primary(mem.reg)
  /\ keys /\ ~ told.halved => kv.pool = mem.pool
  /\ mem.reg # 0 /\ ~ Primary(mem.reg) /\ ~ told.halved => mem.pool \in {0, kv.pool}
  /\ ~ told.halved => \A c \in Callers : pooling[c] # 0 => kv.master = 0

(* The download goes on where the file ends; the items are read from the   *)
(* first.                                                                  *)
Download ==
  /\ FileIsPrefix
  /\ imp.step = "download" => imp.at = Len(file)
  /\ imp.step = "frames" => imp.at # 0

IInv == Typed /\ Phases /\ Enrolments /\ Pools /\ Masters /\ Download /\ PreKeys

LEMMA NotHalving == Typed => (job.todo # <<>> /\ Head(job.todo) = "pool" <=> job.todo = <<"pool", "reg">>)
<1> SUFFICES ASSUME Typed PROVE job.todo # <<>> /\ Head(job.todo) = "pool" <=> job.todo = <<"pool", "reg">>
  OBVIOUS
<1>1. job.todo \in Pending \/ job.todo = <<>> \/ job.todo = <<"scan">>
  BY DEF Typed, Jobs, Todos
<1> QED BY <1>1, TodoSteps, Orders

(* What the steps that concern none of it leave as it was.                 *)
LEMMA PhasesFrame ==
  ASSUME Phases, mem'.reg = mem.reg, mem.reg = 0 => mem' = mem, job' = job,
         kv'.reg = kv.reg, kv'.aci = kv.aci, kv'.pni = kv.pni,
         spent'.enrolments = spent.enrolments, server'.owner = server.owner,
         mem.reg = 0 => unlink' = 0 /\ keys' = keys /\ pooling' = pooling /\ refresh' = NoRefresh /\ imp' = NoImport
  PROVE  Phases'
BY DEF Phases

LEMMA EnrolmentsFrame ==
  ASSUME Enrolments, mem'.reg = mem.reg, mem'.cert = mem.cert, job' = job,
         kv'.reg = kv.reg, kv'.cert = kv.cert, spent'.enrolments = spent.enrolments,
         told'.unlinked = told.unlinked, told'.issued = told.issued, server'.live \subseteq server.live
  PROVE  Enrolments'
BY DEF Enrolments

LEMMA PoolsFrame ==
  ASSUME Pools, mem'.reg = mem.reg, mem'.pool = mem.pool, kv'.reg = kv.reg, kv'.pool = kv.pool, pooling' = pooling,
         told'.given = told.given, told'.torn = told.torn, server'.linked = server.linked
  PROVE  Pools'
BY DEF Pools, Primary

LEMMA MastersFrame ==
  ASSUME Masters, mem'.reg = mem.reg, mem'.pool = mem.pool, job' = job, kv'.master = kv.master, kv'.pool = kv.pool,
         pooling' = pooling, keys' = keys, told'.halved = told.halved, server'.linked = server.linked
  PROVE  Masters'
BY DEF Masters, Primary

LEMMA DownloadFrame ==
  ASSUME Download, file' = file, imp'.step = imp.step, imp'.at = imp.at
  PROVE  Download'
BY DEF Download, FileIsPrefix

LEMMA PreKeysFrame ==
  ASSUME PreKeys, db' = db, refresh'.step = refresh.step, refresh'.batch = refresh.batch,
         server'.shelf = server.shelf, server'.wire = server.wire,
         told'.opened = told.opened, told'.half = told.half, spent'.batches = spent.batches, spent'.sends = spent.sends,
         Ours' => Ours
  PROVE  PreKeys'
BY DEF PreKeys, Drawing, Handing, Receiving

LEMMA OursFrame ==
  ASSUME server'.owner = server.owner, kv'.reg = kv.reg, job'.e = job.e
  PROVE  Ours' => Ours
BY DEF Ours

LEMMA Counting ==
  ASSUME Typed
  PROVE  /\ \A n \in Nat : /\ Spending(n) \in Counts
                           /\ Spending(n).enrolments = spent.enrolments /\ Spending(n).pools = spent.pools
                           /\ Spending(n).batches = spent.batches /\ Spending(n).sends = spent.sends
         /\ Failing \in Counts /\ Failing.enrolments = spent.enrolments /\ Failing.pools = spent.pools
         /\ Failing.batches = spent.batches /\ Failing.sends = spent.sends
<1>1. spent \in Counts /\ spent.ops \in Nat /\ spent.faults \in Nat
  BY DEF Typed, Counts
<1>2. ASSUME NEW n \in Nat
      PROVE  /\ Spending(n) \in Counts
             /\ Spending(n).enrolments = spent.enrolments /\ Spending(n).pools = spent.pools
             /\ Spending(n).batches = spent.batches /\ Spending(n).sends = spent.sends
  <2>1. Spending(n) = [spent EXCEPT !.ops = spent.ops + n] /\ spent.ops + n \in Nat
    BY <1>1 DEF Spending
  <2> QED BY <1>1, <2>1 DEF Counts
<1>3. Failing = [spent EXCEPT !.faults = spent.faults + 1] /\ spent.faults + 1 \in Nat
  BY <1>1 DEF Failing
<1> QED BY <1>1, <1>2, <1>3 DEF Counts

LEMMA Nothing ==
  /\ NoMem \in Mems /\ NoMem.reg = 0 /\ NoMem.cert = 0 /\ NoMem.pool = 0
  /\ NoJob \in Jobs /\ NoJob.todo = <<>> /\ NoJob.e = 0 /\ NoJob.pool = 0
  /\ NoImport \in Imports /\ NoImport.step = "idle"
  /\ NoRefresh \in Refreshes /\ NoRefresh.step = "idle"
  /\ EmptyShelf \in Shelf
  /\ NoTables \in Tables /\ Sized(NoTables)
<1>1. NoMem \in Mems /\ NoMem.reg = 0 /\ NoMem.cert = 0 /\ NoMem.pool = 0
  BY DEF NoMem, Mems
<1>2. NoJob \in Jobs /\ NoJob.todo = <<>> /\ NoJob.e = 0 /\ NoJob.pool = 0
  BY DEF NoJob, Jobs, Todos
<1>3. NoImport \in Imports /\ NoImport.step = "idle"
  BY RunType DEF NoImport, Imports
<1>4. NoTables \in Tables /\ Sized(NoTables)
  BY DEF NoTables, Tables, Sized, Bounded
<1>5. NoBatch \in Batches
  BY <1>4, BatchType DEF NoBatch
<1>6. NoRefresh \in Refreshes /\ NoRefresh.step = "idle"
  BY <1>5 DEF NoRefresh, Refreshes
<1>7. EmptyShelf \in Shelf
  BY DEF EmptyShelf, Shelf
<1> QED BY <1>1, <1>2, <1>3, <1>4, <1>6, <1>7

LEMMA InitIInv == Init => IInv
<1> SUFFICES ASSUME Init PROVE IInv
  OBVIOUS
<1>1. kv \in [KvKeys -> Nat] /\ db = NoTables /\ history \in History /\ file \in Seq(1..Chunks)
  BY DEF Init, NoHistory, History, Row, NoRow, NoCall, CallEntry, Modes, Statuses
<1>2. mem = NoMem /\ job = NoJob /\ refresh = NoRefresh /\ imp = NoImport
      /\ pooling = [c \in Callers |-> 0] /\ unlink = 0 /\ keys = FALSE /\ kv = [k \in KvKeys |-> 0] /\ file = <<>>
  BY DEF Init
<1>3. server \in Servers /\ server.live = {} /\ server.linked = {} /\ server.shelf = EmptyShelf /\ server.owner = 0
      /\ server.wire = {}
  BY Nothing DEF Init, Servers
<1>4. told \in Accounts /\ told.issued = {} /\ told.given = {} /\ told.unlinked = {} /\ told.half = {}
      /\ told.opened = [b \in 1..MaxSends |-> 0]
  BY DEF Init, Accounts
<1>5. spent \in Counts /\ spent.sends = 0 /\ spent.enrolments = 0
  BY DEF Init, Counts
<1>6. Typed
  <2>1. pooling \in [Callers -> Nat] /\ unlink \in 0..3 /\ keys \in BOOLEAN
    <3>1. pooling \in [Callers -> Nat]
      BY <1>2
    <3>2. 0 \in 0..3
      OBVIOUS
    <3> QED BY <1>2, <3>1, <3>2
  <2>2. mem \in Mems /\ job \in Jobs /\ refresh \in Refreshes /\ imp \in Imports /\ db \in Tables /\ Sized(db)
    BY <1>1, <1>2, Nothing
  <2> QED BY <1>1, <1>3, <1>4, <1>5, <2>1, <2>2 DEF Typed
<1>7. kv.reg = 0 /\ kv.master = 0
  BY <1>2 DEF KvKeys
<1>8. Phases /\ Enrolments
  BY <1>2, <1>3, <1>4, <1>5, <1>7, Nothing, Orders DEF Phases, Enrolments, Pending, AfterAci
<1>9. Pools /\ Masters /\ Download
  BY <1>2, <1>3, <1>4, <1>5, <1>7, Nothing DEF Pools, Masters, Download, FileIsPrefix, Callers
<1>10. PreKeys
  <2>1. Receiving(db, server.wire, told.opened, told.half, spent.sends)
    BY <1>3, <1>4, <1>5, DeviceAssumption DEF Receiving
  <2>2. Drawing(db, refresh, spent.batches)
    BY <1>1, <1>2, <2>1, NoTablesKeep
  <2>3. Handing(server.shelf, server.wire, refresh, spent.batches)
    BY <1>2, <1>3, Nothing DEF Handing, HandedOnce, Avoids, EmptyShelf
  <2>4. ~ Ours
    BY <1>3 DEF Ours
  <2> QED BY <2>1, <2>2, <2>3, <2>4 DEF PreKeys
<1> QED BY <1>6, <1>8, <1>9, <1>10 DEF IInv

(***************************************************************************)
(* Linking and registering                                                 *)
(***************************************************************************)
LEMMA BeginKeeps ==
  ASSUME IInv, NEW todo \in {<<"scan">>, RegisterOrder}, Begin(todo)
  PROVE  IInv'
<1>1. spent \in Counts /\ spent.enrolments \in Nat /\ kv \in [KvKeys -> Nat] /\ told \in Accounts /\ job \in Jobs
  BY DEF IInv, Typed, Counts
<1>2. mem.reg = 0 /\ job.todo = <<>> /\ db' = NoTables /\ UNCHANGED <<history, file, mem, server>> /\ UNCHANGED tasks
  BY DEF Begin, Cleared
<1>3. kv' = [kv EXCEPT !.reg = 0] /\ kv' \in [KvKeys -> Nat] /\ kv'.reg = 0 /\ kv'.master = kv.master
      /\ kv'.pool = kv.pool
  BY <1>1 DEF Begin, Cleared, KvKeys
<1>4. job' \in Jobs /\ job'.todo = todo /\ job'.e = spent.enrolments + 1
  <2>1. todo \in Todos /\ spent.enrolments + 1 \in Nat
    BY <1>1, Orders DEF Todos
  <2>2. job' = [NoJob EXCEPT !.todo = todo, !.e = spent.enrolments + 1]
    BY DEF Begin
  <2> QED BY <2>1, <2>2, Nothing DEF Jobs
<1>5. spent' \in Counts /\ spent'.enrolments = spent.enrolments + 1
      /\ spent'.batches = spent.batches /\ spent'.sends = spent.sends
  <2>1. Spending(1) \in Counts /\ spent' = [Spending(1) EXCEPT !.enrolments = spent.enrolments + 1]
        /\ Spending(1).batches = spent.batches /\ Spending(1).sends = spent.sends
    BY Counting DEF IInv, Begin
  <2> QED BY <1>1, <2>1 DEF Counts
<1>6. told' \in Accounts /\ told'.given = {} /\ told'.torn = FALSE /\ told'.issued = told.issued
      /\ told'.unlinked = told.unlinked /\ told'.halved = told.halved /\ told'.opened = told.opened /\ told'.half = told.half
  <2>1. told' = [told EXCEPT !.given = {}, !.torn = FALSE]
    BY DEF Begin
  <2> QED BY <1>1, <2>1 DEF Accounts
<1>7. todo \notin AfterAci \union AfterServer /\ todo \notin AfterPni /\ todo # <<>> /\ todo # <<"pool", "reg">>
  <2>1. CASE todo = RegisterOrder
    BY <2>1 DEF AfterAci, AfterPni, AfterServer, RegisterOrder
  <2>2. CASE todo = <<"scan">>
    BY <2>2 DEF AfterAci, AfterPni, AfterServer
  <2> QED BY <2>1, <2>2
<1>8. Typed'
  BY <1>2, <1>3, <1>4, <1>5, <1>6, Nothing DEF IInv, Typed, tasks
<1>9. Phases'
  BY <1>1, <1>2, <1>3, <1>4, <1>5, <1>7 DEF IInv, Phases, tasks, Typed, Servers
<1>10. Enrolments'
  <2>1. spent.enrolments + 1 \notin told.unlinked \union told.issued
        /\ told.unlinked \union told.issued \subseteq 1..spent.enrolments + 1
    BY <1>1 DEF IInv, Enrolments
  <2>2. 0 \notin told.issued
    BY <1>1 DEF IInv, Enrolments
  <2> QED BY <1>2, <1>3, <1>4, <1>5, <1>6, <2>1, <2>2 DEF IInv, Enrolments
<1>11. Pools'
  BY <1>2, <1>3, <1>6 DEF IInv, Pools, Primary, tasks
<1>12. Masters'
  BY <1>2, <1>3, <1>4, <1>6, <1>7 DEF IInv, Masters, Primary, tasks
<1>13. Download'
  BY <1>2, DownloadFrame DEF IInv, tasks
<1>14. PreKeys'
  <2>1. refresh = NoRefresh /\ refresh' = NoRefresh /\ server' = server
    BY <1>2 DEF IInv, Phases, tasks
  <2>2. Drawing(NoTables, NoRefresh, spent.batches) /\ Receiving(NoTables, server.wire, told.opened, told.half, spent.sends)
    BY NoTablesKeep DEF IInv, PreKeys
  <2>3. ~ Ours'
    BY <1>1, <1>3, <1>4, <2>1 DEF IInv, Phases, Ours, Typed, Servers
  <2>4. Handing(server.shelf, server.wire, NoRefresh, spent.batches)
    BY <2>1 DEF IInv, PreKeys
  <2> QED BY <1>2, <1>5, <1>6, <2>1, <2>2, <2>3, <2>4 DEF PreKeys
<1> QED BY <1>8, <1>9, <1>10, <1>11, <1>12, <1>13, <1>14 DEF IInv

(* The server learns of the enrolment, with a first batch of pre-keys.     *)
LEMMA EnrolsKeeps ==
  ASSUME IInv, mem.reg = 0, NEW others \in SUBSET Nat, NEW links \in SUBSET Nat, Enrols(others, links),
         refresh' = refresh, told' = told, spent'.batches = spent.batches + 1, spent'.sends = spent.sends
  PROVE  /\ db' \in Tables /\ Sized(db') /\ server' \in Servers
         /\ server'.live = others \union {job.e} /\ server'.linked = server.linked \union links
         /\ server'.owner = job.e
         /\ PreKeys'
<1> DEFINE batch == Batch(db, spent.batches + 1)
<1>1. db \in Tables /\ Sized(db) /\ spent.batches \in Nat /\ spent.sends \in Nat /\ job.e \in Nat /\ server \in Servers
  BY DEF IInv, Typed, Counts, Jobs
<1>2. refresh = NoRefresh /\ refresh' = NoRefresh
  BY DEF IInv, Phases
<1>3. db' = Saved(db, batch)
      /\ server' = [server EXCEPT !.live = others \union {job.e}, !.linked = @ \union links,
                                  !.shelf = Shelved(batch), !.owner = job.e, !.wire = {}]
  BY DEF Enrols
<1>4. Drawing(db, NoRefresh, spent.batches) /\ Receiving(db, server.wire, told.opened, told.half, spent.sends)
  BY <1>2 DEF IInv, PreKeys
<1>5. batch \in Batches
  BY <1>1, BatchType
<1>6. /\ Drawing(Saved(db, batch), NoRefresh, spent.batches + 1)
      /\ Shelved(batch) \in Shelf
      /\ Handing(Shelved(batch), {}, NoRefresh, spent.batches + 1)
      /\ Receiving(Saved(db, batch), {}, told.opened, told.half, spent.sends)
      /\ Holding(Saved(db, batch), Shelved(batch), {}, told.opened, told.half)
  BY <1>1, <1>4, EnrolKeeps
<1>7. Saved(db, batch) \in Tables /\ Sized(Saved(db, batch))
  BY <1>1, <1>5, SavedType
<1> HIDE DEF batch
<1>8. server' \in Servers /\ server'.shelf = Shelved(batch) /\ server'.wire = {} /\ server'.owner = job.e
      /\ server'.live = others \union {job.e} /\ server'.linked = server.linked \union links
  BY <1>1, <1>3, <1>6 DEF Servers
<1>9. PreKeys'
  BY <1>2, <1>3, <1>6, <1>8 DEF PreKeys
<1> QED BY <1>3, <1>7, <1>8, <1>9

LEMMA ScannedKeeps ==
  ASSUME IInv, Scanned
  PROVE  IInv'
<1>1. spent \in Counts /\ spent.batches \in Nat /\ spent.pools \in Nat /\ spent.sends \in Nat /\ spent.enrolments \in Nat
      /\ job \in Jobs /\ job.e \in Nat /\ server \in Servers /\ server.live \in SUBSET Nat /\ server.linked \in SUBSET Nat
  BY DEF IInv, Typed, Counts, Jobs, Servers
<1>2. PICK pool \in 0..spent.pools + 1, backup \in BOOLEAN :
        /\ job.todo = <<"scan">> /\ pool <= MaxPools
        /\ Enrols(server.live, {job.e})
        /\ job' = [job EXCEPT !.todo = IF backup THEN LinkOrder ELSE Tail(LinkOrder), !.pool = pool]
        /\ spent' = [spent EXCEPT !.batches = @ + 1, !.pools = IF pool > @ THEN pool ELSE @]
        /\ UNCHANGED <<kv, history, file, mem, told>> /\ UNCHANGED tasks
  BY DEF Scanned
<1>3. job.todo # <<>> /\ mem.reg = 0 /\ kv.reg = 0 /\ job.e = spent.enrolments /\ job.e # 0
  BY <1>2 DEF IInv, Phases
<1>4. spent' \in Counts /\ spent'.batches = spent.batches + 1 /\ spent'.sends = spent.sends
      /\ spent'.enrolments = spent.enrolments
  <2> DEFINE n == IF pool > spent.pools THEN pool ELSE spent.pools
  <2>1. n \in Nat /\ spent.batches + 1 \in Nat
    BY <1>1
  <2>2. spent' = [spent EXCEPT !.batches = spent.batches + 1, !.pools = n]
    BY <1>1, <1>2 DEF Counts
  <2> HIDE DEF n
  <2> QED BY <1>1, <2>1, <2>2 DEF Counts
<1>5. job' \in Jobs /\ job'.todo \in {LinkOrder, Tail(LinkOrder)} /\ job'.e = job.e
  <2>1. LinkOrder \in Todos /\ Tail(LinkOrder) \in Todos
    BY Orders DEF Todos
  <2>2. pool \in Nat
    BY <1>1
  <2> QED BY <1>1, <1>2, <2>1, <2>2 DEF Jobs
<1>6. /\ db' \in Tables /\ Sized(db') /\ server' \in Servers
      /\ server'.live = server.live \union {job.e} /\ server'.linked = server.linked \union {job.e}
      /\ server'.owner = job.e /\ PreKeys'
  <2>1. refresh' = refresh /\ told' = told /\ {job.e} \in SUBSET Nat
    BY <1>1, <1>2 DEF tasks
  <2> QED BY <1>1, <1>2, <1>3, <1>4, <2>1, EnrolsKeeps
<1>7. Typed'
  BY <1>2, <1>4, <1>5, <1>6 DEF IInv, Typed, tasks
<1>8. job'.todo # <<>> /\ job'.todo \notin AfterAci /\ job'.todo # <<"pool", "reg">> /\ job'.todo \notin AfterPni
  BY <1>5, Orders DEF AfterAci, LinkOrder
<1>9. Phases'
  BY <1>1, <1>2, <1>3, <1>4, <1>5, <1>6, <1>8 DEF IInv, Phases, tasks
<1>10. Enrolments'
  BY <1>2, <1>3, <1>4, <1>5, <1>6, <1>8 DEF IInv, Enrolments
<1>11. Pools'
  BY <1>2, <1>3 DEF IInv, Pools, tasks, Phases
<1>12. Masters'
  BY <1>2, <1>3, <1>8, Orders DEF IInv, Masters, tasks, Phases
<1>13. Download'
  BY <1>2, DownloadFrame DEF IInv, tasks
<1> QED BY <1>6, <1>7, <1>9, <1>10, <1>11, <1>12, <1>13 DEF IInv

LEMMA RegisteredKeeps ==
  ASSUME IInv, Registered
  PROVE  IInv'
<1>1. spent \in Counts /\ spent.batches \in Nat /\ spent.sends \in Nat /\ spent.enrolments \in Nat
      /\ job \in Jobs /\ job.e \in Nat /\ server \in Servers /\ server.live \in SUBSET Nat /\ server.linked \in SUBSET Nat
  BY DEF IInv, Typed, Counts, Jobs, Servers
<1>2. PICK others \in {{}, server.live} : Enrols(others, {})
  BY DEF Registered
<1>3. /\ job.todo # <<>> /\ Head(job.todo) = "wire"
      /\ job' = [job EXCEPT !.todo = Tail(job.todo)] /\ spent' = [spent EXCEPT !.batches = spent.batches + 1]
      /\ UNCHANGED <<kv, history, file, mem, told>> /\ UNCHANGED tasks
  BY DEF Registered
<1>4. mem.reg = 0 /\ kv.reg = 0 /\ job.e = spent.enrolments /\ job.e # 0
  BY <1>3 DEF IInv, Phases
<1>5. spent' \in Counts /\ spent'.batches = spent.batches + 1 /\ spent'.sends = spent.sends
      /\ spent'.enrolments = spent.enrolments
  BY <1>1, <1>3 DEF Counts
<1>6. job.todo \in Pending
  BY <1>1, <1>3, Orders DEF Jobs, Todos
<1>7. job' \in Jobs /\ job'.todo = Tail(job.todo) /\ job'.e = job.e /\ job'.pool = job.pool
  <2>1. Tail(job.todo) \in Todos
    BY <1>6, TodoSteps DEF Todos
  <2> QED BY <1>1, <1>3, <2>1 DEF Jobs
<1>8. /\ db' \in Tables /\ Sized(db') /\ server' \in Servers
      /\ server'.live = others \union {job.e} /\ server'.linked = server.linked \union {}
      /\ server'.owner = job.e /\ PreKeys'
  BY <1>1, <1>2, <1>3, <1>4, <1>5, EnrolsKeeps DEF tasks
<1>9. Typed'
  BY <1>3, <1>5, <1>7, <1>8 DEF IInv, Typed, tasks
<1>10. /\ job'.todo # <<>>
       /\ job'.todo \in AfterAci => job.todo \in AfterAci
       /\ job'.todo \in AfterPni => job.todo \in AfterPni
       /\ job'.todo # <<"pool", "reg">> /\ job.todo # <<"pool", "reg">>
  BY <1>3, <1>6, <1>7, AnswerSteps
<1>11. Phases'
  BY <1>1, <1>3, <1>4, <1>5, <1>7, <1>8, <1>10 DEF IInv, Phases, tasks
<1>12. Enrolments'
  BY <1>2, <1>3, <1>4, <1>5, <1>7, <1>8, <1>10 DEF IInv, Enrolments
<1>13. Pools'
  BY <1>3, <1>4 DEF IInv, Pools, tasks, Phases
<1>14. Masters'
  BY <1>3, <1>4, <1>10 DEF IInv, Masters, tasks, Phases
<1>15. Download'
  BY <1>3, DownloadFrame DEF IInv, tasks
<1> QED BY <1>8, <1>9, <1>11, <1>12, <1>13, <1>14, <1>15 DEF IInv

LEMMA CodeVerifiedKeeps ==
  ASSUME IInv, CodeVerified
  PROVE  IInv'
<1>1. job \in Jobs /\ job.todo # <<>> /\ Head(job.todo) = "code" /\ job' = [job EXCEPT !.todo = Tail(job.todo)]
      /\ UNCHANGED <<mem, server, told, spent>> /\ UNCHANGED store /\ UNCHANGED tasks
  BY DEF CodeVerified, IInv, Typed
<1>2. mem.reg = 0
  BY <1>1 DEF IInv, Phases
<1>3. job.todo \in Pending
  BY <1>1, Orders DEF Jobs, Todos
<1>4. job' \in Jobs /\ job'.todo = Tail(job.todo) /\ job'.e = job.e /\ job'.pool = job.pool
  <2>1. Tail(job.todo) \in Todos
    BY <1>3, TodoSteps DEF Todos
  <2> QED BY <1>1, <2>1 DEF Jobs
<1>5. /\ job'.todo # <<>>
      /\ job'.todo \in AfterAci => job.todo \in AfterAci
      /\ job'.todo \in AfterPni => job.todo \in AfterPni
      /\ job'.todo \in AfterServer => job.todo \in AfterServer
      /\ job'.todo # <<"pool", "reg">> /\ job.todo # <<"pool", "reg">>
  BY <1>1, <1>3, <1>4, AnswerSteps
<1>6. Typed'
  BY <1>1, <1>4 DEF IInv, Typed, store, tasks
<1>7. Phases'
  BY <1>1, <1>2, <1>4, <1>5 DEF IInv, Phases, store, tasks
<1>8. Enrolments'
  BY <1>1, <1>4, <1>5 DEF IInv, Enrolments, store
<1>9. Pools'
  BY <1>1, PoolsFrame DEF IInv, store, tasks
<1>10. Masters'
  BY <1>1, <1>2, <1>5 DEF IInv, Masters, store, tasks, Phases
<1>11. Download'
  BY <1>1, DownloadFrame DEF IInv, store, tasks
<1>12. PreKeys'
  BY <1>1, <1>4, PreKeysFrame, OursFrame DEF IInv, store, tasks
<1> QED BY <1>6, <1>7, <1>8, <1>9, <1>10, <1>11, <1>12 DEF IInv

(* No answer to the code.                                                  *)
LEMMA ScanFailedKeeps ==
  ASSUME IInv, ScanFailed
  PROVE  IInv'
<1>1. kv \in [KvKeys -> Nat] /\ job \in Jobs /\ job.e \in Nat /\ server \in Servers /\ server.live \in SUBSET Nat
      /\ server.linked \in SUBSET Nat /\ server.owner \in Nat /\ spent.enrolments \in Nat
  BY DEF IInv, Typed, Jobs, Servers, Counts
<1>2. job.todo = <<"scan">> /\ job' = NoJob
      /\ UNCHANGED <<history, file, mem, told>> /\ UNCHANGED tasks
  BY DEF ScanFailed
<1>3. job.todo # <<>> /\ job.todo # <<"pool", "reg">> /\ Tail(job.todo) = <<>>
  BY <1>2
<1>4. mem.reg = 0 /\ kv.reg = 0 /\ job.e = spent.enrolments
  BY <1>3 DEF IInv, Phases
<1>5. kv' \in [KvKeys -> Nat] /\ kv'.reg = 0 /\ kv'.master = kv.master /\ kv'.pool = kv.pool
  BY <1>1, <1>4 DEF ScanFailed, Cleared, KvKeys
<1>6. /\ server' \in Servers /\ server'.live \subseteq server.live \union {job.e}
      /\ server'.owner \in {0, server.owner}
      /\ \/ server'.shelf = EmptyShelf /\ server'.wire = {}
         \/ server'.shelf = server.shelf /\ server'.wire = server.wire
  <2>1. CASE server' = server
    BY <1>1, <2>1
  <2>2. CASE server' = [server EXCEPT !.live = @ \union {job.e}, !.linked = @ \union {job.e}, !.owner = 0,
                                      !.shelf = EmptyShelf, !.wire = {}]
    BY <1>1, <2>2, Nothing DEF Servers
  <2> QED BY <2>1, <2>2 DEF ScanFailed
<1> DEFINE left == Saved(db, Batch(db, spent.batches + 1))
<1>7. \/ db' = NoTables /\ spent' = Failing
      \/ db' = left /\ spent' = [Failing EXCEPT !.batches = @ + 1]
  BY DEF ScanFailed, Cleared
<1>8. /\ db \in Tables /\ Sized(db) /\ spent.batches \in Nat /\ spent.sends \in Nat
      /\ server.wire \in SUBSET Message
  BY DEF IInv, Typed, Counts, Servers
<1>9. /\ spent' \in Counts /\ spent'.enrolments = spent.enrolments /\ spent'.sends = spent.sends
      /\ \/ db' = NoTables /\ spent'.batches = spent.batches
         \/ db' = left /\ spent'.batches = spent.batches + 1
  <2>1. /\ Failing \in Counts /\ Failing.enrolments = spent.enrolments
        /\ Failing.batches = spent.batches /\ Failing.sends = spent.sends
    BY Counting DEF IInv
  <2>2. Failing.batches + 1 \in Nat
    BY <1>8, <2>1
  <2> HIDE DEF left
  <2> QED BY <1>7, <2>1, <2>2 DEF Counts
<1>10. /\ refresh = NoRefresh /\ refresh' = NoRefresh
       /\ Drawing(db, NoRefresh, spent.batches)
       /\ Handing(server.shelf, server.wire, NoRefresh, spent.batches)
       /\ Receiving(db, server.wire, told.opened, told.half, spent.sends)
  <2>1. refresh = NoRefresh /\ refresh' = NoRefresh
    BY <1>2, <1>4 DEF IInv, Phases, tasks
  <2> QED BY <2>1 DEF IInv, PreKeys
<1>11. /\ left \in Tables /\ Sized(left)
       /\ Drawing(left, NoRefresh, spent.batches + 1)
       /\ Handing(server.shelf, server.wire, NoRefresh, spent.batches + 1)
       /\ Receiving(left, server.wire, told.opened, told.half, spent.sends)
  BY <1>8, <1>10, LeftoverKeeps
<1> HIDE DEF left
<1>12. db' \in Tables /\ Sized(db')
  BY <1>9, <1>11, Nothing
<1>13. Typed'
  BY <1>2, <1>5, <1>6, <1>9, <1>12, Nothing DEF IInv, Typed, tasks
<1>14. Phases'
  BY <1>1, <1>2, <1>4, <1>5, <1>6, <1>9, Nothing, Orders DEF IInv, Phases, tasks, AfterAci
<1>15. Enrolments'
  <2>1. job.e \notin told.unlinked /\ 0 \notin told.issued
    BY <1>1, <1>3 DEF IInv, Enrolments
  <2> QED BY <1>2, <1>4, <1>5, <1>6, <1>9, <2>1, Nothing DEF IInv, Enrolments
<1>16. Pools'
  BY <1>2, <1>4, <1>5 DEF IInv, Pools, tasks, Phases
<1>17. Masters'
  BY <1>2, <1>3, <1>4, <1>5, Nothing DEF IInv, Masters, tasks, Phases
<1>18. Download'
  BY <1>2, DownloadFrame DEF IInv, tasks
<1>19. PreKeys'
  <2>1. ~ Ours'
    BY <1>2, <1>5, Nothing DEF Ours
  <2>2. \A n \in Nat : Handing(EmptyShelf, {}, NoRefresh, n)
    BY Nothing DEF Handing, HandedOnce, Avoids, EmptyShelf
  <2>3. \A d : Receiving(d, server.wire, told.opened, told.half, spent.sends)
               => Receiving(d, {}, told.opened, told.half, spent.sends)
    BY DEF Receiving
  <2>4. /\ Drawing(NoTables, NoRefresh, spent.batches)
        /\ Receiving(NoTables, server.wire, told.opened, told.half, spent.sends)
    BY <1>10, NoTablesKeep
  <2>5. /\ Drawing(db', NoRefresh, spent'.batches)
        /\ Handing(server.shelf, server.wire, NoRefresh, spent'.batches)
        /\ Receiving(db', server.wire, told.opened, told.half, spent.sends)
    BY <1>9, <1>10, <1>11, <2>4
  <2>6. spent'.batches \in Nat
    BY <1>9 DEF Counts
  <2>7. /\ Handing(server'.shelf, server'.wire, NoRefresh, spent'.batches)
        /\ Receiving(db', server'.wire, told.opened, told.half, spent.sends)
    BY <1>6, <2>2, <2>3, <2>5, <2>6
  <2> QED BY <1>2, <1>9, <1>10, <2>1, <2>5, <2>7 DEF PreKeys
<1> QED BY <1>13, <1>14, <1>15, <1>16, <1>17, <1>18, <1>19 DEF IInv

(* The master key comes right before the pool.                             *)
LEMMA StoreSteps ==
  ASSUME NEW s \in Pending
  PROVE  /\ Head(s) = "pool" => s = <<"pool", "reg">> /\ Tail(s) # <<"pool", "reg">>
         /\ Head(s) = "master" <=> Tail(s) = <<"pool", "reg">>
         /\ s = <<"pool", "reg">> => Head(s) = "pool"
         /\ Tail(s) = <<>> => Head(s) = "reg" /\ s # <<"pool", "reg">>
<1> DEFINE Other == /\ Head(s) \notin {"pool", "master"} /\ Tail(s) # <<"pool", "reg">>
                    /\ Tail(s) # <<>> /\ s # <<"pool", "reg">>
<1>1. s = <<"code", "aci", "pni", "wire", "reg">> => Other
  OBVIOUS
<1>2. s = <<"master", "pool", "reg">>
      => Head(s) = "master" /\ Tail(s) = <<"pool", "reg">> /\ Tail(s) # <<>> /\ s # <<"pool", "reg">>
  OBVIOUS
<1>3. s = <<"pool", "reg">> => Head(s) = "pool" /\ Tail(s) # <<"pool", "reg">> /\ Tail(s) # <<>>
  OBVIOUS
<1>4. s = <<"reg">> => Head(s) = "reg" /\ Tail(s) # <<"pool", "reg">> /\ s # <<"pool", "reg">>
  OBVIOUS
<1>5. s = <<"aci", "pni", "wire", "reg">> => Other
  OBVIOUS
<1>6. s = <<"pni", "wire", "reg">> => Other
  OBVIOUS
<1>7. s = <<"wire", "reg">> => Other
  OBVIOUS
<1>8. s = <<"backup", "aci", "pni", "master", "pool", "reg">> => Other
  OBVIOUS
<1>9. s = <<"aci", "pni", "master", "pool", "reg">> => Other
  OBVIOUS
<1>10. s = <<"pni", "master", "pool", "reg">> => Other
  OBVIOUS
<1> QED BY <1>1, <1>2, <1>3, <1>4, <1>5, <1>6, <1>7, <1>8, <1>9, <1>10 DEF Pending, AfterAci, AfterPni

(* One store call after another.                                           *)
LEMMA StoreKeeps ==
  ASSUME IInv, Store
  PROVE  IInv'
<1> DEFINE h == Head(job.todo)
<1>1. kv \in [KvKeys -> Nat] /\ job \in Jobs /\ job.e \in Nat /\ job.pool \in Nat /\ told \in Accounts
      /\ spent.enrolments \in Nat /\ server.owner \in Nat
  BY DEF IInv, Typed, Jobs, Counts, Servers
<1>2. /\ job.todo # <<>> /\ h \in KvKeys
      /\ kv' = [kv EXCEPT ![h] = Value(h)]
      /\ UNCHANGED <<db, history, file, server, spent>> /\ UNCHANGED tasks
  BY DEF Store
<1>3. job.todo \in Pending
  <2>1. "scan" \notin KvKeys
    BY DEF KvKeys
  <2> QED BY <1>1, <1>2, <2>1, Orders DEF Jobs, Todos
<1>4. mem = NoMem /\ mem.reg = 0 /\ kv.reg = 0 /\ job.e = spent.enrolments /\ job.e # 0
      /\ unlink = 0 /\ ~ keys /\ pooling = [c \in Callers |-> 0] /\ refresh = NoRefresh /\ imp = NoImport
  BY <1>2, Nothing DEF IInv, Phases
<1>5. /\ told' \in Accounts /\ told'.halved = (told.halved /\ h # "pool")
      /\ told'.issued = told.issued /\ told'.given = told.given /\ told'.torn = told.torn
      /\ told'.unlinked = told.unlinked /\ told'.opened = told.opened /\ told'.half = told.half
  <2>1. told' = [told EXCEPT !.halved = (told.halved /\ h # "pool")]
    BY DEF Store
  <2> QED BY <1>1, <2>1 DEF Accounts
<1>6. Value(h) \in Nat /\ (h \in {"master", "pool"} => Value(h) = job.pool) /\ (h \in {"reg", "aci", "pni"} => Value(h) = job.e)
  BY <1>1 DEF Value
<1>7. /\ kv' \in [KvKeys -> Nat]
      /\ kv'.reg = IF h = "reg" THEN job.e ELSE kv.reg
      /\ kv'.aci = IF h = "aci" THEN job.e ELSE kv.aci
      /\ kv'.pni = IF h = "pni" THEN job.e ELSE kv.pni
      /\ kv'.master = IF h = "master" THEN job.pool ELSE kv.master
      /\ kv'.pool = IF h = "pool" THEN job.pool ELSE kv.pool
      /\ h \notin {"cert"} => kv'.cert = kv.cert
  BY <1>1, <1>2, <1>6 DEF KvKeys
<1>8. h # "wire" /\ h # "cert" /\ h # "code"
  BY <1>2, <1>3, TodoSteps DEF KvKeys
<1> HIDE DEF h
<1>9. CASE Tail(job.todo) = <<>>
  <2>1. h = "reg" /\ job.todo \in AfterAci /\ job.todo \in AfterPni /\ job.todo \in AfterServer /\ job.todo # <<"pool", "reg">>
    BY <1>3, <1>9, TodoSteps, StoreSteps DEF h
  <2>2. job' = NoJob /\ mem' = [NoMem EXCEPT !.reg = job.e]
    BY <1>9 DEF Store
  <2>3. mem' \in Mems /\ mem'.reg = job.e /\ mem'.cert = 0 /\ mem'.pool = 0
    BY <1>1, <2>2 DEF NoMem, Mems
  <2>4. kv'.reg = job.e /\ kv'.aci = kv.aci /\ kv'.pni = kv.pni /\ kv'.master = kv.master /\ kv'.pool = kv.pool
        /\ kv'.cert = kv.cert /\ told'.halved = told.halved
    BY <1>1, <1>5, <1>7, <2>1 DEF Accounts
  <2>5. kv.aci = job.e /\ kv.pni = job.e /\ server.owner = job.e
    BY <2>1 DEF IInv, Phases
  <2>6. Typed'
    BY <1>2, <1>5, <1>7, <2>2, <2>3, Nothing DEF IInv, Typed, tasks
  <2>7. Phases'
    BY <1>1, <1>2, <1>4, <2>2, <2>3, <2>4, <2>5, Nothing, Orders DEF Phases, tasks, AfterAci
  <2>8. Enrolments'
    BY <1>2, <1>5, <2>2, <2>3, <2>4, Nothing DEF IInv, Enrolments
  <2>9. Pools'
    BY <1>2, <1>4, <1>5, <2>3, <2>4 DEF IInv, Pools, tasks
  <2>10. Masters'
    BY <1>2, <1>4, <2>1, <2>2, <2>3, <2>4, Nothing DEF IInv, Masters, tasks
  <2>11. Download'
    BY <1>2, DownloadFrame DEF IInv, tasks
  <2>12. PreKeys'
    <3>1. Ours' => Ours
      BY <1>2, <1>4, <2>5 DEF Ours
    <3> QED BY <1>2, <1>5, <3>1, PreKeysFrame DEF IInv, tasks
  <2> QED BY <2>6, <2>7, <2>8, <2>9, <2>10, <2>11, <2>12 DEF IInv
<1>10. CASE Tail(job.todo) # <<>>
  <2>1. h # "reg" /\ Tail(job.todo) \in Pending
        /\ (Tail(job.todo) \in AfterAci => job.todo \in AfterAci \/ h = "aci")
        /\ (Tail(job.todo) \in AfterPni => job.todo \in AfterPni \/ h = "pni")
        /\ (Tail(job.todo) \in AfterServer => job.todo \in AfterServer)
    BY <1>3, <1>8, <1>10, TodoSteps DEF h
  <2>2. mem' = mem /\ job' = [job EXCEPT !.todo = Tail(job.todo)]
    BY <1>10 DEF Store
  <2>3. job' \in Jobs /\ job'.todo = Tail(job.todo) /\ job'.e = job.e /\ job'.pool = job.pool
    BY <1>1, <2>1, <2>2 DEF Jobs, Todos
  <2>4. kv'.reg = 0 /\ kv'.cert = kv.cert
    BY <1>4, <1>7, <1>8, <2>1
  <2>5. Typed'
    BY <1>2, <1>5, <1>7, <2>2, <2>3 DEF IInv, Typed, tasks
  <2>6. Phases'
    BY <1>1, <1>2, <1>4, <1>7, <1>10, <2>1, <2>2, <2>3, <2>4 DEF IInv, Phases, tasks
  <2>7. Enrolments'
    BY <1>2, <1>4, <1>5, <1>10, <2>2, <2>3, <2>4 DEF IInv, Enrolments
  <2>8. Pools'
    BY <1>2, <1>4, <1>5, <2>2, <2>4 DEF IInv, Pools, tasks
  <2>9. Masters'
    <3>1. (h = "pool" => job.todo = <<"pool", "reg">> /\ job'.todo # <<"pool", "reg">>)
          /\ (h = "master" <=> job'.todo = <<"pool", "reg">>) /\ (job.todo = <<"pool", "reg">> => h = "pool")
      BY <1>3, <2>3, StoreSteps DEF h
    <3>2. CASE h = "pool"
      <4>1. job'.todo # <<"pool", "reg">> /\ kv'.master = job.pool /\ kv'.pool = job.pool
        BY <1>7, <3>1, <3>2 DEF IInv, Masters
      <4> QED BY <1>2, <1>4, <2>2, <4>1 DEF Masters, tasks
    <3>3. CASE h = "master"
      <4>1. job'.todo = <<"pool", "reg">> /\ kv'.master = job'.pool
        BY <1>7, <2>3, <3>1, <3>3
      <4> QED BY <1>2, <1>4, <2>2, <4>1 DEF Masters, tasks
    <3>4. CASE h # "pool" /\ h # "master"
      <4>1. job.todo # <<"pool", "reg">> /\ job'.todo # <<"pool", "reg">> /\ kv'.master = kv.master /\ kv'.pool = kv.pool
            /\ (~ told'.halved => ~ told.halved)
        BY <1>5, <1>7, <3>1, <3>4
      <4> QED BY <1>2, <1>4, <2>2, <4>1 DEF IInv, Masters, tasks
    <3> QED BY <3>2, <3>3, <3>4
  <2>10. Download'
    BY <1>2, DownloadFrame DEF IInv, tasks
  <2>11. PreKeys'
    <3>1. Ours' => Ours
      BY <1>2, <1>4, <2>3, <2>4 DEF Ours
    <3> QED BY <1>2, <1>5, <3>1, PreKeysFrame DEF IInv, tasks
  <2> QED BY <2>2, <2>5, <2>6, <2>7, <2>8, <2>9, <2>10, <2>11 DEF IInv
<1> QED BY <1>9, <1>10

LEMMA LoadKeeps ==
  ASSUME IInv, Load
  PROVE  IInv'
<1>1. kv \in [KvKeys -> Nat] /\ kv.reg \in Nat /\ kv.cert \in Nat
  BY DEF IInv, Typed, KvKeys
<1>2. /\ mem.reg = 0 /\ job.todo = <<>> /\ kv.reg # 0
      /\ mem' = [NoMem EXCEPT !.reg = kv.reg, !.cert = kv.cert]
      /\ UNCHANGED <<job, server, told, spent>> /\ UNCHANGED store /\ UNCHANGED tasks
  BY DEF Load
<1>3. mem' \in Mems /\ mem'.reg = kv.reg /\ mem'.cert = kv.cert /\ mem'.pool = 0
  BY <1>1, <1>2 DEF NoMem, Mems
<1>4. unlink = 0 /\ ~ keys /\ pooling = [c \in Callers |-> 0] /\ refresh = NoRefresh /\ imp = NoImport
  BY <1>2 DEF IInv, Phases
<1>5. Typed'
  BY <1>2, <1>3 DEF IInv, Typed, store, tasks
<1>6. Phases'
  BY <1>2, <1>3 DEF IInv, Phases, store, tasks
<1>7. Enrolments'
  BY <1>2, <1>3 DEF IInv, Enrolments, store
<1>8. Pools'
  BY <1>2, <1>3, <1>4 DEF IInv, Pools, Primary, store, tasks
<1>9. Masters'
  BY <1>2, <1>3, <1>4 DEF IInv, Masters, store, tasks
<1>10. Download'
  BY <1>2, DownloadFrame DEF IInv, store, tasks
<1>11. PreKeys'
  BY <1>2, PreKeysFrame, OursFrame DEF IInv, store, tasks
<1> QED BY <1>5, <1>6, <1>7, <1>8, <1>9, <1>10, <1>11 DEF IInv

(* A task that is over, or only begins, has no batch to save or to upload. *)
LEMMA NoBatchKeeps ==
  ASSUME NEW d, NEW shelf, NEW wire, NEW r, NEW n, NEW s, Drawing(d, r, n), Handing(shelf, wire, r, n),
         s.step \notin {"save", "upload"}
  PROVE  Drawing(d, s, n) /\ Handing(shelf, wire, s, n)
BY DEF Drawing, Handing

(* Whatever is under way is lost, and the store stays as it is.            *)
LEMMA StopKeeps ==
  ASSUME IInv, Stop
  PROVE  IInv'
<1>1. /\ mem' = NoMem /\ job' = NoJob /\ spent' = Failing
      /\ pooling' = [c \in Callers |-> 0] /\ unlink' = 0 /\ refresh' = NoRefresh /\ keys' = FALSE /\ imp' = NoImport
      /\ UNCHANGED server /\ UNCHANGED store
  BY DEF Stop
<1>2. /\ told' \in Accounts /\ (~ told'.halved => ~ told.halved /\ ~ Halving)
      /\ told'.issued = told.issued /\ told'.given = told.given /\ told'.torn = told.torn
      /\ told'.unlinked = told.unlinked /\ told'.opened = told.opened /\ told'.half = told.half
  <2>1. Halving \in BOOLEAN /\ told \in Accounts /\ told.halved \in BOOLEAN
    BY DEF Halving, IInv, Typed, Accounts
  <2>2. told' = [told EXCEPT !.halved = told.halved \/ Halving]
    BY DEF Stop
  <2> QED BY <2>1, <2>2 DEF Accounts
<1>3. spent' \in Counts /\ spent'.enrolments = spent.enrolments
      /\ spent'.batches = spent.batches /\ spent'.sends = spent.sends
  BY <1>1, Counting DEF IInv
<1>4. Typed'
  <2>1. 0 \in 0..3 /\ FALSE \in BOOLEAN /\ [c \in Callers |-> 0] \in [Callers -> Nat]
    OBVIOUS
  <2> QED BY <1>1, <1>2, <1>3, <2>1, Nothing DEF IInv, Typed, store
<1>5. Phases'
  BY <1>1, <1>3, Nothing, Orders DEF IInv, Phases, store, AfterAci
<1>6. Enrolments'
  <2>1. 0 \notin told.issued
    BY DEF IInv, Enrolments, Typed, Counts
  <2> QED BY <1>1, <1>2, <1>3, <2>1, Nothing DEF IInv, Enrolments, store
<1>7. Pools'
  <2>1. kv.reg = 0 => told.given = {}
    BY DEF IInv, Pools
  <2> QED BY <1>1, <1>2, <2>1, Nothing DEF IInv, Pools, Primary, store
<1>8. Masters'
  <2>1. ~ told'.halved => job.todo # <<"pool", "reg">> /\ ~ keys
    BY <1>2, NotHalving DEF Halving, IInv
  <2> QED BY <1>1, <1>2, <2>1, Nothing DEF IInv, Masters, store
<1>9. Download'
  BY <1>1, Nothing DEF IInv, Download, FileIsPrefix, store
<1>10. PreKeys'
  <2>1. Ours' => Ours
    BY <1>1, Nothing DEF Ours, store
  <2>2. Drawing(db, NoRefresh, spent.batches) /\ Handing(server.shelf, server.wire, NoRefresh, spent.batches)
    BY NoBatchKeeps, Nothing DEF IInv, PreKeys
  <2> QED BY <1>1, <1>2, <1>3, <2>1, <2>2 DEF IInv, PreKeys, store
<1> QED BY <1>4, <1>5, <1>6, <1>7, <1>8, <1>9, <1>10 DEF IInv

(***************************************************************************)
(* The account's keys                                                      *)
(***************************************************************************)
(* A loaded manager: the records' fields, and what holds of it.            *)
LEMMA Loaded ==
  ASSUME IInv, mem.reg # 0
  PROVE  /\ kv \in [KvKeys -> Nat] /\ kv.pool \in Nat /\ kv.master \in Nat /\ kv.cert \in Nat
         /\ mem \in Mems /\ mem.reg \in 1..spent.enrolments /\ mem.pool \in Nat
         /\ told \in Accounts /\ server \in Servers /\ refresh \in Refreshes /\ spent \in Counts
         /\ spent.enrolments \in Nat /\ spent.pools \in Nat /\ spent.faults \in Nat /\ spent.batches \in Nat
         /\ kv.reg = mem.reg /\ job.todo = <<>> /\ job.todo # <<"pool", "reg">>
         /\ server.owner = kv.reg /\ Ours
         /\ pooling \in [Callers -> Nat]
<1>1. /\ kv \in [KvKeys -> Nat] /\ mem \in Mems /\ told \in Accounts /\ server \in Servers /\ refresh \in Refreshes
      /\ spent \in Counts /\ pooling \in [Callers -> Nat]
  BY DEF IInv, Typed
<1>2. /\ kv.pool \in Nat /\ kv.master \in Nat /\ kv.cert \in Nat /\ mem.reg \in Nat /\ mem.pool \in Nat
      /\ spent.enrolments \in Nat /\ spent.pools \in Nat /\ spent.faults \in Nat /\ spent.batches \in Nat
  BY <1>1 DEF KvKeys, Mems, Counts
<1>3. kv.reg = mem.reg /\ job.todo = <<>> /\ kv.reg <= spent.enrolments /\ server.owner = kv.reg
  BY DEF IInv, Phases
<1>4. <<>> # <<"pool", "reg">>
  OBVIOUS
<1> QED BY <1>1, <1>2, <1>3, <1>4 DEF Ours

LEMMA TakesStream ==
  ASSUME mem \in Mems, refresh \in Refreshes, NEW pool \in Nat,
         mem' = [mem EXCEPT !.streaming = TRUE, !.pool = pool], refresh' = [refresh EXCEPT !.step = "status"]
  PROVE  /\ mem' \in Mems /\ mem'.reg = mem.reg /\ mem'.cert = mem.cert /\ mem'.pool = pool
         /\ refresh' \in Refreshes /\ refresh'.step = "status"
BY DEF Mems, Refreshes

LEMMA Gives ==
  ASSUME told \in Accounts, NEW pool \in Nat, told' = [told EXCEPT !.given = @ \union {pool}]
  PROVE  /\ told' \in Accounts /\ told'.given = told.given \union {pool}
         /\ told'.torn = told.torn /\ told'.halved = told.halved /\ told'.issued = told.issued
         /\ told'.unlinked = told.unlinked /\ told'.opened = told.opened /\ told'.half = told.half
BY DEF Accounts

LEMMA BeginPoolKeeps ==
  ASSUME IInv, NEW c \in Callers, BeginPool(c)
  PROVE  IInv'
<1>1. mem.reg # 0 /\ pooling[c] = 0 /\ ((c = "stream" /\ ~ mem.streaming) \/ (c = "give" /\ Primary(mem.reg)))
      /\ UNCHANGED <<job, unlink, keys, imp, server>> /\ UNCHANGED store
  BY DEF BeginPool
<1>2. /\ kv.pool \in Nat /\ kv.master \in Nat /\ mem \in Mems /\ told \in Accounts /\ refresh \in Refreshes
      /\ spent.pools \in Nat /\ kv.reg = mem.reg /\ job.todo # <<"pool", "reg">> /\ pooling \in [Callers -> Nat]
  BY <1>1, Loaded
<1>3. Drawing(db, refresh, spent.batches) /\ Handing(server.shelf, server.wire, refresh, spent.batches)
  BY DEF IInv, PreKeys
<1>4. Ours' => Ours
  BY <1>1, OursFrame DEF store
<1>5. CASE kv.pool # 0 \/ ~ Primary(mem.reg)
  <2>1. Takes(c, kv.pool) /\ spent' = Spending(1) /\ pooling' = pooling
    BY <1>5 DEF BeginPool
  <2>2. spent' \in Counts /\ spent'.enrolments = spent.enrolments
        /\ spent'.batches = spent.batches /\ spent'.sends = spent.sends
    BY <2>1, Counting DEF IInv
  <2>3. CASE c = "stream"
    <3>1. /\ mem' = [mem EXCEPT !.streaming = TRUE, !.pool = kv.pool]
          /\ refresh' = [refresh EXCEPT !.step = "status"] /\ told' = told
      BY <2>1, <2>3 DEF Takes
    <3>2. /\ mem' \in Mems /\ mem'.reg = mem.reg /\ mem'.cert = mem.cert /\ mem'.pool = kv.pool
          /\ refresh' \in Refreshes /\ refresh'.step = "status"
      BY <1>2, <3>1, TakesStream
    <3>3. Typed'
      BY <1>1, <2>1, <2>2, <3>1, <3>2 DEF IInv, Typed, store
    <3>4. Phases'
      BY <1>1, <2>2, <3>2, PhasesFrame DEF IInv, store
    <3>5. Enrolments'
      BY <1>1, <2>2, <3>1, <3>2, EnrolmentsFrame DEF IInv, store
    <3>6. Pools'
      BY <1>1, <2>1, <3>1, <3>2 DEF IInv, Pools, Primary, store
    <3>7. Masters'
      BY <1>1, <2>1, <3>1, <3>2 DEF IInv, Masters, Primary, store
    <3>8. Download'
      BY <1>1, DownloadFrame DEF IInv, store
    <3>9. PreKeys'
      <4>1. Drawing(db, refresh', spent.batches) /\ Handing(server.shelf, server.wire, refresh', spent.batches)
        BY <1>3, <3>2, NoBatchKeeps
      <4> QED BY <1>1, <1>4, <2>2, <3>1, <4>1 DEF IInv, PreKeys, store
    <3> QED BY <3>3, <3>4, <3>5, <3>6, <3>7, <3>8, <3>9 DEF IInv
  <2>4. CASE c = "give"
    <3>1. told' = [told EXCEPT !.given = @ \union {kv.pool}] /\ UNCHANGED <<mem, refresh>>
      BY <2>1, <2>4 DEF Takes
    <3>2. /\ told' \in Accounts /\ told'.given = told.given \union {kv.pool}
          /\ told'.torn = told.torn /\ told'.halved = told.halved /\ told'.issued = told.issued
          /\ told'.unlinked = told.unlinked /\ told'.opened = told.opened /\ told'.half = told.half
      BY <1>2, <3>1, Gives
    <3>3. kv.pool # 0
      BY <1>1, <1>5, <2>4
    <3>4. Typed'
      BY <1>1, <2>1, <2>2, <3>1, <3>2 DEF IInv, Typed, store
    <3>5. Phases'
      BY <1>1, <2>2, <3>1, PhasesFrame DEF IInv, store
    <3>6. Enrolments'
      BY <1>1, <2>2, <3>1, <3>2, EnrolmentsFrame DEF IInv, store
    <3>7. Pools'
      BY <1>1, <1>2, <2>1, <3>1, <3>2, <3>3 DEF IInv, Pools, Primary, store
    <3>8. Masters'
      BY <1>1, <2>1, <3>1, <3>2, MastersFrame DEF IInv, store
    <3>9. Download'
      BY <1>1, DownloadFrame DEF IInv, store
    <3>10. PreKeys'
      BY <1>1, <1>4, <2>2, <3>1, <3>2, PreKeysFrame DEF IInv, store
    <3> QED BY <3>4, <3>5, <3>6, <3>7, <3>8, <3>9, <3>10 DEF IInv
  <2> QED BY <1>1, <2>3, <2>4
<1>6. CASE kv.pool = 0 /\ Primary(mem.reg)
  <2>1. /\ pooling' = [pooling EXCEPT ![c] = spent.pools + 1]
        /\ spent' = [Spending(1) EXCEPT !.pools = @ + 1] /\ UNCHANGED <<mem, refresh, told>>
    BY <1>6 DEF BeginPool
  <2>2. spent' \in Counts /\ spent'.enrolments = spent.enrolments
        /\ spent'.batches = spent.batches /\ spent'.sends = spent.sends
    <3>1. Spending(1) \in Counts /\ Spending(1).pools \in Nat /\ Spending(1).enrolments = spent.enrolments
          /\ Spending(1).batches = spent.batches /\ Spending(1).sends = spent.sends
      BY <1>2, Counting DEF IInv
    <3>2. Spending(1).pools + 1 \in Nat /\ spent' = [Spending(1) EXCEPT !.pools = Spending(1).pools + 1]
      BY <2>1, <3>1 DEF Counts
    <3> QED BY <3>1, <3>2 DEF Counts
  <2>3. pooling' \in [Callers -> Nat]
    BY <1>2, <2>1
  <2>4. \A d \in Callers : pooling'[d] # 0 => Primary(mem.reg)
    BY <1>6
  <2>5. ~ told.halved => kv.master = 0
    BY <1>2, <1>6 DEF IInv, Masters
  <2>6. Typed'
    BY <1>1, <2>1, <2>2, <2>3 DEF IInv, Typed, store
  <2>7. Phases'
    BY <1>1, <2>1, <2>2, PhasesFrame DEF IInv, store
  <2>8. Enrolments'
    BY <1>1, <2>1, <2>2, EnrolmentsFrame DEF IInv, store
  <2>9. Pools'
    BY <1>1, <2>1, <2>4 DEF IInv, Pools, Primary, store
  <2>10. Masters'
    BY <1>1, <2>1, <2>5 DEF IInv, Masters, Primary, store
  <2>11. Download'
    BY <1>1, DownloadFrame DEF IInv, store
  <2>12. PreKeys'
    BY <1>1, <1>4, <2>1, <2>2, PreKeysFrame DEF IInv, store
  <2> QED BY <2>6, <2>7, <2>8, <2>9, <2>10, <2>11, <2>12 DEF IInv
<1> QED BY <1>5, <1>6

(* The pool drawn is stored; two callers may both have found none.         *)
LEMMA PoolDrawnKeeps ==
  ASSUME IInv, NEW c \in Callers, PoolDrawn(c)
  PROVE  IInv'
<1> DEFINE p == pooling[c]
<1>1. p # 0 /\ kv' = [kv EXCEPT !.pool = p] /\ pooling' = [pooling EXCEPT ![c] = 0]
      /\ UNCHANGED <<db, history, file, job, unlink, keys, imp, server, spent>>
  BY DEF PoolDrawn, StorePool
<1>2. mem.reg # 0 /\ Primary(mem.reg)
  BY <1>1 DEF IInv, Pools, Phases
<1>3. /\ kv \in [KvKeys -> Nat] /\ mem \in Mems /\ told \in Accounts /\ refresh \in Refreshes /\ kv.pool \in Nat
      /\ kv.reg = mem.reg /\ job.todo # <<"pool", "reg">> /\ pooling \in [Callers -> Nat] /\ p \in Nat
  BY <1>2, Loaded
<1> HIDE DEF p
<1>4. kv' \in [KvKeys -> Nat] /\ kv'.pool = p /\ kv'.reg = kv.reg /\ kv'.aci = kv.aci /\ kv'.pni = kv.pni
      /\ kv'.cert = kv.cert /\ kv'.master = kv.master
  BY <1>1, <1>3 DEF KvKeys
<1>5. pooling' \in [Callers -> Nat] /\ \A d \in Callers : pooling'[d] # 0 => pooling[d] # 0
  BY <1>1, <1>3
<1>6. Drawing(db, refresh, spent.batches) /\ Handing(server.shelf, server.wire, refresh, spent.batches)
  BY DEF IInv, PreKeys
<1>7. Ours' => Ours
  BY <1>1, <1>4, OursFrame
<1>8. ~ keys /\ (~ told.halved => kv.master = 0)
  BY <1>1, <1>2 DEF IInv, Masters, p
<1>9. kv.pool = 0 /\ ~ told.torn => told.given = {} /\ mem.pool = 0
  BY <1>2, <1>3 DEF IInv, Pools
<1>10. Download'
  BY <1>1, DownloadFrame DEF IInv
<1>11. told.halved \in BOOLEAN /\ (told.torn \/ kv.pool # 0) \in BOOLEAN
  BY <1>3 DEF Accounts
<1>12. CASE c = "stream"
  <2>1. /\ mem' = [mem EXCEPT !.streaming = TRUE, !.pool = p]
        /\ refresh' = [refresh EXCEPT !.step = "status"]
        /\ told' = [told EXCEPT !.torn = (told.torn \/ kv.pool # 0)]
    BY <1>12 DEF PoolDrawn, p
  <2>2. /\ mem' \in Mems /\ mem'.reg = mem.reg /\ mem'.cert = mem.cert /\ mem'.pool = p
        /\ refresh' \in Refreshes /\ refresh'.step = "status"
    BY <1>3, <2>1, TakesStream
  <2>3. /\ told' \in Accounts /\ told'.given = told.given
        /\ told'.torn = (told.torn \/ kv.pool # 0) /\ told'.halved = told.halved /\ told'.issued = told.issued
        /\ told'.unlinked = told.unlinked /\ told'.opened = told.opened /\ told'.half = told.half
    BY <1>3, <1>11, <2>1 DEF Accounts
  <2>4. Typed'
    BY <1>1, <1>4, <1>5, <2>2, <2>3 DEF IInv, Typed
  <2>5. Phases'
    BY <1>1, <1>2, <1>4, <2>2, PhasesFrame DEF IInv
  <2>6. Enrolments'
    BY <1>1, <1>4, <2>2, <2>3, EnrolmentsFrame DEF IInv
  <2>7. Pools'
    BY <1>1, <1>2, <1>3, <1>4, <1>5, <1>9, <2>2, <2>3 DEF IInv, Pools, Primary
  <2>8. Masters'
    BY <1>1, <1>2, <1>3, <1>4, <1>5, <1>8, <2>2, <2>3 DEF Masters, Primary
  <2>9. PreKeys'
    <3>1. Drawing(db, refresh', spent.batches) /\ Handing(server.shelf, server.wire, refresh', spent.batches)
      BY <1>6, <2>2, NoBatchKeeps
    <3> QED BY <1>1, <1>7, <2>3, <3>1 DEF IInv, PreKeys
  <2> QED BY <1>10, <2>4, <2>5, <2>6, <2>7, <2>8, <2>9 DEF IInv
<1>13. CASE c = "give"
  <2>1. told' = [told EXCEPT !.given = told.given \union {p}, !.torn = (told.torn \/ kv.pool # 0)]
        /\ UNCHANGED <<mem, refresh>>
    BY <1>13 DEF PoolDrawn, p
  <2>2. /\ told' \in Accounts /\ told'.given = told.given \union {p}
        /\ told'.torn = (told.torn \/ kv.pool # 0) /\ told'.halved = told.halved /\ told'.issued = told.issued
        /\ told'.unlinked = told.unlinked /\ told'.opened = told.opened /\ told'.half = told.half
    BY <1>3, <1>11, <2>1 DEF Accounts
  <2>3. Typed'
    BY <1>1, <1>4, <1>5, <2>1, <2>2 DEF IInv, Typed
  <2>4. Phases'
    BY <1>1, <1>4, <2>1, <1>2, PhasesFrame DEF IInv
  <2>5. Enrolments'
    BY <1>1, <1>4, <2>1, <2>2, EnrolmentsFrame DEF IInv
  <2>6. Pools'
    BY <1>1, <1>2, <1>3, <1>4, <1>5, <1>9, <2>1, <2>2 DEF IInv, Pools, Primary
  <2>7. Masters'
    BY <1>1, <1>2, <1>3, <1>4, <1>5, <1>8, <2>1, <2>2 DEF Masters, Primary
  <2>8. PreKeys'
    BY <1>1, <1>7, <2>1, <2>2, PreKeysFrame DEF IInv
  <2> QED BY <1>10, <2>3, <2>4, <2>5, <2>6, <2>7, <2>8 DEF IInv
<1> QED BY <1>12, <1>13 DEF Callers

(* Only a loaded manager has a stream.                                     *)
LEMMA Streaming ==
  ASSUME IInv, mem.streaming
  PROVE  mem.reg # 0
<1>1. ~ NoMem.streaming
  BY DEF NoMem
<1> QED BY <1>1 DEF IInv, Phases

LEMMA KeysAskedKeeps ==
  ASSUME IInv, KeysAsked
  PROVE  IInv'
<1>1. /\ mem.streaming /\ mem.pool # 0
      /\ told' = [told EXCEPT !.given = @ \union {mem.pool}]
      /\ UNCHANGED <<mem, job, server, spent>> /\ UNCHANGED store /\ UNCHANGED tasks
  BY DEF KeysAsked
<1>2. mem.reg # 0
  BY <1>1, Streaming
<1>3. told \in Accounts /\ mem.pool \in Nat /\ kv.reg = mem.reg
  BY <1>2, Loaded
<1>4. /\ told' \in Accounts /\ told'.given = told.given \union {mem.pool}
      /\ told'.torn = told.torn /\ told'.halved = told.halved /\ told'.issued = told.issued
      /\ told'.unlinked = told.unlinked /\ told'.opened = told.opened /\ told'.half = told.half
  BY <1>1, <1>3, Gives
<1>5. Typed'
  BY <1>1, <1>4 DEF IInv, Typed, store, tasks
<1>6. Phases'
  BY <1>1, <1>2, PhasesFrame DEF IInv, store, tasks
<1>7. Enrolments'
  BY <1>1, <1>4, EnrolmentsFrame DEF IInv, store
<1>8. Pools'
  BY <1>1, <1>2, <1>3, <1>4 DEF IInv, Pools, Primary, store, tasks
<1>9. Masters'
  BY <1>1, <1>4, MastersFrame DEF IInv, store, tasks
<1>10. Download'
  BY <1>1, DownloadFrame DEF IInv, store, tasks
<1>11. PreKeys'
  BY <1>1, <1>4, PreKeysFrame, OursFrame DEF IInv, store, tasks
<1> QED BY <1>5, <1>6, <1>7, <1>8, <1>9, <1>10, <1>11 DEF IInv

(* A Keys message: the stream takes the pool, stored or not.               *)
LEMMA KeysReceivedKeeps ==
  ASSUME IInv, NEW pool \in 0..MaxPools, KeysReceived(pool)
  PROVE  IInv'
<1>1. /\ mem.streaming /\ ~ keys /\ ~ Primary(mem.reg)
      /\ mem' = [mem EXCEPT !.pool = IF pool = 0 THEN @ ELSE pool]
      /\ keys' = (mem'.pool # 0)
      /\ UNCHANGED <<db, history, file, job, pooling, unlink, refresh, imp, server>>
  BY DEF KeysReceived
<1>2. PICK fails \in BOOLEAN :
       /\ fails => MayFail /\ pool # 0
       /\ kv' = IF pool = 0 \/ fails THEN kv ELSE [kv EXCEPT !.pool = pool]
       /\ spent' = [Spending(1) EXCEPT !.pools = IF pool > @ THEN pool ELSE @, !.faults = @ + (IF fails THEN 1 ELSE 0)]
       /\ told' = [told EXCEPT !.halved = IF pool = 0 THEN @ ELSE fails]
  BY DEF KeysReceived
<1>3. mem.reg # 0
  BY <1>1, Streaming
<1>4. /\ kv \in [KvKeys -> Nat] /\ kv.pool \in Nat /\ mem \in Mems /\ mem.pool \in Nat /\ told \in Accounts
      /\ kv.reg = mem.reg /\ job.todo # <<"pool", "reg">>
  BY <1>3, Loaded
<1>5. pool \in Nat
  BY DeviceAssumption
<1>6. /\ mem' \in Mems /\ mem'.reg = mem.reg /\ mem'.cert = mem.cert
      /\ mem'.pool = (IF pool = 0 THEN mem.pool ELSE pool)
  BY <1>1, <1>4, <1>5 DEF Mems
<1>7. /\ kv' \in [KvKeys -> Nat] /\ kv'.reg = kv.reg /\ kv'.aci = kv.aci /\ kv'.pni = kv.pni /\ kv'.cert = kv.cert
      /\ kv'.master = kv.master /\ kv'.pool = (IF pool = 0 \/ fails THEN kv.pool ELSE pool)
  BY <1>2, <1>4, <1>5 DEF KvKeys
<1>8. /\ told' \in Accounts /\ told'.halved = (IF pool = 0 THEN told.halved ELSE fails)
      /\ told'.given = told.given /\ told'.torn = told.torn /\ told'.issued = told.issued
      /\ told'.unlinked = told.unlinked /\ told'.opened = told.opened /\ told'.half = told.half
  BY <1>2, <1>4 DEF Accounts
<1>9. spent' \in Counts /\ spent'.enrolments = spent.enrolments
      /\ spent'.batches = spent.batches /\ spent'.sends = spent.sends
  <2> DEFINE s == Spending(1)
             n == IF pool > s.pools THEN pool ELSE s.pools
             f == s.faults + (IF fails THEN 1 ELSE 0)
  <2>1. s \in Counts /\ s.enrolments = spent.enrolments /\ s.batches = spent.batches /\ s.sends = spent.sends
    BY Counting DEF IInv
  <2> HIDE DEF s
  <2>2. n \in Nat /\ f \in Nat
    BY <1>5, <2>1 DEF Counts
  <2>3. spent' = [s EXCEPT !.pools = n, !.faults = f]
    BY <1>2, <2>1 DEF Counts, s
  <2> HIDE DEF n, f
  <2> QED BY <2>1, <2>2, <2>3 DEF Counts
<1>10. \A c \in Callers : pooling[c] = 0
  BY <1>1 DEF IInv, Pools
<1>11. Typed'
  BY <1>1, <1>6, <1>7, <1>8, <1>9 DEF IInv, Typed
<1>12. Phases'
  BY <1>1, <1>3, <1>6, <1>7, <1>9, PhasesFrame DEF IInv
<1>13. Enrolments'
  BY <1>1, <1>6, <1>7, <1>8, <1>9, EnrolmentsFrame DEF IInv
<1>14. Pools'
  BY <1>1, <1>3, <1>4, <1>6, <1>7, <1>8, <1>10 DEF IInv, Pools, Primary
<1>15. Masters'
  <2>1. mem.pool \in {0, kv.pool} \/ told.halved
    BY <1>1, <1>3 DEF IInv, Masters
  <2>2. CASE pool = 0
    <3>1. mem'.pool = mem.pool /\ kv'.pool = kv.pool /\ told'.halved = told.halved
      BY <1>6, <1>7, <1>8, <2>2
    <3> QED BY <1>1, <1>3, <1>4, <1>6, <1>7, <1>10, <2>1, <3>1 DEF IInv, Masters, Primary
  <2>3. CASE pool # 0
    <3>1. mem'.pool = pool /\ keys' /\ (~ told'.halved => kv'.pool = pool)
      BY <1>1, <1>6, <1>7, <1>8, <2>3
    <3> QED BY <1>1, <1>4, <1>6, <1>10, <3>1 DEF Masters, Primary
  <2> QED BY <2>2, <2>3
<1>16. Download'
  BY <1>1, DownloadFrame DEF IInv
<1>17. PreKeys'
  BY <1>1, <1>7, <1>8, <1>9, PreKeysFrame, OursFrame DEF IInv
<1> QED BY <1>11, <1>12, <1>13, <1>14, <1>15, <1>16, <1>17 DEF IInv

(* The rest of the handler.                                                *)
LEMMA KeysDerivedKeeps ==
  ASSUME IInv, KeysDerived
  PROVE  IInv'
<1>1. keys /\ keys' = FALSE
      /\ UNCHANGED <<db, history, file, mem, job, pooling, unlink, refresh, imp, server>>
  BY DEF KeysDerived
<1>2. mem.reg # 0
  BY <1>1 DEF IInv, Phases
<1>3. /\ kv \in [KvKeys -> Nat] /\ mem.pool \in Nat /\ told \in Accounts /\ job.todo # <<"pool", "reg">>
      /\ spent \in Counts
  BY <1>2, Loaded
<1>4. ~ Primary(mem.reg) /\ \A c \in Callers : pooling[c] = 0
  BY <1>1 DEF IInv, Masters, Pools
<1>5. /\ kv' \in [KvKeys -> Nat] /\ kv'.reg = kv.reg /\ kv'.aci = kv.aci /\ kv'.pni = kv.pni /\ kv'.cert = kv.cert
      /\ kv'.pool = kv.pool /\ spent' \in Counts /\ spent'.enrolments = spent.enrolments
      /\ spent'.batches = spent.batches /\ spent'.sends = spent.sends
      /\ told' \in Accounts /\ told'.given = told.given /\ told'.torn = told.torn /\ told'.issued = told.issued
      /\ told'.unlinked = told.unlinked /\ told'.opened = told.opened /\ told'.half = told.half
      /\ told'.halved \/ (told'.halved = told.halved /\ kv'.master = mem.pool)
  <2>1. CASE kv' = [kv EXCEPT !.master = mem.pool] /\ UNCHANGED <<spent, told>>
    BY <1>3, <2>1 DEF KvKeys
  <2>2. CASE spent' = Failing /\ told' = [told EXCEPT !.halved = TRUE] /\ UNCHANGED kv
    <3>1. /\ spent' \in Counts /\ spent'.enrolments = spent.enrolments
          /\ spent'.batches = spent.batches /\ spent'.sends = spent.sends
      BY <2>2, Counting DEF IInv
    <3> QED BY <1>3, <2>2, <3>1 DEF Accounts
  <2> QED BY <2>1, <2>2 DEF KeysDerived, NewMaster
<1>6. Typed'
  BY <1>1, <1>5 DEF IInv, Typed
<1>7. Phases'
  BY <1>1, <1>2, <1>5, PhasesFrame DEF IInv
<1>8. Enrolments'
  BY <1>1, <1>5, EnrolmentsFrame DEF IInv
<1>9. Pools'
  BY <1>1, <1>5, PoolsFrame DEF IInv
<1>10. Masters'
  BY <1>1, <1>2, <1>3, <1>4, <1>5 DEF IInv, Masters, Primary
<1>11. Download'
  BY <1>1, DownloadFrame DEF IInv
<1>12. PreKeys'
  BY <1>1, <1>5, PreKeysFrame, OursFrame DEF IInv
<1> QED BY <1>6, <1>7, <1>8, <1>9, <1>10, <1>11, <1>12 DEF IInv

LEMMA RenewCertificateKeeps ==
  ASSUME IInv, RenewCertificate
  PROVE  IInv'
<1>1. /\ mem.reg # 0 /\ Known /\ spent' = Spending(1)
      /\ kv' = [kv EXCEPT !.cert = mem.reg]
      /\ mem' = [mem EXCEPT !.cert = mem.reg]
      /\ told' = [told EXCEPT !.issued = @ \union {mem.reg}]
      /\ UNCHANGED <<db, history, file, job, server>> /\ UNCHANGED tasks
  BY DEF RenewCertificate, SaveCertificate
<1>2. /\ kv \in [KvKeys -> Nat] /\ mem \in Mems /\ told \in Accounts /\ mem.reg \in 1..spent.enrolments
      /\ kv.reg = mem.reg /\ job.todo = <<>> /\ spent.enrolments \in Nat
  BY <1>1, Loaded
<1>3. /\ kv' \in [KvKeys -> Nat] /\ kv'.reg = kv.reg /\ kv'.aci = kv.aci /\ kv'.pni = kv.pni /\ kv'.cert = mem.reg
      /\ kv'.master = kv.master /\ kv'.pool = kv.pool
  BY <1>1, <1>2 DEF KvKeys
<1>4. mem' \in Mems /\ mem'.reg = mem.reg /\ mem'.cert = mem.reg /\ mem'.pool = mem.pool
  BY <1>1, <1>2 DEF Mems
<1>5. /\ told' \in Accounts /\ told'.issued = told.issued \union {mem.reg} /\ told'.given = told.given
      /\ told'.torn = told.torn /\ told'.halved = told.halved
      /\ told'.unlinked = told.unlinked /\ told'.opened = told.opened /\ told'.half = told.half
  <2>1. mem.reg \in Nat /\ told' = [told EXCEPT !.issued = told.issued \union {mem.reg}]
    BY <1>1, <1>2
  <2> QED BY <1>2, <2>1 DEF Accounts
<1>6. spent' \in Counts /\ spent'.enrolments = spent.enrolments
      /\ spent'.batches = spent.batches /\ spent'.sends = spent.sends
  BY <1>1, Counting DEF IInv
<1>7. Typed'
  BY <1>1, <1>3, <1>4, <1>5, <1>6 DEF IInv, Typed, tasks
<1>8. Phases'
  BY <1>1, <1>3, <1>4, <1>6, PhasesFrame DEF IInv, tasks
<1>9. Enrolments'
  BY <1>1, <1>2, <1>3, <1>4, <1>5, <1>6 DEF IInv, Enrolments
<1>10. Pools'
  BY <1>1, <1>3, <1>4, <1>5, PoolsFrame DEF IInv, tasks
<1>11. Masters'
  BY <1>1, <1>3, <1>4, <1>5, MastersFrame DEF IInv, tasks
<1>12. Download'
  BY <1>1, DownloadFrame DEF IInv, tasks
<1>13. PreKeys'
  BY <1>1, <1>3, <1>5, <1>6, PreKeysFrame, OursFrame DEF IInv, tasks
<1> QED BY <1>7, <1>8, <1>9, <1>10, <1>11, <1>12, <1>13 DEF IInv

(***************************************************************************)
(* Unlinking                                                               *)
(***************************************************************************)
(* What leaves the keys, the pre-keys and the phases alone.                *)
LEMMA QuietFrame ==
  ASSUME IInv, Typed', Download', UNCHANGED <<db, mem, job, pooling, keys, refresh, told>>,
         kv'.reg = kv.reg, kv'.aci = kv.aci, kv'.pni = kv.pni, kv'.cert = kv.cert,
         kv'.pool = kv.pool, kv'.master = kv.master,
         server'.live \subseteq server.live, server'.linked = server.linked, server'.owner = server.owner,
         server'.shelf = server.shelf, server'.wire = server.wire,
         spent'.enrolments = spent.enrolments, spent'.batches = spent.batches, spent'.sends = spent.sends,
         mem.reg = 0 => unlink' = 0 /\ imp' = NoImport
  PROVE  IInv'
<1>1. Phases'
  <2>1. mem.reg = 0 => refresh' = NoRefresh
    BY DEF IInv, Phases
  <2> QED BY <2>1, PhasesFrame DEF IInv
<1>2. Enrolments'
  BY EnrolmentsFrame DEF IInv
<1>3. Pools'
  BY PoolsFrame DEF IInv
<1>4. Masters'
  BY MastersFrame DEF IInv
<1>5. PreKeys'
  BY PreKeysFrame, OursFrame DEF IInv
<1> QED BY <1>1, <1>2, <1>3, <1>4, <1>5 DEF IInv

LEMMA BeginUnlinkKeeps ==
  ASSUME IInv, BeginUnlink
  PROVE  IInv'
<1>1. /\ mem.reg # 0 /\ unlink' = 3 /\ spent' = Spending(1)
      /\ UNCHANGED <<mem, job, pooling, refresh, keys, imp, server, told>> /\ UNCHANGED store
  BY DEF BeginUnlink, SelfUnlinkAttempts
<1>2. spent' \in Counts /\ spent'.enrolments = spent.enrolments
      /\ spent'.batches = spent.batches /\ spent'.sends = spent.sends
  BY <1>1, Counting DEF IInv
<1>3. 3 \in 0..3
  OBVIOUS
<1>4. Typed'
  BY <1>1, <1>2, <1>3 DEF IInv, Typed, store
<1>5. Download'
  BY <1>1, DownloadFrame DEF IInv, store
<1> QED BY <1>1, <1>2, <1>4, <1>5, QuietFrame DEF store

LEMMA Removal ==
  ASSUME server \in Servers, NEW e, Removed(e)
  PROVE  /\ server' \in Servers /\ server'.live = server.live \ {e} /\ server'.linked = server.linked
         /\ server'.owner = server.owner /\ server'.shelf = server.shelf /\ server'.wire = server.wire
BY DEF Removed, Servers

(* Whatever the answer, only an unlinking that was one is reported.        *)
LEMMA UnlinkTriedKeeps ==
  ASSUME IInv, UnlinkTried
  PROVE  IInv'
<1>1. unlink > 0 /\ UNCHANGED <<mem, job, pooling, refresh, keys, imp, spent>> /\ UNCHANGED store
  BY DEF UnlinkTried
<1>2. mem.reg # 0
  BY <1>1 DEF IInv, Phases
<1>3. /\ told \in Accounts /\ server \in Servers /\ mem.reg \in 1..spent.enrolments /\ job.todo = <<>>
      /\ spent.enrolments \in Nat
  BY <1>2, Loaded
<1>4. unlink' \in 0..3
  <2>1. unlink \in 1..3
    BY <1>1 DEF IInv, Typed
  <2> QED BY <2>1 DEF UnlinkTried, Closed
<1>5. /\ server' \in Servers /\ server'.live \in {server.live, server.live \ {mem.reg}} /\ server'.linked = server.linked
      /\ server'.owner = server.owner /\ server'.shelf = server.shelf /\ server'.wire = server.wire
  <2>1. server' = server \/ Removed(mem.reg)
    BY DEF UnlinkTried
  <2> QED BY <1>3, <2>1, Removal
<1>6. \/ told' = told
      \/ told' = [told EXCEPT !.unlinked = @ \union {mem.reg}] /\ mem.reg \notin server'.live
  <2>1. Removed(mem.reg) => mem.reg \notin server'.live
    BY <1>3, Removal
  <2>2. ~ Known /\ server' = server => mem.reg \notin server'.live
    BY DEF Known
  <2> QED BY <2>1, <2>2 DEF UnlinkTried, Closed
<1>7. /\ told' \in Accounts /\ told'.issued = told.issued /\ told'.given = told.given
      /\ told'.torn = told.torn /\ told'.halved = told.halved
      /\ told'.opened = told.opened /\ told'.half = told.half
      /\ \/ told'.unlinked = told.unlinked
         \/ told'.unlinked = told.unlinked \union {mem.reg} /\ mem.reg \notin server'.live
  BY <1>3, <1>6 DEF Accounts
<1>8. Typed'
  BY <1>1, <1>4, <1>5, <1>7 DEF IInv, Typed, store
<1>9. Phases'
  BY <1>1, <1>2, <1>5, PhasesFrame DEF IInv, store
<1>10. Enrolments'
  BY <1>1, <1>3, <1>5, <1>7 DEF IInv, Enrolments, store
<1>11. Pools'
  BY <1>1, <1>5, <1>7, PoolsFrame DEF IInv, store
<1>12. Masters'
  BY <1>1, <1>5, <1>7, MastersFrame DEF IInv, store
<1>13. Download'
  BY <1>1, DownloadFrame DEF IInv, store
<1>14. PreKeys'
  BY <1>1, <1>5, <1>7, PreKeysFrame, OursFrame DEF IInv, store
<1> QED BY <1>8, <1>9, <1>10, <1>11, <1>12, <1>13, <1>14 DEF IInv

LEMMA ExpelledKeeps ==
  ASSUME IInv, NEW e, Expelled(e)
  PROVE  IInv'
<1>1. Removed(e) /\ spent' = Spending(1)
      /\ UNCHANGED <<mem, job, told>> /\ UNCHANGED store /\ UNCHANGED tasks
  BY DEF Expelled
<1>2. /\ server' \in Servers /\ server'.live = server.live \ {e} /\ server'.linked = server.linked
      /\ server'.owner = server.owner /\ server'.shelf = server.shelf /\ server'.wire = server.wire
  BY <1>1, Removal DEF IInv, Typed
<1>3. spent' \in Counts /\ spent'.enrolments = spent.enrolments
      /\ spent'.batches = spent.batches /\ spent'.sends = spent.sends
  BY <1>1, Counting DEF IInv
<1>4. Typed'
  BY <1>1, <1>2, <1>3 DEF IInv, Typed, store, tasks
<1>5. Download'
  BY <1>1, DownloadFrame DEF IInv, store, tasks
<1>6. mem.reg = 0 => unlink' = 0 /\ imp' = NoImport
  BY <1>1 DEF IInv, Phases, tasks
<1> QED BY <1>1, <1>2, <1>3, <1>4, <1>5, <1>6, QuietFrame DEF store, tasks

(***************************************************************************)
(* The import of the history                                               *)
(***************************************************************************)
(* What an import changes concerns its own parts only.                     *)
LEMMA ImportFrame ==
  ASSUME IInv, imp.step # "idle" \/ mem.reg # 0, Download',
         UNCHANGED <<db, mem, job, pooling, unlink, keys, refresh>>,
         kv' \in [KvKeys -> Nat], kv'.reg = kv.reg, kv'.aci = kv.aci, kv'.pni = kv.pni, kv'.cert = kv.cert,
         kv'.pool = kv.pool, kv'.master = kv.master,
         server' \in Servers, server'.live = server.live, server'.linked = server.linked,
         server'.owner = server.owner, server'.shelf = server.shelf, server'.wire = server.wire,
         spent' \in Counts, spent'.enrolments = spent.enrolments, spent'.batches = spent.batches,
         spent'.sends = spent.sends,
         told' \in Accounts, told'.given = told.given, told'.torn = told.torn, told'.issued = told.issued,
         told'.unlinked = told.unlinked, told'.opened = told.opened, told'.half = told.half, told'.halved = told.halved,
         file' \in Seq(1..Chunks), imp' \in Imports, history' \in History
  PROVE  IInv'
<1>1. mem.reg # 0
  BY Nothing DEF IInv, Phases
<1>2. Typed'
  BY DEF IInv, Typed
<1>3. Phases'
  BY <1>1, PhasesFrame DEF IInv
<1>4. Enrolments'
  BY EnrolmentsFrame DEF IInv
<1>5. Pools'
  BY PoolsFrame DEF IInv
<1>6. Masters'
  BY MastersFrame DEF IInv
<1>7. PreKeys'
  BY PreKeysFrame, OursFrame DEF IInv
<1> QED BY <1>2, <1>3, <1>4, <1>5, <1>6, <1>7 DEF IInv

(* What the steps of an import find.                                       *)
LEMMA ImportTypes ==
  ASSUME IInv
  PROVE  /\ kv \in [KvKeys -> Nat] /\ mem.reg \in Nat /\ server \in Servers /\ server.upload \in Seq(Item)
         /\ told \in Accounts /\ spent \in Counts /\ file \in Seq(1..Chunks) /\ Len(file) \in Nat
         /\ imp \in Imports /\ imp.at \in Nat /\ imp.held \in Runs
         /\ history \in History /\ Download
BY DEF IInv, Typed, Servers, Mems, Imports

(* A file without chunks, and one more chunk.                              *)
LEMMA NoFile == <<>> \in Seq(1..Chunks) /\ Len(<<>>) = 0 /\ <<>> = [i \in 1..Len(<<>>) |-> i]
OBVIOUS

LEMMA OneMoreChunk ==
  ASSUME NEW f \in Seq(1..Chunks), f = [i \in 1..Len(f) |-> i], Len(f) < Chunks
  PROVE  LET g == Append(f, Len(f) + 1) IN
         g \in Seq(1..Chunks) /\ Len(g) = Len(f) + 1 /\ g = [i \in 1..Len(g) |-> i]
<1> DEFINE n == Len(f)
           g == Append(f, n + 1)
<1>1. n \in Nat /\ n + 1 \in 1..Chunks
  BY DeviceAssumption
<1>2. g \in Seq(1..Chunks) /\ Len(g) = n + 1
  BY <1>1
<1>3. \A i \in 1..n + 1 : g[i] = i
  BY <1>1
<1>4. g = [i \in 1..n + 1 |-> i]
  <2>1. DOMAIN g = 1..n + 1
    BY <1>2
  <2>2. g = [i \in 1..n + 1 |-> g[i]]
    BY <1>2, <2>1
  <2> HIDE DEF g
  <2> QED BY <1>3, <2>2
<1> QED BY <1>2, <1>4

LEMMA Discarded ==
  ASSUME IInv, Discard, imp'.step \notin {"download", "frames"}
  PROVE  file' \in Seq(1..Chunks) /\ Download'
<1>1. file \in Seq(1..Chunks) /\ FileIsPrefix
  BY ImportTypes DEF Download
<1> QED BY <1>1, NoFile DEF Discard, Download, FileIsPrefix

LEMMA BeginImportKeeps ==
  ASSUME IInv, BeginImport
  PROVE  IInv'
<1>1. /\ mem.reg # 0
      /\ UNCHANGED <<mem, job, pooling, unlink, refresh, keys, server, told>> /\ UNCHANGED store
  BY DEF BeginImport
<1>2. spent' \in Counts /\ spent'.enrolments = spent.enrolments
      /\ spent'.batches = spent.batches /\ spent'.sends = spent.sends
  <2>1. spent' = spent \/ spent' = Spending(ImportCost)
    BY DEF BeginImport
  <2> QED BY <2>1, Counting, ImportTypes, DeviceAssumption DEF IInv
<1>3. /\ imp' \in Imports /\ imp'.step \in {"ask", "download"}
      /\ imp'.step = "download" => imp'.at = Len(file)
  <2>1. imp' \in {[NoImport EXCEPT !.step = "download", !.at = Len(file)], [NoImport EXCEPT !.step = "ask"]}
    BY DEF BeginImport, Offset
  <2> QED BY <2>1, Nothing, ImportTypes DEF Imports
<1>4. Download'
  BY <1>1, <1>3, ImportTypes DEF Download, FileIsPrefix, store
<1> QED BY <1>1, <1>2, <1>3, <1>4, ImportTypes, ImportFrame DEF store

LEMMA ArchiveAskedKeeps ==
  ASSUME IInv, ArchiveAsked
  PROVE  IInv'
<1>1. /\ imp.step = "ask"
      /\ UNCHANGED <<db, history, mem, job, pooling, unlink, refresh, keys, told, spent>>
  BY DEF ArchiveAsked
<1>2. CASE /\ \E a \in Archives : server' = [server EXCEPT !.upload = a, !.of = mem.reg]
           /\ kv' = [kv EXCEPT !.archive = mem.reg] /\ file' = <<>>
           /\ imp' = [imp EXCEPT !.step = "download", !.at = 0]
  <2>1. /\ server' \in Servers /\ server'.live = server.live /\ server'.linked = server.linked
        /\ server'.owner = server.owner /\ server'.shelf = server.shelf /\ server'.wire = server.wire
    BY <1>2, ArchiveType, ImportTypes DEF Servers
  <2>2. /\ kv' \in [KvKeys -> Nat] /\ kv'.reg = kv.reg /\ kv'.aci = kv.aci /\ kv'.pni = kv.pni
        /\ kv'.cert = kv.cert /\ kv'.pool = kv.pool /\ kv'.master = kv.master
    BY <1>2, ImportTypes DEF KvKeys
  <2>3. imp' \in Imports /\ imp'.step = "download" /\ imp'.at = 0
    BY <1>2, ImportTypes DEF Imports
  <2>4. Download'
    BY <1>2, <2>3, NoFile DEF Download, FileIsPrefix
  <2> QED BY <1>1, <1>2, <2>1, <2>2, <2>3, <2>4, NoFile, ImportTypes, ImportFrame
<1>3. CASE imp' = NoImport /\ UNCHANGED <<kv, file, server>>
  <2>1. Download'
    BY <1>3, Nothing, ImportTypes DEF Download, FileIsPrefix
  <2> QED BY <1>1, <1>3, <2>1, Nothing, ImportTypes, ImportFrame
<1> QED BY <1>2, <1>3 DEF ArchiveAsked

LEMMA ChunkWrittenKeeps ==
  ASSUME IInv, ChunkWritten
  PROVE  IInv'
<1>1. /\ imp.step = "download" /\ imp.at < Chunks
      /\ file' = Append(file, imp.at + 1) /\ imp' = [imp EXCEPT !.at = imp.at + 1]
      /\ UNCHANGED <<kv, db, history, mem, job, pooling, unlink, refresh, keys, server, told, spent>>
  BY DEF ChunkWritten
<1>2. imp.at = Len(file) /\ file = [i \in 1..Len(file) |-> i]
  BY <1>1, ImportTypes DEF Download, FileIsPrefix
<1>3. file' \in Seq(1..Chunks) /\ Len(file') = imp.at + 1 /\ file' = [i \in 1..Len(file') |-> i]
  BY <1>1, <1>2, ImportTypes, OneMoreChunk
<1>4. imp' \in Imports /\ imp'.step = "download" /\ imp'.at = imp.at + 1
  <2>1. imp \in Imports /\ imp.at + 1 \in Nat
    BY ImportTypes
  <2> QED BY <1>1, <2>1 DEF Imports
<1>5. Download'
  BY <1>3, <1>4 DEF Download, FileIsPrefix
<1> QED BY <1>1, <1>3, <1>4, <1>5, ImportTypes, ImportFrame

LEMMA DownloadStalledKeeps ==
  ASSUME IInv, DownloadStalled
  PROVE  IInv'
<1>1. /\ imp.step = "download" /\ spent' = Failing /\ imp' = NoImport
      /\ UNCHANGED <<mem, job, pooling, unlink, refresh, keys, server, told>> /\ UNCHANGED store
  BY DEF DownloadStalled
<1>2. spent' \in Counts /\ spent'.enrolments = spent.enrolments
      /\ spent'.batches = spent.batches /\ spent'.sends = spent.sends
  BY <1>1, Counting DEF IInv
<1>3. Download'
  BY <1>1, Nothing, ImportTypes DEF Download, FileIsPrefix, store
<1> QED BY <1>1, <1>2, <1>3, Nothing, ImportTypes, ImportFrame DEF store

LEMMA DownloadedKeeps ==
  ASSUME IInv, Downloaded
  PROVE  IInv'
<1>1. /\ imp.step = "download"
      /\ UNCHANGED <<kv, db, history, mem, job, pooling, unlink, refresh, keys, server, told>>
  BY DEF Downloaded
<1>2. spent' \in Counts /\ spent'.enrolments = spent.enrolments
      /\ spent'.batches = spent.batches /\ spent'.sends = spent.sends
  <2>1. spent' = spent \/ spent' = Failing
    BY DEF Downloaded
  <2> QED BY <2>1, Counting, ImportTypes DEF IInv
<1>3. /\ imp' \in Imports /\ file' \in Seq(1..Chunks)
      /\ Download'
  <2>1. CASE imp' = [NoImport EXCEPT !.step = "frames", !.at = 1] /\ UNCHANGED file
    <3>1. imp' \in Imports /\ imp'.step = "frames" /\ imp'.at = 1
      BY <2>1, Nothing DEF Imports
    <3> QED BY <2>1, <3>1, ImportTypes DEF Download, FileIsPrefix
  <2>2. CASE imp' = NoImport /\ Discard
    BY <2>2, Nothing, Discarded
  <2> QED BY <2>1, <2>2 DEF Downloaded
<1> QED BY <1>1, <1>2, <1>3, ImportTypes, ImportFrame

LEMMA FrameReadKeeps ==
  ASSUME IInv, FrameRead
  PROVE  IInv'
<1> DEFINE read == Coalesce(imp.held, server.upload[imp.at], imp.at)
<1>1. /\ imp.step = "frames" /\ imp.at <= Len(server.upload)
      /\ history' = ImportedAll(history, read.ready)
      /\ imp' = [imp EXCEPT !.held = read.held, !.at = imp.at + 1]
      /\ UNCHANGED <<kv, db, file, mem, job, pooling, unlink, refresh, keys, server, told, spent>>
  BY DEF FrameRead
<1>2. server.upload[imp.at] \in Item
  <2>1. imp.at \in 1..Len(server.upload)
    BY <1>1, ImportTypes DEF Download
  <2> QED BY <2>1, ImportTypes
<1>3. read.held \in Runs /\ read.ready \in Seq(Runs) /\ Len(read.ready) <= 2
  BY <1>2, CoalesceType, ImportTypes
<1> HIDE DEF read
<1>4. history' \in History
  BY <1>1, <1>3, ImportedAllType, ImportTypes
<1>5. imp' \in Imports /\ imp'.step = "frames" /\ imp'.at = imp.at + 1 /\ imp.at + 1 # 0
  <2>1. imp \in Imports /\ imp.at + 1 \in Nat /\ imp.at + 1 # 0
    BY ImportTypes
  <2> QED BY <1>1, <1>3, <2>1 DEF Imports
<1>6. Download'
  BY <1>1, <1>5, ImportTypes DEF Download, FileIsPrefix
<1> QED BY <1>1, <1>4, <1>5, <1>6, ImportTypes, ImportFrame

LEMMA FramesEndedKeeps ==
  ASSUME IInv, FramesEnded
  PROVE  IInv'
<1>1. /\ imp.step = "frames" /\ Flush /\ imp' = [imp EXCEPT !.step = "discard"]
      /\ UNCHANGED <<kv, db, file, mem, job, pooling, unlink, refresh, keys, server, told, spent>>
  BY DEF FramesEnded
<1>2. history' \in History
  <2>1. Imported(history, imp.held) \in History
    BY ImportedType, ImportTypes
  <2> QED BY <1>1, <2>1, ImportTypes DEF Flush
<1>3. imp' \in Imports /\ imp'.step = "discard"
  BY <1>1, ImportTypes DEF Imports
<1>4. Download'
  BY <1>1, <1>3, ImportTypes DEF Download, FileIsPrefix
<1> QED BY <1>1, <1>2, <1>3, <1>4, ImportTypes, ImportFrame

LEMMA ArchiveDiscardedKeeps ==
  ASSUME IInv, ArchiveDiscarded
  PROVE  IInv'
<1>1. /\ imp.step = "discard" /\ Discard /\ imp' = [imp EXCEPT !.step = "forget"]
      /\ UNCHANGED <<kv, db, history, mem, job, pooling, unlink, refresh, keys, server, told, spent>>
  BY DEF ArchiveDiscarded
<1>2. imp' \in Imports /\ imp'.step = "forget"
  BY <1>1, ImportTypes DEF Imports
<1>3. file' \in Seq(1..Chunks) /\ Download'
  BY <1>1, <1>2, Discarded
<1> QED BY <1>1, <1>2, <1>3, ImportTypes, ImportFrame

LEMMA ImportDoneKeeps ==
  ASSUME IInv, ImportDone
  PROVE  IInv'
<1>1. /\ imp.step = "forget" /\ imp' = NoImport
      /\ UNCHANGED <<db, history, file, mem, job, pooling, unlink, refresh, keys, server>>
  BY DEF ImportDone
<1>2. /\ kv' \in [KvKeys -> Nat] /\ kv'.reg = kv.reg /\ kv'.aci = kv.aci /\ kv'.pni = kv.pni
      /\ kv'.cert = kv.cert /\ kv'.pool = kv.pool /\ kv'.master = kv.master
  <2>1. kv' = [kv EXCEPT !.archive = 0] \/ kv' = kv
    BY DEF ImportDone
  <2> QED BY <2>1, ImportTypes DEF KvKeys
<1>3. /\ told' \in Accounts /\ told'.given = told.given /\ told'.torn = told.torn /\ told'.issued = told.issued
      /\ told'.unlinked = told.unlinked /\ told'.opened = told.opened /\ told'.half = told.half
      /\ told'.halved = told.halved
  <2>1. told' = [told EXCEPT !.imported = TRUE] \/ told' = told
    BY DEF ImportDone
  <2> QED BY <2>1, ImportTypes DEF Accounts
<1>4. spent' \in Counts /\ spent'.enrolments = spent.enrolments
      /\ spent'.batches = spent.batches /\ spent'.sends = spent.sends
  <2>1. spent' = spent \/ spent' = Failing
    BY DEF ImportDone
  <2> QED BY <2>1, Counting, ImportTypes DEF IInv
<1>5. Download'
  BY <1>1, Nothing, ImportTypes DEF Download, FileIsPrefix
<1> QED BY <1>1, <1>2, <1>3, <1>4, <1>5, Nothing, ImportTypes, ImportFrame

LEMMA ImportFailedKeeps ==
  ASSUME IInv, ImportFailed
  PROVE  IInv'
<1>1. /\ imp.step = "frames" /\ spent' = Failing /\ Discard /\ imp' = NoImport
      /\ UNCHANGED <<kv, db, history, mem, job, pooling, unlink, refresh, keys, server, told>>
  BY DEF ImportFailed
<1>2. spent' \in Counts /\ spent'.enrolments = spent.enrolments
      /\ spent'.batches = spent.batches /\ spent'.sends = spent.sends
  BY <1>1, Counting DEF IInv
<1>3. file' \in Seq(1..Chunks) /\ Download'
  BY <1>1, Nothing, Discarded
<1> QED BY <1>1, <1>2, <1>3, Nothing, ImportTypes, ImportFrame

(***************************************************************************)
(* The pre-keys, and the messages made with them                           *)
(***************************************************************************)
LEMMA OpeningTypes ==
  ASSUME IInv
  PROVE  /\ db \in Tables /\ Sized(db) /\ told \in Accounts /\ told.opened \in [1..MaxSends -> Nat]
         /\ told.half \in SUBSET Nat /\ told.halved \in BOOLEAN
         /\ spent \in Counts /\ spent.batches \in Nat /\ spent.sends \in Nat /\ spent.enrolments \in Nat
         /\ server \in Servers /\ server.shelf \in Shelf /\ server.wire \in SUBSET Message
         /\ refresh \in Refreshes /\ refresh.batch \in Batches /\ NoRefresh \in Refreshes
         /\ Drawing(db, refresh, spent.batches)
         /\ Handing(server.shelf, server.wire, refresh, spent.batches)
         /\ Receiving(db, server.wire, told.opened, told.half, spent.sends)
         /\ Ours => Holding(db, server.shelf, server.wire, told.opened, told.half)
<1>1. db \in Tables /\ Sized(db) /\ told \in Accounts /\ spent \in Counts /\ server \in Servers /\ refresh \in Refreshes
  BY DEF IInv, Typed
<1>2. told.opened \in [1..MaxSends -> Nat] /\ told.half \in SUBSET Nat /\ told.halved \in BOOLEAN
  BY <1>1 DEF Accounts
<1>3. spent.batches \in Nat /\ spent.sends \in Nat /\ spent.enrolments \in Nat
  BY <1>1 DEF Counts
<1>4. server.shelf \in Shelf /\ server.wire \in SUBSET Message /\ refresh.batch \in Batches
  BY <1>1 DEF Servers, Refreshes
<1> QED BY <1>1, <1>2, <1>3, <1>4, Nothing DEF IInv, PreKeys

(* What leaves the enrolments and the account's keys alone.                *)
LEMMA OpeningFrame ==
  ASSUME IInv, PreKeys', mem.reg # 0 \/ UNCHANGED <<unlink, imp, refresh>>,
         UNCHANGED <<kv, history, file, mem, job, pooling, unlink, keys, imp>>,
         db' \in Tables, Sized(db'), refresh' \in Refreshes,
         server' \in Servers, server'.live = server.live, server'.linked = server.linked, server'.owner = server.owner,
         spent' \in Counts, spent'.enrolments = spent.enrolments,
         told' \in Accounts, told'.given = told.given, told'.torn = told.torn, told'.issued = told.issued,
         told'.unlinked = told.unlinked, told'.halved = told.halved
  PROVE  IInv'
<1>1. Typed'
  BY DEF IInv, Typed
<1>2. Phases'
  <2>1. mem.reg = 0 => unlink' = 0 /\ keys' = keys /\ pooling' = pooling /\ refresh' = NoRefresh /\ imp' = NoImport
    BY DEF IInv, Phases
  <2> QED BY <2>1, PhasesFrame DEF IInv
<1>3. Enrolments'
  BY EnrolmentsFrame DEF IInv
<1>4. Pools'
  BY PoolsFrame DEF IInv
<1>5. Masters'
  BY MastersFrame DEF IInv
<1>6. Download'
  BY DownloadFrame DEF IInv
<1> QED BY <1>1, <1>2, <1>3, <1>4, <1>5, <1>6 DEF IInv

(* Only a loaded manager has a pre-key task.                               *)
LEMMA Refreshing == ASSUME IInv, refresh.step # "idle" PROVE mem.reg # 0
BY Nothing DEF IInv, Phases

LEMMA RefreshStatusKeeps ==
  ASSUME IInv, RefreshStatus
  PROVE  IInv'
<1>1. /\ refresh.step = "status"
      /\ UNCHANGED <<mem, job, pooling, unlink, keys, imp, server, told>> /\ UNCHANGED store
  BY DEF RefreshStatus
<1>2. mem.reg # 0
  BY <1>1, Refreshing
<1>3. Ours' => Ours
  BY <1>1, OursFrame DEF store
<1>4. CASE refresh' = NoRefresh /\ UNCHANGED spent
  <2>1. Drawing(db, NoRefresh, spent.batches) /\ Handing(server.shelf, server.wire, NoRefresh, spent.batches)
    BY NoBatchKeeps, Nothing, OpeningTypes
  <2>2. PreKeys'
    BY <1>1, <1>3, <1>4, <2>1 DEF IInv, PreKeys, store
  <2> QED BY <1>1, <1>2, <1>4, <2>2, OpeningTypes, OpeningFrame DEF store
<1>5. CASE /\ refresh' = [step |-> "save", batch |-> Batch(db, spent.batches + 1)]
           /\ spent' = [spent EXCEPT !.batches = @ + 1]
  <2>1. spent' \in Counts /\ spent'.enrolments = spent.enrolments /\ spent'.sends = spent.sends
        /\ spent'.batches = spent.batches + 1
    <3>1. spent.batches + 1 \in Nat /\ spent \in Counts
      BY OpeningTypes
    <3> QED BY <1>5, <3>1 DEF Counts
  <2>2. /\ refresh' \in Refreshes
        /\ Drawing(db, refresh', spent.batches + 1) /\ Handing(server.shelf, server.wire, refresh', spent.batches + 1)
    BY <1>5, DrawKeeps, OpeningTypes
  <2>3. PreKeys'
    BY <1>1, <1>3, <2>1, <2>2 DEF IInv, PreKeys, store
  <2> QED BY <1>1, <1>2, <2>1, <2>2, <2>3, OpeningTypes, OpeningFrame DEF store
<1> QED BY <1>4, <1>5 DEF RefreshStatus

LEMMA RefreshSaveKeeps ==
  ASSUME IInv, RefreshSave
  PROVE  IInv'
<1>1. /\ refresh.step = "save"
      /\ db' = Saved(db, refresh.batch) /\ refresh' = [refresh EXCEPT !.step = "upload"]
      /\ UNCHANGED <<kv, history, file, mem, job, pooling, unlink, keys, imp, server, told, spent>>
  BY DEF RefreshSave
<1>2. mem.reg # 0
  BY <1>1, Refreshing
<1>3. refresh' \in Refreshes
  BY <1>1, OpeningTypes DEF Refreshes
<1>4. db' \in Tables /\ Sized(db')
  BY <1>1, SavedType, OpeningTypes
<1>5. /\ Drawing(db', refresh', spent.batches)
      /\ Handing(server.shelf, server.wire, refresh', spent.batches)
      /\ Receiving(db', server.wire, told.opened, told.half, spent.sends)
      /\ Holding(db, server.shelf, server.wire, told.opened, told.half)
         => Holding(db', server.shelf, server.wire, told.opened, told.half)
  BY <1>1, SaveKeeps, OpeningTypes
<1>6. PreKeys'
  BY <1>1, <1>5, OursFrame, OpeningTypes DEF PreKeys
<1> QED BY <1>1, <1>2, <1>3, <1>4, <1>6, OpeningTypes, OpeningFrame

(* An upload, by a task that goes on or by one that is dropped.            *)
LEMMA UploadedKeeps ==
  ASSUME IInv, refresh.step = "upload", Uploaded
  PROVE  /\ server' \in Servers /\ server'.live = server.live /\ server'.linked = server.linked
         /\ server'.owner = server.owner /\ server'.wire = server.wire
         /\ Handing(server'.shelf, server.wire, NoRefresh, spent.batches)
         /\ Ours => Holding(db, server'.shelf, server.wire, told.opened, told.half)
<1>1. server' = [server EXCEPT !.shelf = Shelved(refresh.batch)]
  BY DEF Uploaded
<1>2. /\ Shelved(refresh.batch) \in Shelf
      /\ Handing(Shelved(refresh.batch), server.wire, NoRefresh, spent.batches)
      /\ Holding(db, server.shelf, server.wire, told.opened, told.half)
         => Holding(db, Shelved(refresh.batch), server.wire, told.opened, told.half)
  BY UploadKeeps, OpeningTypes
<1>3. /\ server' \in Servers /\ server'.shelf = Shelved(refresh.batch) /\ server'.live = server.live
      /\ server'.linked = server.linked /\ server'.owner = server.owner /\ server'.wire = server.wire
  BY <1>1, <1>2, OpeningTypes DEF Servers
<1> QED BY <1>2, <1>3, OpeningTypes

LEMMA RefreshUploadKeeps ==
  ASSUME IInv, RefreshUpload
  PROVE  IInv'
<1>1. /\ refresh.step = "upload" /\ Uploaded /\ refresh' = NoRefresh
      /\ UNCHANGED <<mem, job, pooling, unlink, keys, imp, told, spent>> /\ UNCHANGED store
  BY DEF RefreshUpload
<1>2. mem.reg # 0
  BY <1>1, Refreshing
<1>3. /\ server' \in Servers /\ server'.live = server.live /\ server'.linked = server.linked
      /\ server'.owner = server.owner /\ server'.wire = server.wire
      /\ Handing(server'.shelf, server.wire, NoRefresh, spent.batches)
      /\ Ours => Holding(db, server'.shelf, server.wire, told.opened, told.half)
  BY <1>1, UploadedKeeps
<1>4. Drawing(db, NoRefresh, spent.batches)
  BY NoBatchKeeps, Nothing, OpeningTypes
<1>5. PreKeys'
  BY <1>1, <1>3, <1>4, OursFrame, OpeningTypes DEF PreKeys, store
<1> QED BY <1>1, <1>2, <1>3, <1>5, OpeningTypes, OpeningFrame DEF store

(* The stream is dropped, with the pre-key task and a Keys message.        *)
LEMMA StopStreamKeeps ==
  ASSUME IInv, StopStream
  PROVE  IInv'
<1>1. /\ mem.streaming /\ mem' = [mem EXCEPT !.streaming = FALSE, !.pool = 0]
      /\ refresh' = NoRefresh /\ keys' = FALSE
      /\ told' = [told EXCEPT !.halved = (told.halved \/ keys)]
      /\ UNCHANGED <<job, pooling, unlink, imp, spent>> /\ UNCHANGED store
  BY DEF StopStream
<1>2. mem.reg # 0
  BY <1>1, Streaming
<1>3. mem' \in Mems /\ mem'.reg = mem.reg /\ mem'.cert = mem.cert /\ mem'.pool = 0
  BY <1>1, <1>2, Loaded DEF Mems
<1>4. /\ told' \in Accounts /\ told'.halved = (told.halved \/ keys) /\ told'.given = told.given
      /\ told'.torn = told.torn /\ told'.issued = told.issued
      /\ told'.unlinked = told.unlinked /\ told'.opened = told.opened /\ told'.half = told.half
  <2>1. (told.halved \/ keys) \in BOOLEAN
    OBVIOUS
  <2> QED BY <1>1, <2>1, OpeningTypes DEF Accounts
<1>5. Drawing(db, NoRefresh, spent.batches) /\ Handing(server.shelf, server.wire, NoRefresh, spent.batches)
  BY NoBatchKeeps, Nothing, OpeningTypes
<1>6. /\ server' \in Servers /\ server'.live = server.live /\ server'.linked = server.linked
      /\ server'.owner = server.owner /\ server'.wire = server.wire
      /\ Handing(server'.shelf, server.wire, NoRefresh, spent.batches)
      /\ Ours => Holding(db, server'.shelf, server.wire, told.opened, told.half)
  <2>1. CASE refresh.step = "upload" /\ Uploaded
    BY <2>1, UploadedKeeps
  <2>2. CASE server' = server
    BY <1>5, <2>2, OpeningTypes
  <2> QED BY <2>1, <2>2 DEF StopStream
<1>7. Typed'
  <2>1. FALSE \in BOOLEAN
    OBVIOUS
  <2> QED BY <1>1, <1>3, <1>4, <1>6, <2>1, Nothing DEF IInv, Typed, store
<1>8. Phases'
  BY <1>1, <1>2, <1>3, <1>6, PhasesFrame DEF IInv, store
<1>9. Enrolments'
  BY <1>1, <1>3, <1>4, <1>6, EnrolmentsFrame DEF IInv, store
<1>10. Pools'
  BY <1>1, <1>3, <1>4, <1>6 DEF IInv, Pools, Primary, store
<1>11. Masters'
  BY <1>1, <1>3, <1>4, <1>6 DEF IInv, Masters, Primary, store
<1>12. Download'
  BY <1>1, DownloadFrame DEF IInv, store
<1>13. PreKeys'
  BY <1>1, <1>4, <1>5, <1>6, OursFrame, OpeningTypes DEF PreKeys, store
<1> QED BY <1>7, <1>8, <1>9, <1>10, <1>11, <1>12, <1>13 DEF IInv

LEMMA InitiateKeeps ==
  ASSUME IInv, Initiate
  PROVE  IInv'
<1>1. /\ spent.sends < MaxSends /\ spent' = [Spending(1) EXCEPT !.sends = @ + 1]
      /\ UNCHANGED <<mem, job, told>> /\ UNCHANGED store /\ UNCHANGED tasks
  BY DEF Initiate
<1>2. PICK pre \in IF server.shelf.pre = {} THEN {{}} ELSE {{p} : p \in server.shelf.pre},
           kyber \in IF server.shelf.kyber = {} THEN server.shelf.last ELSE server.shelf.kyber,
           signed \in server.shelf.signed, from \in 1..2 :
       server' = [server EXCEPT !.shelf.pre = @ \ pre, !.shelf.kyber = @ \ {kyber},
                    !.wire = @ \union {[base |-> spent.sends + 1, pre |-> pre, kyber |-> kyber, signed |-> signed,
                                        from |-> from]}]
  BY DEF Initiate
<1> DEFINE m == [base |-> spent.sends + 1, pre |-> pre, kyber |-> kyber, signed |-> signed, from |-> from]
           rest == [server.shelf EXCEPT !.pre = @ \ pre, !.kyber = @ \ {kyber}]
<1>3. pre \in SUBSET server.shelf.pre /\ kyber \in server.shelf.kyber \union server.shelf.last /\ from \in Nat
  BY <1>2
<1>4. /\ m \in Message /\ rest \in Shelf
      /\ Handing(rest, server.wire \union {m}, refresh, spent.batches)
      /\ Receiving(db, server.wire \union {m}, told.opened, told.half, spent.sends + 1)
      /\ Holding(db, server.shelf, server.wire, told.opened, told.half)
         => Holding(db, rest, server.wire \union {m}, told.opened, told.half)
  <2>1. server.wire \in SUBSET Message /\ server.shelf \in Shelf /\ db \in Tables /\ spent.sends \in Nat
        /\ told.opened \in [1..MaxSends -> Nat]
        /\ Handing(server.shelf, server.wire, refresh, spent.batches)
        /\ Receiving(db, server.wire, told.opened, told.half, spent.sends)
    BY OpeningTypes
  <2>2. /\ pre \in SUBSET server.shelf.pre /\ kyber \in server.shelf.kyber \union server.shelf.last
        /\ signed \in server.shelf.signed /\ from \in Nat /\ spent.sends < MaxSends
    BY <1>1, <1>2, <1>3
  <2> QED BY <2>1, <2>2, SendKeeps
<1>5. server' = [server EXCEPT !.shelf = rest, !.wire = server.wire \union {m}]
  BY <1>2, OpeningTypes DEF Servers
<1> HIDE DEF m, rest
<1>6. /\ server' \in Servers /\ server'.live = server.live /\ server'.linked = server.linked
      /\ server'.owner = server.owner /\ server'.wire = server.wire \union {m} /\ server'.shelf = rest
  BY <1>4, <1>5, OpeningTypes DEF Servers
<1>7. spent' \in Counts /\ spent'.enrolments = spent.enrolments
      /\ spent'.batches = spent.batches /\ spent'.sends = spent.sends + 1
  <2>1. Spending(1) \in Counts /\ Spending(1).sends = spent.sends /\ Spending(1).enrolments = spent.enrolments
        /\ Spending(1).batches = spent.batches
    BY Counting DEF IInv
  <2>2. spent.sends + 1 \in Nat /\ spent' = [Spending(1) EXCEPT !.sends = spent.sends + 1]
    <3>1. spent.sends \in Nat
      BY OpeningTypes DEF Counts
    <3> QED BY <1>1, <2>1, <3>1
  <2> QED BY <2>1, <2>2 DEF Counts
<1>8. PreKeys'
  BY <1>1, <1>4, <1>6, <1>7, OursFrame, OpeningTypes DEF PreKeys, store, tasks
<1> QED BY <1>1, <1>6, <1>7, <1>8, OpeningTypes, OpeningFrame DEF store, tasks

(* clear_sessions touches no key.                                          *)
LEMMA SessionsApart ==
  ASSUME NEW d \in Tables, NEW e \in Tables, e.pre = d.pre, e.signed = d.signed, e.kyber = d.kyber, e.seen = d.seen,
         NEW shelf, NEW wire, NEW r, NEW n, NEW opened, NEW half, NEW sends
  PROVE  /\ Drawing(d, r, n) => Drawing(e, r, n)
         /\ Receiving(d, wire, opened, half, sends) => Receiving(e, wire, opened, half, sends)
         /\ Holding(d, shelf, wire, opened, half) => Holding(e, shelf, wire, opened, half)
<1>1. \A m : Refused(d, m) => Refused(e, m)
  BY DEF Refused, HasKyber, Replayed, LastResort
<1>2. Drawing(d, r, n) => Drawing(e, r, n)
  BY DEF Drawing, Rows, Drawn, InStore
<1>3. Receiving(d, wire, opened, half, sends) => Receiving(e, wire, opened, half, sends)
  BY <1>1 DEF Receiving
<1>4. Holding(d, shelf, wire, opened, half) => Holding(e, shelf, wire, opened, half)
  BY DEF Holding, Kept, Openable
<1> QED BY <1>2, <1>3, <1>4

LEMMA ClearSessionsKeeps ==
  ASSUME IInv, ClearSessions
  PROVE  IInv'
<1>1. /\ db' = [db EXCEPT !.sessions = {}] /\ spent' = Spending(1)
      /\ UNCHANGED <<kv, history, file, mem, job, server, told>> /\ UNCHANGED tasks
  BY DEF ClearSessions
<1>2. db' \in Tables /\ db'.pre = db.pre /\ db'.signed = db.signed /\ db'.kyber = db.kyber /\ db'.seen = db.seen
  BY <1>1, OpeningTypes DEF Tables
<1>3. Sized(db')
  BY <1>2, OpeningTypes DEF Sized
<1>4. spent' \in Counts /\ spent'.enrolments = spent.enrolments
      /\ spent'.batches = spent.batches /\ spent'.sends = spent.sends
  BY <1>1, Counting DEF IInv
<1>5. /\ Drawing(db', refresh, spent.batches)
      /\ Receiving(db', server.wire, told.opened, told.half, spent.sends)
      /\ Ours => Holding(db', server.shelf, server.wire, told.opened, told.half)
  BY <1>2, SessionsApart, OpeningTypes
<1>6. PreKeys'
  BY <1>1, <1>4, <1>5, OursFrame, OpeningTypes DEF PreKeys, tasks
<1> QED BY <1>1, <1>2, <1>3, <1>4, <1>6, OpeningTypes, OpeningFrame DEF tasks

(* What the use of a message's keys does to the rest.                      *)
LEMMA UseHere ==
  ASSUME IInv, NEW m \in server.wire, NEW e \in Tables, NEW opened2, NEW half2,
         m.kyber \in db.kyber,
         e.kyber = {k \in db.kyber : k # m.kyber \/ m.kyber.last},
         e.pre \in {db.pre, db.pre \ m.pre}, e.signed = db.signed, db.seen \subseteq e.seen,
         m.kyber.last => Use(m) \in e.seen,
         \A o \in server.wire : Used(o, opened2, half2) <=> Used(o, told.opened, told.half) \/ o = m
  PROVE  /\ Drawing(e, refresh, spent.batches)
         /\ \A o \in server.wire : Used(o, opened2, half2) => Refused(e, o)
         /\ Holding(db, server.shelf, server.wire, told.opened, told.half)
            => Holding(e, server.shelf, server.wire, opened2, half2)
<1>1. /\ db \in Tables /\ server.shelf \in Shelf /\ server.wire \in SUBSET Message /\ refresh \in Refreshes
      /\ Drawing(db, refresh, spent.batches) /\ Handing(server.shelf, server.wire, refresh, spent.batches)
  BY OpeningTypes
<1>2. \A o \in server.wire : Used(o, told.opened, told.half) => Refused(db, o)
  BY OpeningTypes DEF Receiving
<1> DEFINE wire == server.wire
           shelf == server.shelf
           n == spent.batches
           opened == told.opened
           half == told.half
<1>3. db \in Tables /\ refresh \in Refreshes
      /\ wire \in SUBSET Message /\ shelf \in Shelf /\ m \in wire /\ Drawing(db, refresh, n)
      /\ Handing(shelf, wire, refresh, n)
      /\ (\A o \in wire : Used(o, opened2, half2) <=> Used(o, opened, half) \/ o = m)
      /\ \A o \in wire : Used(o, opened, half) => Refused(db, o)
  BY <1>1, <1>2
<1> HIDE DEF wire, shelf, n, opened, half
<1>4. /\ Drawing(e, refresh, n)
      /\ \A o \in wire : Used(o, opened2, half2) => Refused(e, o)
      /\ Holding(db, shelf, wire, opened, half) => Holding(e, shelf, wire, opened2, half2)
  BY <1>3, UseKeeps
<1> QED BY <1>4 DEF wire, shelf, n, opened, half

(* A message that opens has not used its keys before, and was held.        *)
LEMMA OpensFresh ==
  ASSUME IInv, NEW m \in server.wire, mem.streaming, Opens(db, m)
  PROVE  /\ mem.reg # 0 /\ Ours /\ m \in Message
         /\ ~ Used(m, told.opened, told.half) /\ m.kyber \in db.kyber
         /\ m.base \in 1..spent.sends /\ m.base \in 1..MaxSends
         /\ \A o \in server.wire : o # m => o.base # m.base
<1>1. mem.reg # 0
  BY Streaming
<1>2. Ours
  BY <1>1, Loaded
<1>3. ~ Refused(db, m)
  BY DEF Opens, Holds, Refused
<1>4. ~ Used(m, told.opened, told.half) /\ m.base \in 1..spent.sends /\ spent.sends <= MaxSends
  BY <1>3, OpeningTypes DEF Receiving
<1>5. m.kyber \in db.kyber
  BY <1>2, <1>4, OpeningTypes DEF Holding, Openable
<1>6. m.base \in 1..MaxSends
  BY <1>4, OpeningTypes, DeviceAssumption
<1>7. \A o \in server.wire : o # m => o.base # m.base
  BY OpeningTypes DEF Handing, HandedOnce
<1> QED BY <1>1, <1>2, <1>4, <1>5, <1>6, <1>7, OpeningTypes

LEMMA ArrivesKeeps ==
  ASSUME IInv, NEW m \in server.wire, Arrives(m)
  PROVE  IInv'
<1>1. /\ mem.streaming
      /\ UNCHANGED <<kv, history, file, mem, job>> /\ UNCHANGED tasks
  BY DEF Arrives
<1>2. mem.reg # 0 /\ Ours
  BY <1>1, Streaming, Loaded
<1>3. PICK less \in SUBSET server.wire :
        /\ server' \in Servers /\ server'.live = server.live /\ server'.linked = server.linked
        /\ server'.owner = server.owner /\ server'.shelf = server.shelf /\ server'.wire = less
  <2>1. CASE server' = [server EXCEPT !.wire = @ \ {m}]
    <3>1. /\ server' \in Servers /\ server'.live = server.live /\ server'.linked = server.linked
          /\ server'.owner = server.owner /\ server'.shelf = server.shelf /\ server'.wire = server.wire \ {m}
      BY <2>1, OpeningTypes DEF Servers
    <3> QED BY <3>1
  <2>2. CASE server' = server
    BY <2>2, OpeningTypes
  <2> QED BY <2>1, <2>2 DEF Arrives
<1>4. spent' \in Counts /\ spent'.enrolments = spent.enrolments
      /\ spent'.batches = spent.batches /\ spent'.sends = spent.sends
  <2>1. spent' = spent \/ spent' = Failing
    BY DEF Arrives
  <2> QED BY <2>1, Counting, OpeningTypes DEF IInv
<1>5. Handing(server.shelf, less, refresh, spent.batches)
  BY FewerKeep, OpeningTypes
<1>6. CASE UNCHANGED <<db, told>>
  <2>1. /\ Receiving(db, less, told.opened, told.half, spent.sends)
        /\ Holding(db, server.shelf, less, told.opened, told.half)
    BY <1>2, FewerKeep, OpeningTypes
  <2>2. PreKeys'
    BY <1>1, <1>3, <1>4, <1>5, <1>6, <2>1, OpeningTypes DEF PreKeys, tasks
  <2> QED BY <1>1, <1>2, <1>3, <1>4, <1>6, <2>2, OpeningTypes, OpeningFrame DEF tasks
<1>7. CASE Opens(db, m) /\ db' = Opened(db, m) /\ told' = [told EXCEPT !.opened[m.base] = @ + 1]
  <2>1. /\ m \in Message /\ ~ Used(m, told.opened, told.half) /\ m.kyber \in db.kyber
        /\ m.base \in 1..spent.sends /\ m.base \in 1..MaxSends
        /\ \A o \in server.wire : o # m => o.base # m.base
    BY <1>1, <1>7, OpensFresh
  <2>2. db' \in Tables /\ Sized(db') /\ MarkUsed(db, m) \in Tables
    BY <1>7, <2>1, OpenedType, OpeningTypes
  <2>3. Rows(db)
    BY OpeningTypes DEF Drawing
  <2>4. /\ MarkUsed(db, m).kyber = {k \in db.kyber : k # m.kyber \/ m.kyber.last}
        /\ MarkUsed(db, m).pre = db.pre /\ MarkUsed(db, m).signed = db.signed /\ db.seen \subseteq MarkUsed(db, m).seen
        /\ m.kyber.last => Use(m) \in MarkUsed(db, m).seen
    BY <2>1, <2>3, MarkUsedKeys, OpeningTypes
  <2>5. /\ db'.kyber = MarkUsed(db, m).kyber /\ db'.pre = MarkUsed(db, m).pre \ m.pre
        /\ db'.signed = MarkUsed(db, m).signed /\ db'.seen = MarkUsed(db, m).seen
    BY <1>7, <2>2 DEF Opened, Tables
  <2>6. told.opened[m.base] = 0 /\ told.opened \in [1..MaxSends -> Nat]
    BY <2>1, OpeningTypes DEF Used
  <2>7. told' = [told EXCEPT !.opened = [told.opened EXCEPT ![m.base] = 1]]
    BY <1>7, <2>1, <2>6, OpeningTypes DEF Accounts
  <2>8. /\ told' \in Accounts /\ told'.given = told.given /\ told'.torn = told.torn /\ told'.issued = told.issued
        /\ told'.unlinked = told.unlinked /\ told'.halved = told.halved /\ told'.half = told.half
        /\ told'.opened = [told.opened EXCEPT ![m.base] = 1]
    <3>1. [told.opened EXCEPT ![m.base] = 1] \in [1..MaxSends -> Nat]
      BY <2>6
    <3> QED BY <2>7, <3>1, OpeningTypes DEF Accounts
  <2>9. /\ told'.opened[m.base] = 1 /\ \A b \in 1..MaxSends : b # m.base => told'.opened[b] = told.opened[b]
    BY <2>1, <2>6, <2>8
  <2>10. \A o \in server.wire : o.base \in 1..MaxSends /\ (Used(o, told.opened, told.half) => Refused(db, o))
    BY OpeningTypes, DeviceAssumption DEF Receiving
  <2>11. \A o \in server.wire : Used(o, told'.opened, told'.half) <=> Used(o, told.opened, told.half) \/ o = m
    BY <2>1, <2>8, <2>9, <2>10 DEF Used
  <2>12. /\ Drawing(db', refresh, spent.batches)
         /\ \A o \in server.wire : Used(o, told'.opened, told'.half) => Refused(db', o)
         /\ Holding(db, server.shelf, server.wire, told.opened, told.half)
            => Holding(db', server.shelf, server.wire, told'.opened, told'.half)
    <3>1. /\ db' \in Tables /\ db'.kyber = {k \in db.kyber : k # m.kyber \/ m.kyber.last}
          /\ db'.pre \in {db.pre, db.pre \ m.pre} /\ db'.signed = db.signed /\ db.seen \subseteq db'.seen
          /\ m.kyber.last => Use(m) \in db'.seen
      BY <2>2, <2>4, <2>5
    <3>2. m.kyber \in db.kyber
      BY <2>1
    <3> QED BY <2>11, <3>1, <3>2, UseHere
  <2>13. Receiving(db', server.wire, told'.opened, told'.half, spent.sends)
    <3>1. \A b \in 1..MaxSends : told'.opened[b] <= 1 /\ (told'.opened[b] # 0 => b <= spent.sends)
      BY <2>1, <2>9, OpeningTypes DEF Receiving
    <3> QED BY <2>8, <2>12, <3>1, OpeningTypes DEF Receiving
  <2>14. /\ Receiving(db', less, told'.opened, told'.half, spent.sends)
         /\ Holding(db', server.shelf, less, told'.opened, told'.half)
    BY <1>2, <2>12, <2>13, FewerKeep, OpeningTypes
  <2>15. PreKeys'
    BY <1>1, <1>3, <1>4, <1>5, <2>12, <2>14 DEF PreKeys, tasks
  <2> QED BY <1>1, <1>2, <1>3, <1>4, <2>2, <2>8, <2>15, OpeningTypes, OpeningFrame DEF tasks
<1> QED BY <1>6, <1>7 DEF Arrives

(* A crash between the key's use and the session's save.                   *)
LEMMA ArrivesHalfKeeps ==
  ASSUME IInv, NEW m \in server.wire, ArrivesHalf(m)
  PROVE  IInv'
<1>1. /\ mem.streaming /\ ~ keys /\ Opens(db, m)
      /\ db' = MarkUsed(db, m) /\ told' = [told EXCEPT !.half = @ \union {m.base}]
      /\ mem' = NoMem /\ spent' = Failing
      /\ pooling' = [c \in Callers |-> 0] /\ unlink' = 0 /\ refresh' = NoRefresh /\ keys' = FALSE /\ imp' = NoImport
      /\ UNCHANGED <<kv, history, file, job, server>>
  BY DEF ArrivesHalf
<1>2. /\ mem.reg # 0 /\ Ours /\ m \in Message /\ ~ Used(m, told.opened, told.half) /\ m.kyber \in db.kyber
      /\ m.base \in 1..spent.sends /\ m.base \in 1..MaxSends
      /\ \A o \in server.wire : o # m => o.base # m.base
  BY <1>1, OpensFresh
<1>3. db' \in Tables /\ Sized(db')
  BY <1>1, <1>2, OpenedType, OpeningTypes
<1>4. /\ db'.kyber = {k \in db.kyber : k # m.kyber \/ m.kyber.last}
      /\ db'.pre = db.pre /\ db'.signed = db.signed /\ db.seen \subseteq db'.seen
      /\ m.kyber.last => Use(m) \in db'.seen
  <2>1. Rows(db)
    BY OpeningTypes DEF Drawing
  <2> QED BY <1>1, <1>2, <2>1, MarkUsedKeys, OpeningTypes
<1>5. /\ told' \in Accounts /\ told'.given = told.given /\ told'.torn = told.torn /\ told'.issued = told.issued
      /\ told'.unlinked = told.unlinked /\ told'.halved = told.halved /\ told'.opened = told.opened
      /\ told'.half = told.half \union {m.base}
  <2>1. told.half \union {m.base} \in SUBSET Nat
    BY <1>2, OpeningTypes
  <2> QED BY <1>1, <2>1, OpeningTypes DEF Accounts
<1>6. spent' \in Counts /\ spent'.enrolments = spent.enrolments
      /\ spent'.batches = spent.batches /\ spent'.sends = spent.sends
  BY <1>1, Counting DEF IInv
<1>7. \A o \in server.wire : o.base \in 1..MaxSends /\ (Used(o, told.opened, told.half) => Refused(db, o))
  BY OpeningTypes, DeviceAssumption DEF Receiving
<1>8. \A o \in server.wire : Used(o, told'.opened, told'.half) <=> Used(o, told.opened, told.half) \/ o = m
  BY <1>2, <1>5 DEF Used
<1>9. /\ Drawing(db', refresh, spent.batches)
      /\ \A o \in server.wire : Used(o, told'.opened, told'.half) => Refused(db', o)
      /\ Holding(db, server.shelf, server.wire, told.opened, told.half)
         => Holding(db', server.shelf, server.wire, told'.opened, told'.half)
  <2>1. /\ db' \in Tables /\ db'.kyber = {k \in db.kyber : k # m.kyber \/ m.kyber.last}
        /\ db'.pre \in {db.pre, db.pre \ m.pre} /\ db'.signed = db.signed /\ db.seen \subseteq db'.seen
        /\ m.kyber.last => Use(m) \in db'.seen
    BY <1>3, <1>4
  <2>2. m.kyber \in db.kyber
    BY <1>2
  <2> QED BY <1>8, <2>1, <2>2, UseHere
<1>10. Receiving(db', server.wire, told'.opened, told'.half, spent.sends)
  <2>1. told.half \union {m.base} \subseteq 1..spent.sends
    BY <1>2, OpeningTypes DEF Receiving
  <2> QED BY <1>5, <1>9, <2>1, OpeningTypes DEF Receiving
<1>11. Typed'
  <2>1. 0 \in 0..3 /\ FALSE \in BOOLEAN /\ [c \in Callers |-> 0] \in [Callers -> Nat]
    OBVIOUS
  <2> QED BY <1>1, <1>3, <1>5, <1>6, <2>1, Nothing DEF IInv, Typed
<1>12. Phases'
  BY <1>1, <1>2, <1>6, Nothing DEF IInv, Phases
<1>13. Enrolments'
  <2>1. 0 \notin told.issued
    BY OpeningTypes DEF IInv, Enrolments
  <2> QED BY <1>1, <1>5, <1>6, <2>1, Nothing DEF IInv, Enrolments
<1>14. Pools'
  BY <1>1, <1>2, <1>5, Loaded, Nothing DEF IInv, Pools, Primary
<1>15. Masters'
  BY <1>1, <1>2, <1>5, Loaded, Nothing DEF IInv, Masters, Primary
<1>16. Download'
  BY <1>1, Nothing DEF IInv, Download, FileIsPrefix
<1>17. PreKeys'
  <2>1. Drawing(db', NoRefresh, spent.batches) /\ Handing(server.shelf, server.wire, NoRefresh, spent.batches)
    BY <1>9, NoBatchKeeps, Nothing, OpeningTypes
  <2> QED BY <1>1, <1>2, <1>6, <1>9, <1>10, <2>1, OpeningTypes DEF PreKeys
<1> QED BY <1>11, <1>12, <1>13, <1>14, <1>15, <1>16, <1>17 DEF IInv

(***************************************************************************)
(* Every step, and what follows                                            *)
(***************************************************************************)
LEMMA StutterKeeps == IInv /\ UNCHANGED vars => IInv'
<1> SUFFICES ASSUME IInv, UNCHANGED vars PROVE IInv'
  OBVIOUS
<1>1. Typed'
  BY DEF vars, IInv, Typed
<1>2. Download'
  BY DownloadFrame DEF vars, IInv
<1>3. mem.reg = 0 => unlink' = 0 /\ imp' = NoImport
  BY DEF vars, IInv, Phases
<1> QED BY <1>1, <1>2, <1>3, QuietFrame DEF vars

LEMMA NextKeeps == IInv /\ [Next]_vars => IInv'
<1> SUFFICES ASSUME IInv, [Next]_vars PROVE IInv'
  OBVIOUS
<1>1. CASE Enrolling
  <2>1. CASE BeginLink
    BY <2>1, BeginKeeps DEF BeginLink
  <2>2. CASE BeginRegister
    BY <2>2, BeginKeeps DEF BeginRegister
  <2> QED BY <1>1, <2>1, <2>2, ScannedKeeps, ScanFailedKeeps, CodeVerifiedKeeps, RegisteredKeeps, StoreKeeps, LoadKeeps,
             StopKeeps DEF Enrolling
<1>2. CASE KeepingKeys
  BY <1>2, BeginPoolKeeps, PoolDrawnKeeps, KeysAskedKeeps, KeysDerivedKeeps, RenewCertificateKeeps, KeysReceivedKeeps
     DEF KeepingKeys
<1>3. CASE Unlinking
  BY <1>3, BeginUnlinkKeeps, UnlinkTriedKeeps, ExpelledKeeps DEF Unlinking
<1>4. CASE Opening
  BY <1>4, RefreshStatusKeeps, RefreshSaveKeeps, RefreshUploadKeeps, StopStreamKeeps, InitiateKeeps, ClearSessionsKeeps,
     ArrivesKeeps, ArrivesHalfKeeps DEF Opening
<1>5. CASE Importing
  BY <1>5, BeginImportKeeps, ArchiveAskedKeeps, ChunkWrittenKeeps, DownloadStalledKeeps, DownloadedKeeps, FrameReadKeeps,
     FramesEndedKeeps, ArchiveDiscardedKeeps, ImportDoneKeeps, ImportFailedKeeps DEF Importing
<1>6. CASE UNCHANGED vars
  BY <1>6, StutterKeeps
<1> QED BY <1>1, <1>2, <1>3, <1>4, <1>5, <1>6 DEF Next

LEMMA Invariance == Spec => []IInv
BY InitIInv, NextKeeps, PTL DEF Spec

(* What the parts of the invariant mean for a reader.                      *)
LEMMA IInvTypes == IInv => TypeOK
<1> SUFFICES ASSUME IInv PROVE TypeOK
  OBVIOUS
<1>1. db.pre \in SUBSET Key /\ db.signed \in SUBSET Key /\ db.kyber \in SUBSET Key
      /\ db.seen \in SUBSET (Nat \X Nat \X Nat) /\ db.sessions \in SUBSET Nat /\ db.identity \in Nat
  BY DEF IInv, Typed, Tables
<1>2. mem \in [reg : Nat, cert : Nat, pool : Nat, streaming : BOOLEAN] /\ job.e \in Nat /\ job.pool \in Nat
  BY DEF IInv, Typed, Mems, Jobs
<1>3. refresh.step \in {"idle", "status", "save", "upload"}
      /\ imp.step \in {"idle", "ask", "download", "frames", "discard", "forget"} /\ imp.at \in Nat
  BY DEF IInv, Typed, Refreshes, Imports
<1>4. history.rows \in [1..MaxTime + 1 -> Row] /\ history.call \in CallEntry
  BY DEF IInv, Typed, History
<1>5. server.live \in SUBSET Nat /\ server.linked \in SUBSET Nat /\ server.wire \in SUBSET Message
  BY DEF IInv, Typed, Servers
<1> QED BY <1>1, <1>2, <1>3, <1>4, <1>5 DEF IInv, Typed, TypeOK

LEMMA IInvMaster == IInv => MasterIsPools
<1> SUFFICES ASSUME IInv, ~ told.halved, ~ keys, ~ Halving PROVE kv.master \in {0, kv.pool}
  BY DEF MasterIsPools
<1>1. job.todo # <<"pool", "reg">>
  BY NotHalving DEF IInv, Halving
<1> QED BY <1>1 DEF IInv, Masters

LEMMA IInvHandedOut == IInv => HandedOutOpens
<1> SUFFICES ASSUME IInv, kv.reg # 0, server.owner = kv.reg
             PROVE  /\ server.shelf.pre \subseteq db.pre /\ server.shelf.signed \subseteq db.signed
                    /\ \A k \in server.shelf.kyber \union server.shelf.last : HasKyber(db, k)
                    /\ \A m \in server.wire : told.opened[m.base] = 0 /\ m.base \notin told.half => Holds(db, m)
  BY DEF HandedOutOpens
<1>1. Holding(db, server.shelf, server.wire, told.opened, told.half)
  BY OpeningTypes DEF Ours
<1> QED BY <1>1 DEF Holding, Kept, Openable, Used, Holds, HasKyber

(* Every variable keeps its type, and a self-unlink never has more than    *)
(* three attempts left (unlink_secondary), however many enrolments, pools, *)
(* batches and messages there are.                                         *)
THEOREM TypeCorrect == Spec => []TypeOK
BY Invariance, IInvTypes, PTL

(* A store that says it is registered has the identity keys of that very   *)
(* registration, wherever linking or registering was cut (linking.rs and   *)
(* confirmation.rs: save_registration_data comes last).                    *)
THEOREM RegistrationWhole == Spec => []RegisteredWhole
<1>1. IInv => RegisteredWhole
  BY DEF IInv, Phases, RegisteredWhole
<1> QED BY Invariance, <1>1, PTL

(* The stored master key is the stored pool's unless the two writes were   *)
(* cut apart (link_secondary_device, the Keys message).                    *)
THEOREM MasterFromPool == Spec => []MasterIsPools
BY Invariance, IInvMaster, PTL

(* The pool a primary gave away is the one it has stored, unless two       *)
(* callers drew one at the same time (account_entropy_pool).               *)
THEOREM PoolsKept == Spec => []PoolKept
<1>1. IInv => PoolKept
  BY DEF IInv, Phases, Pools, PoolKept
<1> QED BY Invariance, <1>1, PTL

(* A certificate fetched in an enrolment is in use for the rest of it,     *)
(* restarts included (sender_certificate, load_registered).                *)
THEOREM CertificatesStay == Spec => []CertificateStays
<1>1. IInv => CertificateStays
  BY DEF IInv, Enrolments, CertificateStays
<1> QED BY Invariance, <1>1, PTL

(* A device told that it is unlinked is unknown to the server from then on *)
(* (unlink_secondary).                                                     *)
THEOREM UnlinksHonest == Spec => []UnlinkHonest
<1>1. IInv => UnlinkHonest
  BY DEF IInv, Enrolments, UnlinkHonest
<1> QED BY Invariance, <1>1, PTL

(* A resumed download never repeats or skips a chunk                       *)
(* (download_and_import_backup, write_archive_to_file).                    *)
THEOREM FilesArePrefixes == Spec => []FileIsPrefix
<1>1. IInv => FileIsPrefix
  BY DEF IInv, Download
<1> QED BY Invariance, <1>1, PTL

(* Whatever the server may still hand out, and every message made with it  *)
(* and not yet opened, can be opened (register_pre_keys and the tables of  *)
(* presage-store-sqlite/src/protocol.rs).                                  *)
THEOREM HandedOutStaysOpenable == Spec => []HandedOutOpens
BY Invariance, IInvHandedOut, PTL

(* A message that starts a session opens at most once, even when it is     *)
(* delivered again after its session was cleared                           *)
(* (mark_kyber_pre_key_used).                                              *)
THEOREM ReplaysRefused == Spec => []ReplayRefused
<1>1. IInv => ReplayRefused
  BY DEF IInv, PreKeys, Receiving, ReplayRefused
<1> QED BY Invariance, <1>1, PTL

(***************************************************************************)
(* The history: what an archive's items become, one after another          *)
(***************************************************************************)
(* Item i of the archive a is where Whole says it should be.               *)
ShownAt(h, a, i, t) == i \in h.rows[t].of \/ (a[i].kind = "change" /\ h.rows[t].kind = "creation")
Settled(h, a, i) ==
  /\ Alone(a, i) => \A t \in Times(a[i]) : ShownAt(h, a, i, t)
  /\ a[i].kind = "call_accepted" => h.call.status = "accepted"

(* A backup's call is a direct one, and never a deletion.                  *)
Undeleted(h) == h.call.mode = "direct" /\ h.call.status # "deleted"

(* Items i and j belong to one run.                                        *)
Joined(a, i, j) == Together(a, IF i < j THEN i ELSE j, IF i < j THEN j ELSE i)

(* A run of one group's changes, or of an item that is none; no item up to *)
(* n belongs to it and is left out.                                        *)
Changes(a, run) ==
  /\ run.item.kind \in Groupish
  /\ \A j \in run.of : a[j].kind \in Groupish /\ a[j].author = run.item.author /\ a[j].at = run.item.at
  /\ run.creates = {j \in run.of : a[j].kind = "creation"}
Single(a, run) == run.item.kind \notin Groupish /\ \A j \in run.of : a[j] = run.item
Complete(a, run, n) == \A j \in run.of, i \in 1..n : Joined(a, i, j) => i \in run.of
WholeRun(a, run) ==
  run.of # {} /\ run.of \subseteq 1..Len(a) /\ (Changes(a, run) \/ Single(a, run)) /\ Complete(a, run, Len(a))

(* What is held back before item n: nothing after an item that is no       *)
(* change, and otherwise the run that the item before n ends.              *)
HeldBack(a, n, held) ==
  IF held.of = {} THEN n = 1 \/ a[n - 1].kind \notin Groupish
  ELSE held.of \subseteq 1..n - 1 /\ n - 1 \in held.of /\ Changes(a, held) /\ Complete(a, held, n - 1)

ReadUpTo(h, a, n, held) ==
  /\ n \in 1..Len(a) + 1 /\ HeldBack(a, n, held)
  /\ \A i \in 1..n - 1 : i \notin held.of => Settled(h, a, i)

(* An archive, once uploaded, is the one the pointer names; after its last *)
(* frame every item is settled, and an import that is repeated leaves what *)
(* was settled settled.                                                    *)
Histories ==
  /\ Undeleted(history)
  /\ kv.archive # 0 \/ imp.step \in {"download", "frames", "discard", "forget"} \/ told.imported => server.of # 0
  /\ imp.step = "frames" => ReadUpTo(history, server.upload, imp.at, imp.held)
  /\ told.imported \/ imp.step \in {"discard", "forget"} =>
       \A i \in 1..Len(server.upload) : Settled(history, server.upload, i)

LEMMA RowsTimes ==
  ASSUME NEW run \in Runs
  PROVE  DOMAIN RowsOf(run) = Times(run.item)
<1>1. CASE run.item.kind = "unknown"
  BY <1>1 DEF RowsOf, Times, Groupish
<1>2. CASE run.item.kind = "edited"
  BY <1>2 DEF RowsOf, Times, Groupish
<1>3. CASE run.item.kind \in Groupish
  BY <1>3 DEF RowsOf, Times, Groupish
<1>4. CASE run.item.kind \notin Groupish \union {"unknown", "edited"}
  BY <1>4 DEF RowsOf, Times
<1> QED BY <1>1, <1>2, <1>3, <1>4

LEMMA TimesType ==
  ASSUME NEW item \in Item
  PROVE  Times(item) \subseteq 1..MaxTime + 1
<1>1. item.at \in 1..MaxTime /\ MaxTime \in Nat
  BY ItemType, ArchiveAssumption
<1> QED BY <1>1 DEF Times

LEMMA JoinedBoth ==
  ASSUME NEW a \in Seq(Item), NEW i \in 1..Len(a), NEW j \in 1..Len(a), Joined(a, i, j)
  PROVE  a[i].kind \in Groupish /\ a[i].author = a[j].author /\ a[i].at = a[j].at /\ a[j].kind \in Groupish
<1>1. CASE i < j
  <2>1. i \in i..j /\ j \in i..j
    BY <1>1
  <2> QED BY <1>1, <2>1 DEF Joined, Together
<1>2. CASE ~ (i < j)
  <2>1. i \in j..i /\ j \in j..i
    BY <1>2
  <2> QED BY <1>2, <2>1 DEF Joined, Together
<1> QED BY <1>1, <1>2

(* The items of a run have its times.                                      *)
LEMMA RunTimes ==
  ASSUME NEW a \in Seq(Item), NEW run \in Runs, WholeRun(a, run), NEW i \in run.of
  PROVE  Times(a[i]) = Times(run.item)
<1>1. CASE Changes(a, run)
  BY <1>1 DEF Changes, Times, Groupish
<1>2. CASE Single(a, run)
  BY <1>2 DEF Single
<1> QED BY <1>1, <1>2 DEF WholeRun

(* The row of a run shows each of its items.                               *)
LEMMA RunShows ==
  ASSUME NEW a \in Seq(Item), NEW run \in Runs, WholeRun(a, run), NEW i \in run.of, NEW t \in Times(a[i])
  PROVE  LET row == RowsOf(run)[t] IN i \in row.of \/ (a[i].kind = "change" /\ row.kind = "creation")
<1>1. t \in Times(run.item)
  BY RunTimes
<1>2. CASE Changes(a, run)
  <2>1. RowsOf(run)[t] = GroupRow(run)
    BY <1>1, <1>2 DEF Changes, RowsOf, Times, Groupish
  <2>2. i \notin run.creates => a[i].kind = "change"
    BY <1>2 DEF Changes, Groupish
  <2> QED BY <2>1, <2>2 DEF GroupRow
<1>3. CASE Single(a, run)
  <2>1. CASE run.item.kind = "edited"
    BY <1>1, <2>1 DEF RowsOf, Times, Groupish, PlainRow, EditRow
  <2>2. CASE run.item.kind \notin Groupish \union {"unknown", "edited"}
    BY <1>1, <2>2 DEF RowsOf, Times, PlainRow
  <2>3. run.item.kind # "unknown"
    BY <1>1 DEF Times
  <2> QED BY <1>3, <2>1, <2>2, <2>3 DEF Single
<1> QED BY <1>2, <1>3 DEF WholeRun

(* A run settles its items, and unsettles none: an item that shares a time *)
(* with it is not alone.                                                   *)
LEMMA RunSettles ==
  ASSUME NEW a \in Seq(Item), NEW h \in History, NEW run \in Runs, WholeRun(a, run), Undeleted(h),
         NEW i \in 1..Len(a), Settled(h, a, i) \/ i \in run.of
  PROVE  Settled(Imported(h, run), a, i)
<1> DEFINE n == Imported(h, run)
<1>0. a[i] \in Item /\ DOMAIN h.rows = 1..MaxTime + 1
  BY DEF History
<1>1. ASSUME Alone(a, i), NEW t \in Times(a[i]) PROVE ShownAt(n, a, i, t)
  <2>1. t \in DOMAIN h.rows
    BY <1>0, TimesType
  <2>2. n.rows[t] = IF t \in DOMAIN RowsOf(run) THEN RowsOf(run)[t] ELSE h.rows[t]
    BY <2>1 DEF Imported
  <2>3. CASE i \in run.of
    <3>1. t \in DOMAIN RowsOf(run)
      BY <2>3, RowsTimes, RunTimes
    <3> QED BY <2>2, <2>3, <3>1, RunShows DEF ShownAt
  <2>4. CASE i \notin run.of
    <3>1. t \notin DOMAIN RowsOf(run)
      <4> SUFFICES ASSUME t \in Times(run.item) PROVE FALSE
        BY RowsTimes
      <4>1. PICK j \in run.of : j \in 1..Len(a) \ {i}
        BY <2>4 DEF WholeRun
      <4>2. ~ Joined(a, i, j)
        BY <2>4 DEF WholeRun, Complete
      <4>3. Times(a[i]) \intersect Times(a[j]) = {}
        BY <1>1, <4>1, <4>2 DEF Alone, Joined
      <4> QED BY <1>1, <4>1, <4>3, RunTimes
    <3> QED BY <1>1, <2>2, <2>4, <3>1 DEF ShownAt, Settled
  <2> QED BY <2>3, <2>4
<1>2. ASSUME a[i].kind = "call_accepted" PROVE n.call.status = "accepted"
  <2>1. CASE run.item.kind \notin CallItems
    <3>1. i \notin run.of
      BY <1>2, <2>1 DEF WholeRun, Changes, Single, CallItems, Groupish
    <3> QED BY <1>2, <2>1, <3>1 DEF Settled, Imported
  <2>2. CASE run.item.kind \in CallItems
    <3>1. n.call = Transition(h.call, CallOf(run.item))
      BY <2>2 DEF Imported
    <3>2. i \in run.of => run.item.kind = "call_accepted"
      BY <1>2 DEF WholeRun, Changes, Single, Groupish
    <3>3. h.call.status = "accepted" \/ run.item.kind = "call_accepted"
      BY <1>2, <3>2 DEF Settled
    <3>4. CallOf(run.item).mode = "direct" /\ CallOf(run.item).kind \in {"accepted", "not_accepted"}
          /\ (run.item.kind = "call_accepted" => CallOf(run.item).kind = "accepted")
      BY DEF CallOf
    <3> QED BY <3>1, <3>3, <3>4 DEF Transition, DirectStatus, Prior, Undeleted
  <2> QED BY <2>1, <2>2
<1> QED BY <1>1, <1>2 DEF Settled

LEMMA RunUndeleted ==
  ASSUME NEW h \in History, NEW run \in Runs, Undeleted(h)
  PROVE  Undeleted(Imported(h, run))
<1>1. Imported(h, run).call = IF run.item.kind \in CallItems THEN Transition(h.call, CallOf(run.item)) ELSE h.call
  BY DEF Imported
<1>2. CallOf(run.item).mode = "direct" /\ CallOf(run.item).kind \in {"accepted", "not_accepted"}
  BY DEF CallOf
<1>3. Undeleted([call |-> Transition(h.call, CallOf(run.item))])
  BY <1>2 DEF Transition, DirectStatus, Prior, Undeleted
<1> QED BY <1>1, <1>3 DEF Undeleted

(* What was held back is whole once an item that does not go with it       *)
(* follows, or none.                                                       *)
LEMMA HeldIsWhole ==
  ASSUME NEW a \in Seq(Item), NEW n \in 1..Len(a) + 1, NEW held \in Runs, HeldBack(a, n, held), held.of # {},
         n = Len(a) + 1 \/ ~ SameRun(held, a[n])
  PROVE  WholeRun(a, held)
<1>1. held.of \subseteq 1..n - 1 /\ n - 1 \in held.of /\ Changes(a, held) /\ Complete(a, held, n - 1)
  BY DEF HeldBack
<1>2. held.of \subseteq 1..Len(a)
  BY <1>1
<1>3. ASSUME NEW j \in held.of, NEW i \in 1..Len(a), Joined(a, i, j) PROVE i \in held.of
  <2>1. CASE i \in 1..n - 1
    BY <1>1, <1>3, <2>1 DEF Complete
  <2>2. CASE i \notin 1..n - 1
    <3>1. n \in 1..Len(a) /\ j < n /\ n <= i /\ j \in Nat /\ i \in Nat
      BY <1>1, <1>2, <2>2
    <3>2. Together(a, j, i)
      BY <1>3, <3>1 DEF Joined
    <3>3. n \in j..i
      BY <3>1
    <3>4. a[n].kind \in Groupish /\ a[n].author = a[j].author /\ a[n].at = a[j].at
      BY <3>2, <3>3 DEF Together
    <3>5. a[j].author = held.item.author /\ a[j].at = held.item.at
      BY <1>1 DEF Changes
    <3>6. SameRun(held, a[n])
      BY <3>4, <3>5 DEF SameRun
    <3> QED BY <3>1, <3>6
  <2> QED BY <2>1, <2>2
<1> QED BY <1>1, <1>2, <1>3 DEF WholeRun, Complete

(* The run of an item that is no change.                                   *)
LEMMA SingleIsWhole ==
  ASSUME NEW a \in Seq(Item), NEW n \in 1..Len(a), a[n].kind \notin Groupish
  PROVE  WholeRun(a, Run(a[n], n))
<1> DEFINE run == Run(a[n], n)
<1>1. run.item = a[n] /\ run.of = {n}
  BY DEF Run
<1> HIDE DEF run
<1>2. ASSUME NEW i \in 1..Len(a), Joined(a, i, n) PROVE FALSE
  BY <1>2, JoinedBoth
<1> QED BY <1>1, <1>2 DEF WholeRun, Single, Complete, run

Flushed(h, held) == IF held.of = {} THEN h ELSE Imported(h, held)

(* Nothing is held any longer.                                             *)
LEMMA FlushSettles ==
  ASSUME NEW a \in Seq(Item), NEW h \in History, NEW n \in 1..Len(a) + 1, NEW held \in Runs,
         HeldBack(a, n, held), Undeleted(h), n = Len(a) + 1 \/ ~ SameRun(held, a[n])
  PROVE  /\ Flushed(h, held) \in History /\ Undeleted(Flushed(h, held))
         /\ \A i \in 1..Len(a) : Settled(h, a, i) \/ i \in held.of => Settled(Flushed(h, held), a, i)
<1>1. CASE held.of = {}
  BY <1>1 DEF Flushed
<1>2. CASE held.of # {}
  <2>1. WholeRun(a, held)
    BY <1>2, HeldIsWhole
  <2>2. Flushed(h, held) = Imported(h, held)
    BY <1>2 DEF Flushed
  <2> QED BY <2>1, <2>2, ImportedType, RunUndeleted, RunSettles
<1> QED BY <1>1, <1>2

(* An item that goes with the run held back, a change that begins one, and *)
(* an item that is no change.                                              *)
LEMMA CoalesceCases ==
  ASSUME NEW held \in Runs, NEW item \in Item, NEW n \in Nat, NEW h
  PROVE  LET read == Coalesce(held, item, n)
             next == ImportedAll(h, read.ready) IN
         \/ SameRun(held, item) /\ read.held = Absorb(held, item, n) /\ next = h
         \/ ~ SameRun(held, item) /\ item.kind \in Groupish /\ read.held = Run(item, n) /\ next = Flushed(h, held)
         \/ /\ ~ SameRun(held, item) /\ item.kind \notin Groupish /\ read.held = NoRun
            /\ next = Imported(Flushed(h, held), Run(item, n))
<1> DEFINE before == IF held.of = {} THEN <<>> ELSE <<held>>
<1>1. ImportedAll(h, <<>>) = h
  BY DEF ImportedAll
<1>2. ImportedAll(h, before) = Flushed(h, held)
  BY DEF ImportedAll, Flushed
<1>3. \A run \in Runs : ImportedAll(h, Append(before, run)) = Imported(Flushed(h, held), run)
  <2> SUFFICES ASSUME NEW run \in Runs
               PROVE  ImportedAll(h, Append(before, run)) = Imported(Flushed(h, held), run)
    OBVIOUS
  <2>1. CASE held.of = {}
    <3>1. Append(before, run) = <<run>>
      BY <2>1
    <3> QED BY <2>1, <3>1 DEF ImportedAll, Flushed
  <2>2. CASE held.of # {}
    <3>1. before = <<held>> /\ before \in Seq(Runs) /\ Len(before) = 1 /\ before[1] = held
      BY <2>2
    <3> DEFINE s == Append(before, run)
    <3> HIDE DEF before
    <3>2. Len(s) = 2 /\ s[1] = held /\ s[2] = run
      BY <3>1
    <3>3. s # <<>>
      BY <3>2
    <3> HIDE DEF s
    <3>4. ImportedAll(h, s) = Imported(Imported(h, held), run)
      BY <3>2, <3>3 DEF ImportedAll
    <3> QED BY <2>2, <3>4 DEF Flushed, s
  <2> QED BY <2>1, <2>2
<1>4. Run(item, n) \in Runs
  BY RunType
<1> HIDE DEF before
<1>5. CASE SameRun(held, item)
  BY <1>1, <1>5 DEF Coalesce
<1>6. CASE ~ SameRun(held, item) /\ item.kind \in Groupish
  BY <1>2, <1>6 DEF Coalesce, before
<1>7. CASE ~ SameRun(held, item) /\ item.kind \notin Groupish
  BY <1>3, <1>4, <1>7 DEF Coalesce, before
<1> QED BY <1>5, <1>6, <1>7

(* Only the item right before n goes with n, or none.                      *)
LEMMA JoinsLast ==
  ASSUME NEW a \in Seq(Item), NEW n \in 1..Len(a), NEW i \in 1..n - 1, Joined(a, i, n)
  PROVE  /\ n - 1 \in 1..Len(a) /\ a[n - 1].kind \in Groupish /\ a[n].kind \in Groupish
         /\ a[n - 1].author = a[n].author /\ a[n - 1].at = a[n].at
         /\ Joined(a, i, n - 1)
<1>1. i < n /\ i \in 1..Len(a) /\ n - 1 \in i..n /\ i..n - 1 \subseteq i..n /\ n \in i..n
  OBVIOUS
<1>2. Together(a, i, n)
  BY <1>1 DEF Joined
<1>3. Together(a, i, n - 1)
  BY <1>1, <1>2 DEF Together
<1>4. Joined(a, i, n - 1)
  <2>1. CASE i < n - 1
    BY <1>3, <2>1 DEF Joined
  <2>2. CASE i = n - 1
    BY <1>3, <2>2 DEF Joined
  <2> QED BY <2>1, <2>2
<1>5. a[n - 1].kind \in Groupish /\ a[n].kind \in Groupish
      /\ a[n - 1].author = a[n].author /\ a[n - 1].at = a[n].at
  BY <1>1, <1>2 DEF Together
<1> QED BY <1>1, <1>4, <1>5

LEMMA CoalesceHolds ==
  ASSUME NEW a \in Seq(Item), NEW n \in 1..Len(a), NEW held \in Runs, HeldBack(a, n, held)
  PROVE  /\ SameRun(held, a[n]) => HeldBack(a, n + 1, Absorb(held, a[n], n))
         /\ ~ SameRun(held, a[n]) /\ a[n].kind \in Groupish => HeldBack(a, n + 1, Run(a[n], n))
         /\ a[n].kind \notin Groupish => HeldBack(a, n + 1, NoRun)
<1>0. a[n] \in Item /\ n \in Nat /\ n + 1 - 1 = n
  OBVIOUS
<1>1. ASSUME SameRun(held, a[n]) PROVE HeldBack(a, n + 1, Absorb(held, a[n], n))
  <2> DEFINE new == Absorb(held, a[n], n)
  <2>1. /\ new.item = held.item /\ new.of = held.of \union {n}
        /\ new.creates = held.creates \union (IF a[n].kind = "creation" THEN {n} ELSE {})
    BY DEF Absorb, Runs
  <2>2. /\ held.of # {} /\ a[n].kind \in Groupish /\ held.item.author = a[n].author /\ held.item.at = a[n].at
    BY <1>1 DEF SameRun
  <2>3. held.of \subseteq 1..n - 1 /\ n - 1 \in held.of /\ Changes(a, held) /\ Complete(a, held, n - 1)
    BY <2>2 DEF HeldBack
  <2> HIDE DEF new
  <2>4. Changes(a, new)
    BY <2>1, <2>2, <2>3 DEF Changes
  <2>5. ASSUME NEW j \in new.of, NEW i \in 1..n, Joined(a, i, j) PROVE i \in new.of
    <3>1. CASE i = n
      BY <2>1, <3>1
    <3>2. CASE i # n /\ j = n
      <4>1. i \in 1..n - 1
        BY <1>0, <3>2
      <4>2. Joined(a, i, n)
        BY <2>5, <3>2
      <4>3. Joined(a, i, n - 1)
        BY <4>1, <4>2, JoinsLast
      <4> QED BY <2>1, <2>3, <4>1, <4>3 DEF Complete
    <3>3. CASE i # n /\ j # n
      BY <1>0, <2>1, <2>3, <2>5, <3>3 DEF Complete
    <3> QED BY <3>1, <3>2, <3>3
  <2>6. new.of \subseteq 1..n /\ n \in new.of
    BY <1>0, <2>1, <2>3
  <2>7. HeldBack(a, n + 1, new)
    BY <1>0, <2>4, <2>5, <2>6 DEF HeldBack, Complete
  <2> QED BY <2>7 DEF new
<1>2. ASSUME ~ SameRun(held, a[n]), a[n].kind \in Groupish PROVE HeldBack(a, n + 1, Run(a[n], n))
  <2> DEFINE new == Run(a[n], n)
  <2>1. new.item = a[n] /\ new.of = {n} /\ new.creates = (IF a[n].kind = "creation" THEN {n} ELSE {})
    BY DEF Run
  <2> HIDE DEF new
  <2>2. Changes(a, new)
    BY <1>2, <2>1 DEF Changes
  <2>3. ASSUME NEW i \in 1..n - 1, Joined(a, i, n) PROVE FALSE
    <3>1. /\ n - 1 \in 1..Len(a) /\ a[n - 1].kind \in Groupish
          /\ a[n - 1].author = a[n].author /\ a[n - 1].at = a[n].at
      BY <2>3, JoinsLast
    <3>2. held.of # {} /\ n - 1 \in held.of /\ Changes(a, held)
      BY <3>1 DEF HeldBack
    <3>3. a[n - 1].author = held.item.author /\ a[n - 1].at = held.item.at
      BY <3>2 DEF Changes
    <3> QED BY <1>2, <3>1, <3>2, <3>3 DEF SameRun
  <2>4. Complete(a, new, n)
    BY <1>0, <2>1, <2>3 DEF Complete
  <2>5. HeldBack(a, n + 1, new)
    BY <1>0, <2>1, <2>2, <2>4 DEF HeldBack
  <2> QED BY <2>5 DEF new
<1>3. ASSUME a[n].kind \notin Groupish PROVE HeldBack(a, n + 1, NoRun)
  BY <1>0, <1>3 DEF HeldBack, NoRun
<1> QED BY <1>1, <1>2, <1>3

(* One chat item: what is settled stays so, and each item read is settled  *)
(* or held back.                                                           *)
LEMMA FrameSettles ==
  ASSUME NEW a \in Seq(Item), NEW h \in History, NEW n \in 1..Len(a), NEW held \in Runs,
         ReadUpTo(h, a, n, held), Undeleted(h)
  PROVE  LET read == Coalesce(held, a[n], n)
             next == ImportedAll(h, read.ready) IN
         /\ ReadUpTo(next, a, n + 1, read.held) /\ Undeleted(next)
         /\ \A i \in 1..Len(a) : Settled(h, a, i) => Settled(next, a, i)
<1> DEFINE read == Coalesce(held, a[n], n)
           next == ImportedAll(h, read.ready)
           some == Flushed(h, held)
<1>0. a[n] \in Item /\ n \in Nat /\ n \in 1..Len(a) + 1 /\ n + 1 \in 1..Len(a) + 1 /\ n + 1 - 1 = n
  OBVIOUS
<1>1. HeldBack(a, n, held) /\ \A i \in 1..n - 1 : i \notin held.of => Settled(h, a, i)
  BY DEF ReadUpTo
<1>2. \/ SameRun(held, a[n]) /\ read.held = Absorb(held, a[n], n) /\ next = h
      \/ ~ SameRun(held, a[n]) /\ a[n].kind \in Groupish /\ read.held = Run(a[n], n) /\ next = some
      \/ /\ ~ SameRun(held, a[n]) /\ a[n].kind \notin Groupish /\ read.held = NoRun
         /\ next = Imported(some, Run(a[n], n))
  BY <1>0, CoalesceCases
<1>3. HeldBack(a, n + 1, read.held)
  BY <1>1, <1>2, CoalesceHolds
<1>f. ~ SameRun(held, a[n]) =>
        /\ some \in History /\ Undeleted(some)
        /\ \A i \in 1..Len(a) : Settled(h, a, i) \/ i \in held.of => Settled(some, a, i)
  BY <1>0, <1>1, FlushSettles
<1> HIDE DEF read, next, some
<1>4. CASE SameRun(held, a[n]) /\ read.held = Absorb(held, a[n], n) /\ next = h
  <2>1. read.held.of = held.of \union {n}
    BY <1>4 DEF Absorb, Runs
  <2>2. \A i \in 1..n : i \notin read.held.of => Settled(next, a, i)
    BY <1>0, <1>1, <1>4, <2>1
  <2> QED BY <1>0, <1>3, <1>4, <2>2 DEF ReadUpTo, read, next
<1>5. CASE ~ SameRun(held, a[n]) /\ a[n].kind \in Groupish /\ read.held = Run(a[n], n) /\ next = some
  <2>1. read.held.of = {n}
    BY <1>5 DEF Run
  <2>2. \A i \in 1..n : i \notin read.held.of => Settled(next, a, i)
    BY <1>0, <1>1, <1>5, <1>f, <2>1
  <2> QED BY <1>0, <1>3, <1>5, <1>f, <2>2 DEF ReadUpTo, read, next
<1>6. CASE /\ ~ SameRun(held, a[n]) /\ a[n].kind \notin Groupish /\ read.held = NoRun
           /\ next = Imported(some, Run(a[n], n))
  <2>1. Run(a[n], n) \in Runs /\ WholeRun(a, Run(a[n], n)) /\ Run(a[n], n).of = {n}
    BY <1>0, <1>6, RunType, SingleIsWhole DEF Run
  <2>2. Undeleted(next) /\ \A i \in 1..Len(a) : Settled(some, a, i) \/ i = n => Settled(next, a, i)
    BY <1>6, <1>f, <2>1, RunUndeleted, RunSettles
  <2>3. \A i \in 1..n : Settled(next, a, i)
    BY <1>0, <1>1, <1>6, <1>f, <2>2
  <2> QED BY <1>0, <1>3, <1>6, <1>f, <2>2, <2>3 DEF ReadUpTo, read, next
<1> QED BY <1>2, <1>4, <1>5, <1>6

LEMMA NotArchive ==
  ASSUME NEW s \in Todos, s # <<>>
  PROVE  Head(s) # "archive"
<1>1. s \in Pending \/ s = <<"scan">>
  BY DEF Todos
<1>2. s = <<"scan">> => Head(s) = "scan"
  OBVIOUS
<1>3. /\ s = <<"code", "aci", "pni", "wire", "reg">> => Head(s) = "code"
      /\ s = <<"master", "pool", "reg">> => Head(s) = "master"
      /\ s = <<"pool", "reg">> => Head(s) = "pool"
      /\ s = <<"reg">> => Head(s) = "reg"
      /\ s = <<"aci", "pni", "wire", "reg">> => Head(s) = "aci"
      /\ s = <<"pni", "wire", "reg">> => Head(s) = "pni"
      /\ s = <<"wire", "reg">> => Head(s) = "wire"
      /\ s = <<"backup", "aci", "pni", "master", "pool", "reg">> => Head(s) = "backup"
      /\ s = <<"aci", "pni", "master", "pool", "reg">> => Head(s) = "aci"
      /\ s = <<"pni", "master", "pool", "reg">> => Head(s) = "pni"
  OBVIOUS
<1> QED BY <1>1, <1>2, <1>3 DEF Pending, AfterAci, AfterPni

LEMMA InitHistories == Init => Histories
<1> SUFFICES ASSUME Init PROVE Histories
  OBVIOUS
<1>1. history.call.mode = "direct" /\ history.call.status # "deleted"
  BY DEF Init, NoHistory, NoCall
<1>2. kv.archive = 0 /\ imp.step = "idle" /\ ~ told.imported
  BY Nothing DEF Init, KvKeys
<1> QED BY <1>1, <1>2 DEF Histories, Undeleted

(* What the steps that import nothing leave as it was: an import they cut  *)
(* short is over.                                                          *)
LEMMA HistoriesFrame ==
  ASSUME Histories, history' = history, server'.upload = server.upload, server'.of = server.of,
         kv'.archive = kv.archive, imp' = imp \/ imp' = NoImport, told'.imported = told.imported
  PROVE  Histories'
<1>1. CASE imp' = imp
  BY <1>1 DEF Histories
<1>2. CASE imp' = NoImport
  BY <1>2, Nothing DEF Histories
<1> QED BY <1>1, <1>2

LEMMA EnrollingKeeps ==
  ASSUME IInv, Histories, Enrolling
  PROVE  Histories'
<1>0. kv \in [KvKeys -> Nat] /\ server \in Servers /\ told \in Accounts /\ job.todo \in Todos
  BY DEF IInv, Typed, Jobs
<1>1. ASSUME NEW todo, Begin(todo) PROVE Histories'
  <2>1. kv' = [kv EXCEPT !.reg = 0] /\ told' = [told EXCEPT !.given = {}, !.torn = FALSE]
        /\ UNCHANGED <<history, server, imp>>
    BY <1>1 DEF Begin, Cleared, tasks
  <2>2. kv'.archive = kv.archive /\ told'.imported = told.imported
    BY <1>0, <2>1 DEF KvKeys, Accounts
  <2> QED BY <2>1, <2>2, HistoriesFrame
<1>2. CASE Scanned \/ Registered
  <2>1. UNCHANGED <<kv, history, told, imp>> /\ \E others, links : Enrols(others, links)
    BY <1>2 DEF Scanned, Registered, tasks
  <2>2. server'.upload = server.upload /\ server'.of = server.of
    BY <1>0, <2>1 DEF Enrols, Servers
  <2> QED BY <2>1, <2>2, HistoriesFrame
<1>3. CASE ScanFailed
  <2>1. (kv' = [kv EXCEPT !.reg = 0] \/ UNCHANGED kv) /\ UNCHANGED <<history, told, imp>>
    BY <1>3 DEF ScanFailed, Cleared, tasks
  <2>2. server'.upload = server.upload /\ server'.of = server.of
    BY <1>0, <1>3 DEF ScanFailed, Servers
  <2>3. kv'.archive = kv.archive
    BY <1>0, <2>1 DEF KvKeys
  <2> QED BY <2>1, <2>2, <2>3, HistoriesFrame
<1>4. CASE CodeVerified \/ Load
  <2>1. UNCHANGED <<kv, history, server, told, imp>>
    BY <1>4 DEF CodeVerified, Load, store, tasks
  <2> QED BY <2>1, HistoriesFrame
<1>5. CASE Store
  <2>1. /\ kv' = [kv EXCEPT ![Head(job.todo)] = Value(Head(job.todo))] /\ UNCHANGED <<history, server, imp>>
        /\ told' = [told EXCEPT !.halved = told.halved /\ Head(job.todo) # "pool"]
    BY <1>5 DEF Store, tasks
  <2>2. Head(job.todo) # "archive"
    BY <1>0, <1>5, NotArchive DEF Store
  <2>3. kv'.archive = kv.archive
    BY <1>0, <2>1, <2>2 DEF KvKeys
  <2>4. told'.imported = told.imported
    BY <1>0, <2>1 DEF Accounts
  <2> QED BY <2>1, <2>3, <2>4, HistoriesFrame
<1>6. CASE Stop
  <2>1. /\ UNCHANGED <<kv, history, server>> /\ imp' = NoImport
        /\ told' = [told EXCEPT !.halved = told.halved \/ Halving]
    BY <1>6 DEF Stop, store
  <2>2. told'.imported = told.imported
    BY <1>0, <2>1 DEF Accounts
  <2> QED BY <2>1, <2>2, HistoriesFrame
<1> QED BY <1>1, <1>2, <1>3, <1>4, <1>5, <1>6 DEF Enrolling, BeginLink, BeginRegister

LEMMA KeepingKeysKeeps ==
  ASSUME IInv, Histories, KeepingKeys
  PROVE  Histories'
<1>0. kv \in [KvKeys -> Nat] /\ told \in Accounts
  BY DEF IInv, Typed
<1>1. UNCHANGED <<history, server, imp>>
  <2>1. ASSUME NEW c \in Callers, BeginPool(c) PROVE UNCHANGED <<history, server, imp>>
    BY <2>1 DEF BeginPool, store
  <2>2. ASSUME NEW c \in Callers, PoolDrawn(c) PROVE UNCHANGED <<history, server, imp>>
    BY <2>2 DEF PoolDrawn
  <2>3. CASE KeysAsked
    BY <2>3 DEF KeysAsked, store, tasks
  <2>4. CASE KeysDerived
    BY <2>4 DEF KeysDerived
  <2>5. CASE RenewCertificate
    BY <2>5 DEF RenewCertificate, tasks
  <2>6. ASSUME NEW pool \in 0..MaxPools, KeysReceived(pool) PROVE UNCHANGED <<history, server, imp>>
    BY <2>6 DEF KeysReceived
  <2> QED BY <2>1, <2>2, <2>3, <2>4, <2>5, <2>6 DEF KeepingKeys
<1>2. kv'.archive = kv.archive
  <2>1. UNCHANGED kv \/ \E k \in {"pool", "master", "cert"} : \E v : kv' = [kv EXCEPT ![k] = v]
    <3>1. ASSUME NEW c \in Callers, BeginPool(c) PROVE UNCHANGED kv
      BY <3>1 DEF BeginPool, store
    <3>2. ASSUME NEW c \in Callers, PoolDrawn(c) PROVE kv' = [kv EXCEPT !["pool"] = pooling[c]]
      BY <3>2 DEF PoolDrawn, StorePool
    <3>3. CASE KeysAsked
      BY <3>3 DEF KeysAsked, store
    <3>4. CASE KeysDerived
      BY <3>4 DEF KeysDerived, NewMaster
    <3>5. CASE RenewCertificate
      BY <3>5 DEF RenewCertificate, SaveCertificate
    <3>6. ASSUME NEW pool \in 0..MaxPools, KeysReceived(pool) PROVE UNCHANGED kv \/ kv' = [kv EXCEPT !["pool"] = pool]
      BY <3>6 DEF KeysReceived
    <3> QED BY <3>1, <3>2, <3>3, <3>4, <3>5, <3>6 DEF KeepingKeys
  <2> QED BY <1>0, <2>1 DEF KvKeys
<1>3. told'.imported = told.imported
  <2>1. ASSUME NEW c \in Callers, BeginPool(c) PROVE told'.imported = told.imported
    <3>1. UNCHANGED told \/ told' = [told EXCEPT !.given = told.given \union {kv.pool}]
      BY <2>1 DEF BeginPool, Takes
    <3> QED BY <1>0, <3>1 DEF Accounts
  <2>2. ASSUME NEW c \in Callers, PoolDrawn(c) PROVE told'.imported = told.imported
    BY <1>0, <2>2 DEF PoolDrawn, Accounts
  <2>3. CASE KeysAsked
    BY <1>0, <2>3 DEF KeysAsked, Accounts
  <2>4. CASE KeysDerived
    BY <1>0, <2>4 DEF KeysDerived, Accounts
  <2>5. CASE RenewCertificate
    BY <1>0, <2>5 DEF RenewCertificate, Accounts
  <2>6. ASSUME NEW pool \in 0..MaxPools, KeysReceived(pool) PROVE told'.imported = told.imported
    BY <1>0, <2>6 DEF KeysReceived, Accounts
  <2> QED BY <2>1, <2>2, <2>3, <2>4, <2>5, <2>6 DEF KeepingKeys
<1> QED BY <1>1, <1>2, <1>3, HistoriesFrame

LEMMA UnlinkingKeeps ==
  ASSUME IInv, Histories, Unlinking
  PROVE  Histories'
<1>0. server \in Servers /\ told \in Accounts
  BY DEF IInv, Typed
<1> DEFINE Same == /\ UNCHANGED <<kv, history, imp>>
                   /\ server'.upload = server.upload /\ server'.of = server.of /\ told'.imported = told.imported
<1>1. ASSUME NEW e, Removed(e) PROVE server'.upload = server.upload /\ server'.of = server.of
  BY <1>0, <1>1 DEF Removed, Servers
<1>2. ASSUME BeginUnlink PROVE Same
  BY <1>2 DEF BeginUnlink, store
<1>3. ASSUME UnlinkTried PROVE Same
  <2>1. UNCHANGED <<kv, history, imp>>
    BY <1>3 DEF UnlinkTried, store
  <2>2. UNCHANGED server \/ Removed(mem.reg)
    BY <1>3 DEF UnlinkTried
  <2>3. UNCHANGED told \/ told' = [told EXCEPT !.unlinked = told.unlinked \union {mem.reg}]
    BY <1>3 DEF UnlinkTried, Closed
  <2>4. told'.imported = told.imported
    BY <1>0, <2>3 DEF Accounts
  <2> QED BY <1>1, <2>1, <2>2, <2>4
<1>4. ASSUME NEW e \in 1..MaxEnrolments, Expelled(e) PROVE Same
  <2>1. UNCHANGED <<kv, history, imp, told>> /\ Removed(e)
    BY <1>4 DEF Expelled, store, tasks
  <2> QED BY <1>1, <2>1
<1>5. Same
  BY <1>2, <1>3, <1>4 DEF Unlinking
<1> QED BY <1>5, HistoriesFrame

LEMMA OpeningKeeps ==
  ASSUME IInv, Histories, Opening
  PROVE  Histories'
<1>0. server \in Servers /\ told \in Accounts
  BY DEF IInv, Typed
<1>1. UNCHANGED <<kv, history>> /\ (imp' = imp \/ imp' = NoImport)
  <2>1. CASE RefreshStatus \/ RefreshSave \/ RefreshUpload \/ StopStream
    BY <2>1 DEF RefreshStatus, RefreshSave, RefreshUpload, StopStream, store
  <2>2. CASE Initiate
    BY <2>2 DEF Initiate, store, tasks
  <2>3. CASE ClearSessions
    BY <2>3 DEF ClearSessions, tasks
  <2>4. ASSUME NEW m \in server.wire, Arrives(m) PROVE UNCHANGED <<kv, history, imp>>
    BY <2>4 DEF Arrives, tasks
  <2>5. ASSUME NEW m \in server.wire, ArrivesHalf(m) PROVE UNCHANGED <<kv, history>> /\ imp' = NoImport
    BY <2>5 DEF ArrivesHalf
  <2> QED BY <2>1, <2>2, <2>3, <2>4, <2>5 DEF Opening
<1>2. server'.upload = server.upload /\ server'.of = server.of
  <2>1. CASE RefreshUpload \/ StopStream
    <3>1. UNCHANGED server \/ server' = [server EXCEPT !.shelf = Shelved(refresh.batch)]
      BY <2>1 DEF RefreshUpload, StopStream, Uploaded
    <3> QED BY <1>0, <3>1 DEF Servers
  <2>2. CASE Initiate
    <3>1. ASSUME NEW pre, NEW kyber, NEW signed, NEW from,
              server' = [server EXCEPT !.shelf.pre = @ \ pre, !.shelf.kyber = @ \ {kyber},
                           !.wire = @ \union {[base |-> spent.sends + 1, pre |-> pre, kyber |-> kyber, signed |-> signed,
                                               from |-> from]}]
          PROVE  server'.upload = server.upload /\ server'.of = server.of
      BY <1>0, <3>1 DEF Servers
    <3> QED BY <2>2, <3>1 DEF Initiate
  <2>3. CASE RefreshStatus \/ RefreshSave \/ ClearSessions
    BY <2>3 DEF RefreshStatus, RefreshSave, ClearSessions
  <2>4. ASSUME NEW m \in server.wire, Arrives(m) PROVE server'.upload = server.upload /\ server'.of = server.of
    <3>1. UNCHANGED server \/ server' = [server EXCEPT !.wire = server.wire \ {m}]
      BY <2>4 DEF Arrives
    <3> QED BY <1>0, <3>1 DEF Servers
  <2>5. ASSUME NEW m \in server.wire, ArrivesHalf(m) PROVE UNCHANGED server
    BY <2>5 DEF ArrivesHalf
  <2> QED BY <2>1, <2>2, <2>3, <2>4, <2>5 DEF Opening
<1> DEFINE Same == told'.imported = told.imported
<1>3. ASSUME RefreshStatus \/ RefreshSave \/ RefreshUpload \/ Initiate \/ ClearSessions PROVE Same
  <2>1. CASE RefreshStatus
    BY <2>1 DEF RefreshStatus
  <2>2. CASE RefreshSave
    BY <2>2 DEF RefreshSave
  <2>3. CASE RefreshUpload
    BY <2>3 DEF RefreshUpload
  <2>4. CASE Initiate
    BY <2>4 DEF Initiate
  <2>5. CASE ClearSessions
    BY <2>5 DEF ClearSessions
  <2> QED BY <1>3, <2>1, <2>2, <2>3, <2>4, <2>5
<1>4. ASSUME StopStream PROVE Same
  BY <1>0, <1>4 DEF StopStream, Accounts
<1>5. ASSUME NEW m \in server.wire, Arrives(m) PROVE Same
  <2> DEFINE opened == [told.opened EXCEPT ![m.base] = @ + 1]
  <2>1. UNCHANGED told \/ told' = [told EXCEPT !.opened = opened]
    BY <1>5 DEF Arrives
  <2> HIDE DEF opened
  <2> QED BY <1>0, <2>1 DEF Accounts
<1>6. ASSUME NEW m \in server.wire, ArrivesHalf(m) PROVE Same
  <2>1. told' = [told EXCEPT !.half = told.half \union {m.base}]
    BY <1>6 DEF ArrivesHalf
  <2> QED BY <1>0, <2>1 DEF Accounts
<1>7. Same
  <2> HIDE DEF Same
  <2> QED BY <1>3, <1>4, <1>5, <1>6 DEF Opening
<1> QED BY <1>1, <1>2, <1>7, HistoriesFrame

(* What begins, ends or waits in an import leaves the history as it was.   *)
LEMMA AskingKeeps ==
  ASSUME IInv, Histories, BeginImport \/ ChunkWritten \/ DownloadStalled \/ ImportFailed
  PROVE  Histories'
<1>1. UNCHANGED <<kv, history, server, told>>
  BY DEF BeginImport, ChunkWritten, DownloadStalled, ImportFailed, store
<1>2. /\ imp'.step \notin {"frames", "discard", "forget"}
      /\ imp'.step = "download" => kv.archive # 0 \/ imp.step = "download"
  <2>1. CASE BeginImport
    <3>1. \/ imp' = [NoImport EXCEPT !.step = "download", !.at = Offset] /\ kv.archive # 0
          \/ imp' = [NoImport EXCEPT !.step = "ask"]
      BY <2>1 DEF BeginImport
    <3> QED BY <3>1, Nothing DEF Imports
  <2>2. CASE ChunkWritten
    <3>1. imp' = [imp EXCEPT !.at = imp.at + 1] /\ imp.step = "download"
      BY <2>2 DEF ChunkWritten
    <3> QED BY <3>1, ImportTypes DEF Imports
  <2>3. CASE DownloadStalled \/ ImportFailed
    BY <2>3, Nothing DEF DownloadStalled, ImportFailed
  <2> QED BY <2>1, <2>2, <2>3
<1> QED BY <1>1, <1>2 DEF Histories

(* The primary uploads once for an enrolment, and before the first import. *)
LEMMA ArchiveAskedHistories ==
  ASSUME IInv, Histories, ArchiveAsked
  PROVE  Histories'
<1>1. imp.step = "ask" /\ UNCHANGED <<history, told>>
  BY DEF ArchiveAsked
<1>2. mem.reg # 0
  BY <1>1, Nothing DEF IInv, Phases
<1>3. CASE /\ server.of \in {0, mem.reg}
           /\ \E a \in Archives : (server.of = 0 \/ a = server.upload)
                                  /\ server' = [server EXCEPT !.upload = a, !.of = mem.reg]
           /\ imp' = [imp EXCEPT !.step = "download", !.at = 0]
  <2>1. server'.of = mem.reg /\ (server.of # 0 => server'.upload = server.upload)
    BY <1>3, ImportTypes DEF Servers
  <2>2. imp'.step = "download"
    BY <1>3, ImportTypes DEF Imports
  <2> QED BY <1>1, <1>2, <2>1, <2>2 DEF Histories
<1>4. CASE imp' = NoImport /\ UNCHANGED <<kv, file, server>>
  BY <1>1, <1>4, HistoriesFrame
<1> QED BY <1>3, <1>4 DEF ArchiveAsked

(* Nothing is read yet, and nothing held back.                             *)
LEMMA DownloadedHistories ==
  ASSUME IInv, Histories, Downloaded
  PROVE  Histories'
<1>1. imp.step = "download" /\ UNCHANGED <<kv, history, server, told>>
  BY DEF Downloaded
<1>2. CASE imp' = [NoImport EXCEPT !.step = "frames", !.at = 1]
  <2>1. imp'.step = "frames" /\ imp'.at = 1 /\ imp'.held.of = {}
    BY <1>2 DEF NoImport, NoRun
  <2>2. 1 \in 1..Len(server.upload) + 1 /\ 1..1 - 1 = {}
    BY ImportTypes
  <2>3. ReadUpTo(history, server.upload, 1, imp'.held)
    BY <2>1, <2>2 DEF ReadUpTo, HeldBack
  <2> QED BY <1>1, <2>1, <2>3 DEF Histories
<1>3. CASE imp' = NoImport
  BY <1>1, <1>3, HistoriesFrame
<1> QED BY <1>2, <1>3 DEF Downloaded

LEMMA FrameReadHistories ==
  ASSUME IInv, Histories, FrameRead
  PROVE  Histories'
<1> DEFINE read == Coalesce(imp.held, server.upload[imp.at], imp.at)
           next == ImportedAll(history, read.ready)
<1>1. /\ imp.step = "frames" /\ imp.at <= Len(server.upload)
      /\ history' = next /\ imp' = [imp EXCEPT !.held = read.held, !.at = imp.at + 1]
      /\ UNCHANGED <<kv, server, told>>
  BY DEF FrameRead
<1>2. imp.at \in 1..Len(server.upload)
  BY <1>1, ImportTypes DEF Download
<1>3. ReadUpTo(history, server.upload, imp.at, imp.held) /\ Undeleted(history)
  BY <1>1 DEF Histories
<1>4. /\ ReadUpTo(next, server.upload, imp.at + 1, read.held) /\ Undeleted(next)
      /\ \A i \in 1..Len(server.upload) : Settled(history, server.upload, i) => Settled(next, server.upload, i)
  BY <1>2, <1>3, ImportTypes, FrameSettles
<1> HIDE DEF read, next
<1>5. imp'.step = "frames" /\ imp'.at = imp.at + 1 /\ imp'.held = read.held
  BY <1>1, ImportTypes DEF Imports
<1>6. ReadUpTo(history', server'.upload, imp'.at, imp'.held)
  BY <1>1, <1>4, <1>5
<1>7. Undeleted(history') /\ server'.of = server.of /\ kv'.archive = kv.archive /\ told'.imported = told.imported
  BY <1>1, <1>4
<1>8. told.imported => \A i \in 1..Len(server'.upload) : Settled(history', server'.upload, i)
  BY <1>1, <1>4 DEF Histories
<1> QED BY <1>1, <1>5, <1>6, <1>7, <1>8 DEF Histories

(* At the end every item is settled, the run held back included.           *)
LEMMA FramesEndedHistories ==
  ASSUME IInv, Histories, FramesEnded
  PROVE  Histories'
<1>1. /\ imp.step = "frames" /\ imp.at > Len(server.upload) /\ history' = Flushed(history, imp.held)
      /\ imp' = [imp EXCEPT !.step = "discard"] /\ UNCHANGED <<kv, server, told>>
  BY DEF FramesEnded, Flush, Flushed
<1>2. ReadUpTo(history, server.upload, imp.at, imp.held) /\ Undeleted(history) /\ server.of # 0
  BY <1>1 DEF Histories
<1>3. imp.at = Len(server.upload) + 1 /\ imp.at \in 1..Len(server.upload) + 1
  BY <1>1, <1>2, ImportTypes DEF ReadUpTo
<1>4. /\ Undeleted(history')
      /\ \A i \in 1..Len(server.upload) :
           Settled(history, server.upload, i) \/ i \in imp.held.of => Settled(history', server.upload, i)
  BY <1>1, <1>2, <1>3, ImportTypes, FlushSettles DEF ReadUpTo
<1>5. \A i \in 1..Len(server.upload) : Settled(history', server.upload, i)
  <2>1. imp.at - 1 = Len(server.upload)
    BY <1>3, ImportTypes
  <2> QED BY <1>2, <1>4, <2>1 DEF ReadUpTo
<1>6. imp'.step = "discard"
  BY <1>1, ImportTypes DEF Imports
<1> QED BY <1>1, <1>2, <1>4, <1>5, <1>6 DEF Histories

(* It stays so while the file is removed and the pointer forgotten.        *)
LEMMA EndingHistories ==
  ASSUME IInv, Histories, ArchiveDiscarded \/ ImportDone
  PROVE  Histories'
<1>1. /\ imp.step \in {"discard", "forget"} /\ UNCHANGED <<history, server>>
      /\ kv'.archive \in {0, kv.archive}
  BY ImportTypes DEF ArchiveDiscarded, ImportDone, KvKeys
<1>2. imp'.step \in {"forget", "idle"}
  BY ImportTypes, Nothing DEF ArchiveDiscarded, ImportDone, Imports
<1>3. server.of # 0 /\ \A i \in 1..Len(server.upload) : Settled(history, server.upload, i)
  BY <1>1 DEF Histories
<1> QED BY <1>1, <1>2, <1>3 DEF Histories

LEMMA HistoriesKept == IInv /\ Histories /\ [Next]_vars => Histories'
<1> SUFFICES ASSUME IInv, Histories, [Next]_vars PROVE Histories'
  OBVIOUS
<1>1. CASE Importing
  BY <1>1, AskingKeeps, ArchiveAskedHistories, DownloadedHistories, FrameReadHistories, FramesEndedHistories,
     EndingHistories DEF Importing
<1>2. CASE UNCHANGED vars
  BY <1>2, HistoriesFrame DEF vars
<1> QED BY <1>1, <1>2, EnrollingKeeps, KeepingKeysKeeps, UnlinkingKeeps, OpeningKeeps DEF Next

LEMMA HistoriesWhole == IInv /\ Histories => HistoryWhole
<1> SUFFICES ASSUME IInv, Histories, told.imported PROVE Whole(history, server.upload)
  BY DEF HistoryWhole
<1>1. \A i \in DOMAIN server.upload : Settled(history, server.upload, i)
  BY ImportTypes DEF Histories
<1> QED BY <1>1 DEF Whole, Settled, ShownAt

(* Once the pointer to the archive is forgotten, each item that shares its *)
(* time with no other row is shown, and a call accepted in the archive is  *)
(* accepted, whatever the archive and however often its import was cut and *)
(* repeated (coalesce_group_changes, import_chat_item).                    *)
THEOREM HistoryIsWhole == Spec => []HistoryWhole
<1>1. Spec => [](IInv /\ Histories)
  BY InitIInv, InitHistories, NextKeeps, HistoriesKept, PTL DEF Spec
<1> QED BY <1>1, HistoriesWhole, PTL
=============================================================================
