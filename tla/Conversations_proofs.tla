------------------------ MODULE Conversations_proofs ------------------------
(***************************************************************************)
(* What Conversations guarantees for any number of people, keys, timers,   *)
(* messages, calls and procedures at once, and every bound on the          *)
(* environment.                                                            *)
(***************************************************************************)
EXTENDS Conversations, FiniteSetTheorems, WellFoundedInduction, TLAPS

USE ConversationsAssumption

(***************************************************************************)
(* Types                                                                   *)
(***************************************************************************)
LEMMA FirstTime == First \in Times
<1>1. Times \in SUBSET Nat /\ Times # {}
  OBVIOUS
<1>2. \E x \in Times : \A y \in Times : ~ (<<y, x>> \in OpToRel(<, Nat))
  BY <1>1, NatLessThanWellFounded, WFMin, Zenon
<1>3. PICK x \in Times : \A y \in Times : ~ (<<y, x>> \in OpToRel(<, Nat))
  BY <1>2, Zenon
<1>4. \A y \in Times : ~ (y < x)
  BY <1>1, <1>3, Zenon DEF OpToRel
<1>5. \A y \in Times : x <= y
  BY <1>1, <1>4
<1> QED
  BY <1>5 DEF First

LEMMA Constants ==
  /\ AnyCall \in Calls
  /\ NoContact \in Contact /\ Minimal \in Contact
  /\ NoMessage \in Message
  /\ NoCall \in CallEntry
<1>1. AnyCall \in Calls
  BY DEF AnyCall
<1>2. NoContact \in Contact /\ Minimal \in Contact
  BY DEF NoContact, Minimal, Contact, DefaultVersion
<1>3. NoMessage \in Message
  BY DEF NoMessage, Message, MessageKinds, People, Threads
<1>4. NoCall \in CallEntry
  BY DEF NoCall, CallEntry, Modes, Statuses
<1> QED BY <1>1, <1>2, <1>3, <1>4

LEMMA Received ==
  ASSUME NEW p \in People, NEW th \in Threads
  PROVE  /\ \A k \in Keys \union {NoKey}, d \in Timers, v \in Nat : Body(p, th, k, d, v) \in Message
         /\ \A kind \in MessageKinds, at \in Times, to \in Times \union {0} : Note(kind, p, th, at, to) \in Message
<1>1. Written(p) \in Message
  BY Constants DEF Written, Message, Keys
<1>2. ASSUME NEW k \in Keys \union {NoKey}, NEW d \in Timers, NEW v \in Nat PROVE Body(p, th, k, d, v) \in Message
  <2>1. "data" \in MessageKinds
    BY DEF MessageKinds
  <2> QED BY <1>1, <2>1, FirstTime DEF Body, Message
<1>3. ASSUME NEW kind \in MessageKinds, NEW at \in Times, NEW to \in Times \union {0}
      PROVE  Note(kind, p, th, at, to) \in Message
  BY Constants DEF Note, Message
<1> QED BY <1>2, <1>3

LEMMA IncomingType == Incoming \subseteq Message /\ CallRows \subseteq Message
<1>1. Me \in People /\ "plain" \in MessageKinds /\ "edit" \in MessageKinds
      /\ "delete" \in MessageKinds /\ "other" \in MessageKinds
  BY DEF People, MessageKinds
<1>2. \A p \in People : p \in Threads
  BY DEF Threads
<1>3. \A p \in People : ThreadsOf(p) \subseteq Threads /\ Carried(p) \subseteq Keys \union {NoKey}
  BY DEF ThreadsOf, Carried, Threads, People, Keys
<1>4. ASSUME NEW m \in CallRows PROVE m \in Message
  BY <1>1, FirstTime, Received DEF CallRows
<1>5. ASSUME NEW p \in People, NEW m \in Bodies(p) PROVE m \in Message
  BY <1>3, Received DEF Bodies
<1>6. ASSUME NEW p \in People, NEW m \in Others(p) PROVE m \in Message
  <2>1. p \in People /\ p \in Threads /\ ThreadsOf(p) \subseteq Threads /\ First \in Times
        /\ \A at \in Times : at \in Times \union {0} /\ 0 \in Times \union {0}
    BY <1>2, <1>3, FirstTime
  <2>2. CASE \E th \in ThreadsOf(p), at \in Times : m = Note("plain", p, th, at, 0)
    BY <1>1, <2>1, <2>2, Received
  <2>3. CASE \E th \in ThreadsOf(p), at \in Times, to \in Times : m = Note("edit", p, th, at, to)
    BY <1>1, <2>1, <2>3, Received
  <2>4. CASE m \in {Note("delete", p, p, First, First), Note("other", p, p, First, First)}
    BY <1>1, <2>1, <2>4, Received
  <2> QED BY <2>2, <2>3, <2>4 DEF Others
<1>7. ASSUME NEW m \in Incoming PROVE m \in Message
  <2>1. CASE m \in UNION {Bodies(p) : p \in People}
    BY <2>1, <1>5
  <2>2. CASE m \in UNION {Others(p) : p \in People}
    BY <2>2, <1>6
  <2> QED BY <1>4, <2>1, <2>2 DEF Incoming
<1> QED BY <1>4, <1>7

LEMMA SendsType ==
  ASSUME contact \in [People -> Contact], NEW to \in Peers \union {Group}
  PROVE  Sends(to) \subseteq Message
<1>1. ASSUME NEW m \in Message, NEW d \in Timers, NEW v \in Nat, NEW x \in Restored(m, d, v)
      PROVE  x \in Message
  <2>1. CASE x = [m EXCEPT !.timer = d, !.version = v]
    BY <2>1 DEF Message
  <2>2. ASSUME NEW e \in Timers, x = [m EXCEPT !.timer = e, !.version = v + 1] PROVE x \in Message
    <3>1. v + 1 \in Nat
      OBVIOUS
    <3> QED BY <2>2, <3>1 DEF Message
  <2> QED BY <2>1, <2>2 DEF Restored
<1>2. [Written(Me) EXCEPT !.kind = "data", !.thread = to, !.at = First] \in Message
  <2>1. Written(Me) \in Message
    BY Constants DEF Written, Message, People, Keys
  <2>2. "data" \in MessageKinds /\ to \in Threads /\ First \in Times
    BY FirstTime DEF MessageKinds, Threads, People
  <2> QED BY <2>1, <2>2 DEF Message
<1>3. to # Group => contact[to].timer \in Timers /\ contact[to].version \in Nat
  BY DEF Contact, People
<1> QED BY <1>1, <1>2, <1>3 DEF Sends

Steps == {"timer", "timer_save", "row", "wire", "read", "fetch", "key", "flag", "record", "profile", "profile_key",
          "profile_row", "merge"}
Ops == {"receive", "send", "upsert", "edit", "sync", "profile", "call"}

LEMMA NewTaskType ==
  ASSUME spent \in [ops : Nat, faults : Nat], NEW op \in Ops, NEW step \in Steps, NEW p \in People
  PROVE  /\ NewTask(op, step, p) \in Task
         /\ NewTask(op, step, p).id = spent.ops + 1 /\ NewTask(op, step, p).op = op
         /\ NewTask(op, step, p).step = step /\ NewTask(op, step, p).p = p
<1>1. "other" \in Kinds /\ spent.ops + 1 \in Nat
  BY DEF Kinds
<1> QED BY <1>1, Constants DEF NewTask, Task, Steps, Ops

LEMMA TaskTypes ==
  ASSUME NEW t \in Task
  PROVE  /\ t.id \in Nat /\ t.op \in Ops /\ t.step \in Steps /\ t.p \in People /\ t.m \in Message
         /\ t.local \in Contact /\ t.dirty \in BOOLEAN
         /\ t.call \in Calls /\ t.entry \in CallEntry /\ t.kind \in Kinds
         /\ t.m.from \in People /\ t.m.thread \in Threads /\ t.m.version \in Nat
         /\ t.m.timer \in Timers /\ t.m.key \in Keys \union {NoKey}
BY DEF Task, Steps, Ops, Message

(* What a procedure becomes.                                               *)
LEMMA FilingType ==
  ASSUME NEW t \in Task
  PROVE  /\ Filing(t) \in Task /\ Filing(t).id = t.id /\ Filing(t).op = t.op
         /\ Filing(t).step = "row" /\ Filing(t).p = Me
<1>1. [t.m EXCEPT !.key = NoKey, !.timer = 0, !.version = 0] \in Message
  BY DEF Task, Message
<1>2. Me \in People /\ NoContact \in Contact /\ FALSE \in BOOLEAN
  BY Constants DEF People
<1>3. Filing(t) \in Task
  BY <1>1, <1>2 DEF Filing, Task
<1>4. Filing(t).id = t.id /\ Filing(t).op = t.op /\ Filing(t).step = "row" /\ Filing(t).p = Me
  BY DEF Filing, Task
<1> QED BY <1>3, <1>4

LEMMA SavingType ==
  ASSUME NEW t \in Task
  PROVE  /\ Saving(t) \in Task /\ Saving(t).id = t.id /\ Saving(t).op = t.op
         /\ Saving(t).step \in {"row", "timer"}
<1>1. CASE t.m.kind \in {"data", "delete"} /\ t.m.thread # Group
  <2>1. t.m.thread \in People
    BY <1>1, TaskTypes DEF Threads
  <2>2. Saving(t) = [t EXCEPT !.step = "timer", !.p = t.m.thread]
    BY <1>1 DEF Saving
  <2> QED BY <2>1, <2>2 DEF Task
<1>2. CASE ~ (t.m.kind \in {"data", "delete"} /\ t.m.thread # Group)
  BY <1>2, FilingType DEF Saving
<1> QED BY <1>1, <1>2

LEMMA SpawnedType ==
  ASSUME spent \in [ops : Nat, faults : Nat], NEW t \in Task, NEW u \in Spawned(t)
  PROVE  /\ u \in Task /\ u.id = t.id /\ u.op = "upsert" /\ u.step = "read" /\ Spawned(t) = {u}
<1> DEFINE m == [NoMessage EXCEPT !.key = t.m.key, !.timer = t.m.timer, !.version = t.m.version]
           new == NewTask("upsert", "read", t.m.from)
<1>1. m \in Message
  BY Constants, TaskTypes DEF Message
<1>2. t.m.from \in People /\ t.id \in Nat
  BY TaskTypes
<1>3. /\ new \in Task /\ new.op = "upsert" /\ new.step = "read"
  BY <1>2, NewTaskType DEF Ops, Steps
<1>4. u = [new EXCEPT !.id = t.id, !.m = m] /\ Spawned(t) = {u}
  BY DEF Spawned
<1> HIDE DEF m, new
<1>5. [new EXCEPT !.id = t.id, !.m = m] \in Task
  BY <1>1, <1>2, <1>3 DEF Task
<1> QED BY <1>3, <1>4, <1>5 DEF Task

(***************************************************************************)
(* The procedures in progress.  They are numbered as they begin, and a     *)
(* body read from the wire or about to be sent starts one more with its    *)
(* number, once.                                                           *)
(***************************************************************************)
Tasked ==
  /\ tasks \subseteq Task
  /\ \A t, u \in tasks : t.id = u.id /\ t.op = u.op => t = u
  /\ \A t, u \in tasks : t.op = "receive" /\ u.op = "receive" => t = u
  /\ \A t \in tasks : t.id <= spent.ops
  /\ \A t \in tasks : t.step = "wire" => t.op = "send"
  /\ \A t, u \in tasks : t.step = "wire" /\ u.op = "upsert" => t.id # u.id

Tables ==
  /\ contact \in [People -> Contact]
  /\ keyOf \in [People -> Keys \union {NoKey}] /\ profile \in [People -> Keys \union {NoKey}]
  /\ rows \in [Threads \X Times -> [kind : MessageKinds, from : People, thread : Threads, at : Times \union {0}]]
  /\ calls \in [Calls -> CallEntry]
  /\ spent \in [ops : Nat, faults : Nat]
  /\ torn \subseteq People
  /\ heard \in [Calls -> [kinds : SUBSET Kinds, whole : BOOLEAN]]

Sound == Tables /\ Tasked

(* What an ended or suspended step of t leaves of it.                      *)
Follows(t, next) ==
  /\ next \subseteq Task
  /\ \A v \in next : v.id = t.id /\ v.step # "wire" /\ v.op \in {t.op, "upsert"}
  /\ \A v, w \in next : v.op = w.op => v = w
  /\ (\E v \in next : v.op # t.op) => t.step = "wire"

LEMMA OutdatedType ==
  ASSUME NEW t, NEW c, NEW u \in Task
  PROVE  /\ Outdated(t, c, u) \in Task
         /\ Outdated(t, c, u).id = u.id /\ Outdated(t, c, u).op = u.op /\ Outdated(t, c, u).step = u.step
         /\ Outdated(t, c, u).p = u.p /\ Outdated(t, c, u).m = u.m /\ Outdated(t, c, u).local = u.local
         /\ Outdated(t, c, u).call = u.call /\ Outdated(t, c, u).entry = u.entry /\ Outdated(t, c, u).kind = u.kind
         /\ u.dirty => Outdated(t, c, u).dirty
         /\ u.p = t.p /\ u.step \in {"timer_save", "fetch", "flag", "record"} /\ c # contact[t.p] => Outdated(t, c, u).dirty
         /\ Outdated(t, c, u).dirty \/ Outdated(t, c, u) = u
         /\ c = contact[t.p] => Outdated(t, c, u) = u
<1>1. [u EXCEPT !.dirty = TRUE] \in Task
  BY DEF Task
<1> QED BY <1>1 DEF Outdated, Task

LEMMA SavedTasks ==
  ASSUME Tasked, NEW t \in tasks, NEW c, NEW next, Follows(t, next), spent' = spent,
         tasks' = {Outdated(t, c, u) : u \in tasks \ {t}} \union next
  PROVE  Tasked'
<1> DEFINE Old(v) == \E u \in tasks \ {t} : v = Outdated(t, c, u)
<1>1. \A v \in tasks' : v \in next \/ Old(v)
  OBVIOUS
<1>2. \A v : Old(v) => \E u \in tasks \ {t} : v = Outdated(t, c, u) /\ v \in Task /\ u \in Task
                                      /\ v.id = u.id /\ v.op = u.op /\ v.step = u.step
  BY OutdatedType DEF Tasked
<1>3. t \in Task /\ next \subseteq Task
  BY DEF Tasked, Follows
<1> HIDE DEF Old
<1>4. tasks' \subseteq Task
  BY <1>1, <1>2, <1>3
<1>5. \A v, w \in tasks' : v.id = w.id /\ v.op = w.op => v = w
  <2> SUFFICES ASSUME NEW v \in tasks', NEW w \in tasks', v.id = w.id, v.op = w.op PROVE v = w
    OBVIOUS
  <2>1. CASE v \in next /\ w \in next
    BY <2>1 DEF Follows
  <2>2. CASE Old(v) /\ Old(w)
    BY <2>2, <1>2 DEF Tasked
  <2>3. ASSUME NEW x, NEW y, x \in next, Old(y), x.id = y.id, x.op = y.op PROVE FALSE
    <3>1. PICK u \in tasks \ {t} : u.id = y.id /\ u.op = y.op
      BY <2>3, <1>2
    <3>2. CASE x.op = t.op
      BY <2>3, <3>1, <3>2 DEF Follows, Tasked
    <3>3. CASE x.op # t.op
      <4>1. t.step = "wire" /\ x.op = "upsert" /\ x.id = t.id
        BY <2>3, <3>3 DEF Follows
      <4> QED BY <2>3, <3>1, <4>1 DEF Tasked
    <3> QED BY <3>2, <3>3
  <2> QED BY <1>1, <2>1, <2>2, <2>3
<1>6. \A v, w \in tasks' : v.op = "receive" /\ w.op = "receive" => v = w
  <2> SUFFICES ASSUME NEW v \in tasks', NEW w \in tasks', v.op = "receive", w.op = "receive" PROVE v = w
    OBVIOUS
  <2>1. \A x \in next : x.op = "receive" => t.op = "receive"
    BY DEF Follows
  <2>2. \A x : Old(x) /\ x.op = "receive" => t.op # "receive"
    BY <1>2 DEF Tasked
  <2>3. CASE v \in next /\ w \in next
    BY <2>3 DEF Follows
  <2>4. CASE Old(v) /\ Old(w)
    BY <2>4, <1>2 DEF Tasked
  <2> QED BY <1>1, <2>1, <2>2, <2>3, <2>4
<1>7. \A v \in tasks' : v.id <= spent'.ops
  BY <1>1, <1>2 DEF Follows, Tasked
<1>8. \A v \in tasks' : v.step = "wire" => v.op = "send" /\ Old(v)
  BY <1>1, <1>2 DEF Follows, Tasked
<1>9. \A v, w \in tasks' : v.step = "wire" /\ w.op = "upsert" => v.id # w.id
  <2> SUFFICES ASSUME NEW v \in tasks', NEW w \in tasks', v.step = "wire", w.op = "upsert", v.id = w.id PROVE FALSE
    OBVIOUS
  <2>1. PICK u \in tasks \ {t} : u.id = v.id /\ u.step = "wire" /\ u.op = "send"
    BY <1>2, <1>8 DEF Tasked
  <2>2. CASE Old(w)
    BY <2>1, <2>2, <1>2 DEF Tasked
  <2>3. CASE w \in next
    <3>1. t.op # "send" \/ t.id # u.id
      BY <2>1 DEF Tasked
    <3>2. t.id = u.id /\ (t.op = "upsert" \/ t.step = "wire")
      BY <2>1, <2>3 DEF Follows
    <3> QED BY <2>1, <3>1, <3>2 DEF Tasked
  <2> QED BY <1>1, <2>2, <2>3
<1> QED BY <1>4, <1>5, <1>6, <1>7, <1>8, <1>9 DEF Tasked

LEMMA MovedTasks ==
  ASSUME Tasked, NEW t \in tasks, NEW next, Follows(t, next), spent' = spent, Becomes(t, next)
  PROVE  Tasked'
<1>1. \A u \in tasks \ {t} : Outdated(t, contact[t.p], u) = u
  BY OutdatedType DEF Tasked
<1>2. {Outdated(t, contact[t.p], u) : u \in tasks \ {t}} = tasks \ {t}
  BY <1>1
<1> QED BY <1>2, SavedTasks DEF Becomes

(* What a call begins.                                                     *)
LEMMA StartedTasks ==
  ASSUME Tasked, spent \in [ops : Nat, faults : Nat], NEW weight \in 1..3, NEW new, Start(weight, new), new \subseteq Task,
         \A v \in new : v.id = spent.ops + 1 /\ (v.op = "receive" => ~ \E u \in tasks : u.op = "receive"),
         \A v, w \in new : v.op = w.op => v = w,
         \A v, w \in new : v.step = "wire" => v.op = "send" /\ w.op # "upsert"
  PROVE  Tasked' /\ spent' \in [ops : Nat, faults : Nat]
<1>1. tasks' = tasks \union new /\ spent'.ops = spent.ops + weight /\ spent' \in [ops : Nat, faults : Nat]
  BY DEF Start
<1>2. \A u \in tasks : u.id \in Nat /\ u.id < spent.ops + 1 /\ u.id <= spent'.ops
  BY <1>1 DEF Tasked, Task
<1>3. \A u \in tasks, v \in new : u.id # v.id
  BY <1>2
<1>4. \A v \in new : v.id <= spent'.ops
  BY <1>1
<1>5. tasks' \subseteq Task /\ \A v \in tasks' : v.id <= spent'.ops
  BY <1>1, <1>2, <1>4 DEF Tasked
<1>6. \A v, w \in tasks' : v.id = w.id /\ v.op = w.op => v = w
  BY <1>1, <1>3 DEF Tasked
<1>7. \A v, w \in tasks' : v.op = "receive" /\ w.op = "receive" => v = w
  BY <1>1 DEF Tasked
<1>8. \A v \in tasks' : v.step = "wire" => v.op = "send"
  BY <1>1 DEF Tasked
<1>9. \A v, w \in tasks' : v.step = "wire" /\ w.op = "upsert" => v.id # w.id
  BY <1>1, <1>3 DEF Tasked
<1> QED BY <1>1, <1>5, <1>6, <1>7, <1>8, <1>9 DEF Tasked

LEMMA FewerTasks ==
  ASSUME Tasked, NEW fewer \in SUBSET tasks, tasks' = fewer, spent'.ops = spent.ops
  PROVE  Tasked'
BY DEF Tasked

LEMMA TablesFrame ==
  ASSUME Tables, UNCHANGED <<contact, keyOf, profile, rows, calls, torn, heard>>, spent' \in [ops : Nat, faults : Nat]
  PROVE  Tables'
BY DEF Tables

(***************************************************************************)
(* Types: what a step leaves of its procedure                              *)
(***************************************************************************)
LEMMA Alone ==
  ASSUME NEW t \in Task, NEW v \in Task, v.id = t.id, v.op = t.op, v.step # "wire"
  PROVE  Follows(t, {v})
BY DEF Follows

LEMMA ReceiveSound ==
  ASSUME Sound, NEW m \in Incoming, Receive(m)
  PROVE  Sound'
<1> DEFINE n == NewTask("receive", "row", m.from)
           t == [n EXCEPT !.m = m]
           new == {Saving(t)} \union Spawned(t)
<1>1. spent \in [ops : Nat, faults : Nat] /\ m \in Message /\ m.from \in People
  BY IncomingType DEF Sound, Tables, Message
<1>2. t \in Task /\ t.id = spent.ops + 1 /\ t.op = "receive"
  <2>1. n \in Task /\ n.id = spent.ops + 1 /\ n.op = "receive"
    BY <1>1, NewTaskType DEF Ops, Steps
  <2> HIDE DEF n
  <2> QED BY <1>1, <2>1 DEF Task
<1> HIDE DEF t
<1>3. \A v \in new : v \in Task /\ v.id = spent.ops + 1 /\ v.step # "wire"
                     /\ (v = Saving(t) \/ (Spawned(t) = {v} /\ v.op = "upsert"))
  BY <1>1, <1>2, SavingType, SpawnedType
<1>4. Saving(t).op = "receive"
  BY <1>2, SavingType
<1>5. \A v, w \in new : v.op = w.op => v = w
  BY <1>3, <1>4
<1>6. Start(3, new) /\ ~ (\E u \in tasks : u.op = "receive") /\ UNCHANGED <<contact, keyOf, profile, rows, calls, torn, heard>>
  BY DEF Receive, t, n
<1> HIDE DEF new
<1>7. Tasked' /\ spent' \in [ops : Nat, faults : Nat]
  BY <1>1, <1>3, <1>5, <1>6, StartedTasks DEF Sound
<1> QED BY <1>6, <1>7, TablesFrame DEF Sound

LEMMA OneStarts ==
  ASSUME Sound, NEW weight \in 1..3, NEW v \in Task, Start(weight, {v}), v.id = spent.ops + 1,
         v.op # "receive", v.step = "wire" => v.op = "send"
  PROVE  Tasked' /\ spent' \in [ops : Nat, faults : Nat]
<1>1. spent \in [ops : Nat, faults : Nat] /\ Tasked
  BY DEF Sound, Tables
<1>2. \A x, y \in {v} : x.step = "wire" => x.op = "send" /\ y.op # "upsert"
  OBVIOUS
<1> QED BY <1>1, <1>2, StartedTasks

LEMMA SendSound ==
  ASSUME Sound, NEW m \in Message, BeginSend(m)
  PROVE  Sound'
<1> DEFINE n == NewTask("send", "wire", Me)
           v == [n EXCEPT !.m = m]
<1>1. spent \in [ops : Nat, faults : Nat]
  BY DEF Sound, Tables
<1>2. n \in Task /\ n.id = spent.ops + 1 /\ n.op = "send" /\ n.step = "wire"
  BY <1>1, NewTaskType DEF Ops, Steps, People
<1>3. Start(3, {v}) /\ UNCHANGED <<contact, keyOf, profile, rows, calls, torn, heard>>
  BY DEF BeginSend
<1> HIDE DEF n
<1>4. v \in Task /\ v.id = spent.ops + 1 /\ v.op = "send" /\ v.step = "wire"
  BY <1>2 DEF Task
<1> HIDE DEF v
<1> QED BY <1>2, <1>3, <1>4, OneStarts, TablesFrame DEF Sound

LEMMA EditSound ==
  ASSUME Sound, NEW p \in Peers, NEW blocked \in BOOLEAN, BeginEdit(p, blocked)
  PROVE  Sound'
<1> DEFINE n == NewTask("edit", "flag", p)
           c == [(IF contact[p].known THEN contact[p] ELSE Minimal) EXCEPT !.blocked = blocked]
           v == [n EXCEPT !.local = c]
<1>1. spent \in [ops : Nat, faults : Nat] /\ p \in People /\ contact[p] \in Contact
  BY DEF Sound, Tables, People
<1>2. n \in Task /\ n.id = spent.ops + 1 /\ n.op = "edit" /\ n.step = "flag"
  BY <1>1, NewTaskType DEF Ops, Steps
<1>3. c \in Contact
  BY <1>1, Constants DEF Contact
<1>4. Start(3, {v}) /\ UNCHANGED <<contact, keyOf, profile, rows, calls, torn, heard>>
  BY DEF BeginEdit
<1> HIDE DEF n, c
<1>5. v \in Task /\ v.id = spent.ops + 1 /\ v.op = "edit" /\ v.step = "flag"
  BY <1>2, <1>3 DEF Task
<1> HIDE DEF v
<1> QED BY <1>4, <1>5, OneStarts, TablesFrame DEF Sound

LEMMA MergeSound ==
  ASSUME Sound, NEW p \in Peers, NEW blocked \in BOOLEAN, NEW key \in PeerKeys \union {NoKey}, BeginMerge(p, blocked, key)
  PROVE  Sound'
<1> DEFINE n == NewTask("sync", "record", p)
           c == IF contact[p].known THEN contact[p] ELSE Minimal
           k == IF key = NoKey THEN c.key ELSE key
           local == [c EXCEPT !.blocked = blocked, !.key = k]
           m == [NoMessage EXCEPT !.key = k]
           v == [n EXCEPT !.local = local, !.m = m]
<1>1. spent \in [ops : Nat, faults : Nat] /\ p \in People /\ contact[p] \in Contact
  BY DEF Sound, Tables, People
<1>2. n \in Task /\ n.id = spent.ops + 1 /\ n.op = "sync" /\ n.step = "record"
  BY <1>1, NewTaskType DEF Ops, Steps
<1>3. c \in Contact
  BY <1>1, Constants
<1>4. k \in Keys \union {NoKey}
  BY <1>3 DEF Contact, Keys
<1>5. Start(3, {v}) /\ UNCHANGED <<contact, keyOf, profile, rows, calls, torn, heard>>
  BY DEF BeginMerge
<1> HIDE DEF n, c, k
<1>6. local \in Contact /\ m \in Message
  BY <1>3, <1>4, Constants DEF Contact, Message
<1> HIDE DEF local, m
<1>7. v \in Task /\ v.id = spent.ops + 1 /\ v.op = "sync" /\ v.step = "record"
  BY <1>2, <1>6 DEF Task
<1> HIDE DEF v
<1> QED BY <1>5, <1>7, OneStarts, TablesFrame DEF Sound

LEMMA ProfileSound ==
  ASSUME Sound, NEW p \in Peers, BeginProfile(p)
  PROVE  Sound'
<1> DEFINE n == NewTask("profile", "profile", p)
           m == [NoMessage EXCEPT !.key = keyOf[p]]
           v == [n EXCEPT !.m = m]
<1>1. spent \in [ops : Nat, faults : Nat] /\ p \in People /\ keyOf[p] \in Keys \union {NoKey}
  BY DEF Sound, Tables, People
<1>2. n \in Task /\ n.id = spent.ops + 1 /\ n.op = "profile" /\ n.step = "profile"
  BY <1>1, NewTaskType DEF Ops, Steps
<1>3. m \in Message
  BY <1>1, Constants DEF Message
<1>4. Start(3, {v}) /\ UNCHANGED <<contact, keyOf, profile, rows, calls, torn, heard>>
  BY DEF BeginProfile
<1> HIDE DEF n, m
<1>5. v \in Task /\ v.id = spent.ops + 1 /\ v.op = "profile" /\ v.step = "profile"
  BY <1>2, <1>3 DEF Task
<1> HIDE DEF v
<1> QED BY <1>4, <1>5, OneStarts, TablesFrame DEF Sound

LEMMA TransitionType ==
  ASSUME NEW prev \in CallEntry, NEW e \in Event
  PROVE  Transition(prev, e) \in CallEntry
<1>1. e.mode \in Modes /\ prev.status \in Statuses /\ Prior(prev, e) \in Statuses
  BY DEF Event, CallEntry, Prior, Statuses
<1>2. DirectStatus(prev, e) \in Statuses /\ GroupStatus(prev, e) \in Statuses
  BY <1>1 DEF DirectStatus, GroupStatus, Statuses
<1> QED BY <1>1, <1>2 DEF Transition, CallEntry

LEMMA CallSound ==
  ASSUME Sound, NEW c \in Calls, NEW e \in Event, BeginCall(c, e)
  PROVE  Sound'
<1> DEFINE n == NewTask("call", "merge", Me)
           entry == Transition(calls[c], e)
           v == [n EXCEPT !.call = c, !.entry = entry, !.kind = e.kind]
<1>1. spent \in [ops : Nat, faults : Nat] /\ calls[c] \in CallEntry
  BY DEF Sound, Tables
<1>2. n \in Task /\ n.id = spent.ops + 1 /\ n.op = "call" /\ n.step = "merge"
  BY <1>1, NewTaskType DEF Ops, Steps, People
<1>3. entry \in CallEntry /\ e.kind \in Kinds
  BY <1>1, TransitionType DEF Event
<1>4. Start(2, {v}) /\ UNCHANGED <<contact, keyOf, profile, rows, calls, torn, heard>>
  BY DEF BeginCall
<1> HIDE DEF n, entry
<1>5. v \in Task /\ v.id = spent.ops + 1 /\ v.op = "call" /\ v.step = "merge"
  BY <1>2, <1>3 DEF Task
<1> HIDE DEF v
<1> QED BY <1>4, <1>5, OneStarts, TablesFrame DEF Sound

LEMMA RowTypes ==
  /\ NoRow \in [kind : MessageKinds, from : People, thread : Threads, at : Times \union {0}]
  /\ \A m \in Message : Row(m) \in [kind : MessageKinds, from : People, thread : Threads, at : Times \union {0}]
BY Constants DEF NoRow, Row, Message

LEMMA ForgetSound ==
  ASSUME Sound, NEW th, NEW ats, Forget(th, ats)
  PROVE  Sound'
<1>1. Start(1, {}) /\ UNCHANGED <<contact, keyOf, profile, calls, torn, heard>>
      /\ rows' = [k \in DOMAIN rows |-> IF k[1] = th /\ k[2] \in ats THEN NoRow ELSE rows[k]]
  BY DEF Forget
<1>2. tasks' = tasks /\ spent' \in [ops : Nat, faults : Nat] /\ spent'.ops >= spent.ops
  BY <1>1 DEF Start, Sound, Tables
<1>3. Tasked'
  <2>1. \A t \in tasks : t.id \in Nat
    BY DEF Sound, Tasked, Task
  <2>2. spent.ops \in Nat /\ spent'.ops \in Nat
    BY <1>2 DEF Sound, Tables
  <2>3. \A t \in tasks : t.id <= spent'.ops
    BY <1>2, <2>1, <2>2 DEF Sound, Tasked
  <2> QED BY <1>2, <2>3 DEF Sound, Tasked
<1>4. rows' \in [Threads \X Times -> [kind : MessageKinds, from : People, thread : Threads, at : Times \union {0}]]
  BY <1>1, RowTypes DEF Sound, Tables
<1> QED BY <1>1, <1>2, <1>3, <1>4 DEF Sound, Tables

LEMMA ContactSaved ==
  ASSUME Sound, NEW t \in tasks, NEW c \in Contact, NEW next, SaveContact(t, c, next), Follows(t, next), spent' = spent
  PROVE  Tasked' /\ contact' \in [People -> Contact]
<1>1. Tasked'
  BY SavedTasks DEF Sound, SaveContact
<1>2. t.p \in People
  BY TaskTypes DEF Sound, Tasked
<1> QED BY <1>1, <1>2 DEF Sound, Tables, SaveContact

LEMMA KeySet ==
  ASSUME Tables, NEW p \in People, NEW k \in Keys \union {NoKey}, SetKey(p, k)
  PROVE  keyOf' \in [People -> Keys \union {NoKey}] /\ profile' \in [People -> Keys \union {NoKey}]
BY DEF Tables, SetKey

LEMMA StepSound ==
  ASSUME Sound, NEW t \in tasks, Step(t)
  PROVE  Sound'
<1>0. /\ t \in Task /\ Tasked /\ Tables
      /\ t.p \in People /\ contact[t.p] \in Contact /\ t.m.key \in Keys \union {NoKey} /\ torn \subseteq People
      /\ t.m \in Message /\ t.m.timer \in Timers /\ t.m.version \in Nat /\ t.local \in Contact
      /\ spent \in [ops : Nat, faults : Nat]
  BY TaskTypes DEF Sound, Tables, Tasked
<1>1. Follows(t, {})
  BY DEF Follows
<1>2. Follows(t, {Filing(t)})
  BY <1>0, FilingType, Alone
<1>3. CASE ReadTimer(t)
  <2> DEFINE local == [contact[t.p] EXCEPT !.timer = t.m.timer, !.version = t.m.version]
             v == [t EXCEPT !.step = "timer_save", !.local = local, !.dirty = FALSE]
  <2>1. local \in Contact
    BY <1>0 DEF Contact
  <2>2. \/ Becomes(t, {v})
        \/ Becomes(t, {Filing(t)})
    BY <1>3 DEF ReadTimer
  <2>3. UNCHANGED <<contact, keyOf, profile, rows, calls, spent, torn, heard>>
    BY <1>3 DEF ReadTimer
  <2> HIDE DEF local
  <2>4. v \in Task /\ v.id = t.id /\ v.op = t.op /\ v.step = "timer_save"
    BY <1>0, <2>1 DEF Task
  <2> HIDE DEF v
  <2>5. Tasked'
    BY <1>0, <1>2, <2>2, <2>3, <2>4, Alone, MovedTasks
  <2> QED BY <1>0, <2>3, <2>5, TablesFrame DEF Sound
<1>4. CASE SaveTimer(t)
  <2>1. SaveContact(t, t.local, {Filing(t)}) /\ UNCHANGED <<keyOf, profile, rows, calls, spent, heard>>
        /\ torn' \subseteq People
    BY <1>0, <1>4 DEF SaveTimer
  <2> QED BY <1>0, <1>2, <2>1, ContactSaved DEF Sound, Tables
<1>5. CASE SaveRow(t)
  <2>1. Becomes(t, {}) /\ UNCHANGED <<contact, keyOf, profile, calls, spent, torn, heard>>
        /\ rows' = IF Stored(t.m) THEN [rows EXCEPT ![RowOf(t.m)] = Row(t.m)] ELSE rows
    BY <1>5 DEF SaveRow
  <2>2. Tasked'
    BY <1>0, <1>1, <2>1, MovedTasks
  <2>3. rows' \in [Threads \X Times -> [kind : MessageKinds, from : People, thread : Threads, at : Times \union {0}]]
    BY <1>0, <2>1, RowTypes DEF Tables
  <2> QED BY <1>0, <2>1, <2>2, <2>3 DEF Sound, Tables
<1>6. CASE Sent(t)
  <2> DEFINE next == {Saving(t)} \union Spawned(t)
  <2>1. Becomes(t, next) /\ t.step = "wire" /\ UNCHANGED <<contact, keyOf, profile, rows, calls, spent, torn, heard>>
    BY <1>6 DEF Sent
  <2>2. t.op = "send"
    BY <1>0, <2>1 DEF Tasked
  <2>3. \A v \in next : v \in Task /\ v.id = t.id /\ v.step # "wire"
                        /\ ((v = Saving(t) /\ v.op = "send") \/ (Spawned(t) = {v} /\ v.op = "upsert"))
    BY <1>0, <2>2, SavingType, SpawnedType
  <2> HIDE DEF next
  <2>4. \A v, w \in next : v.op = w.op => v = w
    BY <2>3
  <2>5. Follows(t, next)
    BY <2>1, <2>2, <2>3, <2>4 DEF Follows
  <2>6. Tasked'
    BY <1>0, <2>1, <2>5, MovedTasks
  <2> QED BY <1>0, <2>1, <2>6, TablesFrame DEF Sound
<1>7. CASE UpsertRead(t)
  <2> DEFINE local == IF contact[t.p].known THEN contact[t.p] ELSE Minimal
             v == [t EXCEPT !.step = "fetch", !.local = local, !.dirty = FALSE]
  <2>1. local \in Contact
    BY <1>0, Constants
  <2>2. Becomes(t, {v}) \/ Becomes(t, {})
    BY <1>7 DEF UpsertRead
  <2>3. UNCHANGED <<contact, keyOf, profile, rows, calls, spent, torn, heard>>
    BY <1>7 DEF UpsertRead
  <2> HIDE DEF local
  <2>4. v \in Task /\ v.id = t.id /\ v.op = t.op /\ v.step = "fetch"
    BY <1>0, <2>1 DEF Task
  <2> HIDE DEF v
  <2>5. Tasked'
    BY <1>0, <1>1, <2>2, <2>3, <2>4, Alone, MovedTasks
  <2> QED BY <1>0, <2>3, <2>5, TablesFrame DEF Sound
<1>8. CASE UpsertSave(t)
  <2> DEFINE m == [t.m EXCEPT !.timer = 0, !.version = 0]
             v == [t EXCEPT !.step = "key", !.local = NoContact, !.dirty = FALSE, !.m.timer = 0, !.m.version = 0]
  <2>1. m \in Message
    BY <1>0 DEF Message
  <2>2. v = [t EXCEPT !.step = "key", !.local = NoContact, !.dirty = FALSE, !.m = m]
    BY <1>0 DEF Task, Message
  <2>3. SaveContact(t, Upserted(t), {v}) /\ UNCHANGED <<keyOf, profile, rows, calls, spent, heard>>
        /\ torn' \subseteq People
    BY <1>0, <1>8 DEF UpsertSave
  <2>4. Upserted(t) \in Contact
    <3>1. MergedVersion(t.m, t.local.version) \in Nat
      BY <1>0 DEF MergedVersion, Contact
    <3> QED BY <1>0, <3>1 DEF Upserted, Contact
  <2> HIDE DEF m, v
  <2>5. v \in Task /\ v.id = t.id /\ v.op = t.op /\ v.step = "key"
    BY <1>0, <2>1, <2>2, Constants DEF Task
  <2> QED BY <1>0, <2>3, <2>4, <2>5, Alone, ContactSaved DEF Sound, Tables
<1>9. CASE UpsertKey(t)
  <2>1. SetKey(t.p, t.m.key) /\ Becomes(t, {}) /\ torn' \subseteq People
        /\ UNCHANGED <<contact, rows, calls, spent, heard>>
    BY <1>0, <1>9 DEF UpsertKey
  <2>2. Tasked'
    BY <1>0, <1>1, <2>1, MovedTasks
  <2> QED BY <1>0, <2>1, <2>2, KeySet DEF Sound, Tables
<1>10. CASE SaveEdit(t)
  <2>1. SaveContact(t, t.local, {}) /\ UNCHANGED <<keyOf, profile, rows, calls, spent, heard>> /\ torn' \subseteq People
    BY <1>0, <1>10 DEF SaveEdit
  <2> QED BY <1>0, <1>1, <2>1, ContactSaved DEF Sound, Tables
<1>11. CASE SaveRecord(t)
  <2> DEFINE v == [t EXCEPT !.step = "key", !.local = NoContact, !.dirty = FALSE]
  <2>1. UNCHANGED <<keyOf, profile, rows, calls, spent, heard>> /\ torn' \subseteq People
        /\ (SaveContact(t, t.local, {}) \/ SaveContact(t, t.local, {v}))
    BY <1>0, <1>11 DEF SaveRecord
  <2>2. v \in Task /\ v.id = t.id /\ v.op = t.op /\ v.step = "key"
    BY <1>0, Constants DEF Task
  <2> HIDE DEF v
  <2> QED BY <1>0, <1>1, <2>1, <2>2, Alone, ContactSaved DEF Sound, Tables
<1>12. CASE ProfileFetched(t)
  <2> DEFINE v == [t EXCEPT !.step = "profile_key"]
  <2>1. Becomes(t, {v}) /\ UNCHANGED <<contact, keyOf, profile, rows, calls, spent, torn, heard>>
    BY <1>12 DEF ProfileFetched
  <2>2. v \in Task /\ v.id = t.id /\ v.op = t.op /\ v.step = "profile_key"
    BY <1>0 DEF Task
  <2> HIDE DEF v
  <2>3. Tasked'
    BY <1>0, <2>1, <2>2, Alone, MovedTasks
  <2> QED BY <1>0, <2>1, <2>3, TablesFrame DEF Sound
<1>13. CASE ProfileKey(t)
  <2> DEFINE v == [t EXCEPT !.step = "profile_row"]
  <2>1. Becomes(t, {v}) /\ SetKey(t.p, t.m.key) /\ torn' \subseteq People
        /\ UNCHANGED <<contact, rows, calls, spent, heard>>
    BY <1>0, <1>13 DEF ProfileKey
  <2>2. v \in Task /\ v.id = t.id /\ v.op = t.op /\ v.step = "profile_row"
    BY <1>0 DEF Task
  <2> HIDE DEF v
  <2>3. Tasked'
    BY <1>0, <2>1, <2>2, Alone, MovedTasks
  <2> QED BY <1>0, <2>1, <2>3, KeySet DEF Sound, Tables
<1>14. CASE ProfileRow(t)
  <2>1. Becomes(t, {}) /\ torn' \subseteq People /\ profile' = [profile EXCEPT ![t.p] = t.m.key]
        /\ UNCHANGED <<contact, keyOf, rows, calls, spent, heard>>
    BY <1>0, <1>14 DEF ProfileRow
  <2>2. Tasked'
    BY <1>0, <1>1, <2>1, MovedTasks
  <2> QED BY <1>0, <2>1, <2>2 DEF Sound, Tables
<1>15. CASE SaveCall(t)
  <2>1. Becomes(t, {}) /\ calls' = [calls EXCEPT ![t.call] = t.entry]
        /\ UNCHANGED <<contact, keyOf, profile, rows, spent, torn>>
    BY <1>15 DEF SaveCall
  <2>2. t.call \in Calls /\ t.entry \in CallEntry /\ t.kind \in Kinds /\ heard[t.call] \in [kinds : SUBSET Kinds, whole : BOOLEAN]
    BY <1>0, TaskTypes DEF Tables
  <2>3. heard' \in [Calls -> [kinds : SUBSET Kinds, whole : BOOLEAN]]
    <3> DEFINE w == heard[t.call].whole /\ (~ \E u \in tasks \ {t} : u.step = "merge" /\ u.call = t.call)
                      /\ (calls[t.call].status # "none" => calls[t.call].mode = t.entry.mode)
    <3>1. heard' = [heard EXCEPT ![t.call] = [kinds |-> heard[t.call].kinds \union {t.kind}, whole |-> w]]
      BY <1>15 DEF SaveCall
    <3>2. w \in BOOLEAN
      BY <2>2
    <3> HIDE DEF w
    <3> QED BY <1>0, <2>2, <3>1, <3>2 DEF Tables
  <2>4. Tasked'
    BY <1>0, <1>1, <2>1, MovedTasks
  <2> QED BY <1>0, <2>1, <2>2, <2>3, <2>4 DEF Sound, Tables
<1> QED
  BY <1>3, <1>4, <1>5, <1>6, <1>7, <1>8, <1>9, <1>10, <1>11, <1>12, <1>13, <1>14, <1>15 DEF Step

LEMMA NextSound ==
  ASSUME Sound, [Next]_vars
  PROVE  Sound'
<1>1. ASSUME NEW m \in Incoming, Receive(m) PROVE Sound'
  BY <1>1, ReceiveSound
<1>2. ASSUME NEW to \in Peers \union {Group}, NEW m \in Sends(to), BeginSend(m) PROVE Sound'
  BY <1>2, SendsType, SendSound DEF Sound, Tables
<1>3. ASSUME NEW m \in CallRows, BeginSend(m) PROVE Sound'
  BY <1>3, IncomingType, SendSound
<1>4. ASSUME NEW t \in tasks, Fails(t) PROVE Sound'
  <2>1. Becomes(t, {}) /\ UNCHANGED <<contact, keyOf, profile, rows, calls, torn, heard>>
        /\ spent' = [spent EXCEPT !.faults = @ + 1]
    BY <1>4 DEF Fails, Fault
  <2>2. spent' \in [ops : Nat, faults : Nat] /\ spent'.ops = spent.ops
    BY <2>1 DEF Sound, Tables
  <2>3. tasks' = tasks \ {t}
    BY <2>1 DEF Becomes
  <2> QED BY <2>1, <2>2, <2>3, FewerTasks, TablesFrame DEF Sound
<1>5. CASE Crash
  <2>1. tasks' = {} /\ UNCHANGED <<contact, keyOf, profile, rows, calls, heard>>
        /\ spent' = [spent EXCEPT !.faults = @ + 1]
        /\ torn' = torn \union {u.p : u \in {v \in tasks : v.step = "key"}}
    BY <1>5 DEF Crash, Fault
  <2>2. spent' \in [ops : Nat, faults : Nat] /\ spent'.ops = spent.ops
    BY <2>1 DEF Sound, Tables
  <2>3. torn' \subseteq People
    <3>1. \A u \in tasks : u.p \in People
      BY TaskTypes DEF Sound, Tasked
    <3> QED BY <2>1, <3>1 DEF Sound, Tables
  <2>4. Tasked'
    BY <2>1 DEF Tasked
  <2> QED BY <2>1, <2>2, <2>3, <2>4 DEF Sound, Tables
<1>6. CASE UNCHANGED vars
  BY <1>6 DEF vars, Sound, Tables, Tasked
<1>7. CASE Call
  <2>1. ASSUME NEW p \in Peers, NEW blocked \in BOOLEAN, BeginEdit(p, blocked) PROVE Sound'
    BY <2>1, EditSound
  <2>2. ASSUME NEW th, NEW ats, Forget(th, ats) PROVE Sound'
    BY <2>2, ForgetSound
  <2>3. ASSUME NEW p \in Peers, BeginProfile(p) PROVE Sound'
    BY <2>3, ProfileSound
  <2>4. ASSUME NEW c \in Calls, NEW e \in Event, BeginCall(c, e) PROVE Sound'
    BY <2>4, CallSound
  <2>5. ASSUME NEW p \in Peers, NEW blocked \in BOOLEAN, NEW key \in PeerKeys \union {NoKey}, BeginMerge(p, blocked, key)
        PROVE  Sound'
    BY <2>5, MergeSound
  <2> QED
    BY <1>1, <1>2, <1>3, <1>7, <2>1, <2>2, <2>3, <2>4, <2>5, Zenon DEF Call
<1> QED
  BY <1>4, <1>5, <1>6, <1>7, StepSound DEF Next

LEMMA InitSound == Init => Sound
<1> SUFFICES ASSUME Init PROVE Sound
  OBVIOUS
<1>1. contact \in [People -> Contact]
  <2>1. \A k \in Keys : [Minimal EXCEPT !.key = k] \in Contact
    BY Constants DEF Contact
  <2> QED BY <2>1, Constants DEF Init
<1>2. \A p \in People : contact[p].key \in Keys \union {NoKey}
  BY <1>1 DEF Contact
<1>3. keyOf \in [People -> Keys \union {NoKey}] /\ profile \in [People -> Keys \union {NoKey}]
  BY <1>2 DEF Init
<1>4. rows \in [Threads \X Times -> [kind : MessageKinds, from : People, thread : Threads, at : Times \union {0}]]
  BY RowTypes DEF Init
<1>5. calls \in [Calls -> CallEntry] /\ heard \in [Calls -> [kinds : SUBSET Kinds, whole : BOOLEAN]]
  BY Constants DEF Init
<1>6. Tasked /\ spent \in [ops : Nat, faults : Nat] /\ torn \subseteq People
  BY DEF Init, Tasked
<1> QED BY <1>1, <1>3, <1>4, <1>5, <1>6 DEF Sound, Tables

LEMMA SoundTyped == Sound => TypeOK
<1> SUFFICES ASSUME Sound PROVE TypeOK
  OBVIOUS
<1> DEFINE R == {t \in tasks : t.op = "receive"}
<1>1. R = {} \/ \E t : R = {t}
  BY DEF Sound, Tasked
<1> HIDE DEF R
<1>2. Cardinality(R) <= 1
  <2>1. CASE R = {}
    BY <2>1, FS_EmptySet
  <2>2. ASSUME NEW t, R = {t} PROVE Cardinality(R) <= 1
    <3>1. Cardinality({t}) = 1
      BY FS_Singleton, Zenon
    <3> QED BY <2>2, <3>1
  <2> QED BY <1>1, <2>1, <2>2
<1> QED BY <1>2 DEF Sound, Tables, Tasked, TypeOK, R

(* Every reachable state is well typed, procedures are told apart by their *)
(* number and kind, and one envelope is saved at a time                    *)
(* (receive_messages).                                                     *)
THEOREM TypeCorrect == Spec => []TypeOK
BY InitSound, NextSound, SoundTyped, PTL DEF Spec

(***************************************************************************)
(* Copies in flight.  A copy of a contact's row that is not out of date is *)
(* the row, with what its procedure is about to change.                    *)
(***************************************************************************)
Holders == {"timer_save", "fetch", "flag", "record"}
AsRead(c) == IF c.known THEN c ELSE Minimal

Holds(t, c) ==
  /\ t.step \in Holders => t.local.known /\ t.local.version >= DefaultVersion
  /\ t.step = "timer_save" /\ ~ t.dirty =>
       c.known /\ t.m.version > c.version /\ t.local = [c EXCEPT !.timer = t.m.timer, !.version = t.m.version]
  /\ t.step = "fetch" /\ ~ t.dirty => t.local = AsRead(c)
  /\ t.step = "flag" /\ ~ t.dirty => \E blocked \in BOOLEAN : t.local = [AsRead(c) EXCEPT !.blocked = blocked]
  /\ t.step = "record" => t.local.key = t.m.key
  /\ t.step = "record" /\ ~ t.dirty =>
       /\ \E blocked \in BOOLEAN : t.local = [AsRead(c) EXCEPT !.blocked = blocked, !.key = t.m.key]
       /\ t.m.key = NoKey => AsRead(c).key = NoKey

Copied ==
  /\ \A p \in People : contact[p].version >= DefaultVersion /\ (~ contact[p].known => contact[p] = NoContact)
  /\ \A t \in tasks : Holds(t, contact[t.p])

LEMMA CopiedQuiet ==
  ASSUME Copied, contact' = contact, \A v \in tasks' : v \in tasks \/ Holds(v, contact[v.p])
  PROVE  Copied'
BY DEF Copied

LEMMA Idle ==
  ASSUME NEW t, t.step \notin Holders, NEW c
  PROVE  Holds(t, c)
BY DEF Holds, Holders

LEMMA CopiedSave ==
  ASSUME Sound, Copied, NEW t \in tasks, NEW c \in Contact, c.known, c.version >= DefaultVersion,
         NEW next, \A v \in next : v.step \notin Holders, SaveContact(t, c, next)
  PROVE  Copied'
<1>1. t.p \in People /\ contact \in [People -> Contact] /\ contact' = [contact EXCEPT ![t.p] = c]
  BY TaskTypes DEF Sound, Tasked, Tables, SaveContact
<1>2. \A p \in People : contact'[p].version >= DefaultVersion /\ (~ contact'[p].known => contact'[p] = NoContact)
  BY <1>1 DEF Copied
<1>3. ASSUME NEW u \in tasks PROVE Holds(Outdated(t, c, u), contact'[u.p])
  <2>1. u \in Task /\ u.p \in People
    BY TaskTypes DEF Sound, Tasked
  <2>2. Holds(u, contact[u.p])
    BY DEF Copied
  <2> DEFINE v == Outdated(t, c, u)
  <2>3. /\ v.step = u.step /\ v.p = u.p /\ v.m = u.m /\ v.local = u.local
        /\ u.p = t.p /\ u.step \in Holders /\ c # contact[t.p] => v.dirty
        /\ u.dirty => v.dirty
    BY <2>1, OutdatedType DEF Holders
  <2>4. u.p # t.p \/ c = contact[t.p] => contact'[u.p] = contact[u.p]
    BY <1>1, <2>1
  <2> HIDE DEF v
  <2>5. u.step \notin Holders => Holds(v, contact'[u.p])
    BY <2>3, Idle
  <2>6. u.step \in Holders => Holds(v, contact'[u.p])
    BY <2>2, <2>3, <2>4 DEF Holds, Holders
  <2> QED BY <2>5, <2>6 DEF v
<1>4. \A u \in tasks : Outdated(t, c, u).p = u.p
  BY OutdatedType DEF Sound, Tasked
<1>5. \A v \in tasks' : Holds(v, contact'[v.p])
  BY <1>3, <1>4, Idle DEF SaveContact
<1> QED BY <1>2, <1>5 DEF Copied

(* The rows a procedure writes back.                                       *)
LEMMA Local ==
  ASSUME Sound, Copied, NEW t \in tasks, t.step \in Holders
  PROVE  /\ t.local \in Contact /\ t.local.known /\ t.local.version \in Nat /\ t.local.version >= DefaultVersion
         /\ Upserted(t) \in Contact /\ Upserted(t).known /\ Upserted(t).version >= t.local.version
         /\ Upserted(t).blocked = t.local.blocked /\ Upserted(t).key = t.m.key
<1>1. t.local \in Contact /\ t.m.version \in Nat /\ t.m.key \in Keys \union {NoKey} /\ t.m.timer \in Timers
  BY TaskTypes DEF Sound, Tasked
<1>2. t.local.known /\ t.local.version >= DefaultVersion /\ t.local.version \in Nat
  BY <1>1 DEF Copied, Holds, Contact
<1>3. MergedVersion(t.m, t.local.version) \in Nat /\ MergedVersion(t.m, t.local.version) >= t.local.version
  BY <1>1, <1>2 DEF MergedVersion
<1> QED BY <1>1, <1>2, <1>3 DEF Upserted, Contact

LEMMA CopiedStep ==
  ASSUME Sound, Copied, NEW t \in tasks, Step(t)
  PROVE  Copied'
<1>0. t \in Task /\ t.p \in People /\ contact[t.p] \in Contact /\ t.m.version \in Nat /\ spent \in [ops : Nat, faults : Nat]
  BY TaskTypes DEF Sound, Tasked, Tables
<1>1. Filing(t).step \notin Holders /\ Saving(t).step \notin Holders /\ \A u \in Spawned(t) : u.step \notin Holders
  BY <1>0, FilingType, SavingType, SpawnedType DEF Holders
<1>2. CASE ReadTimer(t)
  <2> DEFINE c == contact[t.p]
             local == [c EXCEPT !.timer = t.m.timer, !.version = t.m.version]
             v == [t EXCEPT !.step = "timer_save", !.local = local, !.dirty = FALSE]
  <2>1. contact' = contact /\ (Becomes(t, {Filing(t)}) \/ (Becomes(t, {v}) /\ c.known /\ Newer(t.m, c)))
    BY <1>2 DEF ReadTimer
  <2>2. ASSUME c.known, Newer(t.m, c) PROVE Holds(v, c)
    <3>1. c.version \in Nat /\ c.version >= 2
      BY <1>0 DEF Copied, Contact, DefaultVersion
    <3>2. t.m.version > c.version /\ t.m.version >= DefaultVersion
      BY <1>0, <2>2, <3>1 DEF Newer, DefaultVersion
    <3>3. local.known /\ local.version = t.m.version
      BY <1>0, <2>2 DEF Contact
    <3> HIDE DEF local, c
    <3>4. v.step = "timer_save" /\ v.local = local /\ v.m = t.m
      BY <1>0 DEF Task
    <3> QED BY <2>2, <3>2, <3>3, <3>4 DEF Holds, Holders, local
  <2>3. v.p = t.p
    BY <1>0 DEF Task
  <2> HIDE DEF v
  <2> QED BY <1>1, <2>1, <2>2, <2>3, Idle, CopiedQuiet DEF Becomes
<1>3. CASE UpsertRead(t)
  <2> DEFINE c == contact[t.p]
             v == [t EXCEPT !.step = "fetch", !.local = AsRead(c), !.dirty = FALSE]
  <2>1. contact' = contact /\ (Becomes(t, {}) \/ Becomes(t, {v}))
    BY <1>3 DEF UpsertRead, AsRead
  <2>2. AsRead(c).known /\ AsRead(c).version >= DefaultVersion
    BY <1>0 DEF Copied, AsRead, Minimal, NoContact, DefaultVersion
  <2>3. v.p = t.p /\ v.step = "fetch" /\ v.local = AsRead(c)
    BY <1>0 DEF Task
  <2> HIDE DEF v
  <2>4. Holds(v, c)
    BY <2>2, <2>3 DEF Holds, Holders
  <2> QED BY <2>1, <2>3, <2>4, CopiedQuiet DEF Becomes
<1>4. CASE SaveTimer(t)
  <2>1. t.step \in Holders /\ SaveContact(t, t.local, {Filing(t)})
    BY <1>4 DEF SaveTimer, Holders
  <2> QED BY <1>1, <2>1, Local, CopiedSave
<1>5. CASE SaveEdit(t)
  <2>1. t.step \in Holders /\ SaveContact(t, t.local, {})
    BY <1>5 DEF SaveEdit, Holders
  <2> QED BY <2>1, Local, CopiedSave
<1>8. CASE SaveRecord(t)
  <2> DEFINE v == [t EXCEPT !.step = "key", !.local = NoContact, !.dirty = FALSE]
  <2>1. t.step \in Holders /\ (SaveContact(t, t.local, {}) \/ SaveContact(t, t.local, {v}))
    BY <1>8 DEF SaveRecord, Holders
  <2>2. v.step \notin Holders
    BY <1>0 DEF Task, Holders
  <2> HIDE DEF v
  <2> QED BY <2>1, <2>2, Local, CopiedSave
<1>6. CASE UpsertSave(t)
  <2> DEFINE v == [t EXCEPT !.step = "key", !.local = NoContact, !.dirty = FALSE, !.m.timer = 0, !.m.version = 0]
  <2>1. t.step \in Holders /\ SaveContact(t, Upserted(t), {v})
    BY <1>6 DEF UpsertSave, Holders
  <2>2. v.step \notin Holders
    BY <1>0 DEF Task, Holders
  <2>3. Upserted(t).version >= DefaultVersion
    BY <2>1, Local DEF Contact, DefaultVersion
  <2> HIDE DEF v
  <2> QED BY <2>1, <2>2, <2>3, Local, CopiedSave
<1>7. CASE SaveRow(t) \/ Sent(t) \/ UpsertKey(t) \/ ProfileFetched(t) \/ ProfileKey(t) \/ ProfileRow(t) \/ SaveCall(t)
  <2> DEFINE x == [t EXCEPT !.step = "profile_key"]
             y == [t EXCEPT !.step = "profile_row"]
  <2>1. contact' = contact /\ \E next \in {{}, {x}, {y}, {Saving(t)} \union Spawned(t)} : Becomes(t, next)
    BY <1>7 DEF SaveRow, Sent, UpsertKey, ProfileFetched, ProfileKey, ProfileRow, SaveCall
  <2>2. x.step \notin Holders /\ y.step \notin Holders
    BY <1>0 DEF Task, Holders
  <2> HIDE DEF x, y
  <2>3. \A v \in tasks' : v \in tasks \/ v.step \notin Holders
    BY <1>1, <2>1, <2>2 DEF Becomes
  <2> QED BY <2>1, <2>3, Idle, CopiedQuiet
<1> QED BY <1>2, <1>3, <1>4, <1>5, <1>6, <1>7, <1>8 DEF Step

(* What the application, the receive loop and the user begin.              *)
Merging(v, c) ==
  /\ v.local.key = v.m.key
  /\ \E blocked \in BOOLEAN : v.local = [AsRead(c) EXCEPT !.blocked = blocked, !.key = v.m.key]
  /\ v.m.key = NoKey => AsRead(c).key = NoKey

Fresh(v) ==
  \/ v.step \notin Holders \union {"key", "merge"}
  \/ v.step = "flag" /\ \E blocked \in BOOLEAN : v.local = [AsRead(contact[v.p]) EXCEPT !.blocked = blocked]
  \/ v.step = "record" /\ Merging(v, contact[v.p])
  \/ v.step = "merge" /\ \E e \in Event : v.kind = e.kind /\ v.entry = Transition(calls[v.call], e)

LEMMA Begun ==
  ASSUME Sound, Call
  PROVE  UNCHANGED <<contact, keyOf, profile, calls, torn, heard>>
         /\ \E new : tasks' = tasks \union new /\ \A v \in new : v \in Task /\ Fresh(v)
<1>1. UNCHANGED <<contact, keyOf, profile, calls, torn, heard>>
  BY DEF Call, Receive, BeginSend, BeginEdit, BeginMerge, Forget, BeginProfile, BeginCall
<1> DEFINE Goal == \E new : tasks' = tasks \union new /\ \A v \in new : v \in Task /\ Fresh(v)
<1>2. ASSUME NEW weight, NEW new, Start(weight, new), \A v \in new : v \in Task /\ Fresh(v) PROVE Goal
  BY <1>2 DEF Start
<1> HIDE DEF Goal
<1>3. spent \in [ops : Nat, faults : Nat]
  BY DEF Sound, Tables
<1>4. ASSUME NEW m \in Incoming, Receive(m) PROVE Goal
  <2> DEFINE n == NewTask("receive", "row", m.from)
             t == [n EXCEPT !.m = m]
  <2>1. m \in Message /\ m.from \in People
    BY IncomingType DEF Message
  <2>2. n \in Task
    BY <1>3, <2>1, NewTaskType DEF Ops, Steps
  <2>3. Start(3, {Saving(t)} \union Spawned(t))
    BY <1>4 DEF Receive
  <2> HIDE DEF n
  <2>4. t \in Task
    BY <2>1, <2>2 DEF Task
  <2> HIDE DEF t
  <2>5. \A v \in {Saving(t)} \union Spawned(t) : v \in Task /\ v.step \in {"row", "timer", "read"}
    BY <1>3, <2>4, SavingType, SpawnedType
  <2>6. \A v \in {Saving(t)} \union Spawned(t) : v \in Task /\ Fresh(v)
    BY <2>5 DEF Fresh, Holders
  <2> QED BY <1>2, <2>3, <2>6
<1>5. ASSUME NEW m \in Message, BeginSend(m) PROVE Goal
  <2> DEFINE n == NewTask("send", "wire", Me)
             v == [n EXCEPT !.m = m]
  <2>1. n \in Task /\ n.step = "wire"
    BY <1>3, NewTaskType DEF Ops, Steps, People
  <2>2. Start(3, {v})
    BY <1>5 DEF BeginSend
  <2> HIDE DEF n
  <2>3. v \in Task /\ v.step = "wire"
    BY <2>1 DEF Task
  <2>4. v \in Task /\ Fresh(v)
    BY <2>3 DEF Fresh, Holders
  <2> QED BY <1>2, <2>2, <2>4
<1>6. ASSUME NEW p \in Peers, NEW blocked \in BOOLEAN, BeginEdit(p, blocked) PROVE Goal
  <2> DEFINE n == NewTask("edit", "flag", p)
             c == AsRead(contact[p])
             local == [c EXCEPT !.blocked = blocked]
             v == [n EXCEPT !.local = local]
  <2>1. n \in Task /\ n.step = "flag" /\ n.p = p
    BY <1>3, NewTaskType DEF Ops, Steps, People
  <2>2. Start(3, {v})
    BY <1>6 DEF BeginEdit, AsRead
  <2>3. local \in Contact
    <3>1. c \in Contact
      BY Constants DEF Sound, Tables, People, AsRead
    <3> QED BY <3>1 DEF Contact
  <2> HIDE DEF n, local
  <2>4. v \in Task /\ v.step = "flag" /\ v.p = p /\ v.local = local
    BY <2>1, <2>3 DEF Task
  <2> HIDE DEF v
  <2>5. v \in Task /\ Fresh(v)
    BY <2>4 DEF Fresh, local
  <2> QED BY <1>2, <2>2, <2>5
<1>11. ASSUME NEW p \in Peers, NEW blocked \in BOOLEAN, NEW key \in PeerKeys \union {NoKey}, BeginMerge(p, blocked, key)
       PROVE  Goal
  <2> DEFINE n == NewTask("sync", "record", p)
             c == AsRead(contact[p])
             k == IF key = NoKey THEN c.key ELSE key
             local == [c EXCEPT !.blocked = blocked, !.key = k]
             m == [NoMessage EXCEPT !.key = k]
             v == [n EXCEPT !.local = local, !.m = m]
  <2>1. n \in Task /\ n.step = "record" /\ n.p = p
    BY <1>3, NewTaskType DEF Ops, Steps, People
  <2>2. Start(3, {v})
    BY <1>11 DEF BeginMerge, AsRead
  <2>3. c \in Contact /\ k \in Keys \union {NoKey}
    <3>1. c \in Contact
      BY Constants DEF Sound, Tables, People, AsRead
    <3> QED BY <3>1 DEF Contact, Keys
  <2>4. k = NoKey => c.key = NoKey
    OBVIOUS
  <2> HIDE DEF n, c, k
  <2>5. local \in Contact /\ m \in Message /\ local.key = k /\ m.key = k
    BY <2>3, Constants DEF Contact, Message
  <2> HIDE DEF m
  <2>6. v \in Task /\ v.step = "record" /\ v.p = p /\ v.local = local /\ v.m = m
    BY <2>1, <2>5 DEF Task
  <2> HIDE DEF v
  <2>7. v.local = [c EXCEPT !.blocked = blocked, !.key = v.m.key] /\ v.local.key = v.m.key
    BY <2>5, <2>6
  <2> HIDE DEF local
  <2>8. Merging(v, contact[v.p])
    BY <2>4, <2>5, <2>6, <2>7 DEF Merging, c
  <2>9. v \in Task /\ Fresh(v)
    BY <2>6, <2>8 DEF Fresh
  <2> QED BY <1>2, <2>2, <2>9
<1>7. ASSUME NEW th, NEW ats, Forget(th, ats) PROVE Goal
  BY <1>2, <1>7 DEF Forget
<1>8. ASSUME NEW p \in Peers, BeginProfile(p) PROVE Goal
  <2> DEFINE n == NewTask("profile", "profile", p)
             m == [NoMessage EXCEPT !.key = keyOf[p]]
             v == [n EXCEPT !.m = m]
  <2>1. n \in Task /\ n.step = "profile"
    BY <1>3, NewTaskType DEF Ops, Steps, People
  <2>2. Start(3, {v})
    BY <1>8 DEF BeginProfile
  <2>3. m \in Message
    <3>1. keyOf[p] \in Keys \union {NoKey}
      BY DEF Sound, Tables, People
    <3> QED BY <3>1, Constants DEF Message
  <2> HIDE DEF n, m
  <2>4. v \in Task /\ v.step = "profile"
    BY <2>1, <2>3 DEF Task
  <2>5. v \in Task /\ Fresh(v)
    BY <2>4 DEF Fresh, Holders
  <2> QED BY <1>2, <2>2, <2>5
<1>9. ASSUME NEW c \in Calls, NEW e \in Event, BeginCall(c, e) PROVE Goal
  <2> DEFINE n == NewTask("call", "merge", Me)
             entry == Transition(calls[c], e)
             v == [n EXCEPT !.call = c, !.entry = entry, !.kind = e.kind]
  <2>1. n \in Task /\ n.step = "merge"
    BY <1>3, NewTaskType DEF Ops, Steps, People
  <2>2. Start(2, {v})
    BY <1>9 DEF BeginCall
  <2>3. entry \in CallEntry /\ e.kind \in Kinds
    BY TransitionType DEF Sound, Tables, Event
  <2> HIDE DEF n, entry
  <2>4. v \in Task /\ v.step = "merge" /\ v.call = c /\ v.entry = entry /\ v.kind = e.kind
    BY <2>1, <2>3 DEF Task
  <2> HIDE DEF v
  <2>5. v \in Task /\ Fresh(v)
    BY <2>4 DEF Fresh, entry
  <2> QED BY <1>2, <2>2, <2>5
<1>10. Goal
  <2>1. ASSUME NEW to \in Peers \union {Group}, NEW m \in Sends(to), BeginSend(m) PROVE Goal
    BY <1>5, <2>1, SendsType DEF Sound, Tables
  <2>2. ASSUME NEW m \in CallRows, BeginSend(m) PROVE Goal
    BY <1>5, <2>2, IncomingType
  <2> QED
    BY <1>4, <1>6, <1>7, <1>8, <1>9, <1>11, <2>1, <2>2, Zenon DEF Call
<1> QED BY <1>1, <1>10, Zenon DEF Goal

LEMMA CopiedNext ==
  ASSUME Sound, Copied, [Next]_vars
  PROVE  Copied'
<1>1. CASE Call
  <2>1. PICK new : contact' = contact /\ tasks' = tasks \union new /\ \A v \in new : v \in Task /\ Fresh(v)
    BY <1>1, Begun
  <2>2. ASSUME NEW v \in new PROVE Holds(v, contact[v.p])
    <3>1. CASE v.step \notin Holders
      BY <3>1, Idle
    <3>0. v.p \in People /\ contact[v.p] \in Contact /\ contact[v.p].version >= DefaultVersion
      BY <2>1, TaskTypes DEF Sound, Tables, Copied
    <3>4. AsRead(contact[v.p]) \in Contact /\ AsRead(contact[v.p]).known /\ AsRead(contact[v.p]).version >= DefaultVersion
      BY <3>0, Constants DEF AsRead, Minimal, NoContact, DefaultVersion
    <3>3. CASE v.step = "record"
      <4>1. Merging(v, contact[v.p])
        BY <2>1, <3>3 DEF Fresh, Holders
      <4>2. v.local.known /\ v.local.version >= DefaultVersion
        BY <3>4, <4>1 DEF Contact, Merging
      <4> QED BY <3>3, <4>1, <4>2 DEF Holds, Merging
    <3>2. CASE v.step \in Holders \ {"record"}
      <4>1. PICK blocked \in BOOLEAN : v.step = "flag" /\ v.local = [AsRead(contact[v.p]) EXCEPT !.blocked = blocked]
        BY <2>1, <3>2 DEF Fresh, Holders
      <4>2. v.local.known /\ v.local.version >= DefaultVersion
        BY <3>0, <3>4, <4>1 DEF Contact
      <4> QED BY <4>1, <4>2 DEF Holds
    <3> QED BY <3>1, <3>2, <3>3
  <2> QED BY <2>1, <2>2, CopiedQuiet
<1>2. CASE (\E t \in tasks : Fails(t)) \/ Crash \/ UNCHANGED vars
  <2>1. contact' = contact /\ \A v \in tasks' : v \in tasks
    BY <1>2 DEF Fails, Becomes, Crash, vars
  <2> QED BY <2>1, CopiedQuiet
<1> QED BY <1>1, <1>2, CopiedStep DEF Next

LEMMA CopiedInit == Init => Copied
<1> SUFFICES ASSUME Init PROVE Copied
  OBVIOUS
<1>1. tasks = {}
  BY DEF Init
<1>2. ASSUME NEW p \in People PROVE contact[p].version >= DefaultVersion /\ (~ contact[p].known => contact[p] = NoContact)
  <2>1. NoContact.version = 2 /\ Minimal.version = 2 /\ Minimal.known
    BY DEF NoContact, Minimal, DefaultVersion
  <2>2. contact[p] = NoContact \/ contact[p] = Minimal \/ \E k \in Keys : contact[p] = [Minimal EXCEPT !.key = k]
    BY DEF Init
  <2>3. ASSUME NEW k \in Keys, contact[p] = [Minimal EXCEPT !.key = k] PROVE contact[p].version = 2 /\ contact[p].known
    BY <2>3 DEF NoContact, Minimal, DefaultVersion
  <2>4. contact[p].version = 2 /\ (contact[p] = NoContact \/ contact[p].known)
    BY <2>1, <2>2, <2>3
  <2> QED BY <2>4 DEF DefaultVersion
<1> QED BY <1>1, <1>2 DEF Copied

(* A row only changes when a procedure writes its copy back.               *)
LEMMA WrittenBack ==
  ASSUME Sound, Copied, [Next]_vars, NEW p \in People, contact'[p] # contact[p]
  PROVE  \E t \in tasks \ tasks' :
           /\ t.p = p /\ Holds(t, contact[p])
           /\ t.step \in Holders
           /\ contact'[p] = IF t.step = "fetch" THEN Upserted(t) ELSE t.local
<1>1. contact' # contact
  OBVIOUS
<1>2. ~ Call /\ ~ (\E t \in tasks : Fails(t)) /\ ~ Crash /\ ~ UNCHANGED vars
  BY <1>1 DEF Call, Receive, BeginSend, BeginEdit, BeginMerge, Forget, BeginProfile, BeginCall, Fails, Crash, vars
<1>3. PICK t \in tasks : Step(t)
  BY <1>2 DEF Next
<1>4. t \in Task /\ t.p \in People /\ contact \in [People -> Contact] /\ Tasked
  BY TaskTypes DEF Sound, Tasked, Tables
<1> DEFINE v == [t EXCEPT !.step = "key", !.local = NoContact, !.dirty = FALSE, !.m.timer = 0, !.m.version = 0]
           w == [t EXCEPT !.step = "key", !.local = NoContact, !.dirty = FALSE]
           c == IF t.step = "fetch" THEN Upserted(t) ELSE t.local
<1>5. /\ t.step \in Holders
      /\ \E next \in {{}, {Filing(t)}, {v}, {w}} : SaveContact(t, c, next)
  <2>1. SaveTimer(t) \/ SaveEdit(t) \/ SaveRecord(t) \/ UpsertSave(t)
    BY <1>1, <1>3 DEF Step, ReadTimer, SaveRow, Sent, UpsertRead, UpsertKey, ProfileFetched, ProfileKey, ProfileRow, SaveCall
  <2> QED BY <2>1 DEF SaveTimer, SaveEdit, SaveRecord, UpsertSave, Holders
<1>6. v.step \notin Holders /\ w.step \notin Holders /\ Filing(t).step \notin Holders
  BY <1>4, FilingType DEF Task, Holders
<1> HIDE DEF v, w, c
<1>7. PICK next : SaveContact(t, c, next) /\ \A x \in next : x.step \notin Holders
  BY <1>5, <1>6
<1>8. t \notin tasks'
  <2> SUFFICES ASSUME t \in tasks' PROVE FALSE
    OBVIOUS
  <2>1. PICK u \in tasks \ {t} : t = Outdated(t, c, u)
    BY <1>5, <1>7 DEF SaveContact
  <2>2. u.id = t.id /\ u.op = t.op
    BY <1>4, <2>1, OutdatedType DEF Tasked
  <2> QED BY <1>4, <2>1, <2>2 DEF Tasked
<1>9. t.p = p /\ contact'[p] = c
  BY <1>4, <1>7 DEF SaveContact
<1> QED BY <1>5, <1>8, <1>9 DEF Copied, c

(* Nothing but the user's own edit, a record merged by a sync, or a copy   *)
(* read before them, changes whether a contact is blocked (save_message,   *)
(* upsert_contact_from_profile).                                           *)
THEOREM BlocksStand == Spec => BlockStands
<1>1. ASSUME Sound, Copied, [Next]_vars, NEW p \in People, contact'[p].blocked # contact[p].blocked
      PROVE  SavedBy(p, "flag") \/ SavedBy(p, "record") \/ Overwritten(p)
  <2>1. PICK t \in tasks \ tasks' :
          /\ t.p = p /\ Holds(t, contact[p]) /\ t.step \in Holders
          /\ contact'[p] = IF t.step = "fetch" THEN Upserted(t) ELSE t.local
    BY <1>1, WrittenBack
  <2>2. CASE t.dirty
    BY <2>1, <2>2 DEF Overwritten
  <2>3. CASE t.step \in {"flag", "record"}
    BY <1>1, <2>1, <2>3 DEF SavedBy
  <2>4. CASE ~ t.dirty /\ t.step = "timer_save"
    <3>1. contact[p] \in Contact
      BY <1>1 DEF Sound, Tables
    <3>2. contact'[p] = t.local /\ t.local = [contact[p] EXCEPT !.timer = t.m.timer, !.version = t.m.version]
      BY <2>1, <2>4 DEF Holds
    <3>3. t.local.blocked = contact[p].blocked
      BY <3>1, <3>2 DEF Contact
    <3> QED BY <1>1, <3>2, <3>3
  <2>5. CASE ~ t.dirty /\ t.step = "fetch"
    <3>1. contact'[p].blocked = AsRead(contact[p]).blocked
      BY <1>1, <2>1, <2>5, Local DEF Holds
    <3>2. AsRead(contact[p]).blocked = contact[p].blocked
      BY <1>1 DEF Copied, AsRead, Minimal, NoContact
    <3> QED BY <1>1, <3>1, <3>2
  <2> QED BY <2>1, <2>2, <2>3, <2>4, <2>5 DEF Holders
<1>2. Sound /\ Copied /\ [Next]_vars =>
        [\A p \in People :
           contact'[p].blocked # contact[p].blocked => SavedBy(p, "flag") \/ SavedBy(p, "record") \/ Overwritten(p)]_vars
  BY <1>1
<1>3. Sound /\ Copied /\ [Next]_vars => (Sound /\ Copied)'
  BY NextSound, CopiedNext
<1>4. Init => Sound /\ Copied
  BY InitSound, CopiedInit
<1> QED BY <1>2, <1>3, <1>4, PTL DEF Spec, BlockStands

(* A contact's timer moves with a higher version or by the profile upsert, *)
(* and its version never goes down, unless a copy read before is written   *)
(* back (update_expire_timer, merged_expire_timer_version).                *)
THEOREM TimersOrdered == Spec => TimerOrder
<1>1. ASSUME Sound, Copied, [Next]_vars, NEW p \in People, contact[p].known, ~ Overwritten(p)
      PROVE  /\ contact'[p].version >= contact[p].version
             /\ contact'[p].timer # contact[p].timer =>
                  contact'[p].version > contact[p].version \/ SavedBy(p, "fetch")
  <2>0. contact[p] \in Contact /\ contact[p].version \in Nat
    BY <1>1 DEF Sound, Tables, Contact
  <2>1. CASE contact'[p] = contact[p]
    BY <2>0, <2>1
  <2>2. CASE contact'[p] # contact[p]
    <3>1. PICK t \in tasks \ tasks' :
            /\ t.p = p /\ Holds(t, contact[p]) /\ t.step \in Holders
            /\ contact'[p] = IF t.step = "fetch" THEN Upserted(t) ELSE t.local
      BY <1>1, <2>2, WrittenBack
    <3>2. ~ t.dirty
      BY <1>1, <3>1 DEF Overwritten
    <3>3. AsRead(contact[p]) = contact[p]
      BY <1>1 DEF AsRead
    <3>4. t.m.version \in Nat
      BY <1>1, TaskTypes DEF Sound, Tasked
    <3>5. CASE t.step = "timer_save"
      <4>1. /\ contact'[p] = t.local /\ t.m.version > contact[p].version
            /\ t.local = [contact[p] EXCEPT !.timer = t.m.timer, !.version = t.m.version]
        BY <3>1, <3>2, <3>5 DEF Holds
      <4>2. contact'[p].version = t.m.version
        BY <2>0, <4>1 DEF Contact
      <4> QED BY <2>0, <3>4, <4>1, <4>2
    <3>6. CASE t.step = "fetch"
      <4>1. t.local = contact[p] /\ contact'[p] = Upserted(t)
        BY <3>1, <3>2, <3>3, <3>6 DEF Holds
      <4>2. contact'[p].version >= contact[p].version
        BY <1>1, <3>1, <4>1, Local
      <4>3. SavedBy(p, "fetch")
        BY <2>2, <3>1, <3>6 DEF SavedBy
      <4> QED BY <4>2, <4>3
    <3>7. CASE t.step = "flag"
      <4>1. contact'[p].version = contact[p].version /\ contact'[p].timer = contact[p].timer
        <5>1. PICK blocked \in BOOLEAN : t.local = [contact[p] EXCEPT !.blocked = blocked]
          BY <3>1, <3>2, <3>3, <3>7 DEF Holds
        <5>2. contact'[p] = t.local
          BY <3>1, <3>7
        <5> QED BY <2>0, <5>1, <5>2 DEF Contact
      <4> QED BY <2>0, <4>1
    <3>8. CASE t.step = "record"
      <4>1. contact'[p].version = contact[p].version /\ contact'[p].timer = contact[p].timer
        <5>1. PICK blocked \in BOOLEAN : t.local = [contact[p] EXCEPT !.blocked = blocked, !.key = t.m.key]
          BY <3>1, <3>2, <3>3, <3>8 DEF Holds
        <5>2. contact'[p] = t.local
          BY <3>1, <3>8
        <5> QED BY <2>0, <5>1, <5>2 DEF Contact
      <4> QED BY <2>0, <4>1
    <3> QED BY <3>1, <3>5, <3>6, <3>7, <3>8 DEF Holders
  <2> QED BY <2>1, <2>2
<1>2. Sound /\ Copied /\ [Next]_vars =>
        [\A p \in People : contact[p].known /\ ~ Overwritten(p) =>
           /\ contact'[p].version >= contact[p].version
           /\ contact'[p].timer # contact[p].timer =>
                contact'[p].version > contact[p].version \/ SavedBy(p, "fetch")]_vars
  BY <1>1
<1>3. Sound /\ Copied /\ [Next]_vars => (Sound /\ Copied)'
  BY NextSound, CopiedNext
<1>4. Init => Sound /\ Copied
  BY InitSound, CopiedInit
<1> QED BY <1>2, <1>3, <1>4, PTL DEF Spec, TimerOrder

(***************************************************************************)
(* The two tables of profile keys.  A contact whose procedures never       *)
(* overlapped has at most one upsert between its row and its key, and the  *)
(* row has the key that upsert is about to store.                          *)
(***************************************************************************)
KeyTasks == {t \in tasks : t.step = "key"}

KeyedAt(p, k, row, keying, cached) ==
  /\ (~ \E t \in keying : t.p = p) => k = row.key
  /\ \A t, u \in keying : t.p = p /\ u.p = p => t = u
  /\ \A t \in keying : t.p = p => t.m.key = row.key
  /\ cached # NoKey => cached = k

Keyed == \A p \in People \ torn : KeyedAt(p, keyOf[p], contact[p], KeyTasks, profile[p])

LEMMA KeyedQuiet ==
  ASSUME Keyed, UNCHANGED <<contact, keyOf, profile, torn>>, KeyTasks' = KeyTasks
  PROVE  Keyed'
BY DEF Keyed

(* Saving a row leaves the upserts that are past theirs where they were.   *)
LEMMA KeyTasksSaved ==
  ASSUME Sound, NEW t \in tasks, t.step \in Holders, NEW c, NEW next, SaveContact(t, c, next)
  PROVE  KeyTasks' = KeyTasks \union {v \in next : v.step = "key"}
<1>1. \A u \in tasks : /\ Outdated(t, c, u).step = u.step
                       /\ u.step = "key" => Outdated(t, c, u) = u
  BY OutdatedType DEF Sound, Tasked, Outdated
<1>2. t.step # "key"
  BY DEF Holders
<1>3. \A v \in KeyTasks' : v \in KeyTasks \/ (v \in next /\ v.step = "key")
  BY <1>1 DEF KeyTasks, SaveContact
<1>4. \A v \in KeyTasks : v \in KeyTasks'
  BY <1>1, <1>2 DEF KeyTasks, SaveContact
<1>5. \A v \in next : v.step = "key" => v \in KeyTasks'
  BY DEF KeyTasks, SaveContact
<1> QED BY <1>3, <1>4, <1>5

LEMMA KeyedSave ==
  ASSUME Sound, Keyed, NEW t \in tasks, t.step \in Holders, NEW c, NEW next, \A v \in next : v.step # "key",
         SaveContact(t, c, next), UNCHANGED <<keyOf, profile>>, torn \subseteq torn',
         t.p \in torn' \/ c.key = contact[t.p].key
  PROVE  Keyed'
<1>1. KeyTasks' = KeyTasks
  BY KeyTasksSaved
<1>2. contact \in [People -> Contact] /\ contact' = [contact EXCEPT ![t.p] = c]
  BY DEF Sound, Tables, SaveContact
<1>3. ASSUME NEW p \in People \ torn' PROVE contact'[p].key = contact[p].key
  BY <1>2, <1>3
<1> QED BY <1>1, <1>3 DEF Keyed, KeyedAt

LEMMA KeyedStep ==
  ASSUME Sound, Copied, Keyed, NEW t \in tasks, Step(t)
  PROVE  Keyed'
<1>0. /\ t \in Task /\ t.p \in People /\ contact \in [People -> Contact] /\ t.m \in Message
      /\ keyOf \in [People -> Keys \union {NoKey}] /\ profile \in [People -> Keys \union {NoKey}]
      /\ torn \subseteq People /\ spent \in [ops : Nat, faults : Nat]
  BY TaskTypes DEF Sound, Tasked, Tables
<1>1. Filing(t).step # "key" /\ Saving(t).step # "key" /\ \A u \in Spawned(t) : u.step # "key"
  BY <1>0, FilingType, SavingType, SpawnedType
<1>2. CASE SaveTimer(t) \/ SaveEdit(t)
  <2>2. t.step \in Holders /\ torn \subseteq torn' /\ UNCHANGED <<keyOf, profile>> /\ t.step \in {"timer_save", "flag"}
        /\ (t.dirty => t.p \in torn')
    BY <1>2 DEF SaveTimer, SaveEdit, Holders
  <2>3. ~ t.dirty => t.local.key = contact[t.p].key
    <3>1. Holds(t, contact[t.p]) /\ (~ contact[t.p].known => contact[t.p] = NoContact)
      BY <1>0 DEF Copied
    <3>2. contact[t.p] \in Contact /\ AsRead(contact[t.p]) \in Contact
      BY <1>0, Constants DEF AsRead
    <3>3. AsRead(contact[t.p]).key = contact[t.p].key
      BY <3>1 DEF AsRead, Minimal, NoContact
    <3>4. CASE t.step = "timer_save"
      BY <3>1, <3>2, <3>4 DEF Holds, Contact
    <3>5. CASE t.step = "flag" /\ ~ t.dirty
      <4>1. PICK blocked \in BOOLEAN : t.local = [AsRead(contact[t.p]) EXCEPT !.blocked = blocked]
        BY <3>1, <3>5 DEF Holds
      <4> QED BY <3>2, <3>3, <4>1 DEF Contact
    <3> QED BY <2>2, <3>4, <3>5
  <2>4. PICK next : SaveContact(t, t.local, next) /\ \A v \in next : v.step # "key"
    BY <1>1, <1>2 DEF SaveTimer, SaveEdit
  <2> QED BY <2>2, <2>3, <2>4, KeyedSave
<1>3. CASE UpsertSave(t)
  <2> DEFINE v == [t EXCEPT !.step = "key", !.local = NoContact, !.dirty = FALSE, !.m.timer = 0, !.m.version = 0]
  <2>1. /\ SaveContact(t, Upserted(t), {v}) /\ t.step \in Holders /\ UNCHANGED <<keyOf, profile>>
        /\ torn' = IF \E u \in tasks \ {t} : u.p = t.p /\ u.step = "key" THEN torn \union {t.p} ELSE torn
    BY <1>3 DEF UpsertSave, Holders
  <2>2. v.step = "key" /\ v.p = t.p /\ v.m.key = t.m.key
    BY <1>0 DEF Task, Message
  <2> HIDE DEF v
  <2>3. KeyTasks' = KeyTasks \union {v}
    BY <2>1, <2>2, KeyTasksSaved
  <2>4. contact' = [contact EXCEPT ![t.p] = Upserted(t)] /\ Upserted(t).key = t.m.key
    BY <2>1, Local DEF SaveContact
  <2>5. ASSUME NEW p \in People \ torn' PROVE KeyedAt(p, keyOf[p], contact'[p], KeyTasks', profile[p])
    <3>1. KeyedAt(p, keyOf[p], contact[p], KeyTasks, profile[p])
      BY <2>1, <2>5 DEF Keyed
    <3>2. CASE p = t.p
      <4>1. \A u \in KeyTasks : u.p # p
        BY <2>1, <2>5, <3>2 DEF KeyTasks, Holders
      <4> QED BY <1>0, <2>2, <2>3, <2>4, <3>1, <3>2, <4>1 DEF KeyedAt
    <3>3. CASE p # t.p
      BY <1>0, <2>2, <2>3, <2>4, <3>1, <3>3 DEF KeyedAt
    <3> QED BY <3>2, <3>3
  <2> QED BY <2>1, <2>5 DEF Keyed
<1>8. CASE SaveRecord(t)
  <2> DEFINE v == [t EXCEPT !.step = "key", !.local = NoContact, !.dirty = FALSE]
  <2>1. /\ t.step = "record" /\ UNCHANGED <<keyOf, profile>>
        /\ IF t.m.key = NoKey THEN SaveContact(t, t.local, {}) ELSE SaveContact(t, t.local, {v})
        /\ torn' = IF (t.m.key = NoKey /\ t.dirty) \/ (\E u \in tasks \ {t} : u.p = t.p /\ u.step = "key")
                   THEN torn \union {t.p} ELSE torn
    BY <1>8 DEF SaveRecord
  <2>2. v.step = "key" /\ v.p = t.p /\ v.m = t.m
    BY <1>0 DEF Task
  <2> HIDE DEF v
  <2>3. t.step \in Holders /\ t.local.key = t.m.key
        /\ (~ t.dirty /\ t.m.key = NoKey => contact[t.p].key = NoKey)
    <3>1. Holds(t, contact[t.p]) /\ (~ contact[t.p].known => contact[t.p] = NoContact)
      BY <1>0 DEF Copied
    <3>2. AsRead(contact[t.p]).key = contact[t.p].key
      BY <3>1 DEF AsRead, Minimal, NoContact
    <3> QED BY <2>1, <3>1, <3>2 DEF Holds, Holders
  <2>4. CASE t.m.key = NoKey
    <3>1. SaveContact(t, t.local, {}) /\ torn \subseteq torn' /\ (t.dirty => t.p \in torn')
      BY <2>1, <2>4
    <3>2. t.p \in torn' \/ t.local.key = contact[t.p].key
      BY <2>3, <2>4, <3>1
    <3> QED BY <2>1, <2>3, <3>1, <3>2, KeyedSave
  <2>5. CASE t.m.key # NoKey
    <3>1. KeyTasks' = KeyTasks \union {v}
      BY <2>1, <2>2, <2>3, <2>5, KeyTasksSaved
    <3>2. contact' = [contact EXCEPT ![t.p] = t.local]
      BY <2>1, <2>5 DEF SaveContact
    <3>3. ASSUME NEW p \in People \ torn' PROVE KeyedAt(p, keyOf[p], contact'[p], KeyTasks', profile[p])
      <4>1. KeyedAt(p, keyOf[p], contact[p], KeyTasks, profile[p])
        BY <2>1, <3>3 DEF Keyed
      <4>2. CASE p = t.p
        <5>1. \A u \in KeyTasks : u.p # p
          BY <2>1, <3>3, <4>2 DEF KeyTasks
        <5> QED BY <1>0, <2>2, <2>3, <3>1, <3>2, <4>1, <4>2, <5>1 DEF KeyedAt
      <4>3. CASE p # t.p
        BY <1>0, <2>2, <3>1, <3>2, <4>1, <4>3 DEF KeyedAt
      <4> QED BY <4>2, <4>3
    <3> QED BY <2>1, <3>3 DEF Keyed
  <2> QED BY <2>4, <2>5
<1>4. CASE UpsertKey(t)
  <2>1. /\ SetKey(t.p, t.m.key) /\ t.step = "key" /\ Becomes(t, {}) /\ contact' = contact
        /\ torn' = IF Mends(t) THEN torn \ {t.p} ELSE torn
    BY <1>4 DEF UpsertKey
  <2>2. KeyTasks' = KeyTasks \ {t} /\ t \in KeyTasks
    BY <2>1 DEF KeyTasks, Becomes
  <2>3. keyOf' = [keyOf EXCEPT ![t.p] = t.m.key] /\ profile' = [profile EXCEPT ![t.p] = NoKey]
    BY <2>1 DEF SetKey
  <2>4. ASSUME NEW p \in People \ torn' PROVE KeyedAt(p, keyOf'[p], contact[p], KeyTasks', profile'[p])
    <3>1. CASE p # t.p
      <4>1. KeyedAt(p, keyOf[p], contact[p], KeyTasks, profile[p])
        BY <2>1, <2>4, <3>1 DEF Keyed
      <4> QED BY <1>0, <2>2, <2>3, <3>1, <4>1 DEF KeyedAt
    <3>2. CASE p = t.p
      <4>1. keyOf'[p] = t.m.key /\ profile'[p] = NoKey
        BY <1>0, <2>3, <3>2
      <4>2. contact[p].key = t.m.key /\ \A u \in KeyTasks' : u.p # p
        <5>1. CASE Mends(t)
          BY <2>2, <3>2, <5>1 DEF Mends, KeyTasks
        <5>2. CASE ~ Mends(t)
          <6>1. KeyedAt(p, keyOf[p], contact[p], KeyTasks, profile[p])
            BY <2>1, <2>4, <5>2 DEF Keyed
          <6> QED BY <2>2, <3>2, <6>1 DEF KeyedAt
        <5> QED BY <5>1, <5>2
      <4> QED BY <4>1, <4>2 DEF KeyedAt
    <3> QED BY <3>1, <3>2
  <2> QED BY <2>1, <2>4 DEF Keyed
<1>5. CASE ProfileKey(t)
  <2> DEFINE v == [t EXCEPT !.step = "profile_row"]
  <2>1. /\ SetKey(t.p, t.m.key) /\ t.step = "profile_key" /\ Becomes(t, {v}) /\ contact' = contact
        /\ torn' = IF keyOf[t.p] # t.m.key \/ contact[t.p].key # t.m.key \/ \E u \in tasks : u.p = t.p /\ u.step = "key"
                   THEN torn \union {t.p} ELSE torn
    BY <1>5 DEF ProfileKey
  <2>2. v.step # "key"
    BY <1>0 DEF Task
  <2> HIDE DEF v
  <2>3. KeyTasks' = KeyTasks
    BY <2>1, <2>2 DEF KeyTasks, Becomes
  <2>4. keyOf' = [keyOf EXCEPT ![t.p] = t.m.key] /\ profile' = [profile EXCEPT ![t.p] = NoKey]
    BY <2>1 DEF SetKey
  <2>5. ASSUME NEW p \in People \ torn' PROVE KeyedAt(p, keyOf'[p], contact[p], KeyTasks, profile'[p])
    <3>1. KeyedAt(p, keyOf[p], contact[p], KeyTasks, profile[p])
      BY <2>1, <2>5 DEF Keyed
    <3>2. CASE p # t.p
      BY <1>0, <2>4, <3>1, <3>2
    <3>3. CASE p = t.p
      <4>1. keyOf[p] = t.m.key
        BY <2>1, <2>5, <3>3
      <4> QED BY <1>0, <2>4, <3>1, <3>3, <4>1 DEF KeyedAt
    <3> QED BY <3>2, <3>3
  <2> QED BY <2>1, <2>3, <2>5 DEF Keyed
<1>6. CASE ProfileRow(t)
  <2>1. /\ t.step = "profile_row" /\ Becomes(t, {}) /\ UNCHANGED <<contact, keyOf>>
        /\ profile' = [profile EXCEPT ![t.p] = t.m.key]
        /\ torn' = IF keyOf[t.p] # t.m.key THEN torn \union {t.p} ELSE torn
    BY <1>6 DEF ProfileRow
  <2>2. KeyTasks' = KeyTasks
    BY <2>1 DEF KeyTasks, Becomes
  <2>3. ASSUME NEW p \in People \ torn' PROVE KeyedAt(p, keyOf[p], contact[p], KeyTasks, profile'[p])
    <3>1. KeyedAt(p, keyOf[p], contact[p], KeyTasks, profile[p])
      BY <2>1, <2>3 DEF Keyed
    <3>2. p = t.p => keyOf[p] = t.m.key
      BY <2>1, <2>3
    <3> QED BY <1>0, <2>1, <3>1, <3>2 DEF KeyedAt
  <2> QED BY <2>1, <2>2, <2>3 DEF Keyed
<1>7. CASE ReadTimer(t) \/ UpsertRead(t) \/ SaveRow(t) \/ Sent(t) \/ ProfileFetched(t) \/ SaveCall(t)
  <2> DEFINE c == contact[t.p]
             x == [t EXCEPT !.step = "timer_save", !.local = [c EXCEPT !.timer = t.m.timer, !.version = t.m.version],
                            !.dirty = FALSE]
             y == [t EXCEPT !.step = "fetch", !.local = IF c.known THEN c ELSE Minimal, !.dirty = FALSE]
             z == [t EXCEPT !.step = "profile_key"]
  <2>1. /\ t.step # "key" /\ UNCHANGED <<contact, keyOf, profile, torn>>
        /\ \E next \in {{}, {x}, {y}, {z}, {Filing(t)}, {Saving(t)} \union Spawned(t)} : Becomes(t, next)
    BY <1>7 DEF ReadTimer, UpsertRead, SaveRow, Sent, ProfileFetched, SaveCall
  <2>2. x.step # "key" /\ y.step # "key" /\ z.step # "key"
    BY <1>0 DEF Task
  <2> HIDE DEF x, y, z
  <2>3. PICK next : Becomes(t, next) /\ \A v \in next : v.step # "key"
    BY <1>1, <2>1, <2>2
  <2>4. KeyTasks' = KeyTasks
    BY <2>1, <2>3 DEF KeyTasks, Becomes
  <2> QED BY <2>1, <2>4, KeyedQuiet
<1> QED BY <1>2, <1>3, <1>4, <1>5, <1>6, <1>7, <1>8 DEF Step

LEMMA KeyedNext ==
  ASSUME Sound, Copied, Keyed, [Next]_vars
  PROVE  Keyed'
<1>1. CASE Call
  <2>1. PICK new : UNCHANGED <<contact, keyOf, profile, torn>> /\ tasks' = tasks \union new
                   /\ \A v \in new : v \in Task /\ Fresh(v)
    BY <1>1, Begun
  <2>2. \A v \in new : v.step # "key"
    BY <2>1 DEF Fresh, Holders
  <2> QED BY <2>1, <2>2, KeyedQuiet DEF KeyTasks
<1>2. ASSUME NEW t \in tasks, Fails(t) PROVE Keyed'
  <2>1. UNCHANGED <<contact, keyOf, profile, torn>> /\ KeyTasks' = KeyTasks
    BY <1>2 DEF Fails, Becomes, KeyTasks
  <2> QED BY <2>1, KeyedQuiet
<1>3. CASE Crash
  <2>1. UNCHANGED <<contact, keyOf, profile>> /\ KeyTasks' = {} /\ torn' = torn \union {u.p : u \in KeyTasks}
    BY <1>3 DEF Crash, KeyTasks
  <2>2. ASSUME NEW p \in People \ torn' PROVE KeyedAt(p, keyOf[p], contact[p], {}, profile[p])
    <3>1. KeyedAt(p, keyOf[p], contact[p], KeyTasks, profile[p]) /\ ~ \E t \in KeyTasks : t.p = p
      BY <2>1, <2>2 DEF Keyed
    <3> QED BY <3>1 DEF KeyedAt
  <2> QED BY <2>1, <2>2 DEF Keyed
<1>4. CASE UNCHANGED vars
  BY <1>4, KeyedQuiet DEF vars, KeyTasks
<1> QED BY <1>1, <1>2, <1>3, <1>4, KeyedStep DEF Next

LEMMA KeyedAlways == Spec => [](Sound /\ Copied /\ Keyed)
<1>1. Init => Keyed
  BY DEF Init, Keyed, KeyedAt, KeyTasks
<1>2. Init => Sound /\ Copied /\ Keyed
  BY <1>1, InitSound, CopiedInit
<1>3. Sound /\ Copied /\ Keyed /\ [Next]_vars => (Sound /\ Copied /\ Keyed)'
  BY NextSound, CopiedNext, KeyedNext
<1> QED BY <1>2, <1>3, PTL DEF Spec

(* The contact's row and the key table agree once the upserts of a contact *)
(* whose procedures never overlapped are done, in whatever order its keys  *)
(* came in (upsert_contact_from_profile).                                  *)
THEOREM KeysAgreed == Spec => []KeysAgree
<1>1. Keyed => KeysAgree
  BY DEF Keyed, KeyedAt, KeyTasks, KeysAgree
<1> QED BY <1>1, KeyedAlways, PTL

(* A cached profile is never served under another key than the one it was  *)
(* read with (upsert_profile_key, save_profile).                           *)
THEOREM ProfilesAreKeys == Spec => []ProfileIsKeys
<1>1. Keyed => ProfileIsKeys
  BY DEF Keyed, KeyedAt, ProfileIsKeys
<1> QED BY <1>1, KeyedAlways, PTL

(***************************************************************************)
(* Calls.  An entry about to be saved follows from the stored one by its   *)
(* event, as long as the events of its call were merged one at a time.     *)
(***************************************************************************)
OneMode(e) ==
  /\ e.mode = "direct" => e.status \notin {"generic", "joined"}
  /\ e.mode = "group" => e.status \notin {"accepted", "pending"}

Told(entry, kinds) ==
  /\ entry.status = "deleted" <=> "delete" \in kinds
  /\ entry.status \in {"accepted", "joined"} <=> "accepted" \in kinds /\ "delete" \notin kinds

MergeOK(t) ==
  /\ OneMode(t.entry)
  /\ heard[t.call].whole => \E e \in Event : t.kind = e.kind /\ t.entry = Transition(calls[t.call], e)

Merged ==
  /\ \A c \in Calls : OneMode(calls[c]) /\ (heard[c].whole => Told(calls[c], heard[c].kinds))
  /\ \A t \in tasks : t.step = "merge" => MergeOK(t)

LEMMA TransitionModes ==
  ASSUME NEW prev \in CallEntry, OneMode(prev), NEW e \in Event
  PROVE  OneMode(Transition(prev, e))
<1>1. e.mode \in Modes
  BY DEF Event
<1> QED BY <1>1 DEF OneMode, Transition, DirectStatus, GroupStatus, Prior, CallEntry, Statuses, Modes

(* One event more, merged into what was told before.                       *)
LEMMA TransitionTold ==
  ASSUME NEW prev \in CallEntry, OneMode(prev), NEW e \in Event, NEW kinds \in SUBSET Kinds, Told(prev, kinds),
         prev.status # "none" => prev.mode = Transition(prev, e).mode
  PROVE  Told(Transition(prev, e), kinds \union {e.kind})
<1> DEFINE next == Transition(prev, e)
<1>1. e.mode \in Modes /\ e.kind \in Kinds /\ prev.status \in Statuses /\ prev.mode \in Modes
  BY DEF Event, CallEntry
<1>2. Prior(prev, e) = prev.status
  BY <1>1 DEF Prior, Transition
<1>3. /\ next.status = "deleted" <=> e.kind = "delete" \/ prev.status = "deleted"
      /\ next.status \in {"accepted", "joined"} <=>
           e.kind # "delete" /\ prev.status # "deleted" /\ (e.kind = "accepted" \/ prev.status \in {"accepted", "joined"})
  <2>1. CASE e.mode = "direct"
    <3>1. next.status = DirectStatus(prev, e) /\ prev.status # "joined"
      BY <1>1, <2>1 DEF Transition, OneMode, Modes, Statuses, Prior
    <3>2. CASE e.kind = "delete" \/ prev.status = "deleted"
      BY <1>2, <3>1, <3>2 DEF DirectStatus
    <3>3. CASE e.kind # "delete" /\ prev.status # "deleted" /\ (e.kind = "accepted" \/ prev.status = "accepted")
      BY <1>2, <3>1, <3>3 DEF DirectStatus
    <3>4. CASE e.kind # "delete" /\ prev.status # "deleted" /\ e.kind # "accepted" /\ prev.status # "accepted"
      <4>1. next.status \notin {"deleted", "accepted", "joined"}
        BY <1>2, <3>1, <3>4 DEF DirectStatus
      <4> QED BY <3>1, <3>4, <4>1
    <3> QED BY <3>2, <3>3, <3>4
  <2>2. CASE e.mode = "group"
    <3>1. next.status = GroupStatus(prev, e) /\ prev.status # "accepted"
      BY <1>1, <2>2 DEF Transition, OneMode, Modes, Statuses, Prior
    <3>2. CASE e.kind = "delete" \/ prev.status = "deleted"
      BY <1>2, <3>1, <3>2 DEF GroupStatus
    <3>3. CASE e.kind # "delete" /\ prev.status # "deleted" /\ (e.kind = "accepted" \/ prev.status = "joined")
      BY <1>2, <3>1, <3>3 DEF GroupStatus
    <3>4. CASE e.kind # "delete" /\ prev.status # "deleted" /\ e.kind # "accepted" /\ prev.status # "joined"
      <4>1. next.status \notin {"deleted", "accepted", "joined"}
        BY <1>2, <3>1, <3>4 DEF GroupStatus
      <4> QED BY <3>1, <3>4, <4>1
    <3> QED BY <3>2, <3>3, <3>4
  <2> QED BY <1>1, <2>1, <2>2 DEF Modes
<1> HIDE DEF next
<1>4. Told(next, kinds \union {e.kind})
  BY <1>1, <1>3 DEF Told
<1> QED BY <1>4 DEF next

LEMMA MergedQuiet ==
  ASSUME Merged, UNCHANGED <<calls, heard>>, \A v \in tasks' : v \in tasks \/ v.step # "merge" \/ MergeOK(v)
  PROVE  Merged'
BY DEF Merged, MergeOK

LEMMA MergedStep ==
  ASSUME Sound, Merged, NEW t \in tasks, SaveCall(t)
  PROVE  Merged'
<1> DEFINE c == t.call
           alone == ~ \E u \in tasks \ {t} : u.step = "merge" /\ u.call = c
           whole == heard[c].whole /\ alone /\ (calls[c].status # "none" => calls[c].mode = t.entry.mode)
<1>1. /\ t.step = "merge" /\ tasks' = tasks \ {t} /\ calls' = [calls EXCEPT ![c] = t.entry]
      /\ heard' = [heard EXCEPT ![c] = [kinds |-> heard[c].kinds \union {t.kind}, whole |-> whole]]
  BY DEF SaveCall, Becomes
<1>2. /\ c \in Calls /\ t.entry \in CallEntry /\ calls \in [Calls -> CallEntry]
      /\ heard \in [Calls -> [kinds : SUBSET Kinds, whole : BOOLEAN]]
      /\ \A u \in tasks : u.call \in Calls
  BY TaskTypes DEF Sound, Tasked, Tables
<1>3. calls'[c] = t.entry /\ heard'[c].whole = whole /\ heard'[c].kinds = heard[c].kinds \union {t.kind}
      /\ \A d \in Calls \ {c} : calls'[d] = calls[d] /\ heard'[d] = heard[d]
  BY <1>1, <1>2
<1>4. MergeOK(t)
  BY <1>1 DEF Merged
<1>5. ASSUME whole PROVE Told(t.entry, heard[c].kinds \union {t.kind})
  <2>1. PICK e \in Event : t.kind = e.kind /\ t.entry = Transition(calls[c], e)
    BY <1>4, <1>5 DEF MergeOK
  <2>2. calls[c] \in CallEntry /\ OneMode(calls[c]) /\ Told(calls[c], heard[c].kinds) /\ heard[c].kinds \in SUBSET Kinds
    BY <1>2, <1>5 DEF Merged
  <2>3. calls[c].status # "none" => calls[c].mode = Transition(calls[c], e).mode
    BY <1>5, <2>1
  <2> HIDE DEF whole, alone, c
  <2> QED BY <2>1, <2>2, <2>3, TransitionTold
<1>6. ASSUME NEW d \in Calls PROVE OneMode(calls'[d]) /\ (heard'[d].whole => Told(calls'[d], heard'[d].kinds))
  <2>1. CASE d = c
    BY <1>3, <1>4, <1>5, <2>1 DEF MergeOK
  <2>2. CASE d # c
    BY <1>3, <2>2 DEF Merged
  <2> QED BY <2>1, <2>2
<1>7. ASSUME NEW u \in tasks', u.step = "merge" PROVE MergeOK(u)'
  <2>1. u \in tasks \ {t} /\ MergeOK(u) /\ u.call \in Calls
    BY <1>1, <1>2, <1>7 DEF Merged
  <2>2. CASE u.call = c
    BY <1>3, <1>7, <2>1, <2>2 DEF MergeOK
  <2>3. CASE u.call # c
    BY <1>3, <2>1, <2>3 DEF MergeOK
  <2> QED BY <2>2, <2>3
<1> QED BY <1>6, <1>7 DEF Merged

LEMMA MergedNext ==
  ASSUME Sound, Merged, [Next]_vars
  PROVE  Merged'
<1>1. CASE Call
  <2>1. PICK new : UNCHANGED <<calls, heard>> /\ tasks' = tasks \union new /\ \A v \in new : v \in Task /\ Fresh(v)
    BY <1>1, Begun
  <2>2. ASSUME NEW v \in new, v.step = "merge" PROVE MergeOK(v)
    <3>1. PICK e \in Event : v.kind = e.kind /\ v.entry = Transition(calls[v.call], e)
      BY <2>1, <2>2 DEF Fresh, Holders
    <3>2. calls[v.call] \in CallEntry /\ OneMode(calls[v.call])
      BY <2>1, TaskTypes DEF Sound, Tables, Merged
    <3> QED BY <3>1, <3>2, TransitionModes DEF MergeOK
  <2> QED BY <2>1, <2>2, MergedQuiet
<1>2. ASSUME NEW t \in tasks, Step(t), ~ SaveCall(t) PROVE Merged'
  <2>0. t \in Task /\ spent \in [ops : Nat, faults : Nat]
    BY DEF Sound, Tasked, Tables
  <2>1. UNCHANGED <<calls, heard>>
    BY <1>2 DEF Step, ReadTimer, SaveTimer, SaveRow, Sent, UpsertRead, UpsertSave, UpsertKey, SaveEdit, SaveRecord,
                ProfileFetched, ProfileKey, ProfileRow
  <2> DEFINE c == contact[t.p]
             w == [t EXCEPT !.step = "timer_save", !.local = [c EXCEPT !.timer = t.m.timer, !.version = t.m.version],
                            !.dirty = FALSE]
             x == [t EXCEPT !.step = "fetch", !.local = IF c.known THEN c ELSE Minimal, !.dirty = FALSE]
             y == [t EXCEPT !.step = "profile_key"]
             z == [t EXCEPT !.step = "profile_row"]
             k == [t EXCEPT !.step = "key", !.local = NoContact, !.dirty = FALSE, !.m.timer = 0, !.m.version = 0]
             l == [t EXCEPT !.step = "key", !.local = NoContact, !.dirty = FALSE]
  <2>2. \E next \in {{}, {w}, {x}, {y}, {z}, {k}, {l}, {Filing(t)}, {Saving(t)} \union Spawned(t)} :
          Becomes(t, next) \/ \E d : SaveContact(t, d, next)
    BY <1>2 DEF Step, ReadTimer, SaveTimer, SaveRow, Sent, UpsertRead, UpsertSave, UpsertKey, SaveEdit, SaveRecord,
                ProfileFetched, ProfileKey, ProfileRow
  <2>3. w.step # "merge" /\ x.step # "merge" /\ y.step # "merge" /\ z.step # "merge" /\ k.step # "merge"
        /\ l.step # "merge"
        /\ \A v \in {Filing(t), Saving(t)} \union Spawned(t) : v.step # "merge"
    BY <2>0, FilingType, SavingType, SpawnedType DEF Task
  <2> HIDE DEF w, x, y, z, k, l
  <2>4. PICK next : (Becomes(t, next) \/ \E d : SaveContact(t, d, next)) /\ \A v \in next : v.step # "merge"
    BY <2>2, <2>3
  <2>5. ASSUME NEW d, NEW u \in tasks PROVE Outdated(t, d, u) = u \/ Outdated(t, d, u).step # "merge"
    BY OutdatedType DEF Sound, Tasked, Outdated
  <2>6. \A v \in tasks' : v \in tasks \/ v.step # "merge"
    BY <2>4, <2>5 DEF Becomes, SaveContact
  <2> QED BY <2>1, <2>6, MergedQuiet
<1>3. CASE (\E t \in tasks : Fails(t)) \/ Crash \/ UNCHANGED vars
  <2>1. UNCHANGED <<calls, heard>> /\ \A v \in tasks' : v \in tasks
    BY <1>3 DEF Fails, Becomes, Crash, vars
  <2> QED BY <2>1, MergedQuiet
<1> QED BY <1>1, <1>2, <1>3, MergedStep DEF Next

(* However the events of a call are ordered or repeated, an accepted call  *)
(* stays accepted and a deleted one deleted (transition_direct,            *)
(* transition_group).                                                      *)
THEOREM CallsKept == Spec => []CallOutcome
<1>1. Init => Merged
  BY DEF Init, Merged, OneMode, Told, NoCall
<1>2. Merged => CallOutcome
  BY DEF Merged, Told, CallOutcome
<1> QED BY <1>1, <1>2, InitSound, NextSound, MergedNext, PTL DEF Spec

(***************************************************************************)
(* Messages                                                                *)
(***************************************************************************)
(* A stored message gives way only to one of its own thread and time, or   *)
(* to the application's own deletion (save_message).                       *)
THEOREM MessagesKept == Spec => MessagesStay
<1>1. ASSUME Sound, [Next]_vars, NEW th \in Threads, NEW at \in Times, rows'[<<th, at>>] # rows[<<th, at>>]
      PROVE  \/ rows'[<<th, at>>].thread = th /\ rows'[<<th, at>>].at = at
             \/ rows'[<<th, at>>] = NoRow /\ tasks' = tasks
  <2>0. DOMAIN rows = Threads \X Times
    BY <1>1 DEF Sound, Tables
  <2>1. rows'[<<th, at>>] # rows[<<th, at>>]
    BY <1>1, Zenon
  <2>2. CASE Call
    <3>1. PICK who, ats : Forget(who, ats)
      BY <1>1, <2>2 DEF Call, Receive, BeginSend, BeginEdit, BeginMerge, BeginProfile, BeginCall
    <3>2. tasks' = tasks
      BY <3>1 DEF Forget, Start
    <3>3. rows'[<<th, at>>] = rows[<<th, at>>] \/ rows'[<<th, at>>] = NoRow
      <4> DEFINE place == <<th, at>>
      <4>1. place \in DOMAIN rows
        BY <2>0
      <4>2. rows' = [k \in DOMAIN rows |-> IF k[1] = who /\ k[2] \in ats THEN NoRow ELSE rows[k]]
        BY <3>1 DEF Forget
      <4> HIDE DEF place
      <4>3. rows'[place] = rows[place] \/ rows'[place] = NoRow
        BY <4>1, <4>2
      <4> QED BY <4>3 DEF place
    <3> QED BY <2>1, <3>2, <3>3, Zenon
  <2>3. ASSUME NEW t \in tasks, Step(t) PROVE rows'[<<th, at>>].thread = th /\ rows'[<<th, at>>].at = at
    <3>1. rows' = [rows EXCEPT ![<<t.m.thread, t.m.at>>] = Row(t.m)]
      BY <1>1, <2>3 DEF Step, ReadTimer, SaveTimer, SaveRow, Sent, UpsertRead, UpsertSave, UpsertKey, SaveEdit, SaveRecord,
                        ProfileFetched, ProfileKey, ProfileRow, SaveCall, RowOf
    <3> QED BY <1>1, <2>0, <3>1 DEF Row
  <2>4. CASE (\E t \in tasks : Fails(t)) \/ Crash \/ UNCHANGED vars
    BY <1>1, <2>4 DEF Fails, Crash, vars
  <2> QED BY <1>1, <2>2, <2>3, <2>4 DEF Next
<1>2. Sound /\ [Next]_vars =>
        [\A th \in Threads, at \in Times :
           LET k == <<th, at>> IN
           rows'[k] # rows[k] =>
             \/ rows'[k].thread = th /\ rows'[k].at = at
             \/ rows'[k] = NoRow /\ tasks' = tasks]_vars
  BY <1>1
<1> QED BY <1>2, InitSound, NextSound, PTL DEF Spec, MessagesStay
=============================================================================
