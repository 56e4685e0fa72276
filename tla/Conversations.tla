--------------------------- MODULE Conversations ---------------------------
(***************************************************************************)
(* Messages on their way into the store, and what they change there        *)
(* (presage/src/manager/registered.rs, presage/src/store.rs and            *)
(* presage-store-sqlite/src/content.rs): the rows of a conversation, the   *)
(* contact they come from, its disappearing-message timer, its profile key *)
(* and the call log.                                                       *)
(*                                                                         *)
(* The receive loop takes one envelope at a time.  Beside it run the       *)
(* application's own calls and the profile upserts that save_message       *)
(* spawns and nobody waits for.  All of them read a row, await something   *)
(* and write the whole row back; a task is one such procedure and `step`   *)
(* the await it is at.                                                     *)
(*                                                                         *)
(* A version of 0 stands for a message that carries none: a version that   *)
(* low is refused wherever a missing one is.                               *)
(***************************************************************************)
EXTENDS CallHistory, Naturals, FiniteSets

CONSTANTS
  Peers, Me, Group,   \* the people who write, and one group thread
  PeerKeys, OwnKey, NoKey, \* profile keys
  Timers, Versions,   \* expire_timer and expire_timer_version in messages
  Times,              \* the times messages are sent at
  Calls,              \* call ids
  MaxOps, MaxIngests, MaxFaults \* bounds on the environment

People == Peers \union {Me}
Threads == People \union {Group}
Keys == PeerKeys \union {OwnKey}
DefaultVersion == 2 \* default_expire_timer_version

ASSUME ConversationsAssumption ==
  /\ Me \notin Peers /\ Group \notin People /\ NoKey \notin Keys /\ OwnKey \notin PeerKeys
  /\ Timers \subseteq Nat /\ Versions \subseteq Nat /\ Times \subseteq Nat \ {0}
  /\ 0 \in Timers /\ 0 \in Versions /\ Times # {} /\ Calls # {}
  /\ MaxOps \in Nat /\ MaxIngests \in Nat /\ MaxFaults \in Nat

VARIABLES
  contact,  \* the contacts table
  keyOf,    \* the profile_keys table
  profile,  \* the profiles table: the key each cached profile was read with
  rows,     \* the messages of each thread
  calls,    \* the call_history table
  tasks,    \* the procedures in progress
  spent,    \* what the environment has used of its bounds
  torn,     \* whose tables a crash or an overlap left apart
  heard     \* what has been merged of each call, and whether in one piece

vars == <<contact, keyOf, profile, rows, calls, tasks, spent, torn, heard>>

(***************************************************************************)
(* Data                                                                    *)
(***************************************************************************)
Contact == [known : BOOLEAN, blocked : BOOLEAN, key : Keys \union {NoKey}, timer : Timers, version : Nat]
NoContact == [known |-> FALSE, blocked |-> FALSE, key |-> NoKey, timer |-> 0, version |-> DefaultVersion]
Minimal == [NoContact EXCEPT !.known = TRUE]

(* A message: `data` carries a body, a timer and a profile key; `edit` and *)
(* `delete` name an earlier one; `plain` is stored as it is (null          *)
(* messages, receipts, call events); anything else is not stored.          *)
MessageKinds == {"none", "data", "edit", "delete", "plain", "other"}
Message == [kind : MessageKinds, from : People, thread : Threads,
            at : Times \union {0}, target : Times \union {0}, key : Keys \union {NoKey}, timer : Timers, version : Nat]
NoMessage == [kind |-> "none", from |-> Me, thread |-> Group, at |-> 0, target |-> 0,
              key |-> NoKey, timer |-> 0, version |-> 0]
Written(p) == [NoMessage EXCEPT !.from = p, !.key = IF p = Me THEN OwnKey ELSE NoKey]

(* Where a person's messages are filed: a peer writes to us or to the      *)
(* group; another device of ours writes to anybody, ourselves included.    *)
ThreadsOf(p) == IF p = Me THEN Threads ELSE {p, Group}

(* What arrives: a body with any timer and key, or one of the other kinds. *)
(* A message's time matters to the rows alone, so bodies share one.        *)
First == CHOOSE at \in Times : \A other \in Times : at <= other
Carried(p) == IF p = Me THEN {OwnKey} ELSE PeerKeys \union {NoKey}
Body(p, th, k, d, v) ==
  [Written(p) EXCEPT !.kind = "data", !.thread = th, !.at = First, !.key = k, !.timer = d, !.version = v]
Note(kind, p, th, at, to) ==
  [NoMessage EXCEPT !.kind = kind, !.from = p, !.thread = th, !.at = at, !.target = to]
Bodies(p) == {Body(p, th, k, d, v) : th \in ThreadsOf(p), k \in Carried(p), d \in Timers, v \in Versions}
Others(p) ==
  {Note("plain", p, th, at, 0) : th \in ThreadsOf(p), at \in Times}
  \union {Note("edit", p, th, at, to) : th \in ThreadsOf(p), at \in Times, to \in Times}
  \union {Note(kind, p, p, First, First) : kind \in {"delete", "other"}}

(* The account's own call events: a thread is found for the peer or group  *)
(* of the call, or our own when the group is not known here.               *)
CallRows == {Note("plain", Me, th, First, 0) : th \in Threads}
Incoming == (UNION {Bodies(p) : p \in People}) \union (UNION {Others(p) : p \in People}) \union CallRows

Task == [id : Nat, op : {"receive", "send", "upsert", "edit", "sync", "profile", "call"},
         step : {"timer", "timer_save", "row", "wire", "read", "fetch", "key", "flag", "record", "profile",
                 "profile_key", "profile_row", "merge"},
         m : Message, p : People, local : Contact, dirty : BOOLEAN,
         call : Calls, entry : CallEntry, kind : Kinds]

(* What a row tells apart.                                                 *)
Row(m) == [kind |-> m.kind, from |-> m.from, thread |-> m.thread, at |-> m.at]
NoRow == Row(NoMessage)
AnyCall == CHOOSE c \in Calls : TRUE
NewTask(op, step, p) ==
  [id |-> spent.ops + 1, op |-> op, step |-> step, m |-> NoMessage, p |-> p, local |-> NoContact, dirty |-> FALSE,
   call |-> AnyCall, entry |-> NoCall, kind |-> "other"]

Init ==
  /\ contact \in [People -> {NoContact, Minimal} \union {[Minimal EXCEPT !.key = k] : k \in Keys}]
  /\ keyOf = [p \in People |-> contact[p].key]
  /\ profile = [p \in People |-> NoKey]
  /\ \A p \in People : contact[p].key \in {NoKey, CHOOSE k \in PeerKeys : TRUE}
  /\ contact[Me] = NoContact
  /\ rows = [k \in Threads \X Times |-> NoRow]
  /\ calls = [c \in Calls |-> NoCall]
  /\ tasks = {}
  /\ spent = [ops |-> 0, faults |-> 0]
  /\ torn = {}
  /\ heard = [c \in Calls |-> [kinds |-> {}, whole |-> TRUE]]

(***************************************************************************)
(* Tasks                                                                   *)
(***************************************************************************)
(* Weighed so that three events of a call, or a message and its deletion,  *)
(* fit where two messages do.                                              *)
Start(weight, new) ==
  /\ spent.ops + weight <= MaxOps
  /\ spent' = [spent EXCEPT !.ops = @ + weight]
  /\ tasks' = tasks \union new

Becomes(t, next) == tasks' = (tasks \ {t}) \union next
Fault == spent.faults < MaxFaults /\ spent' = [spent EXCEPT !.faults = @ + 1]

(* save_contact replaces the whole row, so a copy another task holds is    *)
(* out of date from now on, and what it holds newer is lost when that copy *)
(* is saved in turn.                                                       *)
Outdated(t, c, u) ==
  IF u.p = t.p /\ u.step \in {"timer_save", "fetch", "flag", "record"} /\ c # contact[t.p]
  THEN [u EXCEPT !.dirty = TRUE] ELSE u
SaveContact(t, c, next) ==
  /\ contact' = [contact EXCEPT ![t.p] = c]
  /\ tasks' = {Outdated(t, c, u) : u \in tasks \ {t}} \union next

(***************************************************************************)
(* save_message                                                            *)
(***************************************************************************)
(* A body that carries a profile key has its sender's contact looked after *)
(* in the background.                                                      *)
Spawned(t) == IF t.m.kind \in {"data", "delete"} /\ t.m.key # NoKey
              THEN {[NewTask("upsert", "read", t.m.from) EXCEPT !.id = t.id,
                       !.m = [NoMessage EXCEPT !.key = t.m.key, !.timer = t.m.timer, !.version = t.m.version]]}
              ELSE {}

(* What is left to do once the timer is settled.                           *)
Filing(t) == [t EXCEPT !.step = "row", !.p = Me, !.local = NoContact, !.dirty = FALSE,
                       !.m.key = NoKey, !.m.timer = 0, !.m.version = 0]

(* The timer is only looked at for a contact's own thread.                 *)
Saving(t) == IF t.m.kind \in {"data", "delete"} /\ t.m.thread # Group
             THEN [t EXCEPT !.step = "timer", !.p = t.m.thread] ELSE Filing(t)

(* Faulty: the next envelope is taken while one is being saved.            *)
ReceiveAtOnce(m) ==
  LET t == [NewTask("receive", "row", m.from) EXCEPT !.m = m] IN
  /\ Start(3, {Saving(t)} \union Spawned(t))
  /\ UNCHANGED <<contact, keyOf, profile, rows, calls, torn, heard>>

(* One envelope at a time.                                                 *)
Receive(m) ==
  LET t == [NewTask("receive", "row", m.from) EXCEPT !.m = m] IN
  /\ ~ \E u \in tasks : u.op = "receive"
  /\ Start(3, {Saving(t)} \union Spawned(t))
  /\ UNCHANGED <<contact, keyOf, profile, rows, calls, torn, heard>>

(* update_expire_timer's rule, with save_message's default of 1.           *)
Newer(m, c) == (IF m.version = 0 THEN 1 ELSE m.version) > c.version

ReadTimer(t) ==
  /\ t.step = "timer"
  /\ LET c == contact[t.p] IN
     Becomes(t, {IF c.known /\ Newer(t.m, c)
                 THEN [t EXCEPT !.step = "timer_save", !.local = [c EXCEPT !.timer = t.m.timer, !.version = t.m.version],
                                !.dirty = FALSE]
                 ELSE Filing(t)})
  /\ UNCHANGED <<contact, keyOf, profile, rows, calls, spent, torn, heard>>

SaveTimer(t) ==
  /\ t.step = "timer_save"
  /\ SaveContact(t, t.local, {Filing(t)})
  /\ torn' = IF t.dirty THEN torn \union {t.p} ELSE torn
  /\ UNCHANGED <<keyOf, profile, rows, calls, spent, heard>>

(* Faulty: an edit keeps the time of the message it edits.                 *)
RowOfTarget(m) == IF m.kind = "edit" THEN <<m.thread, m.target>> ELSE <<m.thread, m.at>>

(* An edit is stored under its own time, beside what it edits.             *)
RowOf(m) == <<m.thread, m.at>>

(* A delete and an edit of a message that is not there store nothing.      *)
Stored(m) == \/ m.kind \in {"data", "plain"}
             \/ m.kind = "edit" /\ rows[<<m.thread, m.target>>] # NoRow

SaveRow(t) ==
  /\ t.step = "row"
  /\ rows' = IF Stored(t.m) THEN [rows EXCEPT ![RowOf(t.m)] = Row(t.m)] ELSE rows
  /\ Becomes(t, {})
  /\ UNCHANGED <<contact, keyOf, profile, calls, spent, torn, heard>>

(***************************************************************************)
(* Sending: send_message and send_message_to_group                         *)
(***************************************************************************)
(* restore_thread_timer: a message that sets no timer carries the stored   *)
(* one, and one that sets it carries the next version.  A group's timer    *)
(* always has version 1.                                                   *)
Restored(m, timer, version) ==
  {[m EXCEPT !.timer = timer, !.version = version]}
  \union {[m EXCEPT !.timer = d, !.version = version + 1] : d \in Timers}

Sends(to) ==
  LET m == [Written(Me) EXCEPT !.kind = "data", !.thread = to, !.at = First]
      c == contact[to]
  IN IF to = Group THEN UNION {Restored(m, d, 1) : d \in Timers}
     ELSE Restored(m, c.timer, IF c.known THEN c.version ELSE 0)

BeginSend(m) ==
  /\ Start(3, {[NewTask("send", "wire", Me) EXCEPT !.m = m]})
  /\ UNCHANGED <<contact, keyOf, profile, rows, calls, torn, heard>>

Sent(t) ==
  /\ t.step = "wire"
  /\ Becomes(t, {Saving(t)} \union Spawned(t))
  /\ UNCHANGED <<contact, keyOf, profile, rows, calls, spent, torn, heard>>

(***************************************************************************)
(* The profile upsert                                                      *)
(***************************************************************************)
(* A contact is left alone when the key table already holds this key.      *)
UpsertRead(t) ==
  /\ t.step = "read"
  /\ LET c == contact[t.p] IN
     Becomes(t, IF c.known /\ keyOf[t.p] = t.m.key THEN {}
                ELSE {[t EXCEPT !.step = "fetch", !.local = IF c.known THEN c ELSE Minimal, !.dirty = FALSE]})
  /\ UNCHANGED <<contact, keyOf, profile, rows, calls, spent, torn, heard>>

(* Faulty: a missing version is taken for the first.                       *)
VersionDefaulted(m, stored) == IF m.version = 0 THEN 1 ELSE IF m.version > stored THEN m.version ELSE stored

(* merged_expire_timer_version.                                            *)
MergedVersion(m, stored) == IF m.version > stored THEN m.version ELSE stored

(* Faulty: the contact is always built afresh.                             *)
UpsertedAfresh(t) ==
  [Minimal EXCEPT !.key = t.m.key, !.timer = t.m.timer, !.version = MergedVersion(t.m, t.local.version)]

(* The row read before the fetch, with the message's key and timer,        *)
(* whatever thread the message belongs to and whatever its version.        *)
Upserted(t) ==
  [t.local EXCEPT !.key = t.m.key, !.timer = t.m.timer, !.version = MergedVersion(t.m, t.local.version)]

UpsertSave(t) ==
  /\ t.step = "fetch"
  /\ SaveContact(t, Upserted(t), {[t EXCEPT !.step = "key", !.local = NoContact, !.dirty = FALSE,
                                         !.m.timer = 0, !.m.version = 0]})
  /\ torn' = IF \E u \in tasks \ {t} : u.p = t.p /\ u.step = "key" THEN torn \union {t.p} ELSE torn
  /\ UNCHANGED <<keyOf, profile, rows, calls, spent, heard>>

(* Faulty: the row is updated in place, and the old key's profile stays.   *)
SetKeyAlone(p, k) == keyOf' = [keyOf EXCEPT ![p] = k] /\ UNCHANGED profile

(* Replacing a key drops the profile that was read with the old one (the   *)
(* row is deleted and inserted again, and profiles cascade).               *)
SetKey(p, k) == keyOf' = [keyOf EXCEPT ![p] = k] /\ profile' = [profile EXCEPT ![p] = NoKey]

(* An upsert that ran alone brings the tables back together.               *)
Mends(t) == /\ contact[t.p].key = t.m.key
            /\ ~ \E u \in tasks \ {t} : u.p = t.p /\ u.step \in {"key", "profile_row"}

(* Faulty: the key table is only written for somebody new.                 *)
UpsertKeyOfNew(t) ==
  /\ t.step = "key"
  /\ IF keyOf[t.p] = NoKey THEN SetKey(t.p, t.m.key) ELSE UNCHANGED <<keyOf, profile>>
  /\ Becomes(t, {})
  /\ UNCHANGED <<contact, rows, calls, spent, torn, heard>>

UpsertKey(t) ==
  /\ t.step = "key"
  /\ SetKey(t.p, t.m.key)
  /\ torn' = IF Mends(t) THEN torn \ {t.p} ELSE torn
  /\ Becomes(t, {})
  /\ UNCHANGED <<contact, rows, calls, spent, heard>>

(***************************************************************************)
(* The application's own calls                                             *)
(***************************************************************************)
(* edit_contact_for_publish, with blocking as the edit.                    *)
BeginEdit(p, blocked) ==
  /\ p \in Peers
  /\ LET c == IF contact[p].known THEN contact[p] ELSE Minimal IN
     Start(3, {[NewTask("edit", "flag", p) EXCEPT !.local = [c EXCEPT !.blocked = blocked]]})
  /\ UNCHANGED <<contact, keyOf, profile, rows, calls, torn, heard>>

SaveEdit(t) ==
  /\ t.step = "flag"
  /\ SaveContact(t, t.local, {})
  /\ torn' = IF t.dirty THEN torn \union {t.p} ELSE torn
  /\ UNCHANGED <<keyOf, profile, rows, calls, spent, heard>>

(* The storage sync, or an import, merges a record into a contact: its     *)
(* timer stays, a record without a key leaves the stored one, and the      *)
(* block is the record's or a change here that is still to be published.   *)
BeginMerge(p, blocked, key) ==
  /\ p \in Peers
  /\ LET c == IF contact[p].known THEN contact[p] ELSE Minimal
         k == IF key = NoKey THEN c.key ELSE key
     IN Start(3, {[NewTask("sync", "record", p) EXCEPT !.local = [c EXCEPT !.blocked = blocked, !.key = k],
                                                      !.m = [NoMessage EXCEPT !.key = k]]})
  /\ UNCHANGED <<contact, keyOf, profile, rows, calls, torn, heard>>

(* The key table follows the row, when the row has a key.                  *)
SaveRecord(t) ==
  /\ t.step = "record"
  /\ SaveContact(t, t.local, IF t.m.key = NoKey THEN {}
                             ELSE {[t EXCEPT !.step = "key", !.local = NoContact, !.dirty = FALSE]})
  /\ torn' = IF (t.m.key = NoKey /\ t.dirty) \/ (\E u \in tasks \ {t} : u.p = t.p /\ u.step = "key")
             THEN torn \union {t.p} ELSE torn
  /\ UNCHANGED <<keyOf, profile, rows, calls, spent, heard>>

(* delete_message and clear_thread: the application deletes rows itself.   *)
Forget(th, ats) ==
  /\ \E at \in ats : rows[<<th, at>>] # NoRow
  /\ Start(1, {})
  /\ rows' = [k \in DOMAIN rows |-> IF k[1] = th /\ k[2] \in ats THEN NoRow ELSE rows[k]]
  /\ UNCHANGED <<contact, keyOf, profile, calls, torn, heard>>

(* retrieve_profile_by_uuid, with the key the application knows.           *)
BeginProfile(p) ==
  /\ keyOf[p] # NoKey
  /\ Start(3, {[NewTask("profile", "profile", p) EXCEPT !.m = [NoMessage EXCEPT !.key = keyOf[p]]]})
  /\ UNCHANGED <<contact, keyOf, profile, rows, calls, torn, heard>>

ProfileFetched(t) ==
  /\ t.step = "profile"
  /\ Becomes(t, {[t EXCEPT !.step = "profile_key"]})
  /\ UNCHANGED <<contact, keyOf, profile, rows, calls, spent, torn, heard>>

(* save_profile: the key as it was asked with, then the profile.  A key    *)
(* that changed during the fetch is put back.                              *)
ProfileKey(t) ==
  /\ t.step = "profile_key"
  /\ SetKey(t.p, t.m.key)
  /\ torn' = IF keyOf[t.p] # t.m.key \/ contact[t.p].key # t.m.key \/ \E u \in tasks : u.p = t.p /\ u.step = "key"
             THEN torn \union {t.p} ELSE torn
  /\ Becomes(t, {[t EXCEPT !.step = "profile_row"]})
  /\ UNCHANGED <<contact, rows, calls, spent, heard>>

ProfileRow(t) ==
  /\ t.step = "profile_row"
  /\ profile' = [profile EXCEPT ![t.p] = t.m.key]
  /\ torn' = IF keyOf[t.p] # t.m.key THEN torn \union {t.p} ELSE torn
  /\ Becomes(t, {})
  /\ UNCHANGED <<contact, keyOf, rows, calls, spent, heard>>

(* ingest_call_event: the entry is merged from what was read, and saved.   *)
BeginCall(c, e) ==
  /\ Cardinality({t \in tasks : t.op = "call"}) < MaxIngests
  /\ Start(2, {[NewTask("call", "merge", Me) EXCEPT !.call = c, !.entry = Transition(calls[c], e), !.kind = e.kind]})
  /\ UNCHANGED <<contact, keyOf, profile, rows, calls, torn, heard>>

SaveCall(t) ==
  /\ t.step = "merge"
  /\ calls' = [calls EXCEPT ![t.call] = t.entry]
  /\ heard' = [heard EXCEPT ![t.call] =
                 [kinds |-> @.kinds \union {t.kind},
                  whole |-> @.whole /\ (~ \E u \in tasks \ {t} : u.step = "merge" /\ u.call = t.call)
                            /\ (calls[t.call].status # "none" => calls[t.call].mode = t.entry.mode)]]
  /\ Becomes(t, {})
  /\ UNCHANGED <<contact, keyOf, profile, rows, spent, torn>>

(***************************************************************************)
(* Failures                                                                *)
(***************************************************************************)
(* What the network does not answer ends its task: a message not known to  *)
(* be sent is not stored, and a contact not fetched is tried again with    *)
(* the next message.                                                       *)
Fails(t) ==
  /\ t.step \in {"wire", "fetch", "profile"} /\ Fault
  /\ Becomes(t, {})
  /\ UNCHANGED <<contact, keyOf, profile, rows, calls, torn, heard>>

(* The process stops: envelopes are acknowledged when they are taken, so   *)
(* what was being saved is gone.                                           *)
Crash ==
  /\ tasks # {} /\ Fault
  /\ tasks' = {}
  /\ torn' = torn \union {u.p : u \in {v \in tasks : v.step = "key"}}
  /\ UNCHANGED <<contact, keyOf, profile, rows, calls, heard>>

(***************************************************************************)
(* Specification                                                           *)
(***************************************************************************)
Step(t) ==
  \/ ReadTimer(t) \/ SaveTimer(t) \/ SaveRow(t) \/ Sent(t)
  \/ UpsertRead(t) \/ UpsertSave(t) \/ UpsertKey(t)
  \/ SaveEdit(t) \/ SaveRecord(t) \/ ProfileFetched(t) \/ ProfileKey(t) \/ ProfileRow(t) \/ SaveCall(t)

Call ==
  \/ \E m \in Incoming : Receive(m)
  \/ \E to \in Peers \union {Group} : \E m \in Sends(to) : BeginSend(m)
  \/ \E m \in CallRows : BeginSend(m)
  \/ \E p \in Peers, blocked \in BOOLEAN : BeginEdit(p, blocked)
  \/ \E p \in Peers, blocked \in BOOLEAN, key \in PeerKeys \union {NoKey} : BeginMerge(p, blocked, key)
  \/ \E th \in Threads, ats \in {{at} : at \in Times} \union {Times} : Forget(th, ats)
  \/ \E p \in Peers : BeginProfile(p)
  \/ \E c \in Calls : \E e \in Event : BeginCall(c, e)

Next ==
  \/ Call
  \/ \E t \in tasks : Step(t)
  \/ \E t \in tasks : Fails(t)
  \/ Crash

Spec == Init /\ [][Next]_vars

(***************************************************************************)
(* Properties                                                              *)
(***************************************************************************)
TypeOK ==
  /\ contact \in [People -> Contact]
  /\ keyOf \in [People -> Keys \union {NoKey}] /\ profile \in [People -> Keys \union {NoKey}]
  /\ \A k \in Threads \X Times : rows[k] \in [kind : MessageKinds, from : People, thread : Threads, at : Times \union {0}]
  /\ DOMAIN rows = Threads \X Times
  /\ calls \in [Calls -> CallEntry]
  /\ tasks \subseteq Task
  /\ \A t, u \in tasks : t.id = u.id /\ t.op = u.op => t = u
  /\ Cardinality({t \in tasks : t.op = "receive"}) <= 1
  /\ spent \in [ops : Nat, faults : Nat]
  /\ torn \subseteq People
  /\ heard \in [Calls -> [kinds : SUBSET Kinds, whole : BOOLEAN]]

(* Whose save a change of a contact's row is.                              *)
SavedBy(p, step) == \E t \in tasks \ tasks' : t.p = p /\ t.step = step /\ contact'[p] # contact[p]
Overwritten(p) == \E t \in tasks \ tasks' : t.p = p /\ t.dirty

(* A timer's version never goes down, and outside the profile upsert the   *)
(* timer itself only changes with a higher version, unless a copy read     *)
(* before another save is written back (merged_expire_timer_version,       *)
(* update_expire_timer).                                                   *)
TimerOrder ==
  [][\A p \in People : contact[p].known /\ ~ Overwritten(p) =>
       /\ contact'[p].version >= contact[p].version
       /\ contact'[p].timer # contact[p].timer =>
            contact'[p].version > contact[p].version \/ SavedBy(p, "fetch")]_vars

(* A block made here is not undone by a message: the row's flags outlive   *)
(* the timer updates and profile upserts of that contact, unless one of    *)
(* them had read the row before the block (upsert_contact_from_profile).   *)
BlockStands ==
  [][\A p \in People :
       contact'[p].blocked # contact[p].blocked => SavedBy(p, "flag") \/ SavedBy(p, "record") \/ Overwritten(p)]_vars

(* The contact row and the key table name the same profile key once the    *)
(* upserts and merges are done, whatever order messages and records with   *)
(* old and new keys came in, as long as no two procedures of one contact   *)
(* overlapped (upsert_contact_from_profile, sync_storage_service).         *)
KeysAgree ==
  \A p \in People : p \notin torn /\ ~ (\E t \in tasks : t.p = p /\ t.step = "key")
    /\ contact[p].known => keyOf[p] = contact[p].key

(* A cached profile was read with the key the table now holds: a new key   *)
(* never serves the profile decrypted with the old one (save_profile,      *)
(* upsert_profile_key).                                                    *)
ProfileIsKeys == \A p \in People \ torn : profile[p] # NoKey => profile[p] = keyOf[p]

(* A stored message gives way only to one of its own thread and time, or   *)
(* to the application's own deletion: no edit, delete or receipt replaces  *)
(* or removes what it names (save_message).                                *)
MessagesStay ==
  [][\A th \in Threads, at \in Times :
       LET k == <<th, at>> IN
       rows'[k] # rows[k] =>
         \/ rows'[k].thread = th /\ rows'[k].at = at
         \/ rows'[k] = NoRow /\ tasks' = tasks]_vars

(* However the events of a call are ordered or repeated, a deleted call    *)
(* stays deleted and an accepted one accepted, as long as its events were  *)
(* merged one at a time and agree on its mode (transition_direct,          *)
(* transition_group).                                                      *)
CallOutcome ==
  \A c \in Calls : heard[c].whole =>
    /\ calls[c].status = "deleted" <=> "delete" \in heard[c].kinds
    /\ calls[c].status \in {"accepted", "joined"} <=>
         "accepted" \in heard[c].kinds /\ "delete" \notin heard[c].kinds
=============================================================================
