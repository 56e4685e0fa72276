------------------------------- MODULE Device -------------------------------
(***************************************************************************)
(* The life of one device: it is linked to a primary or registered as one  *)
(* (manager/linking.rs, registration.rs, confirmation.rs), loaded again    *)
(* after a stop, unlinked; it keeps the account's keys, its certificate    *)
(* and the pre-keys that strangers start sessions with, and once linked it *)
(* imports the history its primary uploads (manager/registered.rs).        *)
(*                                                                         *)
(* Enrolments are numbered, and a value that an enrolment brings is that   *)
(* number: the registration, the identity key pairs, the certificate, the  *)
(* backup key.  Entropy pools are numbered too, and a master key by the    *)
(* pool it is derived from; 0 is a value that is not stored.               *)
(***************************************************************************)
EXTENDS ProtocolStore, BackupImport

CONSTANTS
  Chunks,                                                \* pieces an archive is downloaded in
  ImportCost,                                            \* what an archive costs of MaxOps
  MaxOps, MaxFaults, MaxEnrolments, MaxPools, MaxBatches, MaxSends \* bounds

ASSUME DeviceAssumption ==
  /\ Chunks \in Nat \ {0}
  /\ ImportCost \in Nat /\ MaxOps \in Nat /\ MaxFaults \in Nat /\ MaxEnrolments \in Nat
  /\ MaxPools \in Nat /\ MaxBatches \in Nat /\ MaxSends \in Nat

VARIABLES
  kv,       \* the key-value table of the store
  db,       \* the protocol tables of the store
  history,  \* the rows of one chat, and the call log
  file,     \* the partly downloaded archive: the chunks in it
  mem,      \* the manager, if one is loaded
  job,      \* the linking or registration under way
  pooling,  \* by caller: an entropy pool drawn and not yet stored
  unlink,   \* attempts left of an unlinking
  refresh,  \* the pre-key task of a message stream
  keys,     \* a Keys message is being handled
  imp,      \* the import under way
  server,   \* what the server and the other devices have
  told,     \* what others were told or did, for the properties
  spent     \* counters of the bounds

store == <<kv, db, history, file>>
tasks == <<pooling, unlink, refresh, keys, imp>>
vars == <<kv, db, history, file, mem, job, pooling, unlink, refresh, keys, imp, server, told, spent>>

Callers == {"stream", "give"}
KvKeys == {"reg", "aci", "pni", "master", "pool", "cert", "backup", "archive"}
NoMem == [reg |-> 0, cert |-> 0, pool |-> 0, streaming |-> FALSE]
NoJob == [todo |-> <<>>, e |-> 0, pool |-> 0]
NoBatch == Batch(NoTables, 0)
NoRefresh == [step |-> "idle", batch |-> NoBatch]
NoImport == [step |-> "idle", at |-> 0, held |-> NoRun]

Init ==
  /\ kv = [k \in KvKeys |-> 0] /\ db = NoTables /\ history = NoHistory /\ file = <<>>
  /\ mem = NoMem /\ job = NoJob
  /\ pooling = [c \in Callers |-> 0] /\ unlink = 0 /\ refresh = NoRefresh /\ keys = FALSE /\ imp = NoImport
  /\ server = [live |-> {}, linked |-> {}, shelf |-> EmptyShelf, owner |-> 0, wire |-> {}, upload |-> <<>>, of |-> 0]
  /\ told = [issued |-> {}, given |-> {}, torn |-> FALSE, halved |-> FALSE, unlinked |-> {},
             opened |-> [b \in 1..MaxSends |-> 0], half |-> {}, imported |-> FALSE]
  /\ spent = [ops |-> 0, faults |-> 0, enrolments |-> 0, pools |-> 0, batches |-> 0, sends |-> 0]

(* Bounds: what an operation costs, and a failure.                         *)
Spending(n) == [spent EXCEPT !.ops = @ + n]
MayOp(n) == spent.ops + n <= MaxOps
MayFail == spent.faults < MaxFaults
Failing == [spent EXCEPT !.faults = @ + 1]

Primary(e) == e \notin server.linked
Known == mem.reg \in server.live

(***************************************************************************)
(* Linking and registering.  Each begins by clearing the registration and  *)
(* the protocol tables; the other entries of `kv` are left as they are.    *)
(***************************************************************************)
Cleared == kv' = [kv EXCEPT !.reg = 0] /\ db' = NoTables

Begin(todo) ==
  /\ mem.reg = 0 /\ job.todo = <<>>
  /\ MayOp(1) /\ spent.enrolments < MaxEnrolments
  /\ Cleared
  /\ job' = [NoJob EXCEPT !.todo = todo, !.e = spent.enrolments + 1]
  /\ spent' = [Spending(1) EXCEPT !.enrolments = @ + 1]
  /\ told' = [told EXCEPT !.given = {}, !.torn = FALSE]
  /\ UNCHANGED <<history, file, mem, server>> /\ UNCHANGED tasks

RegisterOrder == <<"code", "aci", "pni", "wire", "reg">>
(* Faulty: the registration is saved before what it needs.                 *)
RegistrationFirst == <<"reg", "backup", "aci", "pni", "master", "pool">>
LinkOrder == <<"backup", "aci", "pni", "master", "pool", "reg">>

BeginLink == Begin(<<"scan">>)
(* `force` registers over a registration the store already has.            *)
BeginRegister == \E force \in BOOLEAN : (force \/ kv.reg = 0) /\ Begin(RegisterOrder)

(* The server learns of the enrolment, with a first batch of pre-keys.     *)
Enrols(others, links) ==
  LET batch == Batch(db, spent.batches + 1) IN
  /\ spent.batches < MaxBatches
  /\ db' = Saved(db, batch)
  /\ server' = [server EXCEPT !.live = others \union {job.e}, !.linked = @ \union links,
                              !.shelf = Shelved(batch), !.owner = job.e, !.wire = {}]

(* The primary scanned the code: link_device registers the device, and     *)
(* brings the account's pool and a backup key, if the primary has them;    *)
(* without a backup key its store, the first, is left out.                 *)
Scanned == \E pool \in 0..spent.pools + 1, backup \in BOOLEAN :
  /\ job.todo = <<"scan">> /\ pool <= MaxPools
  /\ Enrols(server.live, {job.e})
  /\ job' = [job EXCEPT !.todo = IF backup THEN LinkOrder ELSE Tail(LinkOrder),
                        !.pool = pool]
  /\ spent' = [spent EXCEPT !.batches = @ + 1, !.pools = IF pool > @ THEN pool ELSE @]
  /\ UNCHANGED <<kv, history, file, mem, told>> /\ UNCHANGED tasks

(* No answer to the code, or none that arrived.  Without the data of the   *)
(* answer the store is cleared once more; an error of link_device's own is *)
(* returned before that, and leaves the pre-keys that it had saved.        *)
ScanFailed ==
  /\ job.todo = <<"scan">> /\ MayFail
  /\ \E enrolled \in BOOLEAN :
       server' = IF enrolled THEN [server EXCEPT !.live = @ \union {job.e}, !.linked = @ \union {job.e}, !.owner = 0,
                                                 !.shelf = EmptyShelf, !.wire = {}]
                 ELSE server
  /\ \/ Cleared /\ spent' = Failing
     \/ /\ spent.batches < MaxBatches /\ spent' = [Failing EXCEPT !.batches = @ + 1]
        /\ db' = Saved(db, Batch(db, spent.batches + 1)) /\ UNCHANGED kv
  /\ job' = NoJob
  /\ UNCHANGED <<history, file, mem, told>> /\ UNCHANGED tasks

(* register_account: the account may have had other devices, which a new   *)
(* primary replaces.                                                       *)
Registered ==
  /\ job.todo # <<>> /\ Head(job.todo) = "wire"
  /\ \E others \in {{}, server.live} : Enrols(others, {})
  /\ job' = [job EXCEPT !.todo = Tail(@)]
  /\ spent' = [spent EXCEPT !.batches = @ + 1]
  /\ UNCHANGED <<kv, history, file, mem, told>> /\ UNCHANGED tasks

CodeVerified ==
  /\ job.todo # <<>> /\ Head(job.todo) = "code"
  /\ job' = [job EXCEPT !.todo = Tail(@)]
  /\ UNCHANGED <<mem, server, told, spent>> /\ UNCHANGED store /\ UNCHANGED tasks

Value(key) == IF key \in {"master", "pool"} THEN job.pool ELSE job.e

(* One store call after another; the last gives the manager.               *)
Store ==
  /\ job.todo # <<>> /\ Head(job.todo) \in KvKeys
  /\ kv' = [kv EXCEPT ![Head(job.todo)] = Value(Head(job.todo))]
  /\ IF Tail(job.todo) = <<>> THEN job' = NoJob /\ mem' = [NoMem EXCEPT !.reg = job.e]
     ELSE job' = [job EXCEPT !.todo = Tail(@)] /\ UNCHANGED mem
  /\ told' = [told EXCEPT !.halved = @ /\ Head(job.todo) # "pool"]
  /\ UNCHANGED <<db, history, file, server, spent>> /\ UNCHANGED tasks

(* load_registered.                                                        *)
Load ==
  /\ mem.reg = 0 /\ job.todo = <<>> /\ kv.reg # 0
  /\ mem' = [NoMem EXCEPT !.reg = kv.reg, !.cert = kv.cert]
  /\ UNCHANGED <<job, server, told, spent>> /\ UNCHANGED store /\ UNCHANGED tasks

(* Whether two writes that belong together are being cut apart.            *)
Halving == keys \/ (job.todo # <<>> /\ Head(job.todo) = "pool")

(* An error returned between two steps, a crash, or the program quits: the *)
(* store and the file stay as they are.                                    *)
Stop ==
  /\ mem.reg # 0 \/ job.todo # <<>>
  /\ MayFail /\ spent' = Failing
  /\ mem' = NoMem /\ job' = NoJob
  /\ pooling' = [c \in Callers |-> 0] /\ unlink' = 0 /\ refresh' = NoRefresh /\ keys' = FALSE /\ imp' = NoImport
  /\ told' = [told EXCEPT !.halved = @ \/ Halving]
  /\ UNCHANGED server /\ UNCHANGED store

(***************************************************************************)
(* The account's keys.  A primary makes the entropy pool when it first     *)
(* needs it; a linked device is given it.                                  *)
(***************************************************************************)
(* What a caller of account_entropy_pool does with the pool: a stream      *)
(* keeps it, link_secondary_device sends it to the new device.             *)
Takes(c, pool) ==
  IF c = "stream"
  THEN /\ mem' = [mem EXCEPT !.streaming = TRUE, !.pool = pool]
       /\ refresh' = [refresh EXCEPT !.step = "status"]
       /\ UNCHANGED told
  ELSE /\ told' = [told EXCEPT !.given = @ \union {pool}]
       /\ UNCHANGED <<mem, refresh>>

(* receive_messages, or link_secondary on a primary: the stored pool is    *)
(* taken, and where a primary has none it draws one.                       *)
BeginPool(c) ==
  /\ mem.reg # 0 /\ pooling[c] = 0 /\ MayOp(1)
  /\ (c = "stream" /\ ~ mem.streaming) \/ (c = "give" /\ Primary(mem.reg))
  /\ IF kv.pool # 0 \/ ~ Primary(mem.reg)
     THEN Takes(c, kv.pool) /\ spent' = Spending(1) /\ UNCHANGED pooling
     ELSE /\ spent.pools < MaxPools
          /\ pooling' = [pooling EXCEPT ![c] = spent.pools + 1]
          /\ spent' = [Spending(1) EXCEPT !.pools = @ + 1]
          /\ UNCHANGED <<mem, refresh, told>>
  /\ UNCHANGED <<job, unlink, keys, imp, server>> /\ UNCHANGED store

(* Faulty: the pool drawn is never stored.                                 *)
StorePoolUnsaved(c) == kv' = kv

StorePool(c) == kv' = [kv EXCEPT !.pool = pooling[c]]

(* Two callers that both found none store one after the other.             *)
PoolDrawn(c) ==
  /\ pooling[c] # 0
  /\ StorePool(c)
  /\ pooling' = [pooling EXCEPT ![c] = 0]
  /\ IF c = "stream"
     THEN /\ mem' = [mem EXCEPT !.streaming = TRUE, !.pool = pooling[c]]
          /\ refresh' = [refresh EXCEPT !.step = "status"]
          /\ told' = [told EXCEPT !.torn = @ \/ kv.pool # 0]
     ELSE /\ told' = [told EXCEPT !.given = @ \union {pooling[c]}, !.torn = @ \/ kv.pool # 0]
          /\ UNCHANGED <<mem, refresh>>
  /\ UNCHANGED <<db, history, file, job, unlink, keys, imp, server, spent>>

(* A sibling asks for the keys: it is answered from the stream's copy.     *)
KeysAsked ==
  /\ mem.streaming /\ ~ keys /\ mem.pool \notin told.given \union {0}
  /\ told' = [told EXCEPT !.given = @ \union {mem.pool}]
  /\ UNCHANGED <<mem, job, server, spent>> /\ UNCHANGED store /\ UNCHANGED tasks

(* A Keys message, which a primary ignores.  Saving the pool may fail: the *)
(* stream goes on with it all the same.  0 is a message without a pool.    *)
KeysReceived(pool) ==
  /\ mem.streaming /\ ~ keys /\ ~ Primary(mem.reg)
  /\ MayOp(1) /\ pool <= spent.pools + 1 /\ pool <= MaxPools
  /\ mem' = [mem EXCEPT !.pool = IF pool = 0 THEN @ ELSE pool]
  /\ \E fails \in BOOLEAN :
       /\ fails => MayFail /\ pool # 0
       /\ kv' = IF pool = 0 \/ fails THEN kv ELSE [kv EXCEPT !.pool = pool]
       /\ spent' = [Spending(1) EXCEPT !.pools = IF pool > @ THEN pool ELSE @, !.faults = @ + (IF fails THEN 1 ELSE 0)]
       /\ told' = [told EXCEPT !.halved = IF pool = 0 THEN @ ELSE fails]
  /\ keys' = (mem'.pool # 0)
  /\ UNCHANGED <<db, history, file, job, pooling, unlink, refresh, imp, server>>

(* Faulty: the master key is only set when there is none yet.              *)
NewMasterOnce(pool) == IF kv.master = 0 THEN pool ELSE kv.master

NewMaster(pool) == pool

(* The rest of the handler: the master key is derived from the pool.       *)
KeysDerived ==
  /\ keys /\ keys' = FALSE
  /\ \/ kv' = [kv EXCEPT !.master = NewMaster(mem.pool)] /\ UNCHANGED <<spent, told>>
     \/ MayFail /\ spent' = Failing /\ told' = [told EXCEPT !.halved = TRUE] /\ UNCHANGED kv
  /\ UNCHANGED <<db, history, file, mem, job, pooling, unlink, refresh, imp, server>>

(* Faulty: the certificate is kept in memory alone.                        *)
SaveCertificateNever == kv' = kv

SaveCertificate == kv' = [kv EXCEPT !.cert = mem.reg]

(* sender_certificate, under its lock: missing or about to expire, it is   *)
(* fetched, stored and kept.                                               *)
RenewCertificate ==
  /\ mem.reg # 0 /\ Known /\ MayOp(1) /\ spent' = Spending(1)
  /\ SaveCertificate
  /\ mem' = [mem EXCEPT !.cert = mem.reg]
  /\ told' = [told EXCEPT !.issued = @ \union {mem.reg}]
  /\ UNCHANGED <<db, history, file, job, server>> /\ UNCHANGED tasks

(***************************************************************************)
(* Unlinking this device.                                                  *)
(***************************************************************************)
(* Faulty: one attempt more than there are.                                *)
SelfUnlinkAttemptsOver == 4

SelfUnlinkAttempts == 3

BeginUnlink ==
  /\ mem.reg # 0 /\ ~ Primary(mem.reg) /\ unlink = 0 /\ MayOp(1)
  /\ unlink' = SelfUnlinkAttempts /\ spent' = Spending(1)
  /\ UNCHANGED <<mem, job, pooling, refresh, keys, imp, server, told>> /\ UNCHANGED store

Removed(e) == server' = [server EXCEPT !.live = @ \ {e}]

(* Faulty: a socket that closes is taken for the removal's sign.           *)
ClosedIsDone(gone) == told' = [told EXCEPT !.unlinked = @ \union {mem.reg}] /\ unlink' = 0

(* The socket closed before the answer, whether or not the server acted.   *)
Closed(gone) == unlink' = unlink - 1 /\ UNCHANGED told

UnlinkTried ==
  /\ unlink > 0
  /\ \/ Known /\ Removed(mem.reg) /\ told' = [told EXCEPT !.unlinked = @ \union {mem.reg}] /\ unlink' = 0
     \/ ~ Known /\ UNCHANGED server /\ told' = [told EXCEPT !.unlinked = @ \union {mem.reg}] /\ unlink' = 0
     \/ \E gone \in BOOLEAN : Known /\ (IF gone THEN Removed(mem.reg) ELSE UNCHANGED server) /\ Closed(gone)
     \/ \E gone \in BOOLEAN : (IF gone THEN Removed(mem.reg) ELSE UNCHANGED server) /\ unlink' = 0 /\ UNCHANGED told
  /\ UNCHANGED <<mem, job, pooling, refresh, keys, imp, spent>> /\ UNCHANGED store

(* The primary removes this device.                                        *)
Expelled(e) ==
  /\ e \in server.live \intersect server.linked /\ MayOp(1)
  /\ Removed(e) /\ spent' = Spending(1)
  /\ UNCHANGED <<mem, job, told>> /\ UNCHANGED store /\ UNCHANGED tasks

(***************************************************************************)
(* The pre-keys, and the messages that strangers make with them.           *)
(***************************************************************************)
(* register_pre_keys, spawned with the stream: the server's stock and the  *)
(* local one are looked at, and one batch is drawn.                        *)
RefreshStatus ==
  /\ refresh.step = "status" /\ Known
  /\ IF server.shelf.pre # {} /\ server.shelf.kyber # {} /\ Stocked(db)
     THEN refresh' = NoRefresh /\ UNCHANGED spent
     ELSE /\ spent.batches < MaxBatches
          /\ refresh' = [step |-> "save", batch |-> Batch(db, spent.batches + 1)]
          /\ spent' = [spent EXCEPT !.batches = @ + 1]
  /\ UNCHANGED <<mem, job, pooling, unlink, keys, imp, server, told>> /\ UNCHANGED store

RefreshSave ==
  /\ refresh.step = "save"
  /\ db' = Saved(db, refresh.batch) /\ refresh' = [refresh EXCEPT !.step = "upload"]
  /\ UNCHANGED <<kv, history, file, mem, job, pooling, unlink, keys, imp, server, told, spent>>

Uploaded == server' = [server EXCEPT !.shelf = Shelved(refresh.batch)]

RefreshUpload ==
  /\ refresh.step = "upload" /\ Known
  /\ Uploaded /\ refresh' = NoRefresh
  /\ UNCHANGED <<mem, job, pooling, unlink, keys, imp, told, spent>> /\ UNCHANGED store

(* The caller drops the stream, and with it what it was doing.             *)
StopStream ==
  /\ mem.streaming
  /\ mem' = [mem EXCEPT !.streaming = FALSE, !.pool = 0]
  /\ (refresh.step = "upload" /\ Known /\ Uploaded) \/ UNCHANGED server
  /\ refresh' = NoRefresh /\ keys' = FALSE
  /\ told' = [told EXCEPT !.halved = @ \/ keys]
  /\ UNCHANGED <<job, pooling, unlink, imp, spent>> /\ UNCHANGED store

(* A stranger takes a bundle and writes: a one-time key is handed out once *)
(* and, when there is none, the last-resort key.                           *)
Initiate ==
  /\ server.owner \in server.live /\ spent.sends < MaxSends /\ MayOp(1)
  /\ \E pre \in IF server.shelf.pre = {} THEN {{}} ELSE {{p} : p \in server.shelf.pre},
        kyber \in IF server.shelf.kyber = {} THEN server.shelf.last ELSE server.shelf.kyber,
        signed \in server.shelf.signed, from \in 1..2 :
       server' = [server EXCEPT !.shelf.pre = @ \ pre, !.shelf.kyber = @ \ {kyber},
                    !.wire = @ \union {[base |-> spent.sends + 1, pre |-> pre, kyber |-> kyber, signed |-> signed,
                                        from |-> from]}]
  /\ spent' = [Spending(1) EXCEPT !.sends = @ + 1]
  /\ UNCHANGED <<mem, job, told>> /\ UNCHANGED store /\ UNCHANGED tasks

(* One that this device has a session for is a duplicate, and one that     *)
(* does not open is skipped; both are acknowledged.                        *)
Arrives(m) ==
  /\ m \in server.wire /\ mem.streaming /\ ~ keys /\ Known
  /\ IF m.base \in db.sessions \/ ~ Opens(db, m) THEN UNCHANGED <<db, told>>
     ELSE db' = Opened(db, m) /\ told' = [told EXCEPT !.opened[m.base] = @ + 1]
  /\ \/ server' = [server EXCEPT !.wire = @ \ {m}] /\ UNCHANGED spent
     \/ MayFail /\ spent' = Failing /\ UNCHANGED server
  /\ UNCHANGED <<kv, history, file, mem, job>> /\ UNCHANGED tasks

(* A crash between the key's use and the session's save.                   *)
ArrivesHalf(m) ==
  /\ m \in server.wire /\ mem.streaming /\ ~ keys /\ Known
  /\ m.base \notin db.sessions /\ Opens(db, m) /\ MayFail
  /\ db' = MarkUsed(db, m) /\ told' = [told EXCEPT !.half = @ \union {m.base}]
  /\ mem' = NoMem /\ spent' = Failing
  /\ pooling' = [c \in Callers |-> 0] /\ unlink' = 0 /\ refresh' = NoRefresh /\ keys' = FALSE /\ imp' = NoImport
  /\ UNCHANGED <<kv, history, file, job, server>>

(* clear_sessions.                                                         *)
ClearSessions ==
  /\ mem.reg # 0 /\ db.sessions # {} /\ MayOp(1) /\ spent' = Spending(1)
  /\ db' = [db EXCEPT !.sessions = {}]
  /\ UNCHANGED <<kv, history, file, mem, job, server, told>> /\ UNCHANGED tasks

(***************************************************************************)
(* The import of the history: download_and_import_backup.                  *)
(***************************************************************************)
(* Faulty: a resumed download starts over, at the end of the file.         *)
OffsetStale == 0

(* The size of the file is where the download goes on.                     *)
Offset == Len(file)

BeginImport ==
  /\ mem.reg # 0 /\ kv.backup # 0 /\ imp.step = "idle"
  /\ IF kv.archive # 0 THEN UNCHANGED spent ELSE MayOp(ImportCost) /\ spent' = Spending(ImportCost)
  /\ imp' = IF kv.archive # 0 THEN [NoImport EXCEPT !.step = "download", !.at = Offset]
            ELSE [NoImport EXCEPT !.step = "ask"]
  /\ UNCHANGED <<mem, job, pooling, unlink, refresh, keys, server, told>> /\ UNCHANGED store

(* The primary uploads for the enrolment it gave a backup key, or asks for *)
(* another linking, or does without.  The pointer names a file of its own. *)
ArchiveAsked ==
  /\ imp.step = "ask" /\ Known
  /\ \/ /\ kv.backup = mem.reg /\ server.of \in {0, mem.reg}
        /\ \E a \in Archives : (server.of = 0 \/ a = server.upload) /\ server' = [server EXCEPT !.upload = a, !.of = mem.reg]
        /\ kv' = [kv EXCEPT !.archive = mem.reg] /\ file' = <<>>
        /\ imp' = [imp EXCEPT !.step = "download", !.at = 0]
     \/ imp' = NoImport /\ UNCHANGED <<kv, file, server>>
  /\ UNCHANGED <<db, history, mem, job, pooling, unlink, refresh, keys, told, spent>>

(* A chunk is appended to the file.                                        *)
ChunkWritten ==
  /\ imp.step = "download" /\ Known /\ imp.at < Chunks
  /\ file' = Append(file, imp.at + 1) /\ imp' = [imp EXCEPT !.at = @ + 1]
  /\ UNCHANGED <<kv, db, history, mem, job, pooling, unlink, refresh, keys, server, told, spent>>

(* A stalled or broken download is given up, and the file kept.            *)
DownloadStalled ==
  /\ imp.step = "download" /\ MayFail /\ spent' = Failing
  /\ imp' = NoImport
  /\ UNCHANGED <<mem, job, pooling, unlink, refresh, keys, server, told>> /\ UNCHANGED store

(* open_frames: the archive is authenticated before a frame is read, with  *)
(* the stored backup key alone (and the account, which stays the same).    *)
Authentic == Len(file) = Chunks /\ kv.archive = kv.backup

(* The file is removed after every try; where that fails it is only logged.*)
Discard == file' \in {<<>>, file}

Downloaded ==
  /\ imp.step = "download"
  /\ \/ imp.at = Chunks /\ UNCHANGED spent
     \/ imp.at < Chunks /\ MayFail /\ spent' = Failing
  /\ IF Authentic THEN imp' = [NoImport EXCEPT !.step = "frames", !.at = 1] /\ UNCHANGED file
     ELSE imp' = NoImport /\ Discard
  /\ UNCHANGED <<kv, db, history, mem, job, pooling, unlink, refresh, keys, server, told>>

(* One chat item of the archive.                                           *)
FrameRead ==
  /\ imp.step = "frames" /\ imp.at <= Len(server.upload)
  /\ LET read == Coalesce(imp.held, server.upload[imp.at], imp.at) IN
     /\ history' = ImportedAll(history, read.ready)
     /\ imp' = [imp EXCEPT !.held = read.held, !.at = @ + 1]
  /\ UNCHANGED <<kv, db, file, mem, job, pooling, unlink, refresh, keys, server, told, spent>>

(* The run still held at the end.                                          *)
Flush == history' = IF imp.held.of = {} THEN history ELSE Imported(history, imp.held)

(* The frames are at their end.                                            *)
FramesEnded ==
  /\ imp.step = "frames" /\ imp.at > Len(server.upload)
  /\ Flush /\ imp' = [imp EXCEPT !.step = "discard"]
  /\ UNCHANGED <<kv, db, file, mem, job, pooling, unlink, refresh, keys, server, told, spent>>

ArchiveDiscarded ==
  /\ imp.step = "discard"
  /\ Discard /\ imp' = [imp EXCEPT !.step = "forget"]
  /\ UNCHANGED <<kv, db, history, mem, job, pooling, unlink, refresh, keys, server, told, spent>>

(* The pointer is forgotten last; it stays where the store fails.          *)
ImportDone ==
  /\ imp.step = "forget" /\ imp' = NoImport
  /\ \/ kv' = [kv EXCEPT !.archive = 0] /\ told' = [told EXCEPT !.imported = TRUE] /\ UNCHANGED spent
     \/ MayFail /\ spent' = Failing /\ UNCHANGED <<kv, told>>
  /\ UNCHANGED <<db, history, file, mem, job, pooling, unlink, refresh, keys, server>>

(* A frame that does not parse or a row that is not saved: the pointer     *)
(* stays.                                                                  *)
ImportFailed ==
  /\ imp.step = "frames" /\ MayFail /\ spent' = Failing
  /\ Discard /\ imp' = NoImport
  /\ UNCHANGED <<kv, db, history, mem, job, pooling, unlink, refresh, keys, server, told>>

Enrolling == BeginLink \/ BeginRegister \/ Scanned \/ ScanFailed \/ CodeVerified \/ Registered \/ Store \/ Load \/ Stop
KeepingKeys == \/ \E c \in Callers : BeginPool(c) \/ PoolDrawn(c)
               \/ KeysAsked \/ KeysDerived \/ RenewCertificate
               \/ \E pool \in 0..MaxPools : KeysReceived(pool)
Unlinking == BeginUnlink \/ UnlinkTried \/ \E e \in 1..MaxEnrolments : Expelled(e)
Opening == \/ RefreshStatus \/ RefreshSave \/ RefreshUpload \/ StopStream \/ Initiate \/ ClearSessions
           \/ \E m \in server.wire : Arrives(m) \/ ArrivesHalf(m)
Importing == \/ BeginImport \/ ArchiveAsked \/ ChunkWritten \/ DownloadStalled \/ Downloaded
             \/ FrameRead \/ FramesEnded \/ ArchiveDiscarded \/ ImportDone \/ ImportFailed

Next == Enrolling \/ KeepingKeys \/ Unlinking \/ Opening \/ Importing

Spec == Init /\ [][Next]_vars

(***************************************************************************)
(* Properties.                                                             *)
(***************************************************************************)
(* Every variable keeps its type; a self-unlink never has more than three  *)
(* attempts left (unlink_secondary).                                       *)
TypeOK ==
  /\ kv \in [KvKeys -> Nat]
  /\ db.pre \in SUBSET Key /\ db.signed \in SUBSET Key /\ db.kyber \in SUBSET Key
  /\ db.seen \in SUBSET (Nat \X Nat \X Nat) /\ db.sessions \in SUBSET Nat /\ db.identity \in Nat
  /\ mem \in [reg : Nat, cert : Nat, pool : Nat, streaming : BOOLEAN]
  /\ job.e \in Nat /\ job.pool \in Nat
  /\ pooling \in [Callers -> Nat] /\ unlink \in 0..3 /\ keys \in BOOLEAN
  /\ refresh.step \in {"idle", "status", "save", "upload"}
  /\ imp.step \in {"idle", "ask", "download", "frames", "discard", "forget"} /\ imp.at \in Nat
  /\ history.rows \in [1..MaxTime + 1 -> Row] /\ history.call \in CallEntry
  /\ file \in Seq(1..Chunks)
  /\ server.live \in SUBSET Nat /\ server.linked \in SUBSET Nat /\ server.wire \in SUBSET Message

(* A store that says it is registered has the identity keys of that very   *)
(* registration, wherever linking or registering was cut, so that a loaded *)
(* manager never speaks for keys the server does not know (linking.rs,     *)
(* confirmation.rs: save_registration_data comes last).                    *)
RegisteredWhole == kv.reg # 0 => kv.aci = kv.reg /\ kv.pni = kv.reg

(* The stored master key is the stored pool's, across linking, registering *)
(* and Keys messages, unless the two writes were cut apart.                *)
MasterIsPools == ~ told.halved /\ ~ keys /\ ~ Halving => kv.master \in {0, kv.pool}

(* The pool a primary gave a linked device is the pool it has stored, so   *)
(* that after a restart the devices still derive the same keys; two callers*)
(* that draw one at the same time are the exception (account_entropy_pool).*)
PoolKept == mem.reg # 0 /\ Primary(mem.reg) /\ ~ told.torn => told.given \subseteq {kv.pool}

(* A certificate fetched in an enrolment is the one in use for the rest of *)
(* it, restarts included.                                                  *)
CertificateStays == mem.reg \in told.issued => mem.cert = mem.reg

(* A device told that it is unlinked is unknown to the server from then on,*)
(* although a socket that closes is an answer too (unlink_secondary).      *)
UnlinkHonest == told.unlinked \intersect server.live = {}

(* A download resumed after a stall or a crash never repeats or skips a    *)
(* chunk (write_archive_to_file appends; download_and_import_backup takes  *)
(* the offset from the file).                                              *)
FileIsPrefix == file = [i \in 1..Len(file) |-> i]

(* Once the pointer to the archive is forgotten, the history is whole: the *)
(* runs of a group's changes are kept together and the last one is not     *)
(* lost, however often the import was cut and repeated before.             *)
HistoryWhole == told.imported => Whole(history, server.upload)

(* Whatever the server may still hand out, and every message made with it  *)
(* and not yet opened, can be opened: batches overlap, one-time keys are   *)
(* used up, and the store gives the ids of deleted rows away again.        *)
HandedOutOpens ==
  kv.reg # 0 /\ server.owner = kv.reg =>
    /\ server.shelf.pre \subseteq db.pre /\ server.shelf.signed \subseteq db.signed
    /\ \A k \in server.shelf.kyber \union server.shelf.last : HasKyber(db, k)
    /\ \A m \in server.wire : told.opened[m.base] = 0 /\ m.base \notin told.half => Holds(db, m)

(* A message that starts a session opens at most once, even when it is     *)
(* delivered again after its session was cleared (mark_kyber_pre_key_used).*)
ReplayRefused == \A b \in 1..MaxSends : told.opened[b] <= 1
=============================================================================
