------------------------------- MODULE Groups -------------------------------
(***************************************************************************)
(* The groups of an account as this device keeps them: the rows of the     *)
(* store, the group server's versioned copies, and the operations that     *)
(* move between the two (presage/src/manager/registered.rs and             *)
(* presage/src/model/groups.rs).                                           *)
(*                                                                         *)
(* A Manager is cloned freely and takes no lock around a group, so several *)
(* operations run at once; a task is one of them, and `step` is the await  *)
(* it is about to perform.  Every operation reads the stored row, talks to *)
(* the server, and saves the whole row.  The server accepts a change only  *)
(* on top of its own revision.  Other members change the group meanwhile.  *)
(*                                                                         *)
(* A group's attributes are reduced to what a property tells apart: who is *)
(* in it and how, who carries a label, and whether labels are restricted   *)
(* to administrators.  `log` keeps every revision the server has held; the *)
(* server itself only uses the last.                                       *)
(***************************************************************************)
EXTENDS Naturals, Sequences, FiniteSets

CONSTANTS
  Groups,          \* master keys
  Refused,         \* those we were removed from: only stubs of them are left
  Me,              \* self_aci
  Others,          \* the other people of those groups
  Tasks,           \* operations that may run at once
  ConflictRetries, \* GROUP_UPDATE_CONFLICT_RETRIES
  MaxCalls, MaxRemote, MaxFaults \* bounds on the environment

People == Others \union {Me}
Roles == {"out", "pending", "member", "admin"}
State == [role : [People -> Roles], labels : SUBSET People, restricted : BOOLEAN]

ASSUME GroupsAssumption ==
  /\ Groups # {} /\ Me \notin Others
  /\ Refused \subseteq Groups
  /\ ConflictRetries \in Nat
  /\ MaxCalls \in Nat /\ MaxRemote \in Nat /\ MaxFaults \in Nat

VARIABLES
  log,    \* the server: the revisions of each group, the last one current
  row,    \* the store: each group's row
  task,   \* the operations in progress
  spent   \* what the environment has used of its bounds

vars == <<log, row, task, spent>>

(***************************************************************************)
(* Data                                                                    *)
(***************************************************************************)
NoState == [role |-> [p \in People |-> "out"], labels |-> {}, restricted |-> FALSE]
InGroup(s) == {p \in People : s.role[p] # "out"}
Members(s) == {p \in People : s.role[p] \in {"member", "admin"}}
Admins(s) == {p \in People : s.role[p] = "admin"}
Pending(s) == {p \in People : s.role[p] = "pending"}

(* A row: `known` when the store holds one, `stub` for needs_hydration,    *)
(* `muted` for the storage-service flags the group server knows nothing of.*)
Copy == [known : BOOLEAN, stub : BOOLEAN, rev : Nat, is : State, muted : BOOLEAN]
NoCopy == [known |-> FALSE, stub |-> FALSE, rev |-> 0, is |-> NoState, muted |-> FALSE]
Stub == [NoCopy EXCEPT !.known = TRUE, !.stub = TRUE]

(* group_change::Actions: what one change moves.                           *)
Change == [restrict : BOOLEAN, clear : SUBSET People, add : SUBSET People, invite : SUBSET People,
           remove : SUBSET People, promote : SUBSET People, demote : SUBSET People]
NoChange == [restrict |-> FALSE, clear |-> {}, add |-> {}, invite |-> {},
             remove |-> {}, promote |-> {}, demote |-> {}]

AnyGroup == CHOOSE g \in Groups : TRUE
NoTask == [op |-> "idle", step |-> "idle", g |-> AnyGroup, local |-> NoCopy, change |-> NoChange,
           rev |-> 0, tries |-> 0, id |-> 0, todo |-> {}, dirty |-> FALSE]

Version(g) == Len(log[g]) - 1
Current(g) == log[g][Len(log[g])].is
Created(g) == log[g] # <<>>

(* The server shows a group to its members and invitees.                   *)
Shows(g) == Created(g) /\ Me \in InGroup(Current(g))

(* What applying a change makes of a group.                                *)
Changed(s, c) ==
  [role |-> [p \in People |-> CASE p \in c.remove -> "out"
                                [] p \in c.promote \ c.remove -> "admin"
                                [] p \in (c.demote \union c.add) \ (c.remove \union c.promote) -> "member"
                                [] p \in c.invite \ (c.remove \union c.promote \union c.demote \union c.add) -> "pending"
                                [] OTHER -> s.role[p]],
   labels |-> (s.labels \ c.clear) \ c.remove,
   restricted |-> s.restricted \/ c.restrict]

(* The server refuses a change that re-adds a member, names people who are *)
(* not in the group, or comes from someone its access rules do not allow.  *)
Accepts(s, c) ==
  /\ Me \in InGroup(s)
  /\ (c.add \union c.invite) \intersect InGroup(s) = {}
  /\ c.remove \subseteq InGroup(s)
  /\ c.promote \union c.demote \union c.clear \subseteq Members(s)
  /\ Me \in Pending(s) => c = [NoChange EXCEPT !.remove = {Me}]
  /\ Me \notin Admins(s) => /\ c.remove \subseteq {Me} /\ ~ c.restrict
                            /\ c.promote \union c.demote \union c.clear = {}

(* Faulty: the flags only this device knows are not carried across.        *)
FromServerAlone(g, local) ==
  [known |-> TRUE, stub |-> FALSE, rev |-> Version(g), is |-> Current(g), muted |-> FALSE]

(* Group::from_server: the server's copy, with what only this device knows.*)
FromServer(g, local) ==
  [known |-> TRUE, stub |-> FALSE, rev |-> Version(g), is |-> Current(g), muted |-> local.muted]

(* Group::mark_left, at the revision that took us out.                     *)
MarkLeft(c, promoted, rev) ==
  [c EXCEPT !.rev = rev,
            !.is.role = [p \in People |-> IF p = Me THEN "out"
                                          ELSE IF p \in promoted \intersect Members(c.is) THEN "admin"
                                          ELSE c.is.role[p]],
            !.is.labels = @ \ {Me}]

(* Faulty: a denied stub keeps waiting to be hydrated.                     *)
MarkDeniedStub(c) == MarkLeft(c, {}, c.rev)

(* Group::mark_denied: left at an unknown revision, hydration given up.    *)
MarkDenied(c) == [MarkLeft(c, {}, c.rev) EXCEPT !.stub = FALSE]

(* Group::members_losing_labels.                                           *)
LosingLabels(c, restrict) ==
  IF ~ restrict \/ c.is.restricted THEN {}
  ELSE c.is.labels \intersect (Members(c.is) \ Admins(c.is))

(* Faulty: a group is orphaned only when its members have not been told.   *)
OrphansNever(c, promoted) == FALSE

(* leave_orphans_the_group.                                                *)
Orphans(c, promoted) ==
  LET rest == Members(c.is) \ {Me}
  IN rest # {} /\ rest \intersect (Admins(c.is) \union promoted) = {}

(* A group another client made with all of the people in it, or none yet.  *)
Founded(s) == [is |-> s, by |-> 0, op |-> "create", checked |-> TRUE]
Starts == {s \in State : InGroup(s) = People /\ Admins(s) # {} /\ s.labels = Members(s) \ Admins(s) /\ ~ s.restricted}

Init ==
  /\ log \in [Groups -> {<<>>, <<Founded(NoState)>>} \union {<<Founded(s)>> : s \in Starts}]
  /\ \A g \in Groups : g \in Refused <=> log[g] = <<Founded(NoState)>>
  /\ row \in [Groups -> {NoCopy, Stub} \union {FromServer(g, NoCopy) : g \in {h \in Groups : Shows(h)}}]
  /\ \A g \in Groups : row[g] \in IF g \in Refused THEN {Stub}
                                   ELSE IF Shows(g) THEN {NoCopy, FromServer(g, NoCopy)} ELSE {NoCopy}
  /\ task = [t \in Tasks |-> NoTask]
  /\ spent = [calls |-> 0, remote |-> 0, faults |-> 0]

(***************************************************************************)
(* Beginning an operation                                                  *)
(***************************************************************************)
Idle(t) == task[t].op = "idle"

(* Slots are alike: an operation takes the first free one.                 *)
Free(t) == Idle(t) /\ t = CHOOSE u \in Tasks : Idle(u)

(* The first await of a call on group g, which has read the row.           *)
Begin(t, op, step, g, local, change) ==
  /\ Free(t) /\ spent.calls < MaxCalls
  /\ spent' = [spent EXCEPT !.calls = @ + 1]
  /\ task' = [task EXCEPT ![t] = [NoTask EXCEPT !.op = op, !.step = step, !.g = g, !.local = local,
                                    !.change = change, !.rev = local.rev, !.id = spent.calls + 1]]
  /\ UNCHANGED <<log, row>>

(* upsert_group: a message carries a revision the server has held; a row   *)
(* that has reached it needs no fetch.  A send asks for revision 0, so any *)
(* stored row will do, a stub included.                                    *)
BeginUpsert(t, g, revision) ==
  /\ revision <= Version(g) /\ ~ (row[g].known /\ row[g].rev >= revision)
  /\ Begin(t, "upsert", "fetch", g, row[g], NoChange)

(* hydrate_groups: a worker takes the stubs that no other worker has.      *)
Share(t) == task[t].todo \union (IF task[t].op = "hydrate" /\ task[t].step # "pick" THEN {task[t].g} ELSE {})
Stubs == {g \in Groups : row[g].known /\ row[g].stub} \ UNION {Share(t) : t \in Tasks}
BeginHydrate(t) ==
  /\ Free(t) /\ Stubs # {}
  /\ task' = [task EXCEPT ![t] = [NoTask EXCEPT !.op = "hydrate", !.step = "pick", !.todo = Stubs]]
  /\ UNCHANGED <<log, row, spent>>

HydrateNext(t, g) ==
  /\ task[t].step = "pick" /\ g \in task[t].todo
  /\ task' = [task EXCEPT ![t].step = "fetch", ![t].g = g, ![t].local = row[g], ![t].dirty = FALSE,
                          ![t].todo = @ \ {g}]
  /\ UNCHANGED <<log, row, spent>>

(* update_group: it may hand the labels to administrators, or change the   *)
(* attributes no rule depends on.                                          *)
BeginUpdate(t, g, restrict) ==
  /\ row[g].known
  /\ Begin(t, "update", "patch", g, row[g],
           [NoChange EXCEPT !.restrict = restrict, !.clear = LosingLabels(row[g], restrict)])

(* update_group_members, one person per change: people already in the      *)
(* group are not added again, and adding someone without a profile key     *)
(* credential invites them.                                                *)
BeginMembers(t, g, p, credential) ==
  /\ Me \in Members(row[g].is)
  /\ \/ /\ p \notin InGroup(row[g].is)
        /\ Begin(t, "members", "patch", g, row[g],
                 IF credential THEN [NoChange EXCEPT !.add = {p}] ELSE [NoChange EXCEPT !.invite = {p}])
     \/ /\ p \in InGroup(row[g].is)
        /\ \E c \in {[NoChange EXCEPT !.remove = {p}], [NoChange EXCEPT !.promote = {p}],
                     [NoChange EXCEPT !.demote = {p}]} :
             Begin(t, "members", "patch", g, row[g], c)

(* leave_group: an invitee withdraws the invitation.                       *)
BeginLeave(t, g, promoted) ==
  /\ Me \in InGroup(row[g].is)
  /\ \/ /\ Me \in Pending(row[g].is) /\ promoted = {}
        /\ Begin(t, "leave", "patch", g, row[g], [NoChange EXCEPT !.remove = {Me}])
     \/ /\ Me \in Members(row[g].is) /\ ~ Orphans(row[g], promoted)
        /\ Begin(t, "leave", "patch", g, row[g],
                 [NoChange EXCEPT !.remove = {Me}, !.promote = promoted])

(* create_group draws a fresh master key.                                  *)
BeginCreate(t, g, add, invite) ==
  /\ ~ Created(g) /\ ~ row[g].known /\ \A u \in Tasks : Idle(u) \/ task[u].g # g
  /\ add \intersect invite = {} /\ add \union invite \subseteq Others
  /\ Begin(t, "create", "put", g, NoCopy,
           [NoChange EXCEPT !.add = add, !.invite = invite, !.promote = {Me}])

(* The flags of a row change in two ways, each a read, an edit and a save: *)
(* the application edits them (edit_group_for_publish), or the storage     *)
(* sync merges the group's record, storing a stub for a group not seen     *)
(* before.                                                                 *)
Flagged(c, muted) == [IF c.known THEN c ELSE Stub EXCEPT !.muted = muted]
BeginFlags(t, g, muted) ==
  /\ Created(g)
  /\ Begin(t, "flags", "save", g, Flagged(row[g], muted), NoChange)

(***************************************************************************)
(* Changing a group: apply_group_change and create_group                   *)
(***************************************************************************)
Fault == spent.faults < MaxFaults /\ spent' = [spent EXCEPT !.faults = @ + 1]

(* The operation is over; a worker goes on with its chunk.                 *)
Over(t) == IF task[t].todo = {} THEN NoTask
           ELSE [NoTask EXCEPT !.op = "hydrate", !.step = "pick", !.todo = task[t].todo]

(* `checked` notes that the change was judged on a hydrated copy of the    *)
(* very revision it was applied to.                                        *)
Ours(t, is) == [is |-> is, by |-> task[t].id, op |-> task[t].op,
                checked |-> task[t].tries = 0 /\ ~ task[t].local.stub]

(* The server takes a change numbered one past its own revision.           *)
Accepted(t) ==
  /\ task[t].step = "patch" /\ task[t].rev = Version(task[t].g)
  /\ Accepts(Current(task[t].g), task[t].change)
Committed(t) == [log EXCEPT ![task[t].g] =
                   Append(@, Ours(t, Changed(Current(task[t].g), task[t].change)))]

(* leave_group edits the copy it read when it began; the group is not read *)
(* back, since the server no longer answers for it.                        *)
LeftCopy(t) == MarkLeft(task[t].local, task[t].change.promote, task[t].rev + 1)

PatchAccepted(t) ==
  /\ Accepted(t)
  /\ log' = Committed(t)
  /\ task' = [task EXCEPT ![t].step = IF task[t].op = "leave" THEN "save" ELSE "reread",
                          ![t].local = IF task[t].op = "leave" THEN LeftCopy(t) ELSE @]
  /\ UNCHANGED <<row, spent>>

(* Faulty: a lost answer is taken for a conflict.                          *)
PatchLostRetried(t) ==
  /\ Accepted(t) /\ Fault
  /\ log' = Committed(t)
  /\ task' = [task EXCEPT ![t].step = "refetch"]
  /\ UNCHANGED row

(* The change was applied and its answer lost: the call fails.             *)
PatchLost(t) ==
  /\ Accepted(t) /\ Fault
  /\ log' = Committed(t)
  /\ task' = [task EXCEPT ![t] = Over(t)]
  /\ UNCHANGED row

(* Faulty: counts one conflict too many.                                   *)
PatchConflictAgain(t) ==
  /\ task[t].step = "patch" /\ task[t].rev # Version(task[t].g)
  /\ task' = [task EXCEPT ![t] = IF task[t].tries <= ConflictRetries
                                 THEN [@ EXCEPT !.step = "refetch", !.tries = @ + 1]
                                 ELSE Over(t)]
  /\ UNCHANGED <<log, row, spent>>

(* The revision a change is rebuilt against after a conflict.              *)
Rebuilt(t) == Version(task[t].g)

PatchConflict(t) ==
  /\ task[t].step = "patch" /\ task[t].rev # Version(task[t].g)
  /\ \/ /\ task[t].tries < ConflictRetries
        /\ task' = [task EXCEPT ![t].step = "refetch", ![t].tries = @ + 1]
     \/ /\ task[t].tries >= ConflictRetries
        /\ task' = [task EXCEPT ![t] = Over(t)]
  /\ UNCHANGED <<log, row, spent>>

(* Only the revision is rebuilt: what the change says was decided before.  *)
Refetch(t) ==
  /\ task[t].step = "refetch"
  /\ task' = [task EXCEPT ![t] = IF Shows(task[t].g)
                                 THEN [@ EXCEPT !.step = "patch", !.rev = Rebuilt(t)]
                                 ELSE Over(t)]
  /\ UNCHANGED <<log, row, spent>>

PatchRefused(t) ==
  /\ task[t].step = "patch" /\ task[t].rev = Version(task[t].g)
  /\ ~ Accepts(Current(task[t].g), task[t].change)
  /\ task' = [task EXCEPT ![t] = Over(t)]
  /\ UNCHANGED <<log, row, spent>>

PutGroup(t) ==
  /\ task[t].step = "put"
  /\ log' = [log EXCEPT ![task[t].g] = <<Ours(t, Changed(NoState, task[t].change))>>]
  /\ \/ task' = [task EXCEPT ![t].step = "reread"] /\ UNCHANGED spent
     \/ Fault /\ task' = [task EXCEPT ![t] = Over(t)]
  /\ UNCHANGED row

(* Faulty: the change is applied to the copy it was built on.              *)
RereadLocally(t) ==
  /\ task[t].step = "reread"
  /\ task' = [task EXCEPT ![t].step = "save", ![t].local.rev = task[t].rev + 1,
                          ![t].local.is = Changed(@, task[t].change)]
  /\ UNCHANGED <<log, row, spent>>

(* save_group_from_server: an answer that does not come is the call's      *)
(* error, although the change was made.                                    *)
Reread(t) ==
  /\ task[t].step = "reread"
  /\ task' = [task EXCEPT ![t] = IF Shows(task[t].g)
                                 THEN [@ EXCEPT !.step = "save", !.local = FromServer(task[t].g, task[t].local)]
                                 ELSE Over(t)]
  /\ UNCHANGED <<log, row, spent>>

(***************************************************************************)
(* Reading a group: fetch_and_store_group                                  *)
(***************************************************************************)
FetchServed(t) ==
  /\ task[t].step = "fetch" /\ Shows(task[t].g)
  /\ task' = [task EXCEPT ![t].step = "save", ![t].local = FromServer(task[t].g, task[t].local)]
  /\ UNCHANGED <<log, row, spent>>

(* A group the server refuses is recorded as left, if it is known at all.  *)
FetchRefused(t) ==
  /\ task[t].step = "fetch" /\ ~ Shows(task[t].g)
  /\ task' = [task EXCEPT ![t] = IF task[t].local.known
                                 THEN [@ EXCEPT !.step = "save", !.local = MarkDenied(task[t].local)]
                                 ELSE Over(t)]
  /\ UNCHANGED <<log, row, spent>>

(* A fetch that fails leaves the caller what is stored; a hydration goes   *)
(* on with its chunk unless the account itself was refused.                *)
Fails(t) ==
  /\ task[t].step \in {"patch", "refetch", "put", "reread", "fetch"} /\ Fault
  /\ \/ task' = [task EXCEPT ![t] = Over(t)]
     \/ task[t].op = "hydrate" /\ task' = [task EXCEPT ![t] = NoTask]
  /\ UNCHANGED <<log, row>>

(* The whole row is replaced, whatever it has become meanwhile; `dirty`    *)
(* notes that the flags of a copy in flight have become stale.             *)
Save(t) ==
  LET g == task[t].g IN
  /\ task[t].step = "save"
  /\ row' = [row EXCEPT ![g] = task[t].local]
  /\ task' = [u \in Tasks |->
                CASE u = t -> Over(t)
                  [] u # t /\ task[u].step # "idle" /\ task[u].g = g /\ row[g].muted # task[t].local.muted
                       -> [task[u] EXCEPT !.dirty = TRUE]
                  [] OTHER -> task[u]]
  /\ UNCHANGED <<log, spent>>

(***************************************************************************)
(* The environment                                                         *)
(***************************************************************************)
(* The other members' clients: one revision at a time, never leaving a     *)
(* group without an administrator nor a label its rule forbids.            *)
OtherChange(g, s) ==
  /\ Created(g) /\ spent.remote < MaxRemote
  /\ spent' = [spent EXCEPT !.remote = @ + 1]
  /\ \E p \in People : \E r \in Roles : s.role = [Current(g).role EXCEPT ![p] = r]
  /\ Admins(s) # {} /\ s # Current(g)
  /\ s.labels = Current(g).labels \intersect Members(s) /\ s.restricted = Current(g).restricted
  /\ log' = [log EXCEPT ![g] = Append(@, [is |-> s, by |-> 0, op |-> "other", checked |-> TRUE])]
  /\ UNCHANGED <<row, task>>

Crash ==
  /\ Fault /\ \E t \in Tasks : ~ Idle(t)
  /\ task' = [t \in Tasks |-> NoTask]
  /\ UNCHANGED <<log, row>>

(***************************************************************************)
(* Specification                                                           *)
(***************************************************************************)
Call(t, g) ==
  \/ \E revision \in 0..Version(g) : BeginUpsert(t, g, revision)
  \/ \E restrict \in BOOLEAN : BeginUpdate(t, g, restrict)
  \/ \E p \in Others, credential \in BOOLEAN : BeginMembers(t, g, p, credential)
  \/ \E promoted \in SUBSET Others : BeginLeave(t, g, promoted)
  \/ \E add, invite \in SUBSET Others : BeginCreate(t, g, add, invite)
  \/ \E muted \in BOOLEAN : BeginFlags(t, g, muted)

(* The steps of an operation in progress.                                  *)
Step(t) ==
  \/ \E g \in Groups : HydrateNext(t, g)
  \/ PatchAccepted(t) \/ PatchConflict(t) \/ PatchRefused(t) \/ Refetch(t)
  \/ PutGroup(t) \/ Reread(t) \/ FetchServed(t) \/ FetchRefused(t) \/ Save(t)

Hydrate == \E t \in Tasks : BeginHydrate(t)

Next ==
  \/ \E t \in Tasks, g \in Groups \ Refused : Call(t, g)
  \/ Hydrate
  \/ \E t \in Tasks : Step(t) \/ PatchLost(t) \/ Fails(t)
  \/ \E g \in Groups \ Refused, s \in State : OtherChange(g, s)
  \/ Crash

Spec == Init /\ [][Next]_vars

(* Started operations run on, and the application hydrates the groups that *)
(* need it at every boot.                                                  *)
FairSpec == Spec /\ (\A t \in Tasks : WF_vars(Step(t))) /\ WF_vars(Hydrate)

(***************************************************************************)
(* Properties                                                              *)
(***************************************************************************)
Entry == [is : State, by : Nat, op : {"create", "other", "update", "members", "leave"}, checked : BOOLEAN]
Steps == {"idle", "pick", "fetch", "patch", "refetch", "put", "reread", "save"}
Ops == {"idle", "upsert", "hydrate", "update", "members", "leave", "create", "flags"}
Task == [op : Ops, step : Steps, g : Groups, local : Copy, change : Change, rev : Nat,
         tries : 0..ConflictRetries, id : Nat, todo : SUBSET Groups, dirty : BOOLEAN]

TypeOK ==
  /\ log \in [Groups -> Seq(Entry)]
  /\ row \in [Groups -> Copy]
  /\ task \in [Tasks -> Task]
  /\ spent \in [calls : Nat, remote : Nat, faults : Nat]

(* A copy that says we are in the group is the server's copy of that       *)
(* revision, whether stored or on its way to the store; and no copy is     *)
(* ahead of the server.  Conflicts, denials and copies made by hand        *)
(* (mark_left) must not break it.                                          *)
Authentic(g, c) ==
  c.known /\ ~ c.stub => /\ c.rev <= Version(g)
                         /\ Me \in InGroup(c.is) => c.is = log[g][c.rev + 1].is
CopiesAreServers ==
  \A g \in Groups : /\ Authentic(g, row[g])
                    /\ \A t \in Tasks : task[t].g = g => Authentic(g, task[t].local)

(* A call changes the group at most once, however often it was rebuilt,    *)
(* and the revision it reports to the members (the returned context) is    *)
(* the one the server gave to this change.                                 *)
OneChangePerCall ==
  /\ \A g, h \in Groups : \A i \in DOMAIN log[g], j \in DOMAIN log[h] :
       log[g][i].by # 0 /\ log[g][i].by = log[h][j].by => g = h /\ i = j
  /\ \A t \in Tasks : task[t].step \in {"reread", "save"} /\ task[t].op \in {"update", "members", "leave"}
       => /\ task[t].rev + 1 < Len(log[task[t].g])
          /\ log[task[t].g][task[t].rev + 2].by = task[t].id

(* A change that met no conflict and was built on a hydrated copy is       *)
(* judged on what it was checked against: leaving keeps an administrator   *)
(* among those who stay, and restricting labels clears the ones it forbids *)
(* (leave_orphans_the_group, members_losing_labels).                       *)
CheckedChangesHold ==
  \A g \in Groups : \A i \in 2..Len(log[g]) :
    LET e == log[g][i] IN
    e.checked =>
      /\ e.op = "leave" /\ Me \in Members(log[g][i - 1].is) => Members(e.is) = {} \/ Admins(e.is) # {}
      /\ e.op = "update" /\ e.is.restricted /\ ~ log[g][i - 1].is.restricted
           => e.is.labels \subseteq Admins(e.is)

(* A fetch or a change keeps the storage-service flags of the row it       *)
(* replaces, unless they changed after it had read them                    *)
(* (Group::from_server).                                                   *)
FlagsKept ==
  [][\A g \in Groups : row'[g].muted # row[g].muted =>
       \E t \in Tasks : /\ task[t].step = "save" /\ task[t].g = g
                        /\ task[t].op = "flags" \/ task[t].dirty]_vars

(* No group is left waiting to be hydrated: every stub ends up read from   *)
(* the server or recorded as left.                                         *)
Hydrated == \A g \in Groups : <>[](~ row[g].stub)
=============================================================================
