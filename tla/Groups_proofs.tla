---------------------------- MODULE Groups_proofs ----------------------------
(***************************************************************************)
(* What Groups promises for any number of groups, people, operations,      *)
(* conflicts and failures.                                                 *)
(***************************************************************************)
EXTENDS Groups, SequenceTheorems, TLAPS

(***************************************************************************)
(* The inductive invariant.  Only groups that exist on the server are      *)
(* known here or worked on, but for the one a create_group is about to     *)
(* make, which nothing else touches: so the log of a group only grows, and *)
(* what a copy was read from stays where it was.                           *)
(***************************************************************************)
NotAhead(g, c) == c.known => c.rev <= Version(g)

RowGood(g) ==
  /\ row[g].known => Created(g)
  /\ ~ row[g].known => row[g] = NoCopy
  /\ NotAhead(g, row[g]) /\ Authentic(g, row[g])

(* Calls are numbered as they begin, and a change carries its call's       *)
(* number, once the server has taken it and not before.                    *)
Unused(id) == id # 0 /\ \A g \in Groups : \A i \in 1..Len(log[g]) : log[g][i].by # id

Changers == {"update", "members", "leave"}
Reported(k) ==
  k.step \in {"reread", "save"} /\ k.op \in Changers
    => k.rev + 1 < Len(log[k.g]) /\ log[k.g][k.rev + 2].by = k.id

Good(k) ==
  /\ k.step = "idle" <=> k.op = "idle"
  /\ k.step \notin {"idle", "pick", "put"} => Created(k.g)
  /\ \A g \in k.todo : Created(g)
  /\ k.step = "put" => ~ Created(k.g) /\ k.op = "create"
  /\ k.step \in {"pick", "fetch"} => k.op \notin Changers
  /\ k.step \in {"patch", "refetch"} => k.op \in Changers
  /\ k.step \in {"patch", "refetch", "save"} => k.local.known
  /\ k.local.known => Created(k.g)
  /\ NotAhead(k.g, k.local) /\ Authentic(k.g, k.local)
  /\ k.id <= spent.calls
  /\ k.step \in {"patch", "refetch", "put"} => Unused(k.id)
  /\ Reported(k)

LogGood ==
  /\ \A g \in Groups : \A i \in 1..Len(log[g]) : log[g][i].by <= spent.calls
  /\ \A g, h \in Groups : \A i \in 1..Len(log[g]), j \in 1..Len(log[h]) :
       log[g][i].by # 0 /\ log[g][i].by = log[h][j].by => g = h /\ i = j

Apart ==
  \A t, u \in Tasks : t # u =>
    /\ task[t].id # 0 => task[t].id # task[u].id
    /\ task[t].step = "put" /\ task[u].step = "put" => task[t].g # task[u].g

IInv ==
  /\ TypeOK
  /\ \A g \in Groups : RowGood(g)
  /\ \A t \in Tasks : Good(task[t])
  /\ LogGood
  /\ Apart

(***************************************************************************)
(* Types                                                                   *)
(***************************************************************************)
LEMMA StateTypes ==
  /\ NoState \in State
  /\ NoCopy \in Copy /\ Stub \in Copy /\ ~ NoCopy.known
  /\ NoChange \in Change
  /\ NoCopy.is.role = [p \in People |-> "out"]
BY DEF NoState, State, Roles, NoCopy, Copy, Stub, NoChange, Change

LEMMA ChangedType ==
  ASSUME NEW s \in State, NEW c \in Change
  PROVE  Changed(s, c) \in State
<1>1. \A p \in People : (CASE p \in c.remove -> "out"
                           [] p \in c.promote \ c.remove -> "admin"
                           [] p \in (c.demote \union c.add) \ (c.remove \union c.promote) -> "member"
                           [] p \in c.invite \ (c.remove \union c.promote \union c.demote \union c.add) -> "pending"
                           [] OTHER -> s.role[p]) \in Roles
  BY DEF State, Roles, Change
<1>2. (s.labels \ c.clear) \ c.remove \in SUBSET People /\ (s.restricted \/ c.restrict) \in BOOLEAN
  BY DEF State, Change
<1> QED BY <1>1, <1>2 DEF Changed, State

LEMMA NoTaskType == NoTask \in Task
<1>1. AnyGroup \in Groups
  BY GroupsAssumption DEF AnyGroup
<1> QED BY <1>1, StateTypes, GroupsAssumption DEF NoTask, Task, Ops, Steps

LEMMA LogTypes ==
  ASSUME TypeOK, NEW g \in Groups
  PROVE  /\ log[g] \in Seq(Entry) /\ Len(log[g]) \in Nat
         /\ Created(g) => Len(log[g]) > 0 /\ Version(g) \in Nat /\ Current(g) \in State
         /\ \A i \in 1..Len(log[g]) : log[g][i] \in Entry
<1>1. log[g] \in Seq(Entry)
  BY DEF TypeOK
<1>2. Len(log[g]) \in Nat /\ \A i \in 1..Len(log[g]) : log[g][i] \in Entry
  BY <1>1, ElementOfSeq, LenProperties
<1>3. ASSUME Created(g) PROVE Len(log[g]) > 0
  BY <1>1, <1>2, <1>3, EmptySeq DEF Created
<1>4. ASSUME Created(g) PROVE Version(g) \in Nat /\ Current(g) \in State
  <2>1. Len(log[g]) \in 1..Len(log[g])
    BY <1>2, <1>3, <1>4
  <2>2. log[g][Len(log[g])] \in Entry
    BY <1>2, <2>1
  <2> QED BY <1>2, <1>3, <1>4, <2>2 DEF Version, Current, Entry
<1> QED BY <1>1, <1>2, <1>3, <1>4

LEMMA CopyTypes ==
  ASSUME TypeOK, NEW g \in Groups, NEW c \in Copy
  PROVE  /\ Created(g) => FromServer(g, c) \in Copy
         /\ \A promoted, rev : rev \in Nat => MarkLeft(c, promoted, rev) \in Copy
         /\ MarkDenied(c) \in Copy
         /\ \A muted \in BOOLEAN : Flagged(c, muted) \in Copy
<1>1. Created(g) => FromServer(g, c) \in Copy
  BY LogTypes DEF FromServer, Copy
<1>2. ASSUME NEW promoted, NEW rev \in Nat PROVE MarkLeft(c, promoted, rev) \in Copy
  <2> DEFINE role == [p \in People |-> IF p = Me THEN "out"
                                       ELSE IF p \in promoted \intersect Members(c.is) THEN "admin"
                                       ELSE c.is.role[p]]
  <2>1. c.is \in State
    BY DEF Copy
  <2>2. role \in [People -> Roles]
    BY <2>1 DEF State, Roles
  <2> HIDE DEF role
  <2>3. [c.is EXCEPT !.role = role, !.labels = @ \ {Me}] \in State
    BY <2>1, <2>2 DEF State
  <2>4. [c EXCEPT !.rev = rev, !.is = [c.is EXCEPT !.role = role, !.labels = @ \ {Me}]] \in Copy
    BY <2>3 DEF Copy
  <2>5. MarkLeft(c, promoted, rev) = [c EXCEPT !.rev = rev, !.is = [c.is EXCEPT !.role = role, !.labels = @ \ {Me}]]
    BY <2>1 DEF MarkLeft, Copy, State, role
  <2> QED BY <2>4, <2>5
<1>3. c.rev \in Nat
  BY DEF Copy
<1>4. MarkDenied(c) \in Copy
  BY <1>2, <1>3 DEF MarkDenied, Copy
<1>5. \A muted \in BOOLEAN : Flagged(c, muted) \in Copy
  BY StateTypes DEF Flagged, Copy
<1> QED BY <1>1, <1>2, <1>4, <1>5

(* What the operation that is over leaves in its slot.                     *)
LEMMA OverGood ==
  ASSUME IInv, NEW t \in Tasks
  PROVE  /\ Over(t) \in Task /\ Over(t).id = 0 /\ Over(t).step \in {"idle", "pick"}
         /\ Over(t).local = NoCopy /\ Over(t).todo \subseteq task[t].todo
         /\ Over(t).step = "idle" <=> Over(t).op = "idle"
         /\ Over(t).op \notin Changers
<1>1. task[t] \in Task
  BY DEF IInv, TypeOK
<1>2. NoTask \in Task /\ NoTask.id = 0 /\ NoTask.step = "idle" /\ NoTask.op = "idle" /\ NoTask.local = NoCopy /\ NoTask.todo = {}
  BY NoTaskType DEF NoTask
<1>3. CASE task[t].todo = {}
  BY <1>2, <1>3 DEF Over, Changers
<1>4. CASE task[t].todo # {}
  <2> DEFINE n == [NoTask EXCEPT !.op = "hydrate", !.step = "pick", !.todo = task[t].todo]
  <2>1. n \in Task
    BY <1>1, <1>2 DEF Task, Ops, Steps
  <2>2. n.op = "hydrate" /\ n.step = "pick" /\ n.todo = task[t].todo /\ n.id = 0 /\ n.local = NoCopy
    BY <1>2 DEF NoTask
  <2>3. Over(t) = n
    BY <1>4 DEF Over
  <2> HIDE DEF n
  <2> QED BY <2>1, <2>2, <2>3 DEF Changers
<1> QED BY <1>3, <1>4

(***************************************************************************)
(* The log only grows                                                      *)
(***************************************************************************)
Grows ==
  \A g \in Groups : /\ Len(log'[g]) >= Len(log[g])
                    /\ \A i \in 1..Len(log[g]) : log'[g][i] = log[g][i]

(* A step that makes no change, or one, that is another member's or the    *)
(* first of the call `id` that makes it.                                   *)
OneEntry(id) ==
  /\ log' \in [Groups -> Seq(Entry)] /\ Grows
  /\ \A g \in Groups : \A i \in 1..Len(log'[g]) : i \notin 1..Len(log[g]) => log'[g][i].by \in {0, id}
  /\ \A g, h \in Groups : \A i \in 1..Len(log'[g]), j \in 1..Len(log'[h]) :
       i \notin 1..Len(log[g]) /\ j \notin 1..Len(log[h]) => g = h /\ i = j

LEMMA NoEntry ==
  ASSUME IInv, log' = log, NEW id
  PROVE  OneEntry(id)
BY LogTypes DEF IInv, TypeOK, OneEntry, Grows

LEMMA AppendIsOne ==
  ASSUME IInv, NEW g \in Groups, NEW e \in Entry, log' = [log EXCEPT ![g] = Append(@, e)]
  PROVE  /\ OneEntry(e.by)
         /\ Len(log'[g]) = Len(log[g]) + 1 /\ log'[g][Len(log[g]) + 1] = e
         /\ \A h \in Groups : h # g => log'[h] = log[h]
<1>1. \A h \in Groups : log[h] \in Seq(Entry) /\ Len(log[h]) \in Nat
  BY LogTypes DEF IInv
<1>2. log \in [Groups -> Seq(Entry)]
  BY DEF IInv, TypeOK
<1>3. log'[g] = Append(log[g], e) /\ \A h \in Groups : h # g => log'[h] = log[h]
  BY <1>2
<1>4. /\ Append(log[g], e) \in Seq(Entry)
      /\ Len(Append(log[g], e)) = Len(log[g]) + 1
      /\ Append(log[g], e)[Len(log[g]) + 1] = e
      /\ \A i \in 1..Len(log[g]) : Append(log[g], e)[i] = log[g][i]
  BY <1>1, AppendProperties
<1> QED BY <1>1, <1>2, <1>3, <1>4 DEF OneEntry, Grows

(* What was read from the server stays what the server held.               *)
LEMMA CopyStays ==
  ASSUME IInv, Grows, NEW g \in Groups, NEW c \in Copy,
         c.known => Created(g), NotAhead(g, c), Authentic(g, c),
         log' \in [Groups -> Seq(Entry)]
  PROVE  c.known => /\ log'[g] # <<>> /\ c.rev <= Len(log'[g]) - 1
                    /\ ~ c.stub /\ Me \in InGroup(c.is) => c.is = log'[g][c.rev + 1].is
<1> SUFFICES ASSUME c.known
             PROVE  /\ log'[g] # <<>> /\ c.rev <= Len(log'[g]) - 1
                    /\ ~ c.stub /\ Me \in InGroup(c.is) => c.is = log'[g][c.rev + 1].is
  OBVIOUS
<1>1. /\ Len(log[g]) \in Nat /\ Len(log[g]) > 0
      /\ Len(log'[g]) \in Nat /\ Len(log'[g]) >= Len(log[g])
  BY LogTypes, LenProperties DEF IInv, Grows
<1>2. c.rev \in Nat /\ c.rev <= Len(log[g]) - 1
  BY DEF Copy, NotAhead, Version
<1>3. log'[g] # <<>>
  BY <1>1, EmptySeq
<1>4. c.rev + 1 \in 1..Len(log[g])
  BY <1>1, <1>2
<1>5. log'[g][c.rev + 1] = log[g][c.rev + 1]
  BY <1>4 DEF Grows
<1> QED BY <1>1, <1>2, <1>3, <1>5 DEF Authentic

(* A slot no step touches, but for the note that its copy is stale.        *)
Untouched(u) ==
  /\ task'[u].op = task[u].op /\ task'[u].step = task[u].step /\ task'[u].g = task[u].g
  /\ task'[u].local = task[u].local /\ task'[u].rev = task[u].rev /\ task'[u].id = task[u].id
  /\ task'[u].todo = task[u].todo

LEMMA Within ==
  ASSUME NEW r \in Nat, NEW l \in Nat, r + 1 < l
  PROVE  r + 2 \in 1..l /\ \A m \in Nat : m >= l => r + 1 < m
OBVIOUS

LEMMA GoodStays ==
  ASSUME IInv, NEW u \in Tasks, Untouched(u), NEW id, OneEntry(id),
         id = 0 \/ task[u].id # id, spent.calls <= spent'.calls, TypeOK',
         task[u].step = "put" => log'[task[u].g] = log[task[u].g]
  PROVE  Good(task[u])'
<1> DEFINE k == task[u]
           n == task'[u]
<1>0. k \in Task /\ Good(k) /\ Grows /\ log' \in [Groups -> Seq(Entry)]
  BY DEF IInv, TypeOK, OneEntry
<1>t. /\ k.g \in Groups /\ k.local \in Copy /\ k.rev \in Nat /\ k.id \in Nat /\ k.todo \subseteq Groups
      /\ spent.calls \in Nat /\ spent'.calls \in Nat
  BY <1>0 DEF Task, IInv, TypeOK
<1>n. /\ n.op = k.op /\ n.step = k.step /\ n.g = k.g /\ n.local = k.local /\ n.rev = k.rev
      /\ n.id = k.id /\ n.todo = k.todo
  BY DEF Untouched
<1>c. \A g \in Groups : /\ Len(log[g]) \in Nat /\ Len(log'[g]) \in Nat
                        /\ Created(g) => log'[g] # <<>>
  <2> SUFFICES ASSUME NEW g \in Groups
               PROVE  /\ Len(log[g]) \in Nat /\ Len(log'[g]) \in Nat
                      /\ Created(g) => log'[g] # <<>>
    OBVIOUS
  <2>1. Len(log[g]) \in Nat /\ Len(log'[g]) \in Nat /\ (Created(g) => Len(log[g]) > 0) /\ Len(log'[g]) >= Len(log[g])
    BY <1>0, LogTypes, LenProperties DEF IInv, Grows
  <2> QED BY <2>1, EmptySeq
<1> HIDE DEF k, n
<1>1. k.step \notin {"idle", "pick", "put"} => log'[k.g] # <<>>
  BY <1>0, <1>t, <1>c DEF Good
<1>2. \A g \in k.todo : log'[g] # <<>>
  BY <1>0, <1>t, <1>c DEF Good
<1>3. k.step = "put" => log'[k.g] = <<>> /\ k.op = "create"
  BY <1>0 DEF Good, Created, k
<1>4. k.local.known =>
        /\ log'[k.g] # <<>> /\ k.local.rev <= Len(log'[k.g]) - 1
        /\ ~ k.local.stub /\ Me \in InGroup(k.local.is) => k.local.is = log'[k.g][k.local.rev + 1].is
  BY <1>0, <1>t, CopyStays DEF Good
<1>5. k.step \in {"patch", "refetch", "put"} =>
        k.id # 0 /\ \A g \in Groups : \A i \in 1..Len(log'[g]) : log'[g][i].by # k.id
  <2> SUFFICES ASSUME k.step \in {"patch", "refetch", "put"}, NEW g \in Groups, NEW i \in 1..Len(log'[g])
               PROVE  k.id # 0 /\ log'[g][i].by # k.id
    BY <1>0 DEF Good, Unused
  <2>1. k.id # 0 /\ (id = 0 \/ k.id # id)
    BY <1>0 DEF Good, Unused, k
  <2>2. CASE i \in 1..Len(log[g])
    BY <1>0, <2>1, <2>2 DEF Good, Unused, Grows
  <2>3. CASE i \notin 1..Len(log[g])
    BY <2>1, <2>3 DEF OneEntry
  <2> QED BY <2>2, <2>3
<1>6. k.step \in {"reread", "save"} /\ k.op \in Changers
        => k.rev + 1 < Len(log'[k.g]) /\ log'[k.g][k.rev + 2].by = k.id
  <2> SUFFICES ASSUME k.step \in {"reread", "save"}, k.op \in Changers
               PROVE  k.rev + 1 < Len(log'[k.g]) /\ log'[k.g][k.rev + 2].by = k.id
    OBVIOUS
  <2>1. k.rev + 1 < Len(log[k.g]) /\ log[k.g][k.rev + 2].by = k.id
    BY <1>0 DEF Good, Reported
  <2>t. Len(log[k.g]) \in Nat /\ Len(log'[k.g]) \in Nat
    BY <1>t, <1>c
  <2>2. k.rev + 2 \in 1..Len(log[k.g])
    BY <1>t, <2>t, <2>1, Within
  <2>3. log'[k.g][k.rev + 2] = log[k.g][k.rev + 2] /\ Len(log'[k.g]) >= Len(log[k.g])
    BY <1>0, <1>t, <2>2 DEF Grows
  <2>4. k.rev + 1 < Len(log'[k.g])
    BY <1>t, <2>t, <2>1, <2>3, Within
  <2> QED BY <2>1, <2>3, <2>4
<1>7. /\ k.step = "idle" <=> k.op = "idle"
      /\ k.step \in {"pick", "fetch"} => k.op \notin Changers
      /\ k.step \in {"patch", "refetch"} => k.op \in Changers
  BY <1>0 DEF Good
<1>8. k.step \in {"patch", "refetch", "save"} => k.local.known
  BY <1>0 DEF Good
<1>9. k.id <= spent'.calls
  BY <1>0, <1>t DEF Good
<1>10. /\ n.step = "idle" <=> n.op = "idle"
       /\ n.step \notin {"idle", "pick", "put"} => log'[n.g] # <<>>
       /\ n.step = "put" => log'[n.g] = <<>> /\ n.op = "create"
       /\ n.step \in {"pick", "fetch"} => n.op \notin Changers
       /\ n.step \in {"patch", "refetch"} => n.op \in Changers
  BY <1>n, <1>1, <1>3, <1>7
<1>11. \A g \in n.todo : log'[g] # <<>>
  BY <1>n, <1>2
<1>12. /\ n.step \in {"patch", "refetch", "save"} => n.local.known
       /\ n.local.known =>
            /\ log'[n.g] # <<>> /\ n.local.rev <= Len(log'[n.g]) - 1
            /\ ~ n.local.stub /\ Me \in InGroup(n.local.is) => n.local.is = log'[n.g][n.local.rev + 1].is
  BY <1>n, <1>4, <1>8
<1>13. /\ n.id <= spent'.calls
       /\ n.step \in {"patch", "refetch", "put"} =>
            n.id # 0 /\ \A g \in Groups : \A i \in 1..Len(log'[g]) : log'[g][i].by # n.id
       /\ n.step \in {"reread", "save"} /\ n.op \in Changers
            => n.rev + 1 < Len(log'[n.g]) /\ log'[n.g][n.rev + 2].by = n.id
  BY <1>n, <1>5, <1>6, <1>9
<1> QED
  BY <1>10, <1>11, <1>12, <1>13 DEF Good, Reported, NotAhead, Authentic, Unused, Created, Version, n

LEMMA RowStays ==
  ASSUME IInv, NEW g \in Groups, row'[g] = row[g], Grows, log' \in [Groups -> Seq(Entry)]
  PROVE  RowGood(g)'
<1>1. RowGood(g) /\ row[g] \in Copy
  BY DEF IInv, TypeOK
<1>2. row[g].known => /\ log'[g] # <<>> /\ row[g].rev <= Len(log'[g]) - 1
                      /\ ~ row[g].stub /\ Me \in InGroup(row[g].is)
                           => row[g].is = log'[g][row[g].rev + 1].is
  BY <1>1, CopyStays DEF RowGood
<1> QED BY <1>1, <1>2 DEF RowGood, NotAhead, Authentic, Created, Version

LEMMA LogStaysGood ==
  ASSUME IInv, NEW id \in Nat, OneEntry(id), spent.calls <= spent'.calls, id <= spent'.calls,
         id = 0 \/ Unused(id) \/ log' = log, TypeOK'
  PROVE  LogGood'
<1>t. spent.calls \in Nat /\ spent'.calls \in Nat
  BY DEF IInv, TypeOK
<1>g. LogGood /\ Grows
  BY DEF IInv, OneEntry
<1>y. \A g \in Groups : \A i \in 1..Len(log[g]) : log[g][i].by \in Nat
  BY LogTypes DEF IInv, Entry
<1>1. CASE log' = log
  BY <1>1, <1>t, <1>g, <1>y DEF LogGood
<1>2. CASE id = 0 \/ Unused(id)
  <2>1. \A g \in Groups : \A i \in 1..Len(log'[g]) :
          \/ i \in 1..Len(log[g]) /\ log'[g][i] = log[g][i]
          \/ i \notin 1..Len(log[g]) /\ log'[g][i].by \in {0, id}
    BY <1>g DEF OneEntry, Grows
  <2>2. ASSUME NEW g \in Groups, NEW i \in 1..Len(log'[g]) PROVE log'[g][i].by <= spent'.calls
    <3>1. CASE i \in 1..Len(log[g]) /\ log'[g][i] = log[g][i]
      <4>1. log[g][i].by <= spent.calls /\ log[g][i].by \in Nat
        BY <1>g, <1>y, <3>1 DEF LogGood
      <4> QED BY <1>t, <3>1, <4>1
    <3>2. CASE log'[g][i].by \in {0, id}
      BY <1>t, <3>2
    <3> QED BY <2>1, <3>1, <3>2
  <2>3. ASSUME NEW g \in Groups, NEW h \in Groups, NEW i \in 1..Len(log'[g]), NEW j \in 1..Len(log'[h]),
               log'[g][i].by # 0, log'[g][i].by = log'[h][j].by
        PROVE  g = h /\ i = j
    <3>1. CASE i \in 1..Len(log[g]) /\ j \in 1..Len(log[h])
      <4>1. log'[g][i] = log[g][i] /\ log'[h][j] = log[h][j]
        BY <1>g, <3>1 DEF Grows
      <4> QED BY <1>g, <2>3, <3>1, <4>1 DEF LogGood
    <3>2. CASE i \notin 1..Len(log[g]) /\ j \notin 1..Len(log[h])
      BY <3>2 DEF OneEntry
    <3>3. CASE i \in 1..Len(log[g]) /\ j \notin 1..Len(log[h])
      <4>1. log'[g][i] = log[g][i] /\ log'[h][j].by \in {0, id}
        BY <2>1, <3>3
      <4>2. log[g][i].by = id /\ id # 0
        BY <2>3, <4>1
      <4> QED BY <1>2, <3>3, <4>2 DEF Unused
    <3>4. CASE i \notin 1..Len(log[g]) /\ j \in 1..Len(log[h])
      <4>1. log'[h][j] = log[h][j] /\ log'[g][i].by \in {0, id}
        BY <2>1, <3>4
      <4>2. log[h][j].by = id /\ id # 0
        BY <2>3, <4>1
      <4> QED BY <1>2, <3>4, <4>2 DEF Unused
    <3> QED BY <3>1, <3>2, <3>3, <3>4
  <2> QED BY <2>2, <2>3 DEF LogGood
<1> QED BY <1>1, <1>2

(* A step of one operation that leaves the rows alone: what remains to be  *)
(* shown of it is that its own slot is good.                               *)
LEMMA OneMoves ==
  ASSUME IInv, NEW t \in Tasks, TypeOK', row' = row,
         \A u \in Tasks \ {t} : task'[u] = task[u],
         NEW id \in Nat, OneEntry(id), spent.calls <= spent'.calls, id <= spent'.calls,
         id = 0 \/ (id = task[t].id /\ Unused(id)),
         \A u \in Tasks \ {t} : task[u].step = "put" =>
            /\ log'[task[u].g] = log[task[u].g]
            /\ task'[t].step = "put" => task'[t].g # task[u].g,
         task'[t].id \in {0, task[t].id} \/ (task'[t].id = spent.calls + 1),
         Good(task[t])'
  PROVE  IInv'
<1>1. \A g \in Groups : RowGood(g)'
  BY RowStays DEF OneEntry
<1>2. LogGood'
  BY LogStaysGood
<1>3. ASSUME NEW u \in Tasks \ {t} PROVE Good(task[u])'
  <2>1. id = 0 \/ task[u].id # id
    BY DEF IInv, Apart, Unused
  <2>2. Untouched(u)
    BY DEF Untouched
  <2> QED BY <2>1, <2>2, GoodStays
<1>4. \A u \in Tasks : Good(task[u])'
  BY <1>3
<1>5. Apart'
  <2>1. \A u \in Tasks : task[u].id <= spent.calls /\ task[u].id \in Nat
    BY DEF IInv, Good, TypeOK, Task
  <2>2. spent.calls \in Nat
    BY DEF IInv, TypeOK
  <2>3. \A u \in Tasks \ {t} : task'[t].id # 0 => task'[t].id # task[u].id
    BY <2>1, <2>2 DEF IInv, Apart
  <2> QED BY <2>3 DEF IInv, Apart
<1> QED BY <1>1, <1>2, <1>4, <1>5 DEF IInv

(***************************************************************************)
(* The steps                                                               *)
(***************************************************************************)
LEMMA Slot ==
  ASSUME IInv, NEW t \in Tasks
  PROVE  /\ task[t] \in Task /\ Good(task[t])
         /\ task[t].g \in Groups /\ task[t].local \in Copy /\ task[t].change \in Change
         /\ task[t].rev \in Nat /\ task[t].id \in Nat /\ task[t].todo \subseteq Groups
         /\ row[task[t].g] \in Copy /\ RowGood(task[t].g)
         /\ spent \in [calls : Nat, remote : Nat, faults : Nat]
         /\ task \in [Tasks -> Task] /\ row \in [Groups -> Copy] /\ log \in [Groups -> Seq(Entry)]
BY DEF IInv, TypeOK, Task

(* The call begins, on a group and a copy of it that are as they should.   *)
LEMMA Begins ==
  ASSUME IInv, NEW t \in Tasks, NEW op \in Ops \ {"idle", "hydrate"}, NEW step \in {"fetch", "patch", "put", "save"},
         NEW g \in Groups, NEW local \in Copy, NEW change \in Change,
         Begin(t, op, step, g, local, change),
         step # "put" => Created(g),
         step \in {"patch", "save"} => local.known,
         step \in {"save", "fetch"} => op \notin Changers, step = "patch" => op \in Changers,
         step = "put" => /\ ~ Created(g) /\ op = "create"
                         /\ \A u \in Tasks \ {t} : task[u].step = "put" => task[u].g # g,
         local.known => Created(g), NotAhead(g, local), Authentic(g, local)
  PROVE  IInv'
<1> DEFINE n == [NoTask EXCEPT !.op = op, !.step = step, !.g = g, !.local = local,
                               !.change = change, !.rev = local.rev, !.id = spent.calls + 1]
<1>1. /\ task' = [task EXCEPT ![t] = n] /\ spent' = [spent EXCEPT !.calls = @ + 1]
      /\ log' = log /\ row' = row
  BY DEF Begin
<1>2. spent.calls \in Nat /\ spent'.calls = spent.calls + 1 /\ spent' \in [calls : Nat, remote : Nat, faults : Nat]
  <2>1. spent \in [calls : Nat, remote : Nat, faults : Nat]
    BY Slot
  <2> QED BY <1>1, <2>1
<1>3. /\ n.op = op /\ n.step = step /\ n.g = g /\ n.local = local /\ n.id = spent.calls + 1 /\ n.todo = {}
      /\ n \in Task
  <2>1. local.rev \in Nat /\ spent.calls + 1 \in Nat /\ op \in Ops /\ step \in Steps
    BY <1>2 DEF Copy, Steps
  <2>2. n \in Task
    BY <2>1, NoTaskType DEF Task
  <2> QED BY <2>2 DEF NoTask
<1> HIDE DEF n
<1>4. task'[t] = n /\ task' \in [Tasks -> Task] /\ \A u \in Tasks \ {t} : task'[u] = task[u]
  BY <1>1, <1>3, Slot
<1>5. TypeOK'
  BY <1>1, <1>2, <1>4, Slot DEF TypeOK
<1>6. Unused(spent.calls + 1)
  BY <1>2, LogTypes DEF IInv, LogGood, Unused, Entry
<1>7. Good(task[t])'
  <2>1. /\ n.step = "idle" <=> n.op = "idle"
        /\ n.step \notin {"idle", "pick", "put"} => Created(n.g)
        /\ n.step = "put" => ~ Created(n.g) /\ n.op = "create"
        /\ n.step \in {"patch", "refetch", "save"} => n.local.known
        /\ n.local.known => Created(n.g)
        /\ ~ (n.step \in {"reread", "save"} /\ n.op \in Changers)
        /\ n.step \in {"pick", "fetch"} => n.op \notin Changers
        /\ n.step \in {"patch", "refetch"} => n.op \in Changers
        /\ n.todo = {}
    BY <1>3
  <2>2. NotAhead(n.g, n.local) /\ Authentic(n.g, n.local)
    BY <1>3
  <2>3. n.id <= spent'.calls /\ Unused(n.id)
    BY <1>2, <1>3, <1>6
  <2> QED BY <1>1, <1>4, <2>1, <2>2, <2>3 DEF Good, Created, NotAhead, Authentic, Version, Unused, Reported
<1>8. OneEntry(0)
  BY <1>1, NoEntry
<1> QED BY <1>1, <1>2, <1>3, <1>4, <1>5, <1>7, <1>8, OneMoves

(* A step of an operation that begins no call and changes nothing but its  *)
(* own slot.                                                               *)
LEMMA OnlyMoves ==
  ASSUME IInv, NEW t \in Tasks, NEW n \in Task, task' = [task EXCEPT ![t] = n], log' = log, row' = row,
         spent' \in [calls : Nat, remote : Nat, faults : Nat], spent'.calls = spent.calls,
         Good(n), n.id \in {0, task[t].id}, n.step # "put"
  PROVE  IInv'
<1>1. task'[t] = n /\ task' \in [Tasks -> Task] /\ \A u \in Tasks \ {t} : task'[u] = task[u]
  BY Slot
<1>2. TypeOK'
  BY <1>1, Slot DEF TypeOK
<1>3. Good(task[t])'
  BY <1>1 DEF Good, Created, NotAhead, Authentic, Version, Unused, Reported
<1>4. OneEntry(0)
  BY NoEntry
<1>5. spent.calls \in Nat
  BY Slot
<1> QED BY <1>1, <1>2, <1>3, <1>4, <1>5, OneMoves

LEMMA OverIsGood ==
  ASSUME IInv, NEW t \in Tasks
  PROVE  Over(t) \in Task /\ Good(Over(t)) /\ Over(t).id = 0 /\ Over(t).step # "put"
<1>1. /\ Over(t) \in Task /\ Over(t).id = 0 /\ Over(t).step \in {"idle", "pick"}
      /\ Over(t).local = NoCopy /\ Over(t).todo \subseteq task[t].todo
      /\ Over(t).step = "idle" <=> Over(t).op = "idle"
      /\ Over(t).op \notin Changers
  BY OverGood
<1>2. \A g \in task[t].todo : Created(g)
  BY Slot DEF Good
<1>3. 0 <= spent.calls
  BY Slot
<1> QED BY <1>1, <1>2, <1>3, StateTypes DEF Good, NotAhead, Authentic, Reported

LEMMA InitIInv == Init => IInv
<1> SUFFICES ASSUME Init PROVE IInv
  OBVIOUS
<1> USE DEF Init
<1>1. \A g \in Groups : log[g] = <<>> \/ \E s \in State : log[g] = <<Founded(s)>>
  BY StateTypes DEF Starts
<1>2. \A s \in State : Founded(s) \in Entry /\ Founded(s).by = 0
  BY DEF Founded, Entry
<1>3. \A g \in Groups : log[g] \in Seq(Entry) /\ \A i \in 1..Len(log[g]) : log[g][i].by = 0
  <2>1. \A g \in Groups : log[g] = <<>> \/ \E e \in Entry : log[g] = <<e>> /\ e.by = 0
    BY <1>1, <1>2
  <2> SUFFICES ASSUME NEW g \in Groups
               PROVE  log[g] \in Seq(Entry) /\ \A i \in 1..Len(log[g]) : log[g][i].by = 0
    OBVIOUS
  <2>2. CASE log[g] = <<>>
    BY <2>2
  <2>3. ASSUME NEW e \in Entry, log[g] = <<e>>, e.by = 0
        PROVE  log[g] \in Seq(Entry) /\ \A i \in 1..Len(log[g]) : log[g][i].by = 0
    BY <2>3
  <2> QED BY <2>1, <2>2, <2>3
<1>4. \A t \in Tasks : task[t] = NoTask
  OBVIOUS
<1>5. \A g \in Groups : RowGood(g) /\ row[g] \in Copy
  <2> SUFFICES ASSUME NEW g \in Groups PROVE RowGood(g) /\ row[g] \in Copy
    OBVIOUS
  <2>1. CASE g \in Refused
    <3>1. row[g] = Stub /\ log[g] = <<Founded(NoState)>>
      BY <2>1
    <3> QED BY <3>1, StateTypes DEF RowGood, Created, NotAhead, Authentic, Version, Stub, NoCopy
  <2>2. CASE row[g] = NoCopy
    BY <2>2, StateTypes DEF RowGood, NotAhead, Authentic
  <2>3. CASE row[g] = FromServer(g, NoCopy) /\ Shows(g)
    <3>1. Created(g) /\ Len(log[g]) = 1 /\ log[g][1].is \in State
      BY <1>1, <2>3 DEF Shows, Created, Founded
    <3> QED BY <2>3, <3>1, StateTypes
            DEF RowGood, NotAhead, Authentic, FromServer, Version, Current, Copy, NoCopy
  <2> QED BY <2>1, <2>2, <2>3
<1>6. TypeOK
  BY <1>3, <1>4, <1>5, NoTaskType DEF TypeOK
<1>7. \A t \in Tasks : Good(task[t])
  BY <1>4, StateTypes DEF NoTask, Good, Changers, NotAhead, Authentic, Reported
<1>8. LogGood
  BY <1>3 DEF LogGood
<1>9. Apart
  BY <1>4 DEF Apart, NoTask
<1> QED BY <1>5, <1>6, <1>7, <1>8, <1>9 DEF IInv

LEMMA CallKeeps ==
  ASSUME IInv, NEW t \in Tasks, NEW g \in Groups, Call(t, g)
  PROVE  IInv'
<1>0. /\ row[g] \in Copy /\ RowGood(g) /\ ~ NoCopy.known /\ NoCopy \in Copy /\ NoChange \in Change
      /\ {"update", "members", "leave", "upsert", "create", "flags"} \subseteq Ops \ {"idle", "hydrate"}
  BY StateTypes DEF IInv, TypeOK, Ops
<1>1. ASSUME Me \in InGroup(row[g].is) PROVE row[g].known
  BY <1>0, <1>1, StateTypes DEF RowGood, InGroup
<1>2. ASSUME NEW revision \in 0..Version(g), BeginUpsert(t, g, revision) PROVE IInv'
  <2>1. Begin(t, "upsert", "fetch", g, row[g], NoChange)
    BY <1>2 DEF BeginUpsert
  <2>2. Created(g)
    <3>1. Len(log[g]) \in Nat /\ log[g] \in Seq(Entry) /\ Len(log[g]) - 1 >= 0
      BY <1>2, LogTypes DEF IInv, Version
    <3> QED BY <3>1 DEF Created
  <2> QED BY <1>0, <2>1, <2>2, Begins DEF RowGood, Changers
<1>3. ASSUME NEW restrict \in BOOLEAN, BeginUpdate(t, g, restrict) PROVE IInv'
  <2> DEFINE c == [NoChange EXCEPT !.restrict = restrict, !.clear = LosingLabels(row[g], restrict)]
  <2>1. Begin(t, "update", "patch", g, row[g], c) /\ row[g].known
    BY <1>3 DEF BeginUpdate
  <2>2. LosingLabels(row[g], restrict) \in SUBSET People
    BY <1>0 DEF LosingLabels, Copy, State
  <2>3. c \in Change
    BY <1>0, <2>2 DEF Change
  <2> HIDE DEF c
  <2> QED BY <1>0, <2>1, <2>3, Begins DEF RowGood, Changers
<1>4. ASSUME NEW p \in Others, NEW credential \in BOOLEAN, BeginMembers(t, g, p, credential) PROVE IInv'
  <2>1. row[g].known
    BY <1>1, <1>4 DEF BeginMembers, Members, InGroup
  <2>2. \E c \in Change : Begin(t, "members", "patch", g, row[g], c)
    <3>1. \A x \in People : /\ [NoChange EXCEPT !.add = {x}] \in Change /\ [NoChange EXCEPT !.invite = {x}] \in Change
                            /\ [NoChange EXCEPT !.remove = {x}] \in Change /\ [NoChange EXCEPT !.promote = {x}] \in Change
                            /\ [NoChange EXCEPT !.demote = {x}] \in Change
      BY <1>0 DEF Change
    <3>2. p \in People
      BY DEF People
    <3> QED BY <1>4, <3>1, <3>2 DEF BeginMembers
  <2> QED BY <1>0, <2>1, <2>2, Begins DEF RowGood, Changers
<1>5. ASSUME NEW promoted \in SUBSET Others, BeginLeave(t, g, promoted) PROVE IInv'
  <2>1. row[g].known
    BY <1>1, <1>5 DEF BeginLeave
  <2>2. \E c \in Change : Begin(t, "leave", "patch", g, row[g], c)
    <3>1. /\ [NoChange EXCEPT !.remove = {Me}] \in Change
          /\ [NoChange EXCEPT !.remove = {Me}, !.promote = promoted] \in Change
      BY <1>0 DEF Change, People
    <3> QED BY <1>5, <3>1 DEF BeginLeave
  <2> QED BY <1>0, <2>1, <2>2, Begins DEF RowGood, Changers
<1>6. ASSUME NEW add \in SUBSET Others, NEW invite \in SUBSET Others, BeginCreate(t, g, add, invite) PROVE IInv'
  <2> DEFINE c == [NoChange EXCEPT !.add = add, !.invite = invite, !.promote = {Me}]
  <2>1. Begin(t, "create", "put", g, NoCopy, c) /\ ~ Created(g)
    BY <1>6 DEF BeginCreate
  <2>2. c \in Change
    BY <1>0 DEF Change, People
  <2>3. \A u \in Tasks \ {t} : task[u].step = "put" => task[u].g # g
    <3>1. \A u \in Tasks : Good(task[u])
      BY DEF IInv
    <3> QED BY <1>6, <3>1 DEF BeginCreate, Idle, Good
  <2> HIDE DEF c
  <2>4. NotAhead(g, NoCopy) /\ Authentic(g, NoCopy)
    BY <1>0 DEF NotAhead, Authentic
  <2> QED BY <1>0, <2>1, <2>2, <2>3, <2>4, Begins
<1>7. ASSUME NEW muted \in BOOLEAN, BeginFlags(t, g, muted) PROVE IInv'
  <2> DEFINE c == Flagged(row[g], muted)
  <2>1. Begin(t, "flags", "save", g, c, NoChange) /\ Created(g)
    BY <1>7 DEF BeginFlags
  <2>2. c \in Copy
    BY <1>0, CopyTypes DEF IInv
  <2>3. c.known /\ NotAhead(g, c) /\ Authentic(g, c)
    <3>1. Version(g) \in Nat
      BY <2>1, LogTypes DEF IInv
    <3>2. CASE row[g].known
      BY <1>0, <3>2 DEF Flagged, Copy, RowGood, NotAhead, Authentic
    <3>3. CASE ~ row[g].known
      BY <3>1, <3>3, StateTypes DEF Flagged, Stub, NoCopy, NotAhead, Authentic, Copy
    <3> QED BY <3>2, <3>3
  <2> HIDE DEF c
  <2> QED BY <1>0, <2>1, <2>2, <2>3, Begins DEF Changers
<1> QED BY <1>2, <1>3, <1>4, <1>5, <1>6, <1>7 DEF Call

(* The steps of an operation that changes nothing but its own slot.        *)
LEMMA QuietKeeps ==
  ASSUME IInv, NEW t \in Tasks,
         \/ \E g \in Groups : HydrateNext(t, g)
         \/ PatchConflict(t) \/ PatchRefused(t) \/ Refetch(t) \/ Reread(t) \/ FetchServed(t) \/ FetchRefused(t)
  PROVE  IInv'
<1> DEFINE k == task[t]
<1>0. /\ k \in Task /\ Good(k) /\ k.g \in Groups /\ k.local \in Copy /\ k.rev \in Nat /\ k.id \in Nat
      /\ k.todo \subseteq Groups /\ spent \in [calls : Nat, remote : Nat, faults : Nat]
      /\ task \in [Tasks -> Task]
  BY Slot
<1>o. Over(t) \in Task /\ Good(Over(t)) /\ Over(t).id = 0 /\ Over(t).step # "put"
  BY OverIsGood
<1>s. ASSUME NEW n \in Task, task' = [task EXCEPT ![t] = n], log' = log, row' = row, spent' = spent,
             Good(n), n.id \in {0, k.id}, n.step # "put"
      PROVE  IInv'
  BY <1>0, <1>s, OnlyMoves
<1>f. ASSUME Shows(k.g)
      PROVE  LET c == FromServer(k.g, k.local) IN
             Created(k.g) /\ c \in Copy /\ c.known /\ NotAhead(k.g, c) /\ Authentic(k.g, c)
  <2>1. Created(k.g)
    BY <1>f DEF Shows
  <2>2. Version(k.g) \in Nat /\ Version(k.g) + 1 = Len(log[k.g]) /\ Current(k.g) = log[k.g][Len(log[k.g])].is
    BY <1>0, <2>1, LogTypes DEF IInv, Version, Current
  <2>3. FromServer(k.g, k.local) \in Copy
    BY <1>0, <2>1, CopyTypes DEF IInv
  <2> QED BY <2>1, <2>2, <2>3 DEF FromServer, NotAhead, Authentic
<1>1. ASSUME NEW g \in Groups, HydrateNext(t, g) PROVE IInv'
  <2> DEFINE n == [k EXCEPT !.step = "fetch", !.g = g, !.local = row[g], !.dirty = FALSE, !.todo = @ \ {g}]
  <2>1. k.step = "pick" /\ g \in k.todo /\ task' = [task EXCEPT ![t] = n] /\ log' = log /\ row' = row /\ spent' = spent
    BY <1>1, <1>0 DEF HydrateNext
  <2>2. row[g] \in Copy /\ RowGood(g) /\ Created(g)
    BY <1>0, <2>1 DEF IInv, TypeOK, Good
  <2>3. n \in Task /\ n.id = k.id /\ n.step = "fetch" /\ n.op = k.op /\ n.g = g /\ n.local = row[g] /\ n.todo = k.todo \ {g}
    BY <1>0, <2>2 DEF Task, Steps
  <2>4. Good(n)
    <3> HIDE DEF n
    <3>1. k.op # "idle"
      BY <1>0, <2>1 DEF Good
    <3> QED BY <1>0, <2>1, <2>2, <2>3, <3>1 DEF Good, RowGood, Reported
  <2> HIDE DEF n
  <2> QED BY <2>1, <2>3, <2>4, <1>s
<1>2. ASSUME PatchConflict(t) \/ PatchRefused(t) PROVE IInv'
  <2> DEFINE n == [k EXCEPT !.step = "refetch", !.tries = @ + 1]
  <2>1. /\ k.step = "patch" /\ log' = log /\ row' = row /\ spent' = spent
        /\ \/ task' = [task EXCEPT ![t] = Over(t)]
           \/ task' = [task EXCEPT ![t] = n] /\ k.tries < ConflictRetries
    <3>1. CASE PatchRefused(t)
      BY <3>1 DEF PatchRefused
    <3>2. CASE PatchConflict(t) /\ k.tries < ConflictRetries
      BY <1>0, <3>2 DEF PatchConflict
    <3>3. CASE PatchConflict(t) /\ ~ (k.tries < ConflictRetries)
      BY <1>0, <3>3 DEF PatchConflict
    <3> QED BY <1>2, <3>1, <3>2, <3>3
  <2>2. CASE task' = [task EXCEPT ![t] = Over(t)]
    BY <1>o, <2>1, <2>2, <1>s
  <2>3. CASE task' = [task EXCEPT ![t] = n] /\ k.tries < ConflictRetries
    <3>1. n \in Task
      <4>1. k.tries \in 0..ConflictRetries /\ ConflictRetries \in Nat
        BY <1>0, GroupsAssumption DEF Task
      <4>2. k.tries + 1 \in 0..ConflictRetries
        BY <2>3, <4>1
      <4> QED BY <1>0, <4>2 DEF Task, Steps
    <3>2. /\ n.id = k.id /\ n.step = "refetch" /\ n.op = k.op /\ n.g = k.g /\ n.local = k.local
          /\ n.todo = k.todo
      BY <1>0 DEF Task
    <3> HIDE DEF n
    <3>3. Good(n)
      BY <1>0, <2>1, <3>2 DEF Good, Reported
    <3> QED BY <2>1, <2>3, <3>1, <3>2, <3>3, <1>s
  <2> QED BY <2>1, <2>2, <2>3
<1>3. ASSUME Refetch(t) PROVE IInv'
  <2> DEFINE n == [k EXCEPT !.step = "patch", !.rev = Rebuilt(t)]
  <2>1. /\ k.step = "refetch" /\ log' = log /\ row' = row /\ spent' = spent
        /\ \/ task' = [task EXCEPT ![t] = Over(t)]
           \/ task' = [task EXCEPT ![t] = n] /\ Shows(k.g)
    BY <1>0, <1>3 DEF Refetch
  <2>2. CASE task' = [task EXCEPT ![t] = Over(t)]
    BY <1>o, <2>1, <2>2, <1>s
  <2>3. CASE task' = [task EXCEPT ![t] = n] /\ Shows(k.g)
    <3>1. Rebuilt(t) \in Nat
      BY <1>0, <1>f, <2>3, LogTypes DEF IInv, Rebuilt
    <3>2. n \in Task
      BY <1>0, <3>1 DEF Task, Steps
    <3>3. /\ n.id = k.id /\ n.step = "patch" /\ n.op = k.op /\ n.g = k.g /\ n.local = k.local
          /\ n.todo = k.todo
      BY <1>0 DEF Task
    <3> HIDE DEF n
    <3>4. Good(n)
      BY <1>0, <2>1, <3>3 DEF Good, Reported
    <3> QED BY <2>1, <2>3, <3>2, <3>3, <3>4, <1>s
  <2> QED BY <2>1, <2>2, <2>3
<1>4. ASSUME Reread(t) \/ FetchServed(t) PROVE IInv'
  <2> DEFINE n == [k EXCEPT !.step = "save", !.local = FromServer(k.g, k.local)]
  <2>1. /\ k.step \in {"reread", "fetch"} /\ log' = log /\ row' = row /\ spent' = spent
        /\ \/ task' = [task EXCEPT ![t] = Over(t)]
           \/ task' = [task EXCEPT ![t] = n] /\ Shows(k.g)
    BY <1>0, <1>4 DEF Reread, FetchServed
  <2>2. CASE task' = [task EXCEPT ![t] = Over(t)]
    BY <1>o, <2>1, <2>2, <1>s
  <2>3. CASE task' = [task EXCEPT ![t] = n] /\ Shows(k.g)
    <3>1. n \in Task
      BY <1>0, <1>f, <2>3 DEF Task, Steps
    <3>2. /\ n.id = k.id /\ n.step = "save" /\ n.op = k.op /\ n.g = k.g /\ n.local = FromServer(k.g, k.local)
          /\ n.todo = k.todo /\ n.rev = k.rev
      BY <1>0 DEF Task
    <3> HIDE DEF n
    <3>3. Good(n)
      BY <1>0, <1>f, <2>1, <2>3, <3>2 DEF Good, Reported
    <3> QED BY <2>1, <2>3, <3>1, <3>2, <3>3, <1>s
  <2> QED BY <2>1, <2>2, <2>3
<1>5. ASSUME FetchRefused(t) PROVE IInv'
  <2> DEFINE n == [k EXCEPT !.step = "save", !.local = MarkDenied(k.local)]
  <2>1. /\ k.step = "fetch" /\ log' = log /\ row' = row /\ spent' = spent
        /\ \/ task' = [task EXCEPT ![t] = Over(t)]
           \/ task' = [task EXCEPT ![t] = n] /\ k.local.known
    BY <1>0, <1>5 DEF FetchRefused
  <2>2. CASE task' = [task EXCEPT ![t] = Over(t)]
    BY <1>o, <2>1, <2>2, <1>s
  <2>3. CASE task' = [task EXCEPT ![t] = n] /\ k.local.known
    <3>0. MarkDenied(k.local) \in Copy
      BY <1>0, CopyTypes DEF IInv
    <3>1. n \in Task
      BY <1>0, <3>0 DEF Task, Steps
    <3>2. /\ n.id = k.id /\ n.step = "save" /\ n.op = k.op /\ n.g = k.g /\ n.local = MarkDenied(k.local)
          /\ n.todo = k.todo /\ n.rev = k.rev
      BY <1>0 DEF Task
    <3>3. LET c == MarkDenied(k.local) IN c.known /\ c.rev = k.local.rev /\ Me \notin InGroup(c.is)
      BY <1>0, <2>3 DEF MarkDenied, MarkLeft, InGroup, Copy, State, People
    <3> HIDE DEF n
    <3>4. Good(n)
      BY <1>0, <2>1, <2>3, <3>2, <3>3 DEF Good, Reported, NotAhead, Authentic
    <3> QED BY <2>1, <2>3, <3>1, <3>2, <3>4, <1>s
  <2> QED BY <2>1, <2>2, <2>3
<1> QED BY <1>1, <1>2, <1>3, <1>4, <1>5

(* A slot whose operation is over, or a worker between two groups.         *)
LEMMA RestGood ==
  ASSUME NEW n, n.id = 0, n.step \in {"idle", "pick"}, n.local = NoCopy, n.step = "idle" <=> n.op = "idle",
         n.op \notin Changers, \A g \in n.todo : log'[g] # <<>>, spent'.calls \in Nat
  PROVE  Good(n)'
<1>1. ~ n.local.known
  BY StateTypes
<1>2. /\ n.step \notin {"reread", "save"} /\ n.step \notin {"patch", "refetch", "put"}
      /\ n.step \notin {"patch", "refetch", "save"} /\ n.step \notin {"patch", "refetch"} /\ n.step # "put"
  OBVIOUS
<1>3. (NotAhead(n.g, n.local) /\ Authentic(n.g, n.local) /\ Reported(n))'
  BY <1>1, <1>2 DEF NotAhead, Authentic, Reported
<1> QED BY <1>1, <1>2, <1>3 DEF Good, Created

(* A step of an operation in which the server takes its change.            *)
LEMMA Commits ==
  ASSUME IInv, NEW t \in Tasks, NEW n \in Task, task' = [task EXCEPT ![t] = n], row' = row,
         spent' \in [calls : Nat, remote : Nat, faults : Nat], spent'.calls = spent.calls,
         task[t].step \in {"patch", "put"},
         OneEntry(task[t].id), \A h \in Groups : h # task[t].g => log'[h] = log[h],
         n.id \in {0, task[t].id}, n.step \notin {"patch", "refetch", "put"},
         Good(n)'
  PROVE  IInv'
<1>0. Good(task[t]) /\ task[t].g \in Groups /\ task[t].id \in Nat /\ spent.calls \in Nat
  BY Slot
<1>3. task'[t] = n /\ task' \in [Tasks -> Task] /\ \A u \in Tasks \ {t} : task'[u] = task[u]
  BY Slot
<1>4. TypeOK'
  BY <1>3, Slot DEF TypeOK, OneEntry
<1>5. \A u \in Tasks \ {t} : task[u].step = "put" => task[u].g # task[t].g
  BY <1>0 DEF IInv, Apart, Good
<1>6. \A u \in Tasks \ {t} : task[u].step = "put" =>
         /\ log'[task[u].g] = log[task[u].g]
         /\ task'[t].step = "put" => task'[t].g # task[u].g
  BY <1>3, <1>5, Slot
<1>7. Good(task[t])'
  BY <1>3
<1>8. Unused(task[t].id) /\ task[t].id <= spent.calls
  BY <1>0 DEF Good
<1> QED BY <1>0, <1>3, <1>4, <1>6, <1>7, <1>8, OneMoves

LEMMA AcceptedKeeps ==
  ASSUME IInv, NEW t \in Tasks, PatchAccepted(t) \/ PatchLost(t)
  PROVE  IInv'
<1> DEFINE k == task[t]
           is == Changed(Current(k.g), k.change)
<1>0. /\ k \in Task /\ Good(k) /\ k.g \in Groups /\ k.local \in Copy /\ k.rev \in Nat /\ k.id \in Nat
      /\ k.change \in Change
      /\ k.todo \subseteq Groups /\ spent \in [calls : Nat, remote : Nat, faults : Nat]
      /\ task \in [Tasks -> Task] /\ log \in [Groups -> Seq(Entry)]
  BY Slot
<1>1. /\ k.step = "patch" /\ k.rev = Version(k.g) /\ log' = [log EXCEPT ![k.g] = Append(@, Ours(t, is))]
      /\ row' = row
  BY DEF PatchAccepted, PatchLost, Accepted, Committed
<1>2. Created(k.g) /\ k.op \in Changers /\ k.local.known
  BY <1>0, <1>1 DEF Good
<1>3. is \in State
  BY <1>0, <1>2, LogTypes, ChangedType DEF IInv
<1>4. Len(log[k.g]) = k.rev + 1
  BY <1>0, <1>1, LogTypes DEF IInv, Version
<1> HIDE DEF is
<1>5. Ours(t, is) \in Entry /\ Ours(t, is).by = k.id
  BY <1>0, <1>2, <1>3 DEF Ours, Entry, Changers, Copy, Task
<1>6. /\ OneEntry(k.id) /\ Len(log'[k.g]) = k.rev + 2 /\ log'[k.g][k.rev + 2].by = k.id
      /\ log'[k.g] # <<>> /\ \A h \in Groups : h # k.g => log'[h] = log[h]
  <2> DEFINE e == Ours(t, is)
  <2>1. e \in Entry /\ e.by = k.id
    BY <1>5
  <2> HIDE DEF e
  <2>2. /\ OneEntry(e.by) /\ Len(log'[k.g]) = Len(log[k.g]) + 1 /\ log'[k.g][Len(log[k.g]) + 1] = e
        /\ \A h \in Groups : h # k.g => log'[h] = log[h]
    BY <1>0, <1>1, <2>1, AppendIsOne DEF e
  <2>3. Len(log'[k.g]) = k.rev + 2 /\ log'[k.g][k.rev + 2] = e
    <3>1. Len(log[k.g]) + 1 = k.rev + 2
      BY <1>0, <1>4
    <3> QED BY <2>2, <3>1
  <2>4. log'[k.g] # <<>>
    BY <1>0, <2>3, EmptySeq
  <2> QED BY <2>1, <2>2, <2>3, <2>4
<1>7. \A g \in k.todo : log'[g] # <<>>
  <2> SUFFICES ASSUME NEW g \in k.todo PROVE log'[g] # <<>>
    OBVIOUS
  <2>1. g \in Groups /\ Created(g)
    BY <1>0 DEF Good
  <2>2. Len(log[g]) > 0 /\ Len(log'[g]) >= Len(log[g]) /\ Len(log[g]) \in Nat
    BY <1>6, <2>1, LogTypes DEF IInv, OneEntry, Grows
  <2> QED BY <2>2, EmptySeq
<1>c. ASSUME NEW n \in Task, task' = [task EXCEPT ![t] = n],
             spent' \in [calls : Nat, remote : Nat, faults : Nat], spent'.calls = spent.calls,
             n.id \in {0, k.id}, n.step \notin {"patch", "refetch", "put"}, Good(n)'
      PROVE  IInv'
  BY <1>1, <1>6, <1>c, Commits
<1>8. CASE PatchAccepted(t)
  <2>1. PICK n \in Task :
          /\ task' = [task EXCEPT ![t] = n] /\ n.op = k.op /\ n.g = k.g /\ n.rev = k.rev /\ n.id = k.id
          /\ n.todo = k.todo
          /\ \/ n.step = "save" /\ n.local = LeftCopy(t)
             \/ n.step = "reread" /\ n.local = k.local
    <3>1. LeftCopy(t) \in Copy
      <4>1. TypeOK /\ k.rev + 1 \in Nat
        BY <1>0 DEF IInv
      <4>2. MarkLeft(k.local, k.change.promote, k.rev + 1) \in Copy
        BY <1>0, <4>1, CopyTypes
      <4> QED BY <4>2 DEF LeftCopy
    <3> DEFINE l == [k EXCEPT !.step = "save", !.local = LeftCopy(t)]
               r == [k EXCEPT !.step = "reread"]
    <3>2. CASE k.op = "leave"
      <4>1. task' = [task EXCEPT ![t] = l]
        BY <1>0, <1>8, <3>2 DEF PatchAccepted
      <4>2. /\ l \in Task /\ l.op = k.op /\ l.g = k.g /\ l.rev = k.rev /\ l.id = k.id /\ l.todo = k.todo
            /\ l.step = "save" /\ l.local = LeftCopy(t)
        BY <1>0, <3>1 DEF Task, Steps
      <4> QED BY <4>1, <4>2
    <3>3. CASE k.op # "leave"
      <4>1. task' = [task EXCEPT ![t] = r]
        BY <1>0, <1>8, <3>3 DEF PatchAccepted
      <4>2. /\ r \in Task /\ r.op = k.op /\ r.g = k.g /\ r.rev = k.rev /\ r.id = k.id /\ r.todo = k.todo
            /\ r.step = "reread" /\ r.local = k.local
        BY <1>0 DEF Task, Steps
      <4> QED BY <4>1, <4>2
    <3> QED BY <3>2, <3>3
  <2>2. spent' = spent
    BY <1>8 DEF PatchAccepted
  <2>3. /\ n.local.known /\ n.local.rev <= Len(log'[n.g]) - 1
        /\ ~ n.local.stub /\ Me \in InGroup(n.local.is) => n.local.is = log'[n.g][n.local.rev + 1].is
    <3>1. CASE n.local = LeftCopy(t)
      <4>1. LeftCopy(t).known /\ LeftCopy(t).rev = k.rev + 1 /\ Me \notin InGroup(LeftCopy(t).is)
        BY <1>0, <1>2 DEF LeftCopy, MarkLeft, InGroup, Copy, State, People
      <4>2. n.local.rev <= Len(log'[k.g]) - 1
        BY <1>0, <1>6, <3>1, <4>1
      <4> QED BY <2>1, <3>1, <4>1, <4>2
    <3>2. CASE n.local = k.local
      <4>1. /\ k.local.known /\ k.local.rev <= Len(log'[k.g]) - 1
            /\ ~ k.local.stub /\ Me \in InGroup(k.local.is) => k.local.is = log'[k.g][k.local.rev + 1].is
        <5>1. Grows /\ log' \in [Groups -> Seq(Entry)] /\ NotAhead(k.g, k.local) /\ Authentic(k.g, k.local)
          BY <1>0, <1>6 DEF OneEntry, Good
        <5> QED BY <1>0, <1>2, <5>1, CopyStays
      <4> QED BY <2>1, <3>2, <4>1
    <3> QED BY <2>1, <3>1, <3>2
  <2>4. n.rev + 1 < Len(log'[n.g]) /\ log'[n.g][n.rev + 2].by = n.id
    BY <1>0, <1>6, <2>1
  <2>5. n.id <= spent'.calls /\ n.op # "idle"
    BY <1>0, <1>2, <2>1, <2>2 DEF Good, Changers
  <2>6. log'[n.g] # <<>> /\ \A g \in n.todo : log'[g] # <<>>
    BY <1>6, <1>7, <2>1
  <2>7. Good(n)'
    BY <2>1, <2>3, <2>4, <2>5, <2>6 DEF Good, Created, NotAhead, Authentic, Version, Reported
  <2> QED BY <1>0, <1>c, <2>1, <2>2, <2>7
<1>9. CASE PatchLost(t)
  <2>1. task' = [task EXCEPT ![t] = Over(t)] /\ spent' = [spent EXCEPT !.faults = @ + 1]
    BY <1>9 DEF PatchLost, Fault
  <2>2. PICK n \in Task : /\ n = Over(t)
    BY OverGood
  <2>3. /\ n.id = 0 /\ n.step \in {"idle", "pick"} /\ n.local = NoCopy /\ n.todo \subseteq k.todo
        /\ n.step = "idle" <=> n.op = "idle"
        /\ n.op \notin Changers
    BY <2>2, OverGood
  <2>4. spent' \in [calls : Nat, remote : Nat, faults : Nat] /\ spent'.calls = spent.calls
    BY <1>0, <2>1
  <2>5. Good(n)'
    BY <1>0, <1>7, <2>3, <2>4, RestGood
  <2> QED BY <1>c, <2>1, <2>2, <2>3, <2>4, <2>5
<1> QED BY <1>8, <1>9

LEMMA PutKeeps ==
  ASSUME IInv, NEW t \in Tasks, PutGroup(t)
  PROVE  IInv'
<1> DEFINE k == task[t]
           is == Changed(NoState, k.change)
           e == Ours(t, is)
<1>0. /\ k \in Task /\ Good(k) /\ k.g \in Groups /\ k.local \in Copy /\ k.rev \in Nat /\ k.id \in Nat
      /\ k.change \in Change
      /\ k.todo \subseteq Groups /\ spent \in [calls : Nat, remote : Nat, faults : Nat]
      /\ task \in [Tasks -> Task] /\ log \in [Groups -> Seq(Entry)]
  BY Slot
<1>1. /\ k.step = "put" /\ log' = [log EXCEPT ![k.g] = <<e>>] /\ row' = row
      /\ \/ task' = [task EXCEPT ![t].step = "reread"] /\ spent' = spent
         \/ Fault /\ task' = [task EXCEPT ![t] = Over(t)]
  BY DEF PutGroup
<1>2. log[k.g] = <<>> /\ k.op = "create" /\ ~ k.local.known
  BY <1>0, <1>1 DEF Good, Created
<1>3. is \in State
  BY <1>0, StateTypes, ChangedType
<1> HIDE DEF is
<1>4. e \in Entry /\ e.by = k.id
  BY <1>0, <1>2, <1>3 DEF Ours, Entry, Copy, Task
<1> HIDE DEF e
<1>5. log' = [log EXCEPT ![k.g] = Append(@, e)]
  <2>1. Append(<<>>, e) = <<e>>
    BY <1>4
  <2> QED BY <1>1, <1>2, <2>1
<1>6. OneEntry(k.id) /\ log'[k.g] # <<>> /\ \A h \in Groups : h # k.g => log'[h] = log[h]
  <2>1. OneEntry(e.by) /\ \A h \in Groups : h # k.g => log'[h] = log[h]
    BY <1>0, <1>4, <1>5, AppendIsOne
  <2>2. log'[k.g] = <<e>> /\ <<e>> # <<>>
    BY <1>0, <1>1
  <2> QED BY <1>4, <2>1, <2>2
<1>7. \A g \in k.todo : log'[g] # <<>>
  <2> SUFFICES ASSUME NEW g \in k.todo PROVE log'[g] # <<>>
    OBVIOUS
  <2>1. g \in Groups /\ Created(g)
    BY <1>0 DEF Good
  <2>2. Len(log[g]) > 0 /\ Len(log'[g]) >= Len(log[g]) /\ Len(log[g]) \in Nat
    BY <1>6, <2>1, LogTypes DEF IInv, OneEntry, Grows
  <2> QED BY <2>2, EmptySeq
<1>c. ASSUME NEW n \in Task, task' = [task EXCEPT ![t] = n],
             spent' \in [calls : Nat, remote : Nat, faults : Nat], spent'.calls = spent.calls,
             n.id \in {0, k.id}, n.step \notin {"patch", "refetch", "put"}, Good(n)'
      PROVE  IInv'
  BY <1>1, <1>6, <1>c, Commits
<1>8. CASE task' = [task EXCEPT ![t].step = "reread"] /\ spent' = spent
  <2> DEFINE r == [k EXCEPT !.step = "reread"]
  <2>1. r \in Task /\ r.op = k.op /\ r.g = k.g /\ r.id = k.id /\ r.todo = k.todo /\ r.step = "reread" /\ r.local = k.local
    BY <1>0 DEF Task, Steps
  <2>2. task' = [task EXCEPT ![t] = r]
    BY <1>0, <1>8
  <2>3. PICK n \in Task : n = r
    BY <2>1
  <2> HIDE DEF r
  <2>4. Good(n)'
    BY <1>0, <1>2, <1>6, <1>7, <1>8, <2>1, <2>3 DEF Good, Created, NotAhead, Authentic, Reported, Changers
  <2> QED BY <1>0, <1>8, <1>c, <2>1, <2>2, <2>3, <2>4
<1>9. CASE Fault /\ task' = [task EXCEPT ![t] = Over(t)]
  <2>1. PICK n \in Task : n = Over(t)
    BY OverGood
  <2>2. /\ n.id = 0 /\ n.step \in {"idle", "pick"} /\ n.local = NoCopy /\ n.todo \subseteq k.todo
        /\ n.step = "idle" <=> n.op = "idle"
        /\ n.op \notin Changers
    BY <2>1, OverGood
  <2>3. spent' \in [calls : Nat, remote : Nat, faults : Nat] /\ spent'.calls = spent.calls
    BY <1>0, <1>9 DEF Fault
  <2>4. Good(n)'
    BY <1>0, <1>7, <2>2, <2>3, RestGood
  <2> QED BY <1>c, <1>9, <2>1, <2>2, <2>3, <2>4
<1> QED BY <1>1, <1>8, <1>9

(* A call that fails, a worker that begins, and a crash.                   *)
LEMMA SlotsKeep ==
  ASSUME IInv, (\E t \in Tasks : Fails(t) \/ BeginHydrate(t)) \/ Crash
  PROVE  IInv'
<1>1. ASSUME NEW t \in Tasks, Fails(t) PROVE IInv'
  <2>1. /\ spent' = [spent EXCEPT !.faults = @ + 1] /\ log' = log /\ row' = row
        /\ \/ task' = [task EXCEPT ![t] = Over(t)]
           \/ task' = [task EXCEPT ![t] = NoTask]
    BY <1>1 DEF Fails, Fault
  <2>2. spent' \in [calls : Nat, remote : Nat, faults : Nat] /\ spent'.calls = spent.calls
    <3>1. spent \in [calls : Nat, remote : Nat, faults : Nat]
      BY DEF IInv, TypeOK
    <3> QED BY <2>1, <3>1
  <2>3. NoTask \in Task /\ Good(NoTask) /\ NoTask.id = 0 /\ NoTask.step # "put"
    <3>1. spent.calls \in Nat
      BY Slot
    <3> QED BY <3>1, NoTaskType, StateTypes DEF NoTask, Good, Changers, NotAhead, Authentic, Reported
  <2>4. CASE task' = [task EXCEPT ![t] = Over(t)]
    BY <2>1, <2>2, <2>4, OverIsGood, OnlyMoves
  <2>5. CASE task' = [task EXCEPT ![t] = NoTask]
    BY <2>1, <2>2, <2>3, <2>5, OnlyMoves
  <2> QED BY <2>1, <2>4, <2>5
<1>2. ASSUME NEW t \in Tasks, BeginHydrate(t) PROVE IInv'
  <2> DEFINE n == [NoTask EXCEPT !.op = "hydrate", !.step = "pick", !.todo = Stubs]
  <2>1. task' = [task EXCEPT ![t] = n] /\ log' = log /\ row' = row /\ spent' = spent
    BY <1>2 DEF BeginHydrate
  <2>2. Stubs \subseteq Groups /\ \A g \in Stubs : Created(g)
    BY DEF Stubs, IInv, RowGood
  <2>3. /\ n \in Task /\ n.op = "hydrate" /\ n.step = "pick" /\ n.id = 0 /\ n.local = NoCopy /\ n.todo = Stubs
    BY <2>2, NoTaskType DEF NoTask, Task, Ops, Steps
  <2> HIDE DEF n
  <2>4. spent \in [calls : Nat, remote : Nat, faults : Nat]
    BY DEF IInv, TypeOK
  <2>5. Good(n)
    BY <2>2, <2>3, <2>4, StateTypes DEF Good, Changers, NotAhead, Authentic, Reported
  <2> QED BY <2>1, <2>3, <2>4, <2>5, OnlyMoves
<1>3. ASSUME Crash PROVE IInv'
  <2>1. /\ log' = log /\ row' = row /\ spent' = [spent EXCEPT !.faults = @ + 1]
        /\ \A t \in Tasks : task'[t] = NoTask
        /\ task' = [t \in Tasks |-> NoTask]
    BY <1>3 DEF Crash, Fault
  <2>2. spent' \in [calls : Nat, remote : Nat, faults : Nat] /\ spent'.calls = spent.calls /\ spent.calls \in Nat
    <3>1. spent \in [calls : Nat, remote : Nat, faults : Nat]
      BY DEF IInv, TypeOK
    <3> QED BY <2>1, <3>1
  <2>3. TypeOK'
    BY <2>1, <2>2, NoTaskType DEF IInv, TypeOK
  <2>4. OneEntry(0)
    BY <2>1, NoEntry
  <2>5. \A g \in Groups : RowGood(g)'
    BY <2>1, <2>4, RowStays DEF OneEntry
  <2>6. LogGood'
    BY <2>1, <2>2, <2>3, <2>4, LogStaysGood
  <2>7. \A t \in Tasks : Good(task[t])'
    BY <2>1, <2>2, StateTypes DEF NoTask, Good, Changers, NotAhead, Authentic, Reported
  <2>8. Apart'
    BY <2>1 DEF Apart, NoTask
  <2> QED BY <2>3, <2>5, <2>6, <2>7, <2>8 DEF IInv
<1> QED BY <1>1, <1>2, <1>3

LEMMA SaveKeeps ==
  ASSUME IInv, NEW t \in Tasks, Save(t)
  PROVE  IInv'
<1> DEFINE k == task[t]
<1>0. /\ k \in Task /\ Good(k) /\ k.g \in Groups /\ k.local \in Copy
      /\ spent \in [calls : Nat, remote : Nat, faults : Nat]
      /\ row \in [Groups -> Copy] /\ log \in [Groups -> Seq(Entry)]
  BY Slot
<1>1. /\ k.step = "save" /\ row' = [row EXCEPT ![k.g] = k.local] /\ log' = log /\ spent' = spent
  BY DEF Save
<1>2. task'[t] = Over(t) /\ task' \in [Tasks -> Task]
  <2>1. ASSUME NEW u \in Tasks PROVE task[u] \in Task /\ [task[u] EXCEPT !.dirty = TRUE] \in Task
    <3>1. task[u] \in Task
      BY Slot
    <3> QED BY <3>1 DEF Task
  <2>2. Over(t) \in Task
    BY OverGood
  <2> QED BY <2>1, <2>2 DEF Save
<1>3. ASSUME NEW u \in Tasks \ {t} PROVE Untouched(u)
  <2>1. task'[u] = task[u] \/ task'[u] = [task[u] EXCEPT !.dirty = TRUE]
    BY DEF Save
  <2>2. task[u] \in Task
    BY Slot
  <2> QED BY <2>1, <2>2 DEF Untouched, Task
<1>4. row' \in [Groups -> Copy]
  BY <1>0, <1>1
<1>5. TypeOK'
  BY <1>0, <1>1, <1>2, <1>4 DEF TypeOK
<1>6. OneEntry(0) /\ Grows
  BY <1>1, NoEntry DEF OneEntry
<1>7. spent.calls \in Nat
  BY <1>0
<1>8. ASSUME NEW g \in Groups PROVE RowGood(g)'
  <2>1. CASE g = k.g
    <3>1. row'[g] = k.local /\ k.local.known /\ Created(g) /\ NotAhead(g, k.local) /\ Authentic(g, k.local)
      BY <1>0, <1>1, <2>1 DEF Good
    <3> QED BY <1>1, <3>1 DEF RowGood, Created, NotAhead, Authentic, Version
  <2>2. CASE g # k.g
    <3>1. row'[g] = row[g]
      BY <1>0, <1>1, <2>2
    <3> QED BY <1>0, <1>1, <1>6, <3>1, RowStays
  <2> QED BY <2>1, <2>2
<1>9. ASSUME NEW u \in Tasks PROVE Good(task[u])'
  <2>1. CASE u = t
    <3>1. Good(Over(t)) /\ task'[u] = Over(t)
      BY <1>2, <2>1, OverIsGood
    <3> QED BY <1>1, <3>1 DEF Good, Created, NotAhead, Authentic, Version, Unused, Reported
  <2>2. CASE u # t
    BY <1>1, <1>3, <1>5, <1>6, <1>7, <2>2, GoodStays
  <2> QED BY <2>1, <2>2
<1>10. LogGood'
  BY <1>1, <1>5, <1>6, <1>7, LogStaysGood
<1>11. Apart'
  <2>1. task'[t].id = 0 /\ task'[t].step # "put"
    BY <1>2, OverIsGood
  <2>2. \A u \in Tasks \ {t} : task'[u].id = task[u].id /\ task'[u].step = task[u].step /\ task'[u].g = task[u].g
    BY <1>3 DEF Untouched
  <2>3. ASSUME NEW u \in Tasks, NEW v \in Tasks, u # v
        PROVE  /\ task'[u].id # 0 => task'[u].id # task'[v].id
               /\ task'[u].step = "put" /\ task'[v].step = "put" => task'[u].g # task'[v].g
    <3>1. CASE u = t \/ v = t
      BY <2>1, <3>1
    <3>2. CASE u # t /\ v # t
      BY <2>2, <2>3, <3>2 DEF IInv, Apart
    <3> QED BY <3>1, <3>2
  <2> QED BY <2>3 DEF Apart
<1> QED BY <1>5, <1>8, <1>9, <1>10, <1>11 DEF IInv

LEMMA OtherKeeps ==
  ASSUME IInv, NEW g \in Groups, NEW s \in State, OtherChange(g, s)
  PROVE  IInv'
<1> DEFINE e == [is |-> s, by |-> 0, op |-> "other", checked |-> TRUE]
<1>1. /\ Created(g) /\ log' = [log EXCEPT ![g] = Append(@, e)] /\ row' = row /\ task' = task
      /\ spent' = [spent EXCEPT !.remote = @ + 1]
  BY DEF OtherChange
<1>2. spent' \in [calls : Nat, remote : Nat, faults : Nat] /\ spent'.calls = spent.calls /\ spent.calls \in Nat
  <2>1. spent \in [calls : Nat, remote : Nat, faults : Nat]
    BY DEF IInv, TypeOK
  <2> QED BY <1>1, <2>1
<1>3. e \in Entry /\ e.by = 0
  BY DEF Entry
<1> HIDE DEF e
<1>4. OneEntry(0) /\ \A h \in Groups : h # g => log'[h] = log[h]
  BY <1>1, <1>3, AppendIsOne
<1>5. TypeOK'
  BY <1>1, <1>2, <1>4 DEF IInv, TypeOK, OneEntry
<1>6. \A h \in Groups : RowGood(h)'
  BY <1>1, <1>4, RowStays DEF OneEntry
<1>7. LogGood'
  BY <1>2, <1>4, <1>5, LogStaysGood
<1>8. ASSUME NEW u \in Tasks PROVE Good(task[u])'
  <2>1. Untouched(u)
    BY <1>1 DEF Untouched
  <2>2. task[u].step = "put" => log'[task[u].g] = log[task[u].g]
    BY <1>1, <1>4, Slot DEF Good
  <2> QED BY <1>2, <1>4, <1>5, <2>1, <2>2, GoodStays
<1>9. Apart'
  BY <1>1 DEF IInv, Apart
<1> QED BY <1>5, <1>6, <1>7, <1>8, <1>9 DEF IInv

LEMMA NextKeeps == IInv /\ [Next]_vars => IInv'
<1> SUFFICES ASSUME IInv, [Next]_vars PROVE IInv'
  OBVIOUS
<1>1. ASSUME NEW t \in Tasks, Step(t) \/ PatchLost(t) \/ Fails(t) PROVE IInv'
  BY <1>1, QuietKeeps, AcceptedKeeps, PutKeeps, SaveKeeps, SlotsKeep DEF Step
<1>2. ASSUME NEW t \in Tasks, NEW g \in Groups \ Refused, Call(t, g) PROVE IInv'
  BY <1>2, CallKeeps
<1>3. ASSUME Hydrate \/ Crash PROVE IInv'
  BY <1>3, SlotsKeep DEF Hydrate
<1>4. ASSUME NEW g \in Groups \ Refused, NEW s \in State, OtherChange(g, s) PROVE IInv'
  BY <1>4, OtherKeeps
<1>5. CASE UNCHANGED vars
  <2>0. UNCHANGED <<log, row, task, spent>>
    BY <1>5 DEF vars
  <2>1. TypeOK'
    BY <2>0 DEF IInv, TypeOK
  <2>2. \A g \in Groups : RowGood(g)'
    BY <2>0 DEF IInv, RowGood, Created, NotAhead, Authentic, Version
  <2>3. ASSUME NEW t \in Tasks PROVE Good(task[t])'
    <3>1. Good(task[t])
      BY DEF IInv
    <3> QED BY <2>0, <3>1 DEF Good, Created, NotAhead, Authentic, Version, Unused, Reported
  <2>4. LogGood' /\ Apart'
    BY <2>0 DEF IInv, LogGood, Apart
  <2> QED BY <2>1, <2>2, <2>3, <2>4 DEF IInv
<1> QED BY <1>1, <1>2, <1>3, <1>4, <1>5 DEF Next

LEMMA Invariance == Spec => []IInv
<1>1. Init => IInv
  BY InitIInv
<1>2. IInv /\ [Next]_vars => IInv'
  BY NextKeeps
<1> QED BY <1>1, <1>2, PTL DEF Spec

THEOREM TypeCorrect == Spec => []TypeOK
<1>1. IInv => TypeOK
  BY DEF IInv
<1> QED BY <1>1, Invariance, PTL

(* A copy that says we are in the group is the server's copy of that       *)
(* revision, stored or on its way to the store, whatever conflicts, lost   *)
(* answers, refusals and crashes there were (fetch_and_store_group,        *)
(* save_group_from_server, leave_group, Group::mark_denied).               *)
THEOREM CopiesCorrect == Spec => []CopiesAreServers
<1>1. IInv => CopiesAreServers
  <2> SUFFICES ASSUME IInv, NEW g \in Groups
               PROVE  /\ Authentic(g, row[g])
                      /\ \A t \in Tasks : task[t].g = g => Authentic(g, task[t].local)
    BY DEF CopiesAreServers
  <2>1. Authentic(g, row[g])
    BY DEF IInv, RowGood
  <2>2. \A t \in Tasks : Authentic(task[t].g, task[t].local)
    BY DEF IInv, Good
  <2> QED BY <2>1, <2>2
<1> QED BY <1>1, Invariance, PTL

(* However often apply_group_change rebuilds a change after a conflict,    *)
(* the server takes it once at most, and what the call reports is the      *)
(* revision the server gave it.                                            *)
THEOREM ChangesOnce == Spec => []OneChangePerCall
<1>1. IInv => OneChangePerCall
  <2> SUFFICES ASSUME IInv PROVE OneChangePerCall
    OBVIOUS
  <2>1. \A g \in Groups : DOMAIN log[g] = 1..Len(log[g])
    BY DEF IInv, TypeOK
  <2>2. LogGood /\ \A t \in Tasks : Reported(task[t])
    BY DEF IInv, Good
  <2>3. \A g, h \in Groups : \A i \in DOMAIN log[g], j \in DOMAIN log[h] :
          log[g][i].by # 0 /\ log[g][i].by = log[h][j].by => g = h /\ i = j
    BY <2>1, <2>2 DEF LogGood
  <2> QED BY <2>2, <2>3 DEF OneChangePerCall, Reported, Changers
<1> QED BY <1>1, Invariance, PTL

(***************************************************************************)
(* The flags only this device knows                                        *)
(***************************************************************************)
(* A copy in flight has the flags of the row, unless it was noted stale.   *)
Fresh ==
  \A t \in Tasks : task[t].step \notin {"idle", "pick"} /\ task[t].op # "flags" /\ ~ task[t].dirty
                     => task[t].local.muted = row[task[t].g].muted

LEMMA OverNotFresh ==
  ASSUME IInv, NEW t \in Tasks
  PROVE  Over(t).step \in {"idle", "pick"} /\ NoTask.step = "idle"
BY OverGood DEF NoTask

(* A step that leaves the rows alone, and sets one slot.                   *)
LEMMA FreshStays ==
  ASSUME IInv, Fresh, NEW t \in Tasks, row' = row, \A u \in Tasks \ {t} : task'[u] = task[u],
         \/ task'[t].step \in {"idle", "pick"} \/ task'[t].op = "flags"
         \/ task'[t].local.muted = row[task'[t].g].muted
         \/ /\ task[t].step \notin {"idle", "pick"} /\ task'[t].op = task[t].op /\ task'[t].dirty = task[t].dirty
            /\ task'[t].g = task[t].g /\ task'[t].local.muted = task[t].local.muted
  PROVE  Fresh'
BY DEF Fresh

LEMMA FreshKept == IInv /\ Fresh /\ [Next]_vars => Fresh'
<1> SUFFICES ASSUME IInv, Fresh, [Next]_vars PROVE Fresh'
  OBVIOUS
<1>1. ASSUME NEW t \in Tasks, NEW g \in Groups, Call(t, g) PROVE Fresh'
  <2>1. \E op, step, change, local :
          /\ Begin(t, op, step, g, local, change)
          /\ op = "flags" \/ local = row[g] \/ (local = NoCopy /\ ~ row[g].known)
    BY <1>1 DEF Call, BeginUpsert, BeginUpdate, BeginMembers, BeginLeave, BeginCreate, BeginFlags
  <2>2. row[g] = NoCopy \/ row[g].known
    BY DEF IInv, RowGood
  <2>3. PICK op, step, change, local :
          /\ Begin(t, op, step, g, local, change)
          /\ op = "flags" \/ local = row[g]
    BY <2>1, <2>2
  <2> DEFINE n == [NoTask EXCEPT !.op = op, !.step = step, !.g = g, !.local = local,
                                 !.change = change, !.rev = local.rev, !.id = spent.calls + 1]
  <2>4. task' = [task EXCEPT ![t] = n] /\ row' = row
    BY <2>3 DEF Begin
  <2>5. n.op = op /\ n.g = g /\ n.local = local
    BY DEF NoTask
  <2> HIDE DEF n
  <2>6. task \in [Tasks -> Task]
    BY DEF IInv, TypeOK
  <2> QED BY <2>3, <2>4, <2>5, <2>6, FreshStays
<1>2. ASSUME NEW t \in Tasks, Step(t) \/ PatchLost(t) \/ Fails(t), ~ Save(t) PROVE Fresh'
  <2> DEFINE k == task[t]
  <2>0. /\ k \in Task /\ k.g \in Groups /\ k.local \in Copy /\ task \in [Tasks -> Task]
        /\ row[k.g] \in Copy
    BY Slot
  <2>o. Over(t).step \in {"idle", "pick"} /\ NoTask.step = "idle"
    BY OverNotFresh
  <2>1. ASSUME NEW g \in Groups, HydrateNext(t, g) PROVE Fresh'
    <3>1. task'[t].g = g /\ task'[t].local = row[g] /\ row' = row /\ \A u \in Tasks \ {t} : task'[u] = task[u]
      BY <2>0, <2>1 DEF HydrateNext, Task
    <3> QED BY <3>1, FreshStays
  <2>2. CASE task' = [task EXCEPT ![t] = Over(t)] /\ row' = row
    BY <2>0, <2>o, <2>2, FreshStays
  <2>3. CASE task' = [task EXCEPT ![t] = NoTask] /\ row' = row
    BY <2>0, <2>o, <2>3, FreshStays
  <2>4. ASSUME k.step \notin {"idle", "pick"}, row' = row, \A u \in Tasks \ {t} : task'[u] = task[u],
               task'[t].op = k.op, task'[t].dirty = k.dirty, task'[t].g = k.g,
               task'[t].local.muted = k.local.muted
        PROVE  Fresh'
    BY <2>4, FreshStays
  <2>5. /\ FromServer(k.g, k.local).muted = k.local.muted /\ LeftCopy(t).muted = k.local.muted
        /\ MarkDenied(k.local).muted = k.local.muted
    BY <2>0 DEF FromServer, LeftCopy, MarkDenied, MarkLeft, Copy
  <2>6. CASE PatchAccepted(t)
    <3>1. /\ task'[t].op = k.op /\ task'[t].dirty = k.dirty /\ task'[t].g = k.g
          /\ task'[t].local \in {k.local, LeftCopy(t)}
          /\ k.step = "patch" /\ row' = row /\ \A u \in Tasks \ {t} : task'[u] = task[u]
      BY <2>0, <2>6 DEF PatchAccepted, Accepted, Task
    <3> QED BY <2>4, <2>5, <3>1
  <2>7. CASE PatchConflict(t)
    BY <2>0, <2>2, <2>4, <2>7 DEF PatchConflict, Task
  <2>8. CASE Refetch(t)
    BY <2>0, <2>2, <2>4, <2>8 DEF Refetch, Task
  <2>9. CASE Reread(t) \/ FetchServed(t) \/ FetchRefused(t)
    <3>1. ASSUME NEW l \in {FromServer(k.g, k.local), MarkDenied(k.local)}, k.step \in {"reread", "fetch"},
                 task' = [task EXCEPT ![t] = [k EXCEPT !.step = "save", !.local = l]], row' = row
          PROVE  Fresh'
      <4> DEFINE n == [k EXCEPT !.step = "save", !.local = l]
      <4>1. n.op = k.op /\ n.dirty = k.dirty /\ n.g = k.g /\ n.local = l
        BY <2>0 DEF Task
      <4>2. l.muted = k.local.muted
        BY <2>5, <3>1
      <4>3. task'[t] = n /\ \A u \in Tasks \ {t} : task'[u] = task[u]
        BY <2>0, <3>1
      <4> HIDE DEF n
      <4> QED BY <2>4, <3>1, <4>1, <4>2, <4>3
    <3>2. CASE Reread(t)
      <4>1. CASE Shows(k.g)
        BY <3>1, <3>2, <4>1 DEF Reread
      <4>2. CASE ~ Shows(k.g)
        BY <2>2, <3>2, <4>2 DEF Reread
      <4> QED BY <4>1, <4>2
    <3>3. CASE FetchServed(t)
      <4>1. task' = [task EXCEPT ![t] = [k EXCEPT !.step = "save", !.local = FromServer(k.g, k.local)]]
        BY <2>0, <3>3 DEF FetchServed
      <4> QED BY <3>1, <3>3, <4>1 DEF FetchServed
    <3>4. CASE FetchRefused(t)
      <4>1. CASE k.local.known
        BY <3>1, <3>4, <4>1 DEF FetchRefused
      <4>2. CASE ~ k.local.known
        BY <2>2, <3>4, <4>2 DEF FetchRefused
      <4> QED BY <4>1, <4>2
    <3> QED BY <2>9, <3>2, <3>3, <3>4
  <2>10. CASE PutGroup(t)
    BY <2>0, <2>2, <2>4, <2>10 DEF PutGroup, Task
  <2>11. CASE PatchRefused(t) \/ PatchLost(t) \/ Fails(t)
    BY <2>2, <2>3, <2>11 DEF PatchRefused, PatchLost, Fails
  <2> QED BY <1>2, <2>1, <2>6, <2>7, <2>8, <2>9, <2>10, <2>11 DEF Step
<1>3. ASSUME NEW t \in Tasks, Save(t) PROVE Fresh'
  <2> DEFINE k == task[t]
  <2>1. k.g \in Groups /\ row \in [Groups -> Copy]
    BY Slot
  <2>2. row' = [row EXCEPT ![k.g] = k.local] /\ task'[t] = Over(t)
    BY <1>3 DEF Save
  <2>3. ASSUME NEW u \in Tasks \ {t}, task'[u].step \notin {"idle", "pick"}, task'[u].op # "flags", ~ task'[u].dirty
        PROVE  task'[u].local.muted = row'[task'[u].g].muted
    <3>1. task[u] \in Task /\ task[u].g \in Groups
      BY Slot
    <3>2. task'[u] = task[u]
      BY <1>3, <2>3, <3>1 DEF Save, Task
    <3>3. task[u].g = k.g => row[k.g].muted = k.local.muted
      BY <1>3, <2>3, <3>1, <3>2 DEF Save, Task
    <3> QED BY <2>1, <2>2, <2>3, <3>1, <3>2, <3>3 DEF Fresh
  <2>4. task'[t].step \in {"idle", "pick"}
    BY <2>2, OverNotFresh
  <2> QED BY <2>3, <2>4 DEF Fresh
<1>4. ASSUME NEW t \in Tasks, BeginHydrate(t) PROVE Fresh'
  <2>1. task'[t].step = "pick" /\ row' = row /\ \A u \in Tasks \ {t} : task'[u] = task[u]
    BY <1>4, Slot, NoTaskType DEF BeginHydrate, NoTask
  <2> QED BY <2>1, FreshStays
<1>5. ASSUME Crash PROVE Fresh'
  BY <1>5 DEF Crash, Fresh, NoTask
<1>6. ASSUME NEW g \in Groups \ Refused, NEW s \in State, OtherChange(g, s) PROVE Fresh'
  BY <1>6 DEF OtherChange, Fresh
<1>7. CASE UNCHANGED vars
  BY <1>7 DEF vars, Fresh
<1> QED BY <1>1, <1>2, <1>3, <1>4, <1>5, <1>6, <1>7 DEF Next, Hydrate

(* A fetch or a change keeps the flags of the row it replaces, unless they *)
(* changed after it had read them: Group::from_server carries them across, *)
(* and mark_left and mark_denied leave them alone.                         *)
THEOREM FlagsStay == Spec => FlagsKept
<1>1. Init => Fresh
  BY DEF Init, Fresh, NoTask
<1>2. IInv /\ Fresh /\ [Next]_vars => Fresh'
  BY FreshKept
<1> DEFINE Kept == \A g \in Groups : row'[g].muted # row[g].muted =>
                     \E t \in Tasks : /\ task[t].step = "save" /\ task[t].g = g
                                      /\ task[t].op = "flags" \/ task[t].dirty
<1>3. ASSUME IInv, Fresh, Next PROVE Kept
  <2>1. ASSUME NEW t \in Tasks, Save(t) PROVE Kept
    <3>1. task[t].g \in Groups /\ row \in [Groups -> Copy]
      BY <1>3, Slot
    <3>2. task[t].step = "save" /\ row' = [row EXCEPT ![task[t].g] = task[t].local]
      BY <2>1 DEF Save
    <3>3. task[t].op = "flags" \/ task[t].dirty \/ task[t].local.muted = row[task[t].g].muted
      BY <1>3, <3>2 DEF Fresh
    <3> QED BY <3>1, <3>2, <3>3
  <2>2. CASE row' = row
    BY <2>2
  <2>3. ASSUME NEW t \in Tasks, NEW g \in Groups, Call(t, g) PROVE row' = row
    <3>1. ASSUME NEW revision, BeginUpsert(t, g, revision) PROVE row' = row
      BY <3>1 DEF BeginUpsert, Begin
    <3>2. ASSUME NEW restrict, BeginUpdate(t, g, restrict) PROVE row' = row
      BY <3>2 DEF BeginUpdate, Begin
    <3>3. ASSUME NEW p, NEW credential, BeginMembers(t, g, p, credential) PROVE row' = row
      BY <3>3 DEF BeginMembers, Begin
    <3>4. ASSUME NEW promoted, BeginLeave(t, g, promoted) PROVE row' = row
      BY <3>4 DEF BeginLeave, Begin
    <3>5. ASSUME NEW add, NEW invite, BeginCreate(t, g, add, invite) PROVE row' = row
      BY <3>5 DEF BeginCreate, Begin
    <3>6. ASSUME NEW muted, BeginFlags(t, g, muted) PROVE row' = row
      BY <3>6 DEF BeginFlags, Begin
    <3> QED BY <2>3, <3>1, <3>2, <3>3, <3>4, <3>5, <3>6 DEF Call
  <2>4. ASSUME NEW t \in Tasks, Step(t) \/ PatchLost(t) \/ Fails(t), ~ Save(t) PROVE row' = row
    <3>1. ASSUME NEW g \in Groups, HydrateNext(t, g) PROVE row' = row
      BY <3>1 DEF HydrateNext
    <3>2. CASE PatchAccepted(t) \/ PatchLost(t)
      BY <3>2 DEF PatchAccepted, PatchLost
    <3>3. CASE PatchConflict(t) \/ PatchRefused(t) \/ Refetch(t)
      BY <3>3 DEF PatchConflict, PatchRefused, Refetch
    <3>4. CASE PutGroup(t) \/ Reread(t)
      BY <3>4 DEF PutGroup, Reread
    <3>5. CASE FetchServed(t) \/ FetchRefused(t) \/ Fails(t)
      BY <3>5 DEF FetchServed, FetchRefused, Fails
    <3> QED BY <2>4, <3>1, <3>2, <3>3, <3>4, <3>5 DEF Step
  <2>5. Hydrate => row' = row
    BY DEF Hydrate, BeginHydrate
  <2>6. (\E g \in Groups \ Refused, s \in State : OtherChange(g, s)) \/ Crash => row' = row
    BY DEF OtherChange, Crash
  <2>7. row' = row \/ \E t \in Tasks : Save(t)
    BY <1>3, <2>3, <2>4, <2>5, <2>6 DEF Next
  <2> QED BY <2>1, <2>2, <2>7
<1>4. IInv /\ Fresh /\ [Next]_vars => [Kept]_vars
  BY <1>3
<1> QED BY <1>1, <1>2, <1>4, Invariance, PTL DEF Spec, FlagsKept

(***************************************************************************)
(* What a change is judged on                                              *)
(***************************************************************************)
(* A hydrated copy of the server's own revision (the last of the log l) is *)
(* the server's copy, as long as the server shows us the group: a copy     *)
(* marked left at that revision is of a group we are out of.               *)
AtTop(l, c) ==
  c.known /\ ~ c.stub /\ c.rev = Len(l) - 1 /\ Me \in InGroup(l[Len(l)].is) => c.is = l[Len(l)].is

(* What a change says follows from the copy the operation read; only a     *)
(* conflict moves it to a revision it was not built on.                    *)
OnlyLeaves(change) == change.remove = {Me} /\ change.add = {} /\ change.invite = {} /\ change.demote = {}
UpdateChange(c, restrict) == [NoChange EXCEPT !.restrict = restrict, !.clear = LosingLabels(c, restrict)]
Built(op, local, change) ==
  /\ op = "leave" => /\ OnlyLeaves(change)
                     /\ Me \in Pending(local.is) \/ ~ Orphans(local, change.promote)
  /\ op = "update" => change = UpdateChange(local, change.restrict)

Grounded(l, k) ==
  /\ AtTop(l, k.local)
  /\ k.step = "refetch" => k.tries # 0
  /\ k.step \in {"patch", "refetch"} => /\ k.tries = 0 => k.rev = k.local.rev
                                        /\ Built(k.op, k.local, k.change)

(* Only members carry labels, in every revision; and what                  *)
(* CheckedChangesHold says of an entry and the one before.                 *)
Labelled(s) == s.labels \subseteq Members(s)
Held(before, e) ==
  e.checked =>
    /\ e.op = "leave" /\ Me \in Members(before.is) => Members(e.is) = {} \/ Admins(e.is) # {}
    /\ e.op = "update" /\ e.is.restricted /\ ~ before.is.restricted => e.is.labels \subseteq Admins(e.is)
Holds(l) ==
  \A i \in 1..Len(l) : Labelled(l[i].is) /\ (i # 1 => Held(l[i - 1], l[i]))

Judged ==
  /\ \A g \in Groups : AtTop(log[g], row[g]) /\ Holds(log[g])
  /\ \A t \in Tasks : Grounded(log[task[t].g], task[t])

(* A change the server accepts leaves labels to members.                   *)
LEMMA ChangedLabelled ==
  ASSUME NEW s \in State, NEW c \in Change, Labelled(s), Accepts(s, c)
  PROVE  Labelled(Changed(s, c))
<1> DEFINE n == Changed(s, c)
<1> SUFFICES ASSUME NEW p \in n.labels PROVE p \in Members(n)
  BY DEF Labelled
<1>1. p \in s.labels /\ p \notin c.remove
  BY DEF Changed
<1>2. p \in People /\ s.role[p] \in {"member", "admin"}
  BY <1>1 DEF Labelled, Members
<1>3. p \notin c.invite \/ p \in c.add
  BY <1>2 DEF Accepts, InGroup
<1>4. n.role[p] \in {"member", "admin"}
  BY <1>1, <1>2, <1>3 DEF Changed
<1> QED BY <1>2, <1>4 DEF Members

(* leave_orphans_the_group judges the group it is about.                   *)
LEMMA LeaveHolds ==
  ASSUME NEW s \in State, NEW c \in Copy, c.is = s, NEW d \in Change, OnlyLeaves(d),
         Accepts(s, d), ~ Orphans(c, d.promote)
  PROVE  Members(Changed(s, d)) = {} \/ Admins(Changed(s, d)) # {}
<1> DEFINE n == Changed(s, d)
           rest == Members(s) \ {Me}
<1>2. d.promote \subseteq Members(s)
  BY DEF Accepts
<1>3. \A p \in People : n.role[p] = IF p = Me THEN "out" ELSE IF p \in d.promote THEN "admin" ELSE s.role[p]
  BY DEF Changed, OnlyLeaves
<1>4. CASE rest = {}
  <2>1. \A p \in People : n.role[p] \notin {"member", "admin"}
    BY <1>2, <1>3, <1>4 DEF Members
  <2> QED BY <2>1 DEF Members
<1>5. CASE rest # {}
  <2>1. rest \intersect (Admins(s) \union d.promote) # {}
    BY <1>5 DEF Orphans
  <2>2. PICK p \in rest : p \in Admins(s) \union d.promote
    BY <2>1
  <2>3. p \in People /\ n.role[p] = "admin"
    BY <1>3, <2>2 DEF Members, Admins
  <2> QED BY <2>3 DEF Admins
<1> QED BY <1>4, <1>5

(* members_losing_labels of the group the rule is changed in.              *)
LEMMA UpdateHolds ==
  ASSUME NEW s \in State, NEW c \in Copy, c.is = s, NEW restrict \in BOOLEAN, Labelled(s)
  PROVE  LET n == Changed(s, UpdateChange(c, restrict)) IN
         n.restricted /\ ~ s.restricted => n.labels \subseteq Admins(n)
<1> DEFINE d == UpdateChange(c, restrict)
           n == Changed(s, d)
<1>1. /\ d.remove = {} /\ d.promote = {} /\ d.add = {} /\ d.invite = {} /\ d.demote = {}
      /\ d.restrict = restrict /\ d.clear = LosingLabels(c, restrict)
  BY DEF UpdateChange, NoChange
<1> HIDE DEF d
<1>2. n.restricted = (s.restricted \/ restrict) /\ n.labels = s.labels \ LosingLabels(c, restrict)
  BY <1>1 DEF Changed
<1>3. \A p \in People : n.role[p] = s.role[p]
  BY <1>1 DEF Changed
<1>4. ASSUME n.restricted, ~ s.restricted, NEW p \in n.labels PROVE p \in Admins(n)
  <2>1. p \in s.labels /\ p \in Members(s) /\ p \notin s.labels \intersect (Members(s) \ Admins(s))
    BY <1>2, <1>4 DEF Labelled, LosingLabels
  <2>2. p \in People /\ s.role[p] = "admin"
    BY <2>1 DEF Members, Admins
  <2> QED BY <1>3, <2>2 DEF Admins
<1> QED BY <1>4 DEF d

(* A later revision puts every copy behind the server.                     *)
LEMMA AtTopStays ==
  ASSUME IInv, NEW id, OneEntry(id), NEW g \in Groups, NEW c \in Copy,
         c.known => Created(g), NotAhead(g, c), AtTop(log[g], c)
  PROVE  AtTop(log'[g], c)
<1> SUFFICES ASSUME c.known PROVE AtTop(log'[g], c)
  BY DEF AtTop
<1>1. /\ Len(log[g]) \in Nat /\ Len(log[g]) > 0 /\ Len(log'[g]) \in Nat /\ Len(log'[g]) >= Len(log[g])
      /\ \A i \in 1..Len(log[g]) : log'[g][i] = log[g][i]
  BY LogTypes, LenProperties DEF IInv, OneEntry, Grows
<1>2. c.rev \in Nat /\ c.rev <= Len(log[g]) - 1
  BY DEF Copy, NotAhead, Version
<1>3. CASE Len(log'[g]) = Len(log[g])
  <2>1. log'[g][Len(log'[g])] = log[g][Len(log[g])]
    BY <1>1, <1>3
  <2> QED BY <1>3, <2>1 DEF AtTop
<1>4. CASE Len(log'[g]) # Len(log[g])
  <2>1. c.rev # Len(log'[g]) - 1
    BY <1>1, <1>2, <1>4
  <2> QED BY <2>1 DEF AtTop
<1> QED BY <1>3, <1>4

LEMMA HoldsStay ==
  ASSUME IInv, Judged, NEW g \in Groups, NEW e \in Entry, log' = [log EXCEPT ![g] = Append(@, e)],
         Labelled(e.is), log[g] # <<>> => Held(log[g][Len(log[g])], e)
  PROVE  \A h \in Groups : Holds(log'[h])
<1>1. /\ OneEntry(e.by) /\ Len(log'[g]) = Len(log[g]) + 1 /\ log'[g][Len(log[g]) + 1] = e
      /\ \A h \in Groups : h # g => log'[h] = log[h]
  BY AppendIsOne
<1>2. Len(log[g]) \in Nat /\ \A i \in 1..Len(log[g]) : log'[g][i] = log[g][i]
  BY <1>1, LogTypes DEF IInv, OneEntry, Grows
<1>3. Holds(log[g]) /\ (Len(log[g]) # 0 => log[g] # <<>>)
  BY EmptySeq DEF Judged
<1>4. ASSUME NEW i \in 1..Len(log'[g])
      PROVE  Labelled(log'[g][i].is) /\ (i # 1 => Held(log'[g][i - 1], log'[g][i]))
  <2>1. CASE i \in 1..Len(log[g])
    <3>1. i # 1 => i - 1 \in 1..Len(log[g])
      BY <1>2, <2>1
    <3> QED BY <1>2, <1>3, <2>1, <3>1 DEF Holds
  <2>2. CASE i = Len(log[g]) + 1
    <3>1. i # 1 => Len(log[g]) # 0 /\ i - 1 = Len(log[g]) /\ Len(log[g]) \in 1..Len(log[g])
      BY <1>2, <2>2
    <3> QED BY <1>1, <1>2, <1>3, <2>2, <3>1
  <2> QED BY <1>1, <1>2, <1>4, <2>1, <2>2
<1>5. Holds(log'[g])
  BY <1>4 DEF Holds
<1> QED BY <1>1, <1>5 DEF Judged

(* A slot no step touches, but for the note that its copy is stale.        *)
LEMMA GroundedStays ==
  ASSUME IInv, Judged, NEW id, OneEntry(id), NEW u \in Tasks, Untouched(u),
         task'[u].change = task[u].change, task'[u].tries = task[u].tries
  PROVE  Grounded(log'[task'[u].g], task'[u])
<1> DEFINE k == task[u]
<1>1. /\ k.g \in Groups /\ k.local \in Copy /\ Good(k) /\ Grounded(log[k.g], k)
  BY Slot DEF Judged
<1>2. AtTop(log'[k.g], k.local)
  BY <1>1, AtTopStays DEF Good, Grounded
<1> QED BY <1>1, <1>2 DEF Grounded, Untouched

(* A step of one operation that leaves the rows alone.                     *)
LEMMA JudgedStays ==
  ASSUME IInv, Judged, NEW t \in Tasks, row' = row, \A u \in Tasks \ {t} : task'[u] = task[u],
         NEW id, OneEntry(id), \A h \in Groups : Holds(log'[h]),
         Grounded(log'[task'[t].g], task'[t])
  PROVE  Judged'
<1>1. ASSUME NEW u \in Tasks PROVE Grounded(log'[task'[u].g], task'[u])
  <2>1. CASE u # t
    BY <2>1, GroundedStays DEF Untouched
  <2> QED BY <2>1
<1>2. ASSUME NEW g \in Groups PROVE AtTop(log'[g], row'[g])
  BY AtTopStays DEF Judged, IInv, RowGood, TypeOK
<1> QED BY <1>1, <1>2 DEF Judged

(* A slot that neither changes the group nor holds a copy of it.           *)
LEMMA Rests ==
  ASSUME IInv, NEW t \in Tasks
  PROVE  \A l : Grounded(l, Over(t)) /\ Grounded(l, NoTask)
<1>1. Over(t).step \in {"idle", "pick"} /\ Over(t).local = NoCopy /\ NoTask.step = "idle" /\ NoTask.local = NoCopy
  BY OverGood DEF NoTask
<1>2. ~ NoCopy.known
  BY DEF NoCopy
<1> QED BY <1>1, <1>2 DEF Grounded, AtTop

LEMMA BeginsJudged ==
  ASSUME IInv, Judged, NEW t \in Tasks, NEW g \in Groups, NEW op, NEW step, NEW local, NEW change,
         Begin(t, op, step, g, local, change), AtTop(log[g], local),
         step # "refetch", step = "patch" => Built(op, local, change)
  PROVE  Judged'
<1> DEFINE n == [NoTask EXCEPT !.op = op, !.step = step, !.g = g, !.local = local,
                               !.change = change, !.rev = local.rev, !.id = spent.calls + 1]
<1>1. task' = [task EXCEPT ![t] = n] /\ row' = row /\ log' = log
  BY DEF Begin
<1>2. n.op = op /\ n.step = step /\ n.g = g /\ n.local = local /\ n.change = change /\ n.rev = local.rev
  BY DEF NoTask
<1> HIDE DEF n
<1>3. Grounded(log[g], n)
  BY <1>2 DEF Grounded
<1>4. task'[t] = n /\ \A u \in Tasks \ {t} : task'[u] = task[u]
  BY <1>1, Slot
<1>5. OneEntry(0)
  BY <1>1, NoEntry
<1> QED BY <1>1, <1>2, <1>3, <1>4, <1>5, JudgedStays DEF Judged

LEMMA CallJudged ==
  ASSUME IInv, Judged, NEW t \in Tasks, NEW g \in Groups, Call(t, g)
  PROVE  Judged'
<1>0. /\ AtTop(log[g], row[g]) /\ \A l : AtTop(l, NoCopy)
      /\ row[g] \in Copy
  BY DEF Judged, AtTop, NoCopy, IInv, TypeOK
<1>1. CASE \E revision \in 0..Version(g) : BeginUpsert(t, g, revision)
  BY <1>0, <1>1, BeginsJudged DEF BeginUpsert
<1>2. ASSUME NEW restrict \in BOOLEAN, BeginUpdate(t, g, restrict) PROVE Judged'
  <2> DEFINE c == UpdateChange(row[g], restrict)
  <2>1. Begin(t, "update", "patch", g, row[g], c)
    BY <1>2 DEF BeginUpdate, UpdateChange
  <2>2. c.restrict = restrict
    BY DEF UpdateChange, NoChange
  <2>3. Built("update", row[g], c)
    BY <2>2 DEF Built
  <2> QED BY <1>0, <2>1, <2>3, BeginsJudged
<1>3. ASSUME NEW p \in Others, NEW credential \in BOOLEAN, BeginMembers(t, g, p, credential) PROVE Judged'
  <2>1. \E c : Begin(t, "members", "patch", g, row[g], c)
    BY <1>3 DEF BeginMembers
  <2> QED BY <1>0, <2>1, BeginsJudged DEF Built
<1>4. ASSUME NEW promoted \in SUBSET Others, BeginLeave(t, g, promoted) PROVE Judged'
  <2> DEFINE c == [NoChange EXCEPT !.remove = {Me}]
             d == [NoChange EXCEPT !.remove = {Me}, !.promote = promoted]
  <2>1. OnlyLeaves(c) /\ OnlyLeaves(d) /\ d.promote = promoted
    BY DEF OnlyLeaves, NoChange
  <2>2. \/ Me \in Pending(row[g].is) /\ Begin(t, "leave", "patch", g, row[g], c)
        \/ ~ Orphans(row[g], promoted) /\ Begin(t, "leave", "patch", g, row[g], d)
    BY <1>4 DEF BeginLeave
  <2> HIDE DEF c, d
  <2>3. \E change : Begin(t, "leave", "patch", g, row[g], change) /\ Built("leave", row[g], change)
    BY <2>1, <2>2 DEF Built
  <2> QED BY <1>0, <2>3, BeginsJudged
<1>5. ASSUME NEW add \in SUBSET Others, NEW invite \in SUBSET Others, BeginCreate(t, g, add, invite) PROVE Judged'
  BY <1>0, <1>5, BeginsJudged DEF BeginCreate
<1>6. ASSUME NEW muted \in BOOLEAN, BeginFlags(t, g, muted) PROVE Judged'
  <2>1. AtTop(log[g], Flagged(row[g], muted))
    BY <1>0 DEF AtTop, Flagged, Stub, NoCopy, Copy
  <2> QED BY <1>6, <2>1, BeginsJudged DEF BeginFlags
<1> QED BY <1>1, <1>2, <1>3, <1>4, <1>5, <1>6 DEF Call

(* The steps of an operation in which the group stays as it is.            *)
LEMMA QuietJudged ==
  ASSUME IInv, Judged, NEW t \in Tasks,
         \/ \E g \in Groups : HydrateNext(t, g)
         \/ PatchConflict(t) \/ PatchRefused(t) \/ Refetch(t) \/ Reread(t) \/ FetchServed(t) \/ FetchRefused(t)
         \/ Fails(t) \/ BeginHydrate(t)
  PROVE  Judged'
<1> DEFINE k == task[t]
<1>0. /\ k \in Task /\ Good(k) /\ k.g \in Groups /\ k.local \in Copy /\ task \in [Tasks -> Task]
      /\ Grounded(log[k.g], k)
  BY Slot DEF Judged
<1>s. ASSUME NEW n, task' = [task EXCEPT ![t] = n], log' = log, row' = row, Grounded(log[n.g], n)
      PROVE  Judged'
  <2>1. task'[t] = n /\ \A u \in Tasks \ {t} : task'[u] = task[u]
    BY <1>0, <1>s
  <2>2. OneEntry(0) /\ \A h \in Groups : Holds(log'[h])
    BY <1>s, NoEntry DEF Judged
  <2> QED BY <1>s, <2>1, <2>2, JudgedStays
<1>o. ASSUME task' = [task EXCEPT ![t] = Over(t)] \/ task' = [task EXCEPT ![t] = NoTask], log' = log, row' = row
      PROVE  Judged'
  BY <1>o, <1>s, Rests
<1>f. AtTop(log[k.g], FromServer(k.g, k.local))
  BY DEF AtTop, FromServer, Current
<1>1. ASSUME NEW g \in Groups, HydrateNext(t, g) PROVE Judged'
  <2> DEFINE n == [k EXCEPT !.step = "fetch", !.g = g, !.local = row[g], !.dirty = FALSE, !.todo = @ \ {g}]
  <2>1. task' = [task EXCEPT ![t] = n] /\ log' = log /\ row' = row
    BY <1>1, <1>0 DEF HydrateNext
  <2>2. n.step = "fetch" /\ n.g = g /\ n.local = row[g]
    BY <1>0 DEF Task
  <2> HIDE DEF n
  <2>3. Grounded(log[n.g], n)
    BY <2>2 DEF Judged, Grounded
  <2> QED BY <2>1, <2>3, <1>s
<1>2. ASSUME PatchConflict(t) PROVE Judged'
  <2> DEFINE n == [k EXCEPT !.step = "refetch", !.tries = @ + 1]
  <2>1. /\ k.step = "patch" /\ log' = log /\ row' = row
        /\ task' = [task EXCEPT ![t] = Over(t)] \/ task' = [task EXCEPT ![t] = n]
    BY <1>0, <1>2 DEF PatchConflict
  <2>2. CASE task' = [task EXCEPT ![t] = n]
    <3>1. /\ n.step = "refetch" /\ n.g = k.g /\ n.local = k.local /\ n.tries = k.tries + 1
          /\ n.op = k.op /\ n.change = k.change
      BY <1>0 DEF Task
    <3>2. n.tries # 0
      BY <1>0, <3>1, GroupsAssumption DEF Task
    <3> HIDE DEF n
    <3>3. Grounded(log[n.g], n)
      BY <1>0, <2>1, <3>1, <3>2 DEF Grounded
    <3> QED BY <2>1, <2>2, <3>3, <1>s
  <2> QED BY <2>1, <2>2, <1>o
<1>3. ASSUME Refetch(t) PROVE Judged'
  <2> DEFINE n == [k EXCEPT !.step = "patch", !.rev = Rebuilt(t)]
  <2>1. /\ k.step = "refetch" /\ log' = log /\ row' = row
        /\ task' = [task EXCEPT ![t] = Over(t)] \/ task' = [task EXCEPT ![t] = n]
    BY <1>0, <1>3 DEF Refetch
  <2>2. CASE task' = [task EXCEPT ![t] = n]
    <3>1. /\ n.step = "patch" /\ n.g = k.g /\ n.local = k.local /\ n.tries = k.tries
          /\ n.op = k.op /\ n.change = k.change
      BY <1>0 DEF Task
    <3> HIDE DEF n
    <3>2. Grounded(log[n.g], n)
      BY <1>0, <2>1, <3>1 DEF Grounded
    <3> QED BY <2>1, <2>2, <3>2, <1>s
  <2> QED BY <2>1, <2>2, <1>o
<1>4. ASSUME Reread(t) \/ FetchServed(t) PROVE Judged'
  <2> DEFINE n == [k EXCEPT !.step = "save", !.local = FromServer(k.g, k.local)]
  <2>1. /\ log' = log /\ row' = row
        /\ task' = [task EXCEPT ![t] = Over(t)] \/ task' = [task EXCEPT ![t] = n]
    BY <1>0, <1>4 DEF Reread, FetchServed
  <2>2. n.step = "save" /\ n.g = k.g /\ n.local = FromServer(k.g, k.local)
    BY <1>0 DEF Task
  <2> HIDE DEF n
  <2>3. Grounded(log[n.g], n)
    BY <1>f, <2>2 DEF Grounded
  <2> QED BY <2>1, <2>3, <1>s, <1>o
<1>5. ASSUME FetchRefused(t) PROVE Judged'
  <2> DEFINE n == [k EXCEPT !.step = "save", !.local = MarkDenied(k.local)]
  <2>1. /\ k.step = "fetch" /\ ~ Shows(k.g) /\ log' = log /\ row' = row
        /\ task' = [task EXCEPT ![t] = Over(t)] \/ task' = [task EXCEPT ![t] = n]
    BY <1>0, <1>5 DEF FetchRefused
  <2>2. n.step = "save" /\ n.g = k.g /\ n.local = MarkDenied(k.local)
    BY <1>0 DEF Task
  <2>3. Me \notin InGroup(log[k.g][Len(log[k.g])].is)
    BY <1>0, <2>1 DEF Good, Shows, Current
  <2> HIDE DEF n
  <2>4. Grounded(log[n.g], n)
    BY <2>2, <2>3 DEF Grounded, AtTop
  <2> QED BY <2>1, <2>4, <1>s, <1>o
<1>6. CASE PatchRefused(t) \/ Fails(t)
  BY <1>6, <1>o DEF PatchRefused, Fails
<1>7. CASE BeginHydrate(t)
  <2> DEFINE n == [NoTask EXCEPT !.op = "hydrate", !.step = "pick", !.todo = Stubs]
  <2>1. n.step = "pick" /\ n.local = NoCopy /\ ~ NoCopy.known
    BY DEF NoTask, NoCopy
  <2>2. task' = [task EXCEPT ![t] = n] /\ log' = log /\ row' = row
    BY <1>7 DEF BeginHydrate
  <2> HIDE DEF n
  <2>3. Grounded(log[n.g], n)
    BY <2>1 DEF Grounded, AtTop
  <2> QED BY <2>2, <2>3, <1>s
<1> QED BY <1>1, <1>2, <1>3, <1>4, <1>5, <1>6, <1>7

(* The server takes the change of an operation: a new revision it was      *)
(* either judged on, or that says it was not.                              *)
LEMMA AcceptedJudged ==
  ASSUME IInv, Judged, NEW t \in Tasks, PatchAccepted(t) \/ PatchLost(t)
  PROVE  Judged'
<1> DEFINE k == task[t]
           s == Current(k.g)
           n == Changed(s, k.change)
           e == Ours(t, n)
<1>0. /\ k \in Task /\ Good(k) /\ k.g \in Groups /\ k.local \in Copy /\ k.rev \in Nat
      /\ k.change \in Change /\ task \in [Tasks -> Task] /\ Grounded(log[k.g], k)
  BY Slot DEF Judged
<1>1. /\ k.step = "patch" /\ k.rev = Version(k.g) /\ Accepts(s, k.change)
      /\ log' = [log EXCEPT ![k.g] = Append(@, e)] /\ row' = row
  BY DEF PatchAccepted, PatchLost, Accepted, Committed
<1>2. Created(k.g) /\ k.op \in Changers /\ k.local.known
  BY <1>0, <1>1 DEF Good
<1>3. s \in State /\ n \in State
  BY <1>0, <1>2, LogTypes, ChangedType DEF IInv
<1>4. /\ Len(log[k.g]) \in Nat /\ Len(log[k.g]) > 0 /\ k.rev = Len(log[k.g]) - 1
      /\ s = log[k.g][Len(log[k.g])].is
  BY <1>0, <1>1, <1>2, LogTypes DEF IInv, Version, Current
<1>5. Labelled(s)
  <2>1. Len(log[k.g]) \in 1..Len(log[k.g]) /\ Holds(log[k.g])
    BY <1>0, <1>4 DEF Judged
  <2> QED BY <1>4, <2>1 DEF Holds
<1>6. Labelled(n)
  BY <1>0, <1>1, <1>3, <1>5, ChangedLabelled
<1>7. e.is = n /\ e.op = k.op /\ e.by = k.id /\ e.checked = (k.tries = 0 /\ ~ k.local.stub)
  BY DEF Ours
<1>8. e \in Entry
  BY <1>0, <1>2, <1>3 DEF Ours, Entry, Changers, Copy, Task
<1>9. Built(k.op, k.local, k.change) /\ (k.tries = 0 => k.rev = k.local.rev)
  BY <1>0, <1>1 DEF Grounded
<1>s. Me \in InGroup(s)
  BY <1>1 DEF Accepts
<1> HIDE DEF e, n, s
<1>10. e.checked => k.local.is = s
  <2>1. AtTop(log[k.g], k.local)
    BY <1>0 DEF Grounded
  <2>2. e.checked => ~ k.local.stub /\ k.local.rev = Len(log[k.g]) - 1
    BY <1>4, <1>7, <1>9
  <2> QED BY <1>2, <1>4, <1>s, <2>1, <2>2 DEF AtTop
<1>11. Held(log[k.g][Len(log[k.g])], e)
  <2> SUFFICES ASSUME e.checked
               PROVE  /\ e.op = "leave" /\ Me \in Members(s) => Members(n) = {} \/ Admins(n) # {}
                      /\ e.op = "update" /\ n.restricted /\ ~ s.restricted => n.labels \subseteq Admins(n)
    BY <1>4, <1>7 DEF Held
  <2>1. k.local.is = s
    BY <1>10
  <2>2. ASSUME e.op = "leave", Me \in Members(s) PROVE Members(n) = {} \/ Admins(n) # {}
    <3>1. OnlyLeaves(k.change) /\ ~ Orphans(k.local, k.change.promote)
      BY <1>7, <1>9, <2>1, <2>2 DEF Built, Pending, Members
    <3> QED BY <1>0, <1>1, <1>3, <2>1, <3>1, LeaveHolds DEF n
  <2>3. ASSUME e.op = "update" PROVE n.restricted /\ ~ s.restricted => n.labels \subseteq Admins(n)
    <3>1. k.change = UpdateChange(k.local, k.change.restrict)
      BY <1>7, <1>9, <2>3 DEF Built
    <3>2. k.change.restrict \in BOOLEAN
      BY <1>0 DEF Change
    <3>3. LET m == Changed(s, UpdateChange(k.local, k.change.restrict)) IN
          m.restricted /\ ~ s.restricted => m.labels \subseteq Admins(m)
      BY <1>0, <1>3, <1>5, <2>1, <3>2, UpdateHolds
    <3> QED BY <3>1, <3>3 DEF n
  <2> QED BY <2>2, <2>3
<1>12. \A h \in Groups : Holds(log'[h])
  BY <1>0, <1>1, <1>6, <1>7, <1>8, <1>11, HoldsStay
<1>13. /\ OneEntry(k.id) /\ Len(log'[k.g]) = Len(log[k.g]) + 1
       /\ log'[k.g][Len(log[k.g]) + 1] = e
  <2>1. OneEntry(e.by) /\ Len(log'[k.g]) = Len(log[k.g]) + 1 /\ log'[k.g][Len(log[k.g]) + 1] = e
    BY <1>0, <1>1, <1>8, AppendIsOne
  <2> QED BY <1>7, <2>1
<1>14. AtTop(log'[k.g], k.local)
  BY <1>0, <1>13, AtTopStays DEF Good, Grounded
<1>15. \A u \in Tasks \ {t} : task'[u] = task[u]
  BY <1>0 DEF PatchAccepted, PatchLost
<1>16. CASE PatchAccepted(t)
  <2>1. /\ task'[t].g = k.g
        /\ \/ k.op = "leave" /\ task'[t].step = "save" /\ task'[t].local = LeftCopy(t)
           \/ task'[t].step = "reread" /\ task'[t].local = k.local
    BY <1>0, <1>16 DEF PatchAccepted, Task
  <2>2. ASSUME k.op = "leave" PROVE AtTop(log'[k.g], LeftCopy(t))
    <3>1. k.change.remove = {Me}
      BY <1>9, <2>2 DEF Built, OnlyLeaves
    <3>2. Me \notin InGroup(n)
      BY <3>1 DEF n, Changed, InGroup
    <3> QED BY <1>4, <1>7, <1>13, <3>2 DEF AtTop
  <2>3. Grounded(log'[task'[t].g], task'[t])
    BY <1>14, <2>1, <2>2 DEF Grounded
  <2> QED BY <1>1, <1>12, <1>13, <1>15, <2>3, JudgedStays
<1>17. CASE PatchLost(t)
  <2>1. task'[t] = Over(t)
    BY <1>0, <1>17 DEF PatchLost
  <2> QED BY <1>1, <1>12, <1>13, <1>15, <2>1, Rests, JudgedStays
<1> QED BY <1>16, <1>17

LEMMA PutJudged ==
  ASSUME IInv, Judged, NEW t \in Tasks, PutGroup(t)
  PROVE  Judged'
<1> DEFINE k == task[t]
           n == Changed(NoState, k.change)
           e == Ours(t, n)
<1>0. /\ k \in Task /\ Good(k) /\ k.g \in Groups /\ k.local \in Copy /\ k.id \in Nat
      /\ k.change \in Change /\ task \in [Tasks -> Task] /\ log \in [Groups -> Seq(Entry)]
  BY Slot
<1>1. /\ k.step = "put" /\ log' = [log EXCEPT ![k.g] = <<e>>] /\ row' = row
      /\ task' = [task EXCEPT ![t].step = "reread"] \/ task' = [task EXCEPT ![t] = Over(t)]
  BY DEF PutGroup
<1>2. log[k.g] = <<>> /\ k.op = "create" /\ ~ k.local.known
  BY <1>0, <1>1 DEF Good, Created
<1>3. n \in State
  BY <1>0, StateTypes, ChangedType
<1>4. Labelled(n)
  BY DEF Labelled, Changed, NoState
<1>5. e \in Entry /\ e.is = n
  BY <1>0, <1>2, <1>3 DEF Ours, Entry, Copy, Task
<1> HIDE DEF e, n
<1>6. log' = [log EXCEPT ![k.g] = Append(@, e)]
  <2>1. Append(<<>>, e) = <<e>>
    BY <1>5
  <2> QED BY <1>1, <1>2, <2>1
<1>7. OneEntry(e.by) /\ \A h \in Groups : Holds(log'[h])
  BY <1>0, <1>2, <1>4, <1>5, <1>6, AppendIsOne, HoldsStay
<1>8. Grounded(log'[task'[t].g], task'[t])
  <2>1. CASE task' = [task EXCEPT ![t].step = "reread"]
    <3>1. task'[t].step = "reread" /\ task'[t].local = k.local
      BY <1>0, <2>1 DEF Task
    <3> QED BY <1>2, <3>1 DEF Grounded, AtTop
  <2>2. CASE task' = [task EXCEPT ![t] = Over(t)]
    <3>1. task'[t] = Over(t)
      BY <1>0, <2>2
    <3> QED BY <3>1, Rests
  <2> QED BY <1>1, <2>1, <2>2
<1>9. \A u \in Tasks \ {t} : task'[u] = task[u]
  BY <1>0, <1>1
<1> QED BY <1>1, <1>7, <1>8, <1>9, JudgedStays

LEMMA SaveJudged ==
  ASSUME IInv, Judged, NEW t \in Tasks, Save(t)
  PROVE  Judged'
<1> DEFINE k == task[t]
<1>0. /\ k.g \in Groups /\ row \in [Groups -> Copy] /\ Grounded(log[k.g], k)
  BY Slot DEF Judged
<1>1. row' = [row EXCEPT ![k.g] = k.local] /\ log' = log /\ task'[t] = Over(t)
  BY DEF Save
<1>2. ASSUME NEW u \in Tasks PROVE Grounded(log[task'[u].g], task'[u])
  <2>1. CASE u = t
    BY <1>1, <2>1, Rests
  <2>2. CASE u # t
    <3>1. task[u] \in Task /\ Grounded(log[task[u].g], task[u])
      BY Slot DEF Judged
    <3>2. task'[u] = task[u] \/ task'[u] = [task[u] EXCEPT !.dirty = TRUE]
      BY <2>2 DEF Save
    <3>3. /\ task'[u].g = task[u].g /\ task'[u].local = task[u].local /\ task'[u].step = task[u].step
          /\ task'[u].tries = task[u].tries /\ task'[u].rev = task[u].rev /\ task'[u].op = task[u].op
          /\ task'[u].change = task[u].change
      BY <3>1, <3>2 DEF Task
    <3> QED BY <3>1, <3>3 DEF Grounded
  <2> QED BY <2>1, <2>2
<1>3. ASSUME NEW g \in Groups PROVE AtTop(log[g], row'[g])
  <2>1. AtTop(log[k.g], k.local) /\ AtTop(log[g], row[g])
    BY <1>0 DEF Grounded, Judged
  <2>2. row'[g] = IF g = k.g THEN k.local ELSE row[g]
    BY <1>0, <1>1
  <2> QED BY <2>1, <2>2
<1> QED BY <1>1, <1>2, <1>3 DEF Judged

LEMMA OtherJudged ==
  ASSUME IInv, Judged, NEW g \in Groups, NEW s \in State, OtherChange(g, s)
  PROVE  Judged'
<1> DEFINE e == [is |-> s, by |-> 0, op |-> "other", checked |-> TRUE]
<1>1. log' = [log EXCEPT ![g] = Append(@, e)] /\ row' = row /\ task' = task /\ s.labels \subseteq Members(s)
  BY DEF OtherChange
<1>2. e \in Entry /\ e.by = 0 /\ e.is = s /\ e.op = "other"
  BY DEF Entry
<1> HIDE DEF e
<1>3. \A l : Held(l, e)
  BY <1>2 DEF Held
<1>4. OneEntry(0) /\ \A h \in Groups : Holds(log'[h])
  BY <1>1, <1>2, <1>3, AppendIsOne, HoldsStay DEF Labelled
<1>5. \A u \in Tasks : Grounded(log'[task'[u].g], task'[u])
  BY <1>1, <1>4, GroundedStays DEF Untouched
<1>6. ASSUME NEW h \in Groups PROVE AtTop(log'[h], row'[h])
  BY <1>1, <1>4, AtTopStays DEF Judged, IInv, RowGood, TypeOK
<1> QED BY <1>4, <1>5, <1>6 DEF Judged

LEMMA JudgedKept == IInv /\ Judged /\ [Next]_vars => Judged'
<1> SUFFICES ASSUME IInv, Judged, [Next]_vars PROVE Judged'
  OBVIOUS
<1>1. ASSUME NEW t \in Tasks, Step(t) \/ PatchLost(t) \/ Fails(t) PROVE Judged'
  BY <1>1, QuietJudged, AcceptedJudged, PutJudged, SaveJudged DEF Step
<1>2. ASSUME NEW t \in Tasks, NEW g \in Groups \ Refused, Call(t, g) PROVE Judged'
  BY <1>2, CallJudged
<1>3. CASE Hydrate
  BY <1>3, QuietJudged DEF Hydrate
<1>4. ASSUME NEW g \in Groups \ Refused, NEW s \in State, OtherChange(g, s) PROVE Judged'
  BY <1>4, OtherJudged
<1>5. CASE Crash
  <2>1. \A t \in Tasks : task'[t] = NoTask
    BY <1>5 DEF Crash
  <2>2. \A t \in Tasks : Grounded(log[task'[t].g], task'[t])
    BY <2>1 DEF Grounded, AtTop, NoTask, NoCopy
  <2> QED BY <1>5, <2>2 DEF Crash, Judged
<1>6. CASE UNCHANGED vars
  BY <1>6 DEF vars, Judged
<1> QED BY <1>1, <1>2, <1>3, <1>4, <1>5, <1>6 DEF Next

LEMMA InitJudged == Init => Judged
<1> SUFFICES ASSUME Init PROVE Judged
  OBVIOUS
<1>1. ASSUME NEW g \in Groups PROVE Holds(log[g])
  <2>1. log[g] = <<>> \/ \E s \in State : log[g] = <<Founded(s)>> /\ Labelled(s)
    <3>1. log[g] \in {<<>>, <<Founded(NoState)>>} \union {<<Founded(s)>> : s \in Starts}
      BY DEF Init
    <3>2. NoState \in State /\ Labelled(NoState)
      BY StateTypes DEF Labelled, NoState
    <3>3. \A s \in Starts : s \in State /\ Labelled(s)
      BY DEF Starts, Labelled
    <3> QED BY <3>1, <3>2, <3>3
  <2>2. ASSUME NEW s \in State, log[g] = <<Founded(s)>>, Labelled(s) PROVE Holds(log[g])
    <3>1. Len(log[g]) = 1 /\ log[g][1].is = s
      BY <2>2 DEF Founded
    <3> QED BY <2>2, <3>1 DEF Holds
  <2>3. CASE log[g] = <<>>
    BY <2>3 DEF Holds
  <2> QED BY <2>1, <2>2, <2>3
<1>2. ASSUME NEW g \in Groups PROVE AtTop(log[g], row[g])
  <2>1. row[g] \in {Stub, NoCopy, FromServer(g, NoCopy)}
    BY DEF Init
  <2>2. CASE row[g] \in {Stub, NoCopy}
    <3>1. ~ NoCopy.known /\ Stub.stub = TRUE
      BY DEF Stub, NoCopy
    <3> QED BY <2>2, <3>1 DEF AtTop
  <2>3. CASE row[g] = FromServer(g, NoCopy)
    <3>1. row[g].is = log[g][Len(log[g])].is
      BY <2>3 DEF FromServer, Current
    <3> QED BY <3>1 DEF AtTop
  <2> QED BY <2>1, <2>2, <2>3
<1>3. \A t \in Tasks : Grounded(log[task[t].g], task[t])
  BY DEF Init, Grounded, AtTop, NoTask, NoCopy
<1> QED BY <1>1, <1>2, <1>3 DEF Judged

(* A change that met no conflict was judged on the very group it changes:  *)
(* a leave that leave_orphans_the_group let through leaves an              *)
(* administrator to those who stay, and handing the labels to              *)
(* administrators clears, with members_losing_labels, each one it forbids. *)
THEOREM ChecksHold == Spec => []CheckedChangesHold
<1>1. IInv /\ Judged => CheckedChangesHold
  <2> SUFFICES ASSUME IInv, Judged, NEW g \in Groups, NEW i \in 2..Len(log[g])
               PROVE  Held(log[g][i - 1], log[g][i])
    BY DEF CheckedChangesHold, Held
  <2>1. i \in 1..Len(log[g]) /\ i # 1
    BY LogTypes DEF IInv
  <2> QED BY <2>1 DEF Judged, Holds
<1> QED BY <1>1, InitJudged, JudgedKept, Invariance, PTL DEF Spec
=============================================================================
