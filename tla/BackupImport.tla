---------------------------- MODULE BackupImport ----------------------------
(***************************************************************************)
(* What the chat items of a backup become in the store                     *)
(* (presage/src/backup/convert.rs, group_change.rs and import_chat_item).  *)
(*                                                                         *)
(* An item is what the importer tells apart, in one chat: who it is by,    *)
(* when, and its kind.  Rows of a chat are keyed by their time, and a      *)
(* change of a group may be split over several items of one instant, which *)
(* are held back and imported as one row.  A row names the items it shows. *)
(***************************************************************************)
EXTENDS CallHistory, Naturals, Sequences, SequencesExt

CONSTANTS Authors, MaxItems, MaxTime \* bounds on the archives considered

ASSUME ArchiveAssumption == Authors # {} /\ MaxItems \in Nat /\ MaxTime \in Nat \ {0}

(* "edited" has a second row a moment away, for its other version (or, of  *)
(* a message with a reaction, the reaction); the importer drops "unknown"; *)
(* any other item is one row, as "message" is: a timer, a pin, a block.    *)
Groupish == {"change", "creation"}
CallItems == {"call_accepted", "call_missed"}
ItemKinds == {"message", "edited", "unknown"} \union Groupish \union CallItems
AnyAuthor == CHOOSE a \in Authors : TRUE
Item == {i \in [kind : ItemKinds, author : Authors, at : 1..MaxTime] : i.kind \in Groupish \/ i.author = AnyAuthor}

(* An archive's items come in the order of their times, a call's once; the *)
(* authors are interchangeable.                                            *)
Archives == {a \in SeqOf(Item, MaxItems) \ {<<>>} :
               /\ \A i \in 2..Len(a) : a[i - 1].at <= a[i].at
               /\ \A i, j \in DOMAIN a : a[i].kind \in CallItems /\ a[j].kind \in CallItems => i = j
               /\ \A i \in DOMAIN a : a[i].author # AnyAuthor => \E j \in 1..i - 1 : a[j].kind \in Groupish /\ a[j].author = AnyAuthor}

Row == [kind : ItemKinds \union {"none", "edit"}, of : SUBSET Nat]
NoRow == [kind |-> "none", of |-> {}]

(* The run of group-change items held back, with their places in the       *)
(* archive; an item that is no change is a run of its own.                 *)
Run(item, i) == [item |-> item, of |-> {i}, creates |-> IF item.kind = "creation" THEN {i} ELSE {}]
NoRun == [item |-> [kind |-> "unknown", author |-> AnyAuthor, at |-> 1], of |-> {}, creates |-> {}]

SameRun(held, item) ==
  held.of # {} /\ held.item.author = item.author /\ held.item.at = item.at /\ item.kind \in Groupish
Absorb(held, item, i) ==
  [held EXCEPT !.of = @ \union {i}, !.creates = @ \union (IF item.kind = "creation" THEN {i} ELSE {})]

(* Faulty: each item is imported by itself.                                *)
CoalesceNever(held, item, i) == [held |-> NoRun, ready |-> <<Run(item, i)>>]

(* coalesce_group_changes: what is still held, and the runs, two at most,  *)
(* that are ready.                                                         *)
Coalesce(held, item, i) ==
  LET before == IF held.of = {} THEN <<>> ELSE <<held>> IN
  IF SameRun(held, item) THEN [held |-> Absorb(held, item, i), ready |-> <<>>]
  ELSE IF item.kind \in Groupish THEN [held |-> Run(item, i), ready |-> before]
  ELSE [held |-> NoRun, ready |-> Append(before, Run(item, i))]

(* plan_group_update: a batch that creates the group is the creation       *)
(* alone; any other carries every update's actions.                        *)
GroupRow(run) == IF run.creates # {} THEN [kind |-> "creation", of |-> run.creates]
                 ELSE [kind |-> "change", of |-> run.of]

(* An item's own row, and beside it the row of an edit of it.              *)
PlainRow(run) == [kind |-> run.item.kind, of |-> run.of]
EditRow(run) == [kind |-> "edit", of |-> run.of]

(* chat_item_to_contents: the rows of a run, by their times.               *)
RowsOf(run) ==
  LET at == run.item.at IN
  CASE run.item.kind = "unknown" -> [t \in {} |-> NoRow]
    [] run.item.kind \in Groupish -> [t \in {at} |-> GroupRow(run)]
    [] run.item.kind = "edited" -> [t \in {at, at + 1} |-> IF t = at THEN PlainRow(run) ELSE EditRow(run)]
    [] OTHER -> [t \in {at} |-> PlainRow(run)]

(* individual_call_to_contents: the event a call's item tells of.          *)
CallOf(item) == [kind |-> IF item.kind = "call_accepted" THEN "accepted" ELSE "not_accepted",
                 mode |-> "direct", incoming |-> TRUE]

(* import_chat_item: the rows, replacing those of the same time, and the   *)
(* call log.                                                               *)
Imported(history, run) ==
  [rows |-> [t \in DOMAIN history.rows |-> IF t \in DOMAIN RowsOf(run) THEN RowsOf(run)[t] ELSE history.rows[t]],
   call |-> IF run.item.kind \in CallItems THEN Transition(history.call, CallOf(run.item)) ELSE history.call]
ImportedAll(history, ready) ==
  IF ready = <<>> THEN history
  ELSE IF Len(ready) = 1 THEN Imported(history, ready[1])
  ELSE Imported(Imported(history, ready[1]), ready[2])

History == [rows : [1..MaxTime + 1 -> Row], call : CallEntry]
NoHistory == [rows |-> [t \in 1..MaxTime + 1 |-> NoRow], call |-> NoCall]

(***************************************************************************)
(* What an archive should look like once it is imported, without the       *)
(* importer's passes.                                                      *)
(***************************************************************************)
Together(a, i, j) ==
  \A k \in i..j : a[k].kind \in Groupish /\ a[k].author = a[i].author /\ a[k].at = a[i].at
Times(item) == CASE item.kind = "unknown" -> {}
                 [] item.kind = "edited" -> {item.at, item.at + 1}
                 [] OTHER -> {item.at}
Alone(a, i) == \A j \in DOMAIN a \ {i} :
  ~ Together(a, IF i < j THEN i ELSE j, IF i < j THEN j ELSE i) => Times(a[i]) \intersect Times(a[j]) = {}

(* Every item that shares its time with no other row is shown there, and   *)
(* a call accepted in the archive is accepted.                             *)
Whole(history, a) ==
  /\ \A i \in DOMAIN a : Alone(a, i) => \A t \in Times(a[i]) :
       \/ i \in history.rows[t].of
       \/ a[i].kind = "change" /\ history.rows[t].kind = "creation"
  /\ (\E i \in DOMAIN a : a[i].kind = "call_accepted") => history.call.status = "accepted"
=============================================================================
