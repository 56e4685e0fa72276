---------------------------- MODULE CallHistory ----------------------------
(***************************************************************************)
(* The call log's state machine (presage/src/model/calls.rs): what an      *)
(* event learnt from one of the account's devices makes of the entry kept  *)
(* for its call.  A row is looked up by the call alone, and the mode that  *)
(* an event names picks the machine, so an entry of the other mode gives   *)
(* no status to start from.                                                *)
(***************************************************************************)
Modes == {"direct", "group"}
Kinds == {"accepted", "not_accepted", "observed", "delete", "other"}

(* CallEventInfo, and CallHistoryEntry as the store keeps it.              *)
Event == [kind : Kinds, mode : Modes, incoming : BOOLEAN]
Statuses == {"none", "pending", "missed", "accepted", "generic", "joined", "deleted"}
CallEntry == [mode : Modes, status : Statuses]
NoCall == [mode |-> "direct", status |-> "none"]

Prior(prev, e) == IF prev.mode = e.mode THEN prev.status ELSE "none"

DirectStatus(prev, e) ==
  IF e.kind = "delete" \/ Prior(prev, e) = "deleted" THEN "deleted"
  ELSE IF e.kind = "accepted" \/ Prior(prev, e) = "accepted" THEN "accepted"
  ELSE CASE e.kind = "not_accepted" -> "missed"
         [] e.kind = "observed" -> "pending"
         [] OTHER -> IF Prior(prev, e) = "none" THEN "pending" ELSE Prior(prev, e)

GroupStatus(prev, e) ==
  IF e.kind = "delete" \/ Prior(prev, e) = "deleted" THEN "deleted"
  ELSE IF e.kind = "accepted" \/ Prior(prev, e) = "joined" THEN "joined"
  ELSE CASE e.kind = "not_accepted" -> IF e.incoming THEN "missed" ELSE "generic"
         [] e.kind = "observed" -> "generic"
         [] OTHER -> IF Prior(prev, e) = "none" THEN "generic" ELSE Prior(prev, e)

(* Faulty: an accepted call is only remembered by the event that says so.  *)
TransitionUnsticky(prev, e) ==
  [mode |-> e.mode,
   status |-> IF e.mode = "group" THEN GroupStatus(prev, e)
              ELSE DirectStatus([prev EXCEPT !.status = IF @ = "accepted" THEN "pending" ELSE @], e)]

(* transition_call_history.                                                *)
Transition(prev, e) ==
  [mode |-> e.mode,
   status |-> IF e.mode = "group" THEN GroupStatus(prev, e) ELSE DirectStatus(prev, e)]
=============================================================================
