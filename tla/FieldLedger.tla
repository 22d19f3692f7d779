---- MODULE FieldLedger ----
(***************************************************************************)
(* What the offline queue of the field page promises for a fault report:   *)
(* once the page has told the user that the report is queued, the report   *)
(* is either still in the queue, or on the server, or was deleted by the   *)
(* user; it never goes back to nothing.  FieldOutbox implements this.      *)
(***************************************************************************)
CONSTANT Reports

VARIABLE status

Status == {"new", "form", "refused", "queued", "stored", "deleted"}

Init == status = [r \in Reports |-> "new"]

Move(r, from, to) ==
  /\ status[r] \in from
  /\ status' = [status EXCEPT ![r] = to]

Press(r) == Move(r, {"new"}, "form")

Refuse(r) == Move(r, {"form"}, "refused")

\* "deleted" is left when the answer to a request already sent puts the item
\* back into the queue.
Queue(r) == Move(r, {"form", "deleted"}, "queued")

\* A request whose sender gave up may still be carried out later.
Store(r) == Move(r, {"form", "refused", "queued", "deleted"}, "stored")

Delete(r) == Move(r, {"queued"}, "deleted")

Next == \E r \in Reports : Press(r) \/ Refuse(r) \/ Queue(r) \/ Store(r) \/ Delete(r)

Spec == Init /\ [][Next]_status
====
