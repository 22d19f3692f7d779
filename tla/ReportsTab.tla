---- MODULE ReportsTab ----
(***************************************************************************)
(* The tab of customer reports, src/frontend/components/ops/               *)
(* ReportsTab.tsx: the list with its filter, the markers it draws, the     *)
(* form for a new report and the row being updated.  A customer chosen on  *)
(* the map is sent by id beside the code typed in the form.                *)
(***************************************************************************)
EXTENDS Screen

CONSTANTS
  Customers,  \* ids of customers, each with its own code
  Codes,      \* what may be typed as a code
  Reports,    \* reports the server may hold
  MaxReports  \* bound: news of others

Call(op) == [op |-> op, filter |-> ui.filter, id |-> Nil, code |-> "", report |-> Nil, closed |-> FALSE]
Load == Call("load")

\* At the server: reports by whether they are closed.
Listed(filter) == {r \in DOMAIN world.stored : filter = "" \/ ~world.stored[r]}

Init ==
  /\ ui = [filter |-> "open", items |-> Nil, overlay |-> Nil, form |-> FALSE, code |-> "", customer |-> Nil,
           picked |-> Nil, saving |-> FALSE, edit |-> Nil]
  /\ calls = {[op |-> "load", filter |-> "open", id |-> Nil, code |-> "", report |-> Nil, closed |-> FALSE]}
  /\ world = [stored |-> [r \in {} |-> FALSE], mixed |-> FALSE, news |-> 0]

Pick(c) == c # ui.picked /\ Show([ui EXCEPT !.picked = c])

SetFilter(f) ==
  f # ui.filter /\ ui' = [ui EXCEPT !.filter = f] /\ Send([Load EXCEPT !.filter = f]) /\ UNCHANGED world

\* refreshKey has changed.
Refresh == world.news > 0 /\ Send(Load) /\ UNCHANGED <<ui, world>>

\* The list and the markers on the map come from the same answer.
load ==
  \E c \in calls :
    /\ c.op = "load"
    /\ ui' = [ui EXCEPT !.items = Listed(c.filter), !.overlay = Listed(c.filter)]
    /\ Got(c) /\ UNCHANGED world

ToggleForm == Show([ui EXCEPT !.form = ~@])

\* mutant: The customer chosen on the map outlives an edit of the code.
TypeCode_KeepsCustomer(s) == ui.form /\ s # ui.code /\ Show([ui EXCEPT !.code = s])

TypeCode(s) == ui.form /\ s # ui.code /\ Show([ui EXCEPT !.code = s, !.customer = Nil])

\* The code of a customer is written as the customer here.
usePicked ==
  ui.form /\ ui.picked # Nil /\ Show([ui EXCEPT !.customer = ui.picked, !.code = ui.picked])

submit ==
  /\ ui.form /\ ~ui.saving
  /\ Send([Call("submit") EXCEPT !.id = ui.customer, !.code = ui.code])
  /\ ui' = [ui EXCEPT !.saving = TRUE] /\ UNCHANGED world

\* The server takes the customer by id and does not compare the code.
Stored ==
  \E c \in calls : \E r \in Reports \ DOMAIN world.stored :
    /\ c.op = "submit"
    /\ world' = [world EXCEPT !.stored = [q \in DOMAIN world.stored \cup {r} |-> IF q = r THEN FALSE ELSE world.stored[q]],
                              !.mixed = @ \/ (c.id # Nil /\ c.id # c.code)]
    /\ ui' = [ui EXCEPT !.code = "", !.customer = Nil, !.form = FALSE, !.saving = FALSE]
    /\ calls' = (calls \ {c}) \cup {Load}

Edit(r) ==
  /\ ui.items # Nil /\ r \in ui.items \cap DOMAIN world.stored /\ ~world.stored[r]
  /\ Show([ui EXCEPT !.edit = r])

CancelEdit == ui.edit # Nil /\ Show([ui EXCEPT !.edit = Nil])

update ==
  /\ ui.edit # Nil
  /\ \E b \in BOOLEAN : Send([Call("update") EXCEPT !.report = ui.edit, !.closed = b])
  /\ UNCHANGED <<ui, world>>

\* Whatever row is being edited by then is put away.
Updated ==
  \E c \in calls :
    /\ c.op = "update"
    /\ world' = [world EXCEPT !.stored[c.report] = c.closed]
    /\ ui' = [ui EXCEPT !.edit = Nil]
    /\ calls' = (calls \ {c}) \cup {Load}

Failed ==
  \E c \in calls : ui' = [ui EXCEPT !.saving = @ /\ c.op # "submit"] /\ Got(c) /\ UNCHANGED world

\* Someone else reports an outage.
OtherReport ==
  /\ world.news < MaxReports
  /\ \E r \in Reports \ DOMAIN world.stored :
       world' = [world EXCEPT !.news = @ + 1,
                   !.stored = [q \in DOMAIN world.stored \cup {r} |-> IF q = r THEN FALSE ELSE world.stored[q]]]
  /\ UNCHANGED <<ui, calls>>

Next ==
  \/ \E c \in Customers : Pick(c)
  \/ \E f \in {"open", ""} : SetFilter(f)
  \/ Refresh \/ load \/ ToggleForm \/ usePicked \/ submit \/ Stored \/ CancelEdit \/ update \/ Updated \/ Failed \/ OtherReport
  \/ \E s \in Codes \cup Customers \cup {""} : TypeCode(s)
  \/ \E r \in Reports : Edit(r)

Spec == Init /\ [][Next]_vars

----------------------------------------------------------------------------
(* Properties *)

\* A report is never filed under a customer other than the one whose code stands in
\* the form, although one is chosen on the map and the other typed.
CustomerOfCode == ~world.mixed
====
