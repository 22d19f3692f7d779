---- MODULE Review ----
(***************************************************************************)
(* The page that takes packages of changes through their approval          *)
(* (src/frontend/components/changes/Changes.tsx): a list by status, one    *)
(* package with its proposals, and the actions its status and the roles of *)
(* the user allow.  The server checks the status again in one statement    *)
(* and writes in another (src/backend/internal/gis/changes.go), so that    *)
(* commands of several users overlap; what a release applies is in         *)
(* Changesets.tla.                                                         *)
(***************************************************************************)
EXTENDS Screen

CONSTANTS
  Packages,
  MaxTurns,   \* bound: what the user does
  MaxOthers   \* bound: what other users do

Statuses == {"draft", "submitted", "approved", "rejected", "released", "cancelled"}
StatusFilters == {"todo", "submitted", "all"}
Call(op, about) == [op |-> op, about |-> about, note |-> Nil, got |-> Nil]
Turn == world.turns < MaxTurns /\ world' = [world EXCEPT !.turns = @ + 1]

\* The user drafts, approves or releases; a package is the user's own or another's.
Roles == {"author", "approver", "releaser"}

Init ==
  /\ \E sel \in Packages \cup {Nil} :
       LET f == IF sel = Nil THEN "todo" ELSE "all"
       IN /\ ui = [filter |-> f, list |-> Nil, sel |-> sel, detail |-> Nil, note |-> Nil, busy |-> ""]
          /\ calls = {Call("list", f)} \cup IF sel = Nil THEN {} ELSE {Call("detail", sel)}
  /\ \E role \in Roles, st \in {"draft", "submitted"} :
       world = [role |-> role, status |-> [p \in Packages |-> st], turns |-> 0, others |-> 0, checked |-> {}, settled |-> {}]

----------------------------------------------------------------------------
(* The server *)

\* From which statuses an action goes, and to which.
From(a) ==
  CASE a \in {"submit", "cancel"} -> {"draft", "rejected"}
    [] a = "approve" -> {"submitted"}
    [] a = "reject" -> {"submitted", "approved"}
    [] OTHER -> {"approved"}
To(a) ==
  CASE a = "submit" -> "submitted" [] a = "cancel" -> "cancelled" [] a = "approve" -> "approved"
    [] a = "reject" -> "rejected" [] OTHER -> "released"
Actions == {"submit", "cancel", "approve", "reject", "release"}

\* mutant: The server takes any action for any status.
Accepted_Always(w, a, p) == TRUE

Accepted(w, a, p) == w.status[p] \in From(a)

\* Only a release looks at the status again when it writes.
Written(w, a, p) == IF a = "release" /\ w.status[p] # "approved" THEN w ELSE [w EXCEPT !.status[p] = To(a)]

Over == {"released", "cancelled"}

\* The packages of the commands that were checked and are still to be written.
UnderWay(w, C) == {c.about : c \in {d \in C : d.op \in Actions /\ d.got = "checked"}} \cup {c[2] : c \in w.checked}

\* A command has ended: a package that is over with no other one under way is settled.
Ended(w, C) == [w EXCEPT !.settled = @ \cup {p \in Packages : w.status[p] \in Over /\ p \notin UnderWay(w, C)}]

\* What was checked is written, or not: a release may find conflicts, any command an error.
Outcomes(w, a, p, C) == {Ended(w, C), Ended(Written(w, a, p), C)}

OtherChecked ==
  \E a \in Actions, p \in Packages :
    /\ world.others < MaxOthers /\ <<a, p>> \notin world.checked /\ Accepted(world, a, p)
    /\ world' = [world EXCEPT !.others = @ + 1, !.checked = @ \cup {<<a, p>>}] /\ UNCHANGED <<ui, calls>>

OtherEnds ==
  \E c \in world.checked :
    LET w == [world EXCEPT !.checked = @ \ {c}]
    IN world' \in Outcomes(w, c[1], c[2], calls) /\ UNCHANGED <<ui, calls>>

----------------------------------------------------------------------------
(* The page *)

Listed(f, w) ==
  {p \in Packages :
     CASE f = "all" -> TRUE
       [] f = "todo" -> w.status[p] \in IF w.role = "author" THEN {"draft", "rejected"}
                                        ELSE IF w.role = "approver" THEN {"submitted"} ELSE {"approved"}
       [] OTHER -> w.status[p] = f}

\* What is read again by an event and after an action; the note is emptied with it.
Tick(u) == {Call("list", u.filter)} \cup IF u.sel = Nil THEN {} ELSE {Call("detail", u.sel)}
Ticked(u) == [u EXCEPT !.note = Nil, !.detail = IF u.sel = Nil THEN Nil ELSE @]

SetFilter ==
  \E f \in StatusFilters :
    /\ f # ui.filter /\ Turn
    /\ ui' = [ui EXCEPT !.filter = f] /\ Send(Call("list", f))

\* The package shown before stays until the answer.
Select ==
  \E p \in IF ui.list = Nil THEN {} ELSE ui.list :
    /\ p # ui.sel /\ Turn
    /\ ui' = [ui EXCEPT !.sel = p, !.note = Nil] /\ Send(Call("detail", p))

\* The buttons for the package shown.
Offered ==
  IF ui.detail = Nil THEN {}
  ELSE LET st == ui.detail.status
       IN {a \in Actions :
             /\ st \in From(a)
             /\ CASE a \in {"submit", "cancel"} -> world.role = "author"
                  [] a = "approve" -> world.role = "approver"
                  [] a = "reject" -> IF st = "submitted" THEN world.role = "approver" ELSE world.role \in {"approver", "releaser"}
                  [] OTHER -> world.role = "releaser"}

\* The note is written for the package on the screen.
Write == Offered # {} /\ ui.note = Nil /\ Turn /\ ui' = [ui EXCEPT !.note = ui.detail.id] /\ UNCHANGED calls

\* Several actions may be on their way; a rejection needs a note.  Submit and approve
\* stay enabled meanwhile.
act ==
  \E a \in Offered :
    /\ a = "reject" => ui.note # Nil
    /\ a \notin {"submit", "approve"} => ui.busy # a
    /\ Turn /\ Send([Call(a, ui.detail.id) EXCEPT !.note = ui.note, !.got = "asked"])
    /\ ui' = [ui EXCEPT !.busy = a]

\* Changes of packages are told to every page.
Event == calls \cap Tick(ui) = {} /\ SendAll(Tick(ui)) /\ ui' = Ticked(ui) /\ UNCHANGED world

\* A command is checked first, and ends if its status does not allow it.
Checked ==
  \E c \in calls :
    /\ c.op \in Actions /\ c.got = "asked"
    /\ calls' = (calls \ {c}) \cup {[c EXCEPT !.got = IF Accepted(world, c.op, c.about) THEN "checked" ELSE "done"]}
    /\ UNCHANGED <<ui, world>>

Ends ==
  \E c \in calls :
    LET C == (calls \ {c}) \cup {[c EXCEPT !.got = "done"]}
    IN /\ c.op \in Actions /\ c.got = "checked"
       /\ calls' = C /\ world' \in Outcomes(world, c.op, c.about, C)
       /\ UNCHANGED ui

Serve ==
  \E c \in calls :
    /\ c.op \in {"list", "detail"} /\ c.got = Nil
    /\ calls' = (calls \ {c}) \cup {[c EXCEPT !.got = IF c.op = "list" THEN Listed(c.about, world) ELSE world.status[c.about]]}
    /\ UNCHANGED <<ui, world>>

\* Late answers count: a list for another filter, a package that is not selected.
Loaded ==
  \E c \in calls :
    /\ c.op \in {"list", "detail"} /\ c.got # Nil
    /\ \/ ui' = IF c.op = "list" THEN [ui EXCEPT !.list = c.got] ELSE [ui EXCEPT !.detail = [id |-> c.about, status |-> c.got]]
       \/ ui' = IF c.op = "list" THEN ui ELSE [ui EXCEPT !.detail = Nil]
    /\ Got(c) /\ UNCHANGED world

\* Done or refused, everything is read again.
Acted ==
  \E c \in calls :
    /\ c.op \in Actions /\ c.got = "done"
    /\ calls' = (calls \ {c}) \cup Tick(ui) /\ Cardinality(calls') <= MaxCalls
    /\ ui' = [Ticked(ui) EXCEPT !.busy = ""] /\ UNCHANGED world

Next ==
  \/ SetFilter \/ Select \/ Write \/ act \/ Event \/ Checked \/ Ends \/ Serve \/ Loaded \/ Acted
  \/ OtherChecked \/ OtherEnds

Spec == Init /\ [][Next]_vars

----------------------------------------------------------------------------
(* Properties *)

\* A package that was released or cancelled, with no command under way, stays so,
\* whatever stale page commands come from and however they overlap.  A command that was
\* checked before may still overwrite it: of the writes, only that of a release looks at
\* the status again.
StaysOver == \A p \in world.settled : world.status[p] \in Over
====
