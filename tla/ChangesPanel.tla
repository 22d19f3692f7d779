---- MODULE ChangesPanel ----
(***************************************************************************)
(* The package of changes in the map editor                                *)
(* (src/frontend/components/map/ChangesPanel.tsx).  The page says which    *)
(* package is shown, the user's own or another's for review; the panel     *)
(* reads it, and lets the author name it, drop proposals and submit it.    *)
(* What is proposed is left out.                                           *)
(***************************************************************************)
EXTENDS Screen

CONSTANTS
  Own, Others,   \* packages of the user, and of others
  MaxTurns       \* bound: what the user does

Packages == Own \cup Others
Call(op, id) == [op |-> op, id |-> id, status |-> Nil]
Turn == world.turns < MaxTurns /\ world' = [world EXCEPT !.turns = @ + 1]

Init ==
  /\ \E own \in Own \cup {Nil}, view \in Others \cup {Nil} :
       /\ ui = [own |-> own, view |-> view, cs |-> Nil, form |-> Nil, mine |-> {}, busy |-> ""]
       /\ calls = {Call("mine", IF view # Nil THEN view ELSE own)}
  /\ \E S \in {{}, Own} : world = [status |-> [p \in Packages |-> IF p \in Others \cup S THEN "draft" ELSE "none"], turns |-> 0]

ShownCs(u) == IF u.view # Nil THEN u.view ELSE u.own
Editable == ui.view = Nil
CanEdit == Editable /\ ui.cs # Nil /\ ui.cs.status \in {"draft", "rejected"}

\* First the user's packages are listed, then the one shown is read.
load(id) == Call("mine", id)

Then(c, S) == LET rest == (calls \ {c}) \cup S IN Cardinality(rest) <= MaxCalls /\ calls' = rest

MineLoaded ==
  \E c \in calls :
    /\ c.op = "mine" /\ UNCHANGED world
    /\ LET u == [ui EXCEPT !.mine = {p \in Own : world.status[p] \in {"draft", "rejected"}}]
       IN \/ c.id # Nil /\ ui' = u /\ Then(c, {Call("package", c.id)})
          \/ c.id = Nil /\ ui' = [u EXCEPT !.cs = Nil] /\ Got(c)
          \/ ui' = ui /\ Got(c)

Serve ==
  \E c \in calls :
    /\ c.op = "package" /\ c.status = Nil /\ UNCHANGED <<ui, world>>
    /\ calls' = (calls \ {c}) \cup {[c EXCEPT !.status = world.status[c.id]]}

\* mutant: The fields keep what they hold.
Loaded_KeepsForm(u, c) == [u EXCEPT !.cs = [id |-> c.id, status |-> c.status], !.form = IF @ = Nil THEN c.id ELSE @]

\* The title and the description are those read with the package.
Loaded(u, c) == [u EXCEPT !.cs = [id |-> c.id, status |-> c.status], !.form = c.id]

PackageLoaded ==
  \E c \in calls :
    /\ c.op = "package" /\ c.status # Nil
    /\ ui' = Loaded(ui, c) \/ ui' = ui
    /\ Got(c) /\ UNCHANGED world

\* Another of the user's packages, or none; the package under review is closed.
onSwitch ==
  \E p \in ui.mine \cup {Nil} :
    /\ Editable /\ p # ui.own /\ Turn
    /\ ui' = [ui EXCEPT !.own = p] /\ Send(load(p))

onCloseView ==
  /\ ui.view # Nil
  /\ ui' = [ui EXCEPT !.view = Nil] /\ Send(load(ui.own)) /\ UNCHANGED world

\* An edit on the map went to a package of the user's.
onChanged == \E p \in Own : Turn /\ ui' = [ui EXCEPT !.own = p, !.view = Nil] /\ Send(load(p))

newSet ==
  /\ Editable /\ ui.busy # "new" /\ Turn
  /\ Send(Call("new", ShownCs(ui))) /\ ui' = [ui EXCEPT !.busy = "new"]

\* Only the button pressed is disabled meanwhile.
Edit(op) ==
  /\ CanEdit /\ ui.busy # op /\ Turn
  /\ Send(Call(op, ui.cs.id)) /\ ui' = [ui EXCEPT !.busy = op]
save == Edit("save")
removeItem == Edit("remove")
submit == Edit("submit")

\* The server accepts the author's changes to a package under way.
Accepted(id) == id \in Own /\ world.status[id] \in {"draft", "rejected"}

\* The package is read again with the load that was there when the button was pressed,
\* and once more by the page.  The button is free from the answer on, a read early.
Ran ==
  \E c \in calls :
    /\ c.op \in {"new", "save", "remove", "submit"}
    /\ \/ /\ c.op = "new"
          /\ \E p \in Own :
               /\ world.status[p] = "none" /\ world' = [world EXCEPT !.status[p] = "draft"]
               /\ ui' = [ui EXCEPT !.own = p, !.view = Nil, !.busy = ""]
               /\ Then(c, {load(p), load(c.id)})
       \/ /\ c.op # "new" /\ Accepted(c.id)
          /\ world' = IF c.op = "submit" THEN [world EXCEPT !.status[c.id] = "submitted"] ELSE world
          /\ ui' = [ui EXCEPT !.busy = ""] /\ Then(c, {load(c.id), load(ShownCs(ui))})
       \/ ui' = [ui EXCEPT !.busy = ""] /\ Got(c) /\ UNCHANGED world

Next ==
  \/ MineLoaded \/ Serve \/ PackageLoaded \/ onSwitch \/ onCloseView \/ onChanged
  \/ newSet \/ save \/ removeItem \/ submit \/ Ran

Spec == Init /\ [][Next]_vars

----------------------------------------------------------------------------
(* Properties *)

\* What is saved to a package was read from it or typed for it, although answers for
\* several packages come in any order.
FormOfPackage == ui.cs # Nil => ui.form = ui.cs.id
====
