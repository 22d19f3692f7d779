---- MODULE MapSelection ----
(***************************************************************************)
(* The map editor: the object selected, the panel that edits it and the    *)
(* package of changes that edits go to                                     *)
(* (src/frontend/components/map/MapWorkspace.tsx, FeaturePanel.tsx).  With *)
(* approval an edit is a proposal in a package of the user's; another      *)
(* user's package may be shown meanwhile, for review.  Of an object only   *)
(* which it is and from which package it was read matter.                  *)
(***************************************************************************)
EXTENDS Screen

CONSTANTS
  Objects,    \* lines and nodes
  Own,        \* packages of the user
  Others,     \* packages of others
  MaxEvents,  \* bound: events of the network
  MaxEdits    \* bound: edits of the user

Packages == Own \cup Others
Call(op, obj, pkg) == [op |-> op, obj |-> obj, pkg |-> pkg]
Feature(obj, pkg) == [obj |-> obj, pkg |-> pkg]

Init ==
  /\ ui = [selected |-> Nil, highlight |-> Nil, loading |-> FALSE, form |-> Nil, neighbours |-> Nil,
           confirm |-> FALSE, approval |-> FALSE, cs |-> Nil, view |-> Nil, draft |-> Nil]
  /\ calls = {Call("packages", Nil, Nil)}
  /\ world = [events |-> 0, edits |-> 0]

\* The package on the screen; what is read comes from it.
Shown(u) == IF u.view # Nil THEN u.view ELSE u.cs
CsRead(u) == IF u.approval THEN Shown(u) ELSE Nil

\* mutant: An edit goes to the package on the screen.
Csq_Shown(u) == CsRead(u)

\* The package that edits go to.
Csq(u) == IF u.approval THEN u.cs ELSE Nil

\* A new object fills the form and empties what was read about the last one.
Filled(u) == [u EXCEPT !.form = u.selected, !.neighbours = Nil]
SetSelected(u, f) == Filled([u EXCEPT !.selected = f, !.highlight = f])
ReadAbout(u) == IF u.selected = Nil THEN {} ELSE {Call("neighbours", u.selected.obj, Nil)}

\* The layer of proposals follows the package shown.
ReadPackage(u) == IF CsRead(u) = Nil THEN {} ELSE {Call("draft", Nil, CsRead(u))}
Undrawn(u) == IF CsRead(u) = Nil THEN [u EXCEPT !.draft = Nil] ELSE u

Then(c, S) ==
  LET rest == (calls \ {c}) \cup S IN Cardinality(rest) <= MaxCalls /\ calls' = rest

----------------------------------------------------------------------------
(* Packages *)

\* The packages of the user, and the one named in the address.
PackagesLoaded ==
  \E c \in calls :
    /\ c.op = "packages"
    /\ \/ \E own \in Own \cup {Nil}, view \in Others \cup {Nil} :
            LET u == [ui EXCEPT !.approval = TRUE, !.cs = own, !.view = view]
            IN ui' = Undrawn(u) /\ calls' = (calls \ {c}) \cup ReadPackage(u)
       \/ Got(c) /\ UNCHANGED ui
    /\ UNCHANGED world

\* Another of the user's packages, a new one, or one that an import or the normal
\* positions made.
onSwitch ==
  \E own \in Own :
    /\ ui.approval /\ (own # ui.cs \/ ui.view # Nil)
    /\ LET u == [ui EXCEPT !.cs = own, !.view = Nil] IN ui' = u /\ SendAll(ReadPackage(u))
    /\ UNCHANGED world

onCloseView ==
  /\ ui.view # Nil
  /\ LET u == [ui EXCEPT !.view = Nil] IN ui' = Undrawn(u) /\ SendAll(ReadPackage(u))
  /\ UNCHANGED world

DraftLoaded ==
  \E c \in calls :
    /\ c.op = "draft"
    /\ \E got \in {c.pkg, Nil} : ui' = [ui EXCEPT !.draft = got]
    /\ Got(c) /\ UNCHANGED world

----------------------------------------------------------------------------
(* Selection *)

\* From the map, the search box, a list or the address of the page.
select ==
  \E o \in Objects :
    /\ Send(Call("select", o, CsRead(ui)))
    /\ ui' = [ui EXCEPT !.loading = TRUE] /\ UNCHANGED world

Selected ==
  \E c \in calls :
    /\ c.op = "select" /\ UNCHANGED world
    /\ LET u == SetSelected([ui EXCEPT !.loading = FALSE], Feature(c.obj, c.pkg))
       IN \/ ui' = u /\ Then(c, ReadAbout(u))
          \/ ui' = [ui EXCEPT !.loading = FALSE] /\ Got(c)

\* Read again, it replaces whatever is selected by then, or removes it.
reloadSelected ==
  \E c \in calls :
    /\ c.op = "reload" /\ UNCHANGED world
    /\ LET u == SetSelected(ui, Feature(c.obj, c.pkg))
       IN \/ ui' = u /\ Then(c, ReadAbout(u))
          \/ ui' = SetSelected(ui, Nil) /\ Got(c)

\* An event about the object selected.  The subscription is older than the answer
\* that turns approval on, and reads without a package.
Realtime ==
  /\ world.events < MaxEvents
  /\ world' = [world EXCEPT !.events = @ + 1]
  /\ IF ui.selected = Nil THEN UNCHANGED calls ELSE Send(Call("reload", ui.selected.obj, Nil))
  /\ UNCHANGED ui

NeighboursLoaded ==
  \E c \in calls :
    /\ c.op = "neighbours"
    /\ ui' = [ui EXCEPT !.neighbours = c.obj]
    /\ Got(c) /\ UNCHANGED world

----------------------------------------------------------------------------
(* Edits *)

Panel == ui.selected # Nil /\ ~ui.loading
Edit(op, obj) ==
  /\ world.edits < MaxEdits /\ world' = [world EXCEPT !.edits = @ + 1]
  /\ Send(Call(op, obj, Csq(ui)))

\* The form may be sent again before the first answer.
save == Panel /\ ~ui.confirm /\ Edit("save", ui.form.obj) /\ UNCHANGED ui

askDelete == Panel /\ ~ui.confirm /\ Show([ui EXCEPT !.confirm = TRUE])
cancelDelete == ui.confirm /\ Show([ui EXCEPT !.confirm = FALSE])
del == Panel /\ ui.confirm /\ Edit("delete", ui.selected.obj) /\ UNCHANGED ui

\* Drawn, moved, split or merged on the map.
Draw == \E o \in Objects : Edit("draw", o) /\ UNCHANGED ui

\* The proposal went to the package asked for or, with none, to one of the user's;
\* that is the package of the edits to come.
Placed(c) == IF c.pkg # Nil THEN {c.pkg} ELSE Own
afterEdit(u, pkg) == [u EXCEPT !.cs = pkg]

Edited ==
  \E c \in calls :
    /\ c.op \in {"save", "delete", "draw"} /\ UNCHANGED world
    /\ \/ \E pkg \in IF ui.approval THEN Placed(c) ELSE {Nil} :
            LET u == IF pkg = Nil THEN ui ELSE afterEdit(ui, pkg)
                more == ReadPackage(u)
            IN \/ /\ c.op = "save"
                  /\ ui' = SetSelected(u, Feature(c.obj, pkg)) /\ Then(c, ReadAbout(ui') \cup more)
               \/ c.op = "draw" /\ ui' = [u EXCEPT !.loading = TRUE] /\ Then(c, more \cup {Call("select", c.obj, CsRead(ui))})
               \/ /\ c.op = "delete"
                  /\ \/ ui' = SetSelected([u EXCEPT !.confirm = FALSE], Nil) /\ Then(c, more)
                     \/ /\ pkg # Nil /\ ui' = [u EXCEPT !.confirm = FALSE]
                        /\ Then(c, more \cup {Call("reload", c.obj, CsRead(ui))})
       \/ Got(c) /\ ui' = [ui EXCEPT !.confirm = @ /\ c.op # "delete"]

Next ==
  \/ PackagesLoaded \/ onSwitch \/ onCloseView \/ DraftLoaded
  \/ select \/ Selected \/ reloadSelected \/ Realtime \/ NeighboursLoaded
  \/ save \/ askDelete \/ cancelDelete \/ del \/ Draw \/ Edited

Spec == Init /\ [][Next]_vars

----------------------------------------------------------------------------
(* Properties *)

\* What is edited is what is shown: the form and the mark on the map belong to the
\* object selected, whichever answer put it there; and a package of another user that
\* is shown for review never receives an edit.
EditedAsShown ==
  /\ ui.highlight = ui.selected /\ ui.form = ui.selected
  /\ \A c \in calls : c.op \in {"save", "delete", "draw"} => c.pkg \in Own \cup {Nil}

\* README.md: "panel atribut menampilkan kondisi usulan beserta penandanya": while the
\* same package is shown, a panel that shows a proposal is not replaced by the object
\* as it is without it.
ProposalKept ==
  [][(ui.selected # Nil /\ ui'.selected # Nil /\ CsRead(ui') = CsRead(ui) /\ ui.selected.pkg = CsRead(ui))
       => ui'.selected.pkg = CsRead(ui)]_vars
====
