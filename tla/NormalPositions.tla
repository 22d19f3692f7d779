---- MODULE NormalPositions ----
(***************************************************************************)
(* The panel of the map editor that makes present positions the normal     *)
(* ones (src/frontend/components/map/NormalPositionsPanel.tsx): it lists   *)
(* the elements that are not in their normal position, with those that are *)
(* suggested checked, for all of the network or the feeders of the filter, *)
(* and sends the checked ones.                                             *)
(***************************************************************************)
EXTENDS Screen

CONSTANTS
  Objects,
  Filtered,   \* those of the feeders in the map's filter
  Suggested,
  MaxTurns    \* bound: what the user and the network do

Call(op, scope) == [op |-> op, scope |-> scope, ids |-> {}, ready |-> FALSE]
Turn == world.turns < MaxTurns /\ world' = [world EXCEPT !.turns = @ + 1]

\* It opens on the feeders of the filter.
Init ==
  /\ \E filter \in BOOLEAN :
       /\ ui = [filter |-> filter, scope |-> IF filter THEN "feeders" ELSE "all",
                items |-> Nil, checked |-> {}, confirm |-> FALSE, busy |-> FALSE]
       /\ calls = {Call("load", IF filter THEN "feeders" ELSE "all")}
  /\ \E edit, approval \in BOOLEAN : world = [off |-> Objects, turns |-> 0, edit |-> edit, approval |-> approval]

Listed(u) == IF u.items = Nil THEN {} ELSE u.items

\* mutant: What was checked stays checked.
Loaded_KeepsChecks(u, S) == [u EXCEPT !.items = S, !.checked = @ \cup (S \cap Suggested)]

\* The list and the checks are replaced together, those made by hand included.
Loaded(u, S) == [u EXCEPT !.items = S, !.checked = S \cap Suggested]

SetScope ==
  \E s \in {"feeders", "all"} :
    /\ ui.filter /\ ~ui.confirm /\ s # ui.scope /\ Turn
    /\ ui' = [ui EXCEPT !.scope = s] /\ Send(Call("load", s))

\* The filter of the map is emptied, and with it the scope.
FilterCleared ==
  /\ ui.filter /\ Turn
  /\ ui' = [ui EXCEPT !.filter = FALSE, !.scope = "all"]
  /\ IF ui.scope = "feeders" THEN Send(Call("load", "all")) ELSE UNCHANGED calls

refresh == ~ui.confirm /\ Turn /\ Send(Call("load", ui.scope)) /\ UNCHANGED ui

\* One by one, the suggested ones, or none.
toggle ==
  \E S \in {(ui.checked \cup {i}) \ (ui.checked \cap {i}) : i \in Listed(ui)} \cup {Listed(ui) \cap Suggested, {}} :
    /\ ~ui.confirm /\ world.edit /\ S # ui.checked /\ Turn
    /\ ui' = [ui EXCEPT !.checked = S] /\ UNCHANGED calls

ask == world.edit /\ ui.checked # {} /\ ~ui.busy /\ ~ui.confirm /\ Show([ui EXCEPT !.confirm = TRUE])
cancel == ui.confirm /\ Show([ui EXCEPT !.confirm = FALSE])

\* The list may have been read again under the dialog: what is checked now is sent.
apply ==
  /\ ui.confirm /\ ~ui.busy /\ Send([Call("apply", ui.scope) EXCEPT !.ids = ui.checked])
  /\ ui' = [ui EXCEPT !.busy = TRUE] /\ UNCHANGED world

\* Without approval the normal position changes at once and the groups of feeders
\* follow; with it, when the proposal is approved.
Serve ==
  \E c \in calls :
    /\ ~c.ready /\ c.op \in {"load", "apply"} /\ UNCHANGED ui
    /\ IF c.op = "load"
       THEN /\ UNCHANGED world
            /\ calls' = (calls \ {c}) \cup {[c EXCEPT !.ready = TRUE,
                 !.ids = world.off \cap IF c.scope = "feeders" THEN Filtered ELSE Objects]}
       ELSE /\ calls' = (calls \ {c}) \cup {[c EXCEPT !.ready = TRUE]}
            /\ IF world.approval THEN UNCHANGED world ELSE world' = [world EXCEPT !.off = @ \ c.ids]

LoadAnswered ==
  \E c \in calls :
    /\ c.op = "load" /\ c.ready
    /\ \/ ui' = Loaded(ui, c.ids)
       \/ ui' = [ui EXCEPT !.items = Listed(ui)]
    /\ Got(c) /\ UNCHANGED world

\* The list is read again a moment later, for the scope of the request.
ApplyAnswered ==
  \E c \in calls :
    /\ c.op = "apply"
    /\ \/ c.ready /\ ui' = [ui EXCEPT !.busy = FALSE, !.confirm = FALSE] /\ calls' = (calls \ {c}) \cup {Call("timer", c.scope)}
       \/ ui' = [ui EXCEPT !.busy = FALSE] /\ Got(c)
    /\ UNCHANGED world

Timer ==
  \E c \in calls :
    /\ c.op = "timer" /\ calls' = (calls \ {c}) \cup {Call("load", c.scope)} /\ UNCHANGED <<ui, world>>

\* Others operate or restore an element.
Network ==
  \E i \in Objects :
    /\ world.turns < MaxTurns
    /\ world' = [world EXCEPT !.turns = @ + 1, !.off = (@ \cup {i}) \ (@ \cap {i})]
    /\ UNCHANGED <<ui, calls>>

Next ==
  \/ SetScope \/ FilterCleared \/ refresh \/ toggle \/ ask \/ cancel \/ apply
  \/ Serve \/ LoadAnswered \/ ApplyAnswered \/ Timer \/ Network

Spec == Init /\ [][Next]_vars

----------------------------------------------------------------------------
(* Properties *)

\* Only what the user could see on the list becomes a normal position, however often
\* the list was replaced, by whichever answer.
CheckedListed == ui.checked \subseteq Listed(ui)
====
