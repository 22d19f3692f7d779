---- MODULE Operate ----
(***************************************************************************)
(* Choosing a network element and operating it from the control room:      *)
(* select, showOutage and operate of                                       *)
(* src/frontend/components/power/PowerMonitor.tsx and the box              *)
(* src/frontend/components/power/OperateBox.tsx, which asks before it      *)
(* opens.  The element shown is whatever element's answer came last, and a *)
(* node and a line may have the same number.                               *)
(***************************************************************************)
EXTENDS Screen

CONSTANTS
  Objects,  \* nodes and lines
  IdOf,     \* their numbers: nodes and lines are numbered apart
  Lines,    \* those that are lines
  Switches, \* the nodes that are switches
  Ways      \* the ways of the switches with three or more, by switch

WaysOf(o) == IF o \in DOMAIN Ways THEN Ways[o] ELSE {}
Operable == {<<o, Nil>> : o \in Objects} \cup UNION {{<<o, w>> : w \in Ways[o]} : o \in DOMAIN Ways}

\* What the box cannot tell apart: a node that is no switch and a line with its number.
Alike(o, p) ==
  /\ IdOf[o] = IdOf[p]
  /\ o \in Switches <=> p \in Switches
  /\ WaysOf(o) = WaysOf(p)

Call(op, o) == [op |-> op, at |-> o, action |-> "", cat |-> FALSE, way |-> Nil, named |-> Nil]

EmptyBox == [cat |-> FALSE, busy |-> FALSE, confirm |-> Nil]

Init ==
  /\ ui = [selected |-> Nil, open |-> {}, box |-> EmptyBox, outage |-> FALSE]
  /\ calls = {}
  /\ \E S \in SUBSET {<<o, Nil>> : o \in Objects} : world = [open |-> S, wrong |-> FALSE]

----------------------------------------------------------------------------
(* The box *)

\* mutant: The category survives a change of the element.
KeepsCategory_Always(o) == TRUE

\* The effect that clears the category looks at the number of the element and at
\* what makes it a switch, not at whether it is a node or a line.
KeepsCategory(o) == ui.selected # Nil /\ Alike(o, ui.selected)

\* The element shown is replaced, with what is open of it; a box without an element
\* goes away.
SetSelected(o, open) ==
  [ui EXCEPT !.selected = o, !.open = {t \in open : t[1] = o},
             !.box = IF o = Nil THEN EmptyBox
                     ELSE [ui.box EXCEPT !.cat = @ /\ KeepsCategory(o)]]

Idle == ui.selected # Nil /\ ui.box.confirm = Nil
OnlyBox(b) == Show([ui EXCEPT !.box = b])

PickCategory(b) == Idle /\ OnlyBox([ui.box EXCEPT !.cat = b])

\* The element itself, or one of its ways, by what the box last saw of it.
Shut == {t \in Operable : t[1] = ui.selected /\ t \notin ui.open}

AskOpen ==
  /\ Idle /\ ui.box.cat
  /\ \E t \in Shut :
       /\ t[2] # Nil => ~ui.box.busy
       /\ OnlyBox([ui.box EXCEPT !.confirm = t])

CancelDialog == ui.box.confirm # Nil /\ OnlyBox([ui.box EXCEPT !.confirm = Nil])

\* The element operated is the one selected when the button is pressed, the way
\* is the one the dialog was opened for.
run(action, way, named) ==
  /\ ~ui.box.busy
  /\ ui' = [ui EXCEPT !.box.busy = TRUE]
  /\ Send([Call("operate", ui.selected) EXCEPT !.action = action, !.way = way, !.named = named,
                                               !.cat = action = "open" /\ ui.box.cat])
  /\ UNCHANGED world

RunClose == Idle /\ \E t \in Operable : t[1] = ui.selected /\ t \in ui.open /\ run("close", t[2], Nil)

RunOpen ==
  /\ ui.selected # Nil /\ ui.box.confirm # Nil
  /\ run("open", ui.box.confirm[2], ui.box.confirm)

----------------------------------------------------------------------------
(* The page *)

select(o) == ui.box.confirm = Nil /\ Send(Call("select", o)) /\ UNCHANGED <<ui, world>>

showOutage(o) == ui.box.confirm = Nil /\ Send(Call("outage", o)) /\ UNCHANGED <<ui, world>>

Deselect == Idle /\ Show(SetSelected(Nil, {}))

HideOutage == ui.outage /\ ui.box.confirm = Nil
              /\ Show([ui EXCEPT !.outage = FALSE])

\* The dialog named the target t of the maneuver, or an element the box takes for it.
AsNamed(named, t) == Alike(named[1], t[1]) /\ named[2] = t[2]

\* mutant: The server takes a maneuver without a category.
execManeuver_AnyKind(c) ==
  LET t == IF c.at \in Lines THEN <<c.at, Nil>> ELSE <<c.at, c.way>>
  IN IF t \in Operable
     THEN [world EXCEPT !.open = IF c.action = "open" THEN @ \cup {t} ELSE @ \ {t},
                        !.wrong = @ \/ (c.action = "open" /\ ~AsNamed(c.named, t))]
     ELSE world

\* A category is required to open; a way only exists at a switch that has it, and
\* is not looked at for a line.
execManeuver(c) ==
  LET t == IF c.at \in Lines THEN <<c.at, Nil>> ELSE <<c.at, c.way>>
  IN IF (c.action = "open" => c.cat) /\ t \in Operable
     THEN [world EXCEPT !.open = IF c.action = "open" THEN @ \cup {t} ELSE @ \ {t},
                        !.wrong = @ \/ (c.action = "open" /\ ~AsNamed(c.named, t))]
     ELSE world

SelectAnswered ==
  \E c \in calls :
    /\ c.op = "select"
    /\ ui' = SetSelected(c.at, world.open)
    /\ Got(c)
    /\ UNCHANGED world

\* The area of an outage is drawn, then its cause is selected.
OutageAnswered ==
  \E c \in calls :
    /\ c.op = "outage"
    /\ ui' = [ui EXCEPT !.outage = TRUE]
    /\ calls' = (calls \ {c}) \cup {Call("select", c.at)}
    /\ UNCHANGED world

\* The element operated is selected again, and the box is cleared; refused, the
\* dialog stays open.
operate ==
  \E c \in calls :
    LET after == execManeuver(c) IN
    /\ c.op = "operate"
    /\ world' = after
    /\ ui' = IF after = world
             THEN [ui EXCEPT !.box.busy = FALSE]
             ELSE [SetSelected(c.at, after.open) EXCEPT !.box = EmptyBox]
    /\ Got(c)

OperateFailed ==
  \E c \in calls :
    /\ c.op = "operate"
    /\ ui' = [ui EXCEPT !.box.busy = FALSE]
    /\ world' \in {world, execManeuver(c)}
    /\ Got(c)

Next ==
  \/ \E o \in Objects : select(o) \/ showOutage(o)
  \/ Deselect \/ HideOutage
  \/ \E b \in BOOLEAN : PickCategory(b)
  \/ AskOpen \/ CancelDialog \/ RunClose \/ RunOpen
  \/ SelectAnswered \/ OutageAnswered \/ operate \/ OperateFailed

Spec == Init /\ [][Next]_vars

----------------------------------------------------------------------------
(* Properties *)

\* The dialog (lib/locales/en.ts): "Open {code} with category {kind}?  Everything
\* downstream goes off".  What is opened is what it named, although the element
\* shown may change behind the dialog - or what the box cannot tell from it: between a
\* node that is no switch and a line with the same number the dialog stays open, and
\* the maneuver goes to the other element (OperateBox.tsx:55-65).
DialogNamesTarget == ~world.wrong
====
