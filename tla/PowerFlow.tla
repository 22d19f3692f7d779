---- MODULE PowerFlow ----
(***************************************************************************)
(* The power flow page (src/frontend/components/powerflow/PowerFlow.tsx):  *)
(* the list of feeders of the last run over all of them, and the detail of *)
(* one, computed when it is opened and drawn over the map.                 *)
(***************************************************************************)
EXTENDS Screen

CONSTANTS
  Feeders, Filters, Params,  \* what is listed, how, and the scenarios to choose from
  MaxTurns                   \* bound: what the user does

Colors == {"loading", "voltage"}
Call(op) == [op |-> op, head |-> Nil, filter |-> Nil, params |-> Nil]
Turn == world.turns < MaxTurns /\ world' = [world EXCEPT !.turns = @ + 1]

Init ==
  /\ ui = [params |-> Nil, word |-> Nil, filter |-> Nil, results |-> Nil, running |-> FALSE, tab |-> "feeders",
           detail |-> Nil, busy |-> FALSE, colorBy |-> "loading", picked |-> Nil, ready |-> FALSE, drawn |-> Nil]
  /\ calls = {Call("config")}
  /\ world = [run |-> Nil, turns |-> 0]

loadResults(u) == [Call("results") EXCEPT !.filter = u.filter]

\* The colours are computed in the client from the detail.
colored(u) == IF u.detail = Nil THEN Nil ELSE [head |-> u.detail.head, by |-> u.colorBy]

\* mutant: The overlay is not drawn again.
Overlay_Once(u) == u

\* The overlay follows the detail and the colours, once the map is there.
Overlay(u) == IF u.ready THEN [u EXCEPT !.drawn = colored(u)] ELSE u

ConfigLoaded ==
  \E c \in calls :
    /\ c.op = "config" /\ ui' = [ui EXCEPT !.params = CHOOSE p \in Params : TRUE] /\ UNCHANGED world
    /\ calls' = (calls \ {c}) \cup {loadResults(ui)}

onReady == ui.params # Nil /\ ~ui.ready /\ Show([ui EXCEPT !.ready = TRUE, !.drawn = colored(ui)])

\* Status and order at once, words 300 ms after they were typed.
SetFilter ==
  \E f \in (Filters \cup {Nil}) \ {ui.filter} :
    LET u == [ui EXCEPT !.filter = f, !.word = f] IN
    /\ ui.params # Nil /\ (ui.word = ui.filter => Turn) /\ (ui.word # ui.filter => f = ui.word /\ UNCHANGED world)
    /\ ui' = u /\ Send(loadResults(u))
Type == ui.params # Nil /\ \E f \in Filters \ {ui.word} : Turn /\ ui' = [ui EXCEPT !.word = f] /\ UNCHANGED calls

\* The list shown is the last that came.
ResultsLoaded ==
  \E c \in calls :
    /\ c.op = "results" /\ ui' = [ui EXCEPT !.results = [filter |-> c.filter, run |-> world.run]]
    /\ Got(c) /\ UNCHANGED world

SetParams == \E p \in Params \ {ui.params, Nil} : ui.params # Nil /\ Turn /\ ui' = [ui EXCEPT !.params = p] /\ UNCHANGED calls

runAll ==
  /\ ui.params # Nil /\ ~ui.running /\ Turn
  /\ Send([Call("run") EXCEPT !.params = ui.params, !.filter = ui.filter]) /\ ui' = [ui EXCEPT !.running = TRUE]

\* The run counts for everyone; the list is read with the filter of when it began.
Ran ==
  \E c \in calls :
    /\ c.op = "run" /\ world' = [world EXCEPT !.run = c.params] /\ ui' = [ui EXCEPT !.running = FALSE]
    /\ calls' = (calls \ {c}) \cup {loadResults(c)}

\* From the list, the search box, or again with another scenario.
openFeeder ==
  \E h \in Feeders :
    /\ ui.params # Nil /\ Turn
    /\ Send([Call("feeder") EXCEPT !.head = h, !.params = ui.params]) /\ ui' = [ui EXCEPT !.tab = "detail", !.busy = TRUE]

recalc ==
  /\ ui.detail # Nil /\ ~ui.busy /\ Turn
  /\ Send([Call("feeder") EXCEPT !.head = ui.detail.head, !.params = ui.params])
  /\ ui' = [ui EXCEPT !.tab = "detail", !.busy = TRUE]

\* mutant: The object picked stays.
Opened_KeepsPicked(u, c) == [u EXCEPT !.detail = [head |-> c.head, params |-> c.params], !.busy = FALSE]

\* The feeder whose answer is last is shown; what was picked in the other is forgotten.
Opened(u, c) == [u EXCEPT !.detail = [head |-> c.head, params |-> c.params], !.picked = Nil, !.busy = FALSE]
FeederAnswered == \E c \in calls : c.op = "feeder" /\ ui' = Overlay(Opened(ui, c)) /\ Got(c) /\ UNCHANGED world

Failed ==
  \E c \in calls :
    /\ c.op # "config" /\ Got(c) /\ UNCHANGED world
    /\ ui' = CASE c.op = "run" -> [ui EXCEPT !.running = FALSE]
               [] c.op = "feeder" -> [ui EXCEPT !.busy = FALSE]
               [] OTHER -> ui

SetTab == \E t \in {"feeders", "detail"} \ {ui.tab} : ui.params # Nil /\ Show([ui EXCEPT !.tab = t])
SetColor == \E k \in Colors \ {ui.colorBy} : ui.detail # Nil /\ Show(Overlay([ui EXCEPT !.colorBy = k]))

\* On the map, or in the tables of the detail.
flyTo == ui.detail # Nil /\ ui.picked = Nil /\ Show([ui EXCEPT !.picked = ui.detail.head])
Unpick == ui.picked # Nil /\ Show([ui EXCEPT !.picked = Nil])

Next ==
  \/ ConfigLoaded \/ onReady \/ SetFilter \/ Type \/ ResultsLoaded \/ SetParams \/ runAll \/ Ran \/ openFeeder
  \/ recalc \/ FeederAnswered \/ Failed \/ SetTab \/ SetColor \/ flyTo \/ Unpick

Spec == Init /\ [][Next]_vars

----------------------------------------------------------------------------
(* Properties *)

\* What is drawn over the map, and what was picked there, are of the feeder whose
\* figures are shown, whichever of several comes last and whenever the map is ready.
DrawnOfDetail ==
  /\ ui.ready => ui.drawn = colored(ui)
  /\ ui.picked # Nil => ui.detail # Nil /\ ui.picked = ui.detail.head
====
