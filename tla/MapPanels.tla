---- MODULE MapPanels ----
(***************************************************************************)
(* Two panels beside the map.  Export and import of map data               *)
(* (src/frontend/components/map/ExchangePanel.tsx, ImportPreview.tsx): the *)
(* size of a selection is checked before it is downloaded, and a file is   *)
(* previewed before it is applied; what a file holds is left out.          *)
(* Tracing the network from a node (TracePanel.tsx and its part of         *)
(* MapWorkspace.tsx): the panel goes away with its tab; the result, and    *)
(* the node another panel asked a trace for, belong to the page.           *)
(***************************************************************************)
EXTENDS Screen

CONSTANTS
  Layers, Files,
  Large,     \* selections over the limit
  Objects,   \* to trace from
  MaxTurns   \* bound: what the user does

Turn == world.turns < MaxTurns /\ world' = [world EXCEPT !.turns = @ + 1]

----------------------------------------------------------------------------
(* Export and import *)

ExchangeCall(op, about) == [op |-> op, about |-> about]

ExchangeInit ==
  /\ ui = [layers |-> Layers, area |-> "view", polygon |-> FALSE, stats |-> Nil, busy |-> "",
           file |-> Nil, report |-> Nil, open |-> FALSE, geojson |-> Nil, onMap |-> Nil]
  /\ calls = {}
  /\ world = [turns |-> 0, applied |-> {}, blind |-> FALSE]

----------------------------------------------------------------------------
(* Exporting *)

Selection(u) == [layers |-> u.layers, area |-> u.area]
HasArea == ui.area = "view" \/ ui.polygon
TooLarge == ui.stats # Nil /\ ui.stats \in Large

\* Layers, view or polygon, a polygon drawn anew or cleared: the size is unknown again.
Select ==
  /\ ~ui.open /\ Turn /\ UNCHANGED calls
  /\ \/ \E S \in SUBSET Layers : S # ui.layers /\ ui' = [ui EXCEPT !.layers = S, !.stats = Nil]
     \/ \E a \in {"view", "polygon"} : a # ui.area /\ ui' = [ui EXCEPT !.area = a, !.stats = Nil]
     \/ ui.area = "polygon" /\ ui' = [ui EXCEPT !.polygon = ~@, !.stats = Nil]

\* Both buttons stay enabled while their request is on its way.
check ==
  /\ ~ui.open /\ ui.layers # {} /\ HasArea
  /\ Send(ExchangeCall("check", Selection(ui))) /\ ui' = [ui EXCEPT !.busy = "check"] /\ UNCHANGED world

download ==
  /\ ~ui.open /\ ui.layers # {} /\ HasArea /\ ~TooLarge
  /\ Send(ExchangeCall("download", Selection(ui))) /\ ui' = [ui EXCEPT !.busy = "download"] /\ UNCHANGED world

Exported ==
  \E c \in calls :
    /\ c.op \in {"check", "download"}
    /\ LET u == [ui EXCEPT !.busy = ""]
       IN \/ c.op = "check" /\ ui' = [u EXCEPT !.stats = c.about]
          \/ c.op = "download" /\ ui' = IF c.about \in Large THEN [u EXCEPT !.stats = c.about] ELSE u
          \/ ui' = u
    /\ Got(c) /\ UNCHANGED world

----------------------------------------------------------------------------
(* Importing *)

\* A file is chosen, or none: the last report goes away, and the file is previewed
\* unless it is too big.  The field is not disabled meanwhile.
chooseFile ==
  /\ ~ui.open /\ Turn
  /\ \/ \E f \in Files :
          /\ ui' = [ui EXCEPT !.file = f, !.report = Nil, !.busy = "preview", !.geojson = f]
          /\ Send(ExchangeCall("preview", f))
     \/ \E f \in Files \cup {Nil} : ui' = [ui EXCEPT !.file = f, !.report = Nil] /\ UNCHANGED calls

Previewed == ui.report # Nil /\ ui.file # Nil
openPreview == Previewed /\ ~ui.open /\ Show([ui EXCEPT !.open = TRUE])
Dialog == Previewed /\ ui.open
onClose == Dialog /\ Show([ui EXCEPT !.open = FALSE])

\* What the report says, drawn over the map from the file that was read last.
toggleMap ==
  /\ Dialog /\ ui.geojson # Nil
  /\ Show(IF ui.onMap # Nil THEN [ui EXCEPT !.onMap = Nil]
          ELSE [ui EXCEPT !.open = FALSE, !.onMap = [report |-> ui.report.file, of |-> ui.geojson]])

\* Sends the file that is chosen; the button stays enabled meanwhile.
onApply ==
  /\ Dialog /\ ~ui.report.applied
  /\ Send(ExchangeCall("apply", ui.file)) /\ ui' = [ui EXCEPT !.busy = "apply"]
  /\ world' = [world EXCEPT !.blind = @ \/ ui.report.file # ui.file]

Imported ==
  \E c \in calls :
    /\ c.op \in {"preview", "apply"} /\ Got(c)
    /\ LET u == [ui EXCEPT !.busy = ""]
       IN \/ ui' = [u EXCEPT !.report = [file |-> c.about, applied |-> c.op = "apply"], !.open = TRUE]
          \/ ui' = u
    /\ world' = IF c.op = "apply" THEN [world EXCEPT !.applied = @ \cup {c.about}] ELSE world

ExchangeNext ==
  \/ Select \/ check \/ download \/ Exported
  \/ chooseFile \/ openPreview \/ onClose \/ toggleMap \/ onApply \/ Imported

----------------------------------------------------------------------------
(* Tracing *)

Directions == {"down", "up"}
NoPanel == [node |-> Nil, dir |-> "down", limits |-> "none", running |-> FALSE]
TraceCall(node, p) == [op |-> "trace", node |-> node, dir |-> p.dir, limits |-> p.limits]

TraceInit ==
  /\ ui = [open |-> FALSE, panel |-> NoPanel, seed |-> Nil, selected |-> Nil, result |-> Nil, drawn |-> Nil]
  /\ calls = {}
  /\ world = [turns |-> 0]

\* A node selected is where the next trace starts.
SelectedEffect(u) == IF u.selected = Nil THEN u ELSE [u EXCEPT !.panel.node = u.selected]

\* The node and the direction that another panel asked for are traced at once; on
\* every mount, so when the tab is opened again the last of them is traced anew.
SeedEffect(u) ==
  IF u.seed = Nil THEN u
  ELSE [u EXCEPT !.panel.node = u.seed.node, !.panel.dir = u.seed.dir, !.panel.running = TRUE]
SeedRun(u) == IF u.seed = Nil THEN {} ELSE {TraceCall(u.seed.node, [u.panel EXCEPT !.dir = u.seed.dir])}

openTab ==
  /\ ~ui.open /\ Turn
  /\ LET u == [ui EXCEPT !.open = TRUE, !.panel = NoPanel]
     IN ui' = SeedEffect(SelectedEffect(u)) /\ SendAll(SeedRun(u))

closeTab == ui.open /\ Show([ui EXCEPT !.open = FALSE, !.panel = NoPanel])

\* From the panel of a feature: the tab opens with it.
startTrace ==
  \E o \in Objects, d \in Directions :
    /\ Turn
    /\ LET u == [ui EXCEPT !.open = TRUE, !.seed = [node |-> o, dir |-> d]]
       IN ui' = SeedEffect(u) /\ SendAll(SeedRun(u))

select ==
  \E o \in Objects :
    /\ o # ui.selected /\ Turn /\ UNCHANGED calls
    /\ LET u == [ui EXCEPT !.selected = o] IN ui' = IF u.open THEN SelectedEffect(u) ELSE u

\* The node, the direction, and how far: a depth and types to stop at.
Form ==
  /\ ui.open /\ Turn /\ UNCHANGED calls
  /\ \/ \E o \in Objects \cup {Nil} : o # ui.panel.node /\ ui' = [ui EXCEPT !.panel.node = o]
     \/ \E d \in Directions : d # ui.panel.dir /\ ui' = [ui EXCEPT !.panel.dir = d]
     \/ ui' = [ui EXCEPT !.panel.limits = IF @ = "none" THEN "some" ELSE "none"]

run ==
  /\ ui.open /\ ui.panel.node # Nil /\ ~ui.panel.running
  /\ Send(TraceCall(ui.panel.node, ui.panel)) /\ ui' = [ui EXCEPT !.panel.running = TRUE] /\ UNCHANGED world

\* The result of the panel is what is drawn over the map.
onTraceResult(u, r) == [u EXCEPT !.result = r, !.drawn = r]

\* An answer counts even after its panel went away, and in whatever order.
Traced ==
  \E c \in calls :
    /\ LET u == [ui EXCEPT !.panel.running = FALSE] IN ui' = onTraceResult(u, c) \/ ui' = u
    /\ Got(c) /\ UNCHANGED world

clear == ui.open /\ ui.result # Nil /\ Show(onTraceResult(ui, Nil))

\* A node of the result is selected.
ResultPanel ==
  /\ ui.open /\ ui.result # Nil /\ ui.selected # ui.result.node
  /\ Show(SelectedEffect([ui EXCEPT !.selected = ui.result.node]))

TraceNext == openTab \/ closeTab \/ startTrace \/ select \/ Form \/ run \/ Traced \/ clear \/ ResultPanel

----------------------------------------------------------------------------
(* Properties *)

\* README.md: "Pratinjau & rekap sebelum impor": a file is applied after its preview,
\* and what was previewed is what is applied.
AppliedAsPreviewed == ~world.blind
====
