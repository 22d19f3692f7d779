---- MODULE MapLayers ----
(***************************************************************************)
(* What the map draws of the network: the settings of its page (the        *)
(* layers, the filter and the colours of feeders, the markers of objects   *)
(* that are off, boundaries) in React state, and the copies MapCanvas.tsx  *)
(* keeps in refs, from which it fills the sources and layers of MapLibre.  *)
(* The copies are set by effects, before or after the map has loaded.      *)
(* Tiles, geometry and colours themselves are left out.                    *)
(***************************************************************************)
EXTENDS Screen

CONSTANTS
  Types,       \* types of components
  Feeders,
  Marks,       \* objects that may be off
  TypeOf, NormalOf, LiveOf,  \* type, normal feeder and supplying feeder of each
  MaxNews,     \* bound: changes of the network
  MaxSettings  \* bound: settings the user changes

Energies == {"all", "on"}
Colours == {"type", "status", "feeder"}
NoStyle == [live |-> TRUE, highlight |-> Nil]

\* The user changes a setting.
Turn == world.turns < MaxSettings /\ world' = [world EXCEPT !.turns = @ + 1]
Change(u) == Turn /\ ui' = u /\ UNCHANGED calls

Call(op) == [op |-> op, alive |-> TRUE, got |-> {}, ready |-> FALSE]

Init ==
  /\ ui = [set |-> [visible |-> Types, energy |-> "all", feeders |-> {}, live |-> TRUE, colour |-> "type",
                    highlight |-> Nil, off |-> TRUE, boundary |-> FALSE, labels |-> TRUE],
           list |-> {}, listOpen |-> FALSE, stored |-> FALSE, ready |-> FALSE,
           \* refs of the canvas
           visible |-> Types, energy |-> "all", filter |-> [ids |-> {}, live |-> TRUE], style |-> NoStyle,
           colour |-> "type", marks |-> {}, boundary |-> TRUE,
           \* what the layers show
           shown |-> {}, filtered |-> Nil, painted |-> Nil, drawn |-> Nil, labels |-> Nil]
  /\ calls = {}
  /\ world = [off |-> {}, feeders |-> Feeders, news |-> 0, turns |-> 0]

----------------------------------------------------------------------------
(* The canvas: each of these is a setter of MapHandle.  Before the map has *)
(* loaded there are no layers, and only the refs change.                   *)

FeederOf(m, live) == IF live THEN LiveOf[m] ELSE NormalOf[m]
Passes(u, f) == u.filter.ids = {} \/ f \in u.filter.ids

Wanted(u) ==
  IF u.energy = "on" THEN {} ELSE {m \in u.marks : TypeOf[m] \in u.visible /\ Passes(u, FeederOf(m, u.filter.live))}

Loaded(u) == u.painted # Nil
renderOff(u) == IF Loaded(u) THEN [u EXCEPT !.shown = Wanted(u)] ELSE u

applyFilters(u) ==
  IF ~Loaded(u) THEN u
  ELSE renderOff([u EXCEPT !.filtered = [visible |-> u.visible, energy |-> u.energy, feeders |-> u.filter]])

\* The highlight counts in the mode of feeders only.
Paint(u) == [colour |-> u.colour, style |-> IF u.colour = "feeder" THEN u.style ELSE NoStyle]
applyColorMode(u) == IF Loaded(u) THEN [u EXCEPT !.painted = Paint(u)] ELSE u

setVisibleTypes(u, s) == applyFilters([u EXCEPT !.visible = s])
setEnergyFilter(u, e) == applyFilters([u EXCEPT !.energy = e])
setFeederFilter(u, ids, live) == applyFilters([u EXCEPT !.filter = [ids |-> ids, live |-> live]])

setFeederStyle(u, st) ==
  LET v == [u EXCEPT !.style = st] IN IF v.colour = "feeder" THEN applyColorMode(v) ELSE v

setColorMode(u, c) == applyColorMode([u EXCEPT !.colour = c])
setOffMarkers(u, items) == renderOff([u EXCEPT !.marks = items])
setBoundaryStyle(u, b) == LET v == [u EXCEPT !.boundary = b] IN IF Loaded(u) THEN [v EXCEPT !.drawn = b] ELSE v
setLabelsVisible(u, b) == IF Loaded(u) THEN [u EXCEPT !.labels = b] ELSE u

\* The first layers are drawn from the refs, with labels.
BuildLayers(u) ==
  renderOff([u EXCEPT !.painted = Paint(u), !.drawn = u.boundary, !.labels = TRUE])

----------------------------------------------------------------------------
(* The hooks: which setters follow a change of the settings *)

feederEffect(u) == IF u.ready THEN setFeederFilter(u, u.set.feeders, u.set.live) ELSE u
styleEffect(u) ==
  IF u.ready THEN setFeederStyle(u, [live |-> u.set.live, highlight |-> u.set.highlight]) ELSE u

\* A choice that is not in the list of feeders is dropped.
Prune(u) ==
  IF u.list = {} \/ u.set.feeders \subseteq u.list THEN u
  ELSE feederEffect([u EXCEPT !.set.feeders = @ \cap u.list])

SetVisible ==
  \E s \in SUBSET Types : s # ui.set.visible /\ Change(setVisibleTypes([ui EXCEPT !.set.visible = s], s))

SetEnergy ==
  \E e \in Energies : e # ui.set.energy /\ Change(setEnergyFilter([ui EXCEPT !.set.energy = e], e))

SetLabels == \E b \in BOOLEAN : b # ui.set.labels /\ Change(setLabelsVisible([ui EXCEPT !.set.labels = b], b))

\* Away from the colours of feeders no feeder is highlighted.
ColourChosen(u, c) ==
  LET v == setColorMode([u EXCEPT !.set.colour = c], c)
  IN IF c = "feeder" THEN v ELSE styleEffect([v EXCEPT !.set.highlight = Nil])

SetColour ==
  \E c \in Colours :
    /\ c # ui.set.colour
    /\ Change(ColourChosen(ui, c))

\* mutant: The markers keep the feeders they were counted by.
SetLive_FilterOnly ==
  Change(styleEffect([ui EXCEPT !.set.live = ~@]))

\* Normal or supplying feeder: for the colours and for the filter.
SetLive == Change(feederEffect(styleEffect([ui EXCEPT !.set.live = ~@])))

toggleHighlight ==
  /\ ui.set.colour = "feeder"
  /\ \E f \in Feeders \cup {Nil} : f # ui.set.highlight /\ Change(styleEffect([ui EXCEPT !.set.highlight = f]))

\* Chosen in the panel: one, a group, or none.
setIds ==
  \E s \in SUBSET ui.list : s # ui.set.feeders /\ Change(feederEffect([ui EXCEPT !.set.feeders = s]))

\* The list is read when its panel opens; a filter or its colours keep it fresh.
TogglePanel ==
  /\ ui' = [ui EXCEPT !.listOpen = ~@]
  /\ IF ui.ready /\ ~ui.listOpen THEN Send(Call("list")) ELSE UNCHANGED calls
  /\ Turn

SetBoundary == Change(LET v == [ui EXCEPT !.set.boundary = ~@, !.stored = TRUE]
                    IN IF v.ready THEN setBoundaryStyle(v, v.set.boundary) ELSE v)

\* The default of the configuration, unless the user has chosen before.
BoundaryDefault ==
  /\ ~ui.stored /\ ~ui.set.boundary
  /\ Show(LET v == [ui EXCEPT !.set.boundary = TRUE] IN IF v.ready THEN setBoundaryStyle(v, TRUE) ELSE v)

\* mutant: An answer for markers switched off meanwhile is shown.
Dropped_None(S) == S

Dropped(S) == {c \in S : c.op # "off"} \cup {[c EXCEPT !.alive = FALSE] : c \in {d \in S : d.op = "off"}}

SetOff ==
  /\ LET v == [ui EXCEPT !.set.off = ~@]
     IN ui' = IF v.ready /\ ~v.set.off THEN setOffMarkers(v, {}) ELSE v
  /\ calls' = Dropped(calls) \cup IF ui.ready /\ ~ui.set.off THEN {Call("off")} ELSE {}
  /\ Cardinality(calls') <= MaxCalls /\ Turn

\* The map has loaded: the page gives it its settings again, and the hooks begin.
onReady ==
  /\ ~ui.ready
  /\ LET u == [BuildLayers(ui) EXCEPT !.ready = TRUE]
         v == setColorMode(setVisibleTypes(u, u.set.visible), u.set.colour)
         w == setBoundaryStyle(feederEffect(styleEffect(v)), v.set.boundary)
     IN ui' = IF w.set.off THEN w ELSE setOffMarkers(w, {})
  /\ calls' = (IF ui.set.off THEN {Call("off")} ELSE {}) \cup IF ui.listOpen THEN {Call("list")} ELSE {}
  /\ UNCHANGED world

----------------------------------------------------------------------------
(* Requests *)

\* The interval and the events, with their delay.
Poll ==
  /\ ui.ready /\ UNCHANGED <<ui, world>>
  /\ \/ ui.set.off /\ Send(Call("off"))
     \/ (ui.listOpen \/ ui.set.feeders # {}) /\ Send(Call("list"))

Serve ==
  \E c \in calls :
    /\ ~c.ready
    /\ calls' = (calls \ {c}) \cup {[c EXCEPT !.ready = TRUE, !.got = IF c.op = "off" THEN world.off ELSE world.feeders]}
    /\ UNCHANGED <<ui, world>>

OffLoaded ==
  \E c \in calls :
    /\ c.op = "off" /\ c.ready
    /\ ui' = IF c.alive THEN setOffMarkers(ui, c.got) ELSE ui
    /\ Got(c) /\ UNCHANGED world

ListLoaded ==
  \E c \in calls :
    /\ c.op = "list" /\ c.ready
    /\ ui' = Prune([ui EXCEPT !.list = c.got])
    /\ Got(c) /\ UNCHANGED world

\* Objects go off and on, feeders come and go.
Network ==
  /\ world.news < MaxNews
  /\ \/ \E m \in Marks : world' = [world EXCEPT !.news = @ + 1, !.off = (@ \ {m}) \cup ({m} \ @)]
     \/ \E f \in world.feeders : world' = [world EXCEPT !.news = @ + 1, !.feeders = @ \ {f}]
  /\ UNCHANGED <<ui, calls>>

Next ==
  \/ SetVisible \/ SetEnergy \/ SetLabels \/ SetColour \/ SetLive \/ toggleHighlight \/ setIds \/ TogglePanel
  \/ SetBoundary \/ BoundaryDefault \/ SetOff \/ onReady \/ Poll \/ Serve \/ OffLoaded \/ ListLoaded \/ Network

Spec == Init /\ [][Next]_vars

----------------------------------------------------------------------------
(* Properties *)

\* Once the map has loaded, what it draws is what the settings say: whether they were
\* made before or after, and whatever answer comes late.
DrawnAsSet ==
  ui.ready =>
    /\ ui.filtered = [visible |-> ui.set.visible, energy |-> ui.set.energy,
                      feeders |-> [ids |-> ui.set.feeders, live |-> ui.set.live]]
    /\ ui.shown = {m \in ui.marks : /\ ui.set.off /\ ui.set.energy # "on" /\ TypeOf[m] \in ui.set.visible
                                    /\ ui.set.feeders = {} \/ FeederOf(m, ui.set.live) \in ui.set.feeders}
    /\ ui.set.off \/ ui.marks = {}
    /\ ui.painted = [colour |-> ui.set.colour,
                     style |-> IF ui.set.colour = "feeder" THEN [live |-> ui.set.live, highlight |-> ui.set.highlight]
                               ELSE NoStyle]
    /\ ui.drawn = ui.set.boundary

\* README.md: "tab Layer untuk menyembunyikan tipe, peta dasar, label": labels that are
\* switched off are not drawn.
LabelsAsSet == ui.ready => ui.labels = ui.set.labels
====
