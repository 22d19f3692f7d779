---- MODULE Sld ----
(***************************************************************************)
(* The page of single-line diagrams (src/frontend/components/sld/SLD.tsx): *)
(* a diagram of a scope, built by the server and built again when the      *)
(* network changes, the user's shifts of its elements, an overlay of the   *)
(* power flow, and the object selected, which can be operated.  Drawing,   *)
(* zoom and export are left out.                                           *)
(*                                                                         *)
(* And how a diagram is laid out (src/frontend/components/sld/layout.ts),  *)
(* with behaviours of its own, LayoutNext: a forest of elements; the depth *)
(* gives the column, the leaves take one row after the other, and a parent *)
(* stands in the row of its first child.  Columns are folded into bands.   *)
(* Lengths are in tenths of a pixel, along the main axis first; the        *)
(* orientation swaps the axes of all of it.  The tables of the labels and  *)
(* the bounding box are left out.                                          *)
(***************************************************************************)
EXTENDS Screen, Functions, FiniteSetsExt

CONSTANTS
  Modes,     \* kinds of scopes; each has one
  Levels,    \* of detail
  Objects,
  MaxTurns,  \* bound: what the user does
  MaxNews,   \* bound: events of the network
  MaxElements,         \* bound: elements of a layout
  COL_W, ROW_H, TAP    \* of layout.ts, in tenths

Call(op, about) == [op |-> op, about |-> about, of |-> Nil, alive |-> TRUE]
Turn == world.turns < MaxTurns /\ world' = [world EXCEPT !.turns = @ + 1]
Then(c, S) ==
  LET rest == (calls \ {c}) \cup S IN Cardinality(rest) <= MaxCalls /\ calls' = rest

\* It opens without a scope, on the scope in the address, or on that of an object.
PageInit ==
  /\ ui = [scope |-> Nil, diagram |-> Nil, offsets |-> Nil, dirty |-> FALSE,
           pfOn |-> FALSE, pf |-> Nil, selected |-> Nil, feature |-> Nil, confirm |-> Nil,
           mode |-> CHOOSE m \in Modes : TRUE, hits |-> Nil, focus |-> Nil]
  /\ calls = {Call("config", Nil)}
  /\ world = [turns |-> 0, news |-> 0, blind |-> FALSE]

----------------------------------------------------------------------------
(* Scope and diagram *)

Scope(mode, of, level) == [mode |-> mode, of |-> of, level |-> level]
SetScope(u, s) == [u EXCEPT !.scope = s]
build(s) == Call("build", s)

\* What the address asks for is shown, after a request when it names an object.
configLoaded ==
  \E c \in calls :
    /\ c.op = "config" /\ UNCHANGED world
    /\ \/ \E m \in Modes, l \in Levels :
            ui' = SetScope([ui EXCEPT !.mode = m], Scope(m, m, l)) /\ Then(c, {build(Scope(m, m, l))})
       \/ \E o \in Objects : ui' = [ui EXCEPT !.focus = o] /\ Then(c, {Call("resolve", o)})
       \/ ui' = ui /\ Got(c)

Resolved ==
  \E c \in calls :
    /\ c.op = "resolve" /\ UNCHANGED world
    /\ \/ \E m \in Modes :
            LET s == Scope(m, m, IF ui.scope = Nil THEN CHOOSE l \in Levels : TRUE ELSE ui.scope.level)
            IN ui' = SetScope([ui EXCEPT !.mode = m, !.focus = c.about], s) /\ Then(c, {build(s)})
       \/ ui' = ui /\ Got(c)

\* The flow is computed anew for every new diagram (of one feeder at least); what is
\* shown stays till then.
FlowOf(d) == Call("flow", d)
DropFlow(S) == {IF c.op = "flow" THEN [c EXCEPT !.alive = FALSE] ELSE c : c \in S}

Deselected(u) == [u EXCEPT !.selected = Nil, !.feature = Nil, !.confirm = Nil]

\* mutant: The shifts of the diagram before stay.
Diagram_KeepsOffsets(u, s) == [u EXCEPT !.diagram = s, !.dirty = FALSE]

\* A diagram comes with the shifts that are stored for it; those not saved are gone.
Diagram(u, s) == [u EXCEPT !.diagram = s, !.offsets = s, !.dirty = FALSE]

\* An object the page was opened for is selected with the first diagram.
Focus(u) == IF u.focus = Nil THEN u ELSE [u EXCEPT !.selected = u.focus, !.focus = Nil]
DropFeature(S) == {IF c.op = "feature" THEN [c EXCEPT !.alive = FALSE] ELSE c : c \in S}

\* A late answer counts.  While the server still loads the graph it is asked again, for
\* the scope of that time or, if it answered at all, for the scope shown by then.
Built ==
  \E c \in calls :
    /\ c.op = "build" /\ UNCHANGED world
    /\ \/ LET u == Focus(Diagram(ui, c.about))
              T == (IF u.pfOn THEN {FlowOf(c.about)} ELSE {}) \cup IF u.selected # ui.selected THEN {Call("feature", u.selected)} ELSE {}
              S == IF u.selected # ui.selected THEN DropFeature(DropFlow(calls)) ELSE DropFlow(calls)
          IN /\ ui' = u /\ calls' = (S \ {c}) \cup T /\ Cardinality(calls') <= MaxCalls
       \/ \E s \in {Nil, c.about} : ui' = (IF s = Nil THEN Diagram(ui, c.about) ELSE ui) /\ Then(c, {Call("timer", s)})
       \/ ui' = ui /\ Got(c)

Timer ==
  \E c \in calls :
    /\ c.op = "timer" /\ UNCHANGED <<ui, world>>
    /\ IF ui.scope # Nil /\ c.about \in {Nil, ui.scope} THEN Then(c, {build(ui.scope)}) ELSE Got(c)

----------------------------------------------------------------------------
(* The panel of scopes *)

SetMode ==
  \E m \in Modes : m # ui.mode /\ Turn /\ ui' = [ui EXCEPT !.mode = m, !.hits = Nil] /\ UNCHANGED calls

\* A moment after the mode or the text changed.  A search already sent is not dropped.
Search == Send(Call("search", ui.mode)) /\ UNCHANGED <<ui, world>>
Searched ==
  \E c \in calls :
    /\ c.op = "search" /\ Got(c) /\ ui' = [ui EXCEPT !.hits = c.about] /\ UNCHANGED world

\* A hit is taken for the mode of now.
Level(u) == IF u.scope = Nil THEN CHOOSE l \in Levels : TRUE ELSE u.scope.level
pickScope ==
  /\ ui.hits # Nil /\ Turn
  /\ LET s == Scope(ui.mode, ui.hits, Level(ui))
     IN /\ ui' = SetScope(Deselected(ui), s)
        /\ calls' = DropFeature(calls) \cup {build(s)} /\ Cardinality(calls') <= MaxCalls

changeLevel ==
  \E l \in Levels :
    /\ ui.scope # Nil /\ l # ui.scope.level /\ Turn
    /\ LET s == [ui.scope EXCEPT !.level = l] IN ui' = SetScope(ui, s) /\ Send(build(s))

\* An area drawn on the map is a scope like the others; cleared, no diagram is left.
Area == ui.scope # Nil /\ Turn /\ ui' = [ui EXCEPT !.scope = Nil, !.diagram = Nil, !.pf = Nil] /\ calls' = DropFlow(calls)

togglePf ==
  /\ ui.diagram # Nil /\ Turn
  /\ ui' = [ui EXCEPT !.pfOn = ~@, !.pf = IF ui.pfOn THEN Nil ELSE @]
  /\ calls' = DropFlow(calls) \cup IF ui.pfOn THEN {} ELSE {FlowOf(ui.diagram)}
  /\ Cardinality(calls') <= MaxCalls

Flowed ==
  \E c \in calls :
    /\ c.op = "flow" /\ Got(c) /\ UNCHANGED world
    /\ ui' = IF c.alive THEN [ui EXCEPT !.pf = c.about] ELSE ui

----------------------------------------------------------------------------
(* Shifts *)

Panel == ui.diagram # Nil
\* An element is dragged in the mode for it.
onMove == Panel /\ Turn /\ ui' = [ui EXCEPT !.offsets = ui.diagram, !.dirty = TRUE] /\ UNCHANGED calls

savePositions ==
  /\ Panel /\ ui.dirty /\ Turn /\ UNCHANGED ui
  /\ Send([Call("save", ui.diagram) EXCEPT !.of = ui.offsets])

resetPositions == Panel /\ ui.offsets # Nil /\ Turn /\ Send(Call("reset", ui.diagram)) /\ UNCHANGED ui

Stored ==
  \E c \in calls :
    /\ c.op \in {"save", "reset"} /\ Got(c) /\ UNCHANGED world
    /\ ui' = (CASE c.op = "save" -> [ui EXCEPT !.dirty = FALSE]
                [] OTHER -> [ui EXCEPT !.offsets = Nil, !.dirty = FALSE]) \/ ui' = ui

----------------------------------------------------------------------------
(* The object selected *)

\* Its panel shows the last object until the answer.
click ==
  \E o \in Objects :
    /\ Panel /\ ui.confirm = Nil /\ o # ui.selected /\ Turn
    /\ ui' = [ui EXCEPT !.selected = o]
    /\ calls' = DropFeature(calls) \cup {Call("feature", o)} /\ Cardinality(calls') <= MaxCalls

close == ui.selected # Nil /\ ui' = Deselected(ui) /\ calls' = DropFeature(calls) /\ UNCHANGED world

FeatureLoaded ==
  \E c \in calls :
    /\ c.op \in {"feature", "refresh"} /\ Got(c) /\ UNCHANGED world
    /\ ui' = (IF c.alive THEN [ui EXCEPT !.feature = c.about] ELSE ui) \/ ui' = ui

ObjectPanel == ui.selected # Nil /\ ui.feature # Nil
AskOpen == ObjectPanel /\ ui.confirm = Nil /\ Show([ui EXCEPT !.confirm = ui.feature])
CancelOpen == ui.confirm # Nil /\ Show([ui EXCEPT !.confirm = Nil])

\* The object that is selected is operated, whichever the panel and its dialog show.
operate ==
  /\ ObjectPanel /\ world.turns < MaxTurns
  /\ world' = [world EXCEPT !.turns = @ + 1, !.blind = @ \/ ui.confirm \notin {Nil, ui.selected}]
  /\ Send(Call("operate", ui.selected)) /\ UNCHANGED ui

\* The answer brings the object, and the diagram is built again.
Operated ==
  \E c \in calls :
    /\ c.op = "operate" /\ UNCHANGED world
    /\ \/ /\ ui' = [ui EXCEPT !.feature = c.about, !.confirm = Nil]
          /\ Then(c, IF ui.scope = Nil THEN {} ELSE {build(ui.scope)})
       \/ ui' = ui /\ Got(c)

\* The scope of an object that is not in the diagram.
openHere == ui.selected # Nil /\ Turn /\ Send(Call("resolve", ui.selected)) /\ UNCHANGED ui

\* The network changed: the diagram and the object shown are read again.
Event ==
  /\ world.news < MaxNews /\ world' = [world EXCEPT !.news = @ + 1] /\ UNCHANGED ui
  /\ SendAll((IF ui.scope = Nil THEN {} ELSE {build(ui.scope)})
             \cup IF ui.feature = Nil THEN {} ELSE {Call("refresh", ui.feature)})

PageNext ==
  \/ configLoaded \/ Resolved \/ Built \/ Timer \/ SetMode \/ Search \/ Searched \/ pickScope \/ changeLevel
  \/ Area \/ togglePf \/ Flowed \/ onMove \/ savePositions \/ resetPositions \/ Stored
  \/ click \/ close \/ FeatureLoaded \/ AskOpen \/ CancelOpen \/ operate \/ Operated \/ openHere \/ Event

----------------------------------------------------------------------------
(* Layout *)

\* parent[n] is 0 for a root; elements come in the order of the diagram.
LayoutInit ==
  /\ ui = [parent |-> <<0>>, perBand |-> 1]
  /\ calls = {} /\ world = Nil

Elements == DOMAIN ui.parent
Children(p) == {k \in Elements : ui.parent[k] = p}
FirstChild(n) == CHOOSE k \in Children(n) : \A j \in Children(n) : k <= j
IsLeaf(n) == Children(n) = {}

\* A parent is listed before its children.
column == LET depth[n \in Elements] == IF ui.parent[n] = 0 THEN 0 ELSE depth[ui.parent[n]] + 1 IN depth
root == LET top[n \in Elements] == IF ui.parent[n] = 0 THEN n ELSE top[ui.parent[n]] IN top

\* The chain from the root to an element; place() visits elements in the order of
\* these, compared like words.
path == LET chain[n \in Elements] == IF ui.parent[n] = 0 THEN <<n>> ELSE Append(chain[ui.parent[n]], n) IN chain
Before(m, n) ==
  \E i \in DOMAIN path[m] \cap DOMAIN path[n] :
    path[m][i] < path[n][i] /\ \A j \in 1..(i - 1) : path[m][j] = path[n][j]

\* mutant: Trees are not set apart, and a leaf takes the row of its place in its tree.
row_OwnTree ==
  LET r[n \in Elements] ==
        IF IsLeaf(n) THEN Cardinality({m \in Elements : IsLeaf(m) /\ root[m] = root[n] /\ Before(m, n)}) ELSE r[FirstChild(n)]
  IN r

\* The leaves visited before it, and a row between two trees.
row ==
  LET r[n \in Elements] ==
        IF IsLeaf(n)
        THEN Cardinality({m \in Elements : IsLeaf(m) /\ Before(m, n)}) + Cardinality({m \in Children(0) : m < root[n]})
        ELSE r[FirstChild(n)]
  IN r

Columns == 1 + Max({column[n] : n \in Elements})
Rows == 1 + Max({row[n] : n \in Elements})

\* Bands: how many columns each has depends on proportions; any number is taken here.
bandH == Rows * ROW_H + (16 * ROW_H) \div 10
bandOf(n) == column[n] \div ui.perBand
main(n) == (column[n] % ui.perBand) * COL_W + COL_W \div 2
cross(n) == row[n] * ROW_H + ROW_H + bandOf(n) * bandH
Place(n) == <<main(n), cross(n)>>

\* A section that stays in its band is straight, or goes through the tap of its parent.
Tapped(n) == ui.parent[n] # 0 /\ bandOf(n) = bandOf(ui.parent[n]) /\ cross(n) # cross(ui.parent[n])
Tap(n) == [main |-> main(ui.parent[n]) + TAP, from |-> cross(ui.parent[n]), to |-> cross(n)]

\* One that leaves its band is drawn in two pieces, which end between two columns.
Continued(n) == ui.parent[n] # 0 /\ bandOf(n) # bandOf(ui.parent[n])
HeadEnd(n) == <<main(ui.parent[n]) + (45 * COL_W) \div 100, cross(ui.parent[n])>>
TailStart(n) == <<main(n) - (45 * COL_W) \div 100, cross(n)>>

\* Another diagram, with one element more; folded or not.
Grow ==
  /\ Len(ui.parent) < MaxElements
  /\ \E p \in 0..Len(ui.parent) : Show([ui EXCEPT !.parent = Append(@, p)])

Wrap == \E b \in 1..Columns : b # ui.perBand /\ Show([ui EXCEPT !.perBand = b])

LayoutNext == Grow \/ Wrap

----------------------------------------------------------------------------
(* Properties *)

\* The shifts on the screen, and those saved, belong to the diagram they are drawn on,
\* although diagrams replace one another in any order of answers.
PositionsOfDiagram ==
  /\ ui.diagram # Nil => ui.offsets \in {Nil, ui.diagram}
  /\ \A c \in calls : c.op = "save" => c.of \in {Nil, c.about}

\* lib/locales/en.ts:825, "Open {code} with category {kind}? Everything downstream goes
\* off": the object that the dialog names is the one that is opened.
OperatedAsNamed == ~world.blind

\* No two elements are drawn over one another, and the taps of two parents, which would
\* look like a connection, do not meet.  The stubs of ties are left out.
ApartOnPaper ==
  /\ IsInjective([n \in Elements |-> Place(n)])
  /\ \A m, n \in {k \in Elements : Tapped(k)} :
       (ui.parent[m] # ui.parent[n] /\ Tap(m).main = Tap(n).main) => Tap(m).to < Tap(n).from \/ Tap(n).to < Tap(m).from
  /\ \A m, n \in {k \in Elements : Continued(k)} :
       (m # n /\ ui.parent[m] # ui.parent[n]) => HeadEnd(m) # HeadEnd(n) /\ TailStart(m) # TailStart(n)
====
