---- MODULE MapDrawing ----
(***************************************************************************)
(* Drawing on the map: the clicks, keys and handles of                     *)
(* src/frontend/components/map/MapCanvas.tsx and the callbacks of          *)
(* MapWorkspace.tsx that save what was drawn.  A click of a line waits for *)
(* the server to snap it, and drawing goes on meanwhile.  A point is a     *)
(* click, by its number; coordinates, the cursor and the rendering of      *)
(* what is drawn are left out.                                             *)
(***************************************************************************)
EXTENDS Screen

CONSTANTS
  Objects,   \* lines and nodes whose geometry can be edited
  MaxClicks  \* bound: clicks on the map

\* Modes drawn as a line, drawn as a ring, and done with a single click.  Those that
\* change an object go back to selecting when they end.
LineKinds == {"line", "reshape"}
RingKinds == {"polygon", "reshape-polygon", "area"}
ClickKinds == {"point", "move", "split"}
OfObject == {"reshape", "reshape-polygon", "move", "split"}

Mode(kind) == [kind |-> kind, of |-> Nil]
Select == Mode("select")

Call(op, mode, pts) == [op |-> op, mode |-> mode, pts |-> pts]

Init ==
  /\ ui = [mode |-> Select, draw |-> <<>>, snap |-> 0, measured |-> FALSE, busy |-> FALSE,
           finishing |-> Nil, session |-> Nil, timer |-> Nil]
  /\ calls = {}
  /\ world = [clicks |-> 0, saved |-> {}, twice |-> FALSE]

\* The effect of a new mode: nothing is drawn, and handles stay only in vertex mode.
SetMode(u, m) ==
  [u EXCEPT !.mode = m, !.draw = <<>>, !.measured = FALSE,
            !.session = IF m.kind = "vertex" THEN @ ELSE Nil]

\* The toolbar, and the tools of the panel of an object.
onMode ==
  \E k \in LineKinds \cup RingKinds \cup ClickKinds \cup {"measure"} : ui.mode.kind # k /\ Show(SetMode(ui, Mode(k)))

onCancelMode == ui.mode # Select /\ Show(SetMode(ui, Select))

\* mutant: A late point goes to whatever is drawn, once more.
Drawn_Twice(u, n) == [u EXCEPT !.draw = @ \o <<n, n>>]

Drawn(u, n) == [u EXCEPT !.draw = Append(@, n)]

NextClick == world.clicks < MaxClicks /\ world' = [world EXCEPT !.clicks = @ + 1]
Here == world.clicks + 1

\* A line takes its point when the snap is answered.
ClickLine ==
  /\ ui.mode.kind \in LineKinds /\ ~ui.busy /\ NextClick
  /\ Send(Call("snap", ui.mode, <<Here>>))
  /\ ui' = [ui EXCEPT !.snap = Here]

ClickRing ==
  /\ ui.mode.kind \in RingKinds /\ ~ui.busy /\ NextClick
  /\ ui' = Drawn(ui, Here) /\ UNCHANGED calls

ClickMeasure ==
  /\ ui.mode.kind = "measure" /\ ~ui.busy /\ NextClick
  /\ ui' = Drawn([ui EXCEPT !.draw = IF ui.measured THEN <<>> ELSE @, !.measured = FALSE], Here)
  /\ UNCHANGED calls

\* A new point is snapped first; then, as a move or a split, it is saved.
ClickOnce ==
  /\ ui.mode.kind \in ClickKinds /\ ~ui.busy /\ NextClick
  /\ Send(Call("edit", ui.mode, <<Here>>))
  /\ ui' = [ui EXCEPT !.busy = TRUE]

\* Answered or failed, a point is added; to what is drawn by then.
snapPoint ==
  \E c \in calls :
    /\ c.op = "snap"
    /\ ui' = [Drawn(ui, c.pts[1]) EXCEPT !.snap = IF @ = c.pts[1] THEN 0 ELSE @]
    /\ Got(c) /\ UNCHANGED world

\* Backspace.
PopPoint ==
  /\ ui.mode.kind \in LineKinds \cup RingKinds \cup {"measure"} /\ ui.draw # <<>>
  /\ Show([ui EXCEPT !.draw = SubSeq(@, 1, Len(@) - 1), !.measured = FALSE])

Enough(mode, pts) ==
  Len(pts) >= CASE mode.kind \in LineKinds -> 2 [] mode.kind = "polygon" -> 1 [] OTHER -> 3

\* mutant: Enter is heard while an edit is being saved.
Free_Always == TRUE

Free == ~ui.busy

\* A double click or Enter ends a drawing.
Finish(u, mode) ==
  IF ~Free \/ ~Enough(mode, u.draw) THEN Show(u)
  ELSE IF mode.kind = "area" THEN Show(SetMode(u, Select))
  ELSE /\ ui' = [u EXCEPT !.draw = <<>>, !.busy = TRUE]
       /\ Send(Call("edit", mode, u.draw))
       /\ UNCHANGED world

finishDraw ==
  \/ ui.mode.kind = "measure" /\ Len(ui.draw) >= 2 /\ Show([ui EXCEPT !.measured = TRUE])
  \/ ui.mode.kind \in LineKinds \cup RingKinds /\ ui.snap = 0 /\ Finish(ui, ui.mode)
  \/ /\ ui.mode.kind \in LineKinds \cup RingKinds /\ ui.snap # 0 /\ ui.finishing = Nil
     /\ Show([ui EXCEPT !.finishing = ui.mode])

\* The last snap is there: the mode of then, the points of now.
snapAwaited == ui.finishing # Nil /\ ui.snap = 0 /\ Finish([ui EXCEPT !.finishing = Nil], ui.finishing)

Points(s) == {s[i] : i \in DOMAIN s}
Saved(pts) ==
  [world EXCEPT !.saved = @ \cup Points(pts),
                !.twice = @ \/ Points(pts) \cap world.saved # {} \/ Cardinality(Points(pts)) < Len(pts)]

\* Created, reshaped, moved or split; or refused, when a new object may be tried again.
edited ==
  \E c \in calls, ok \in BOOLEAN :
    /\ c.op = "edit"
    /\ world' = IF ok THEN Saved(c.pts) ELSE world
    /\ ui' = [(IF c.mode.kind \in OfObject THEN SetMode(ui, Select) ELSE ui) EXCEPT !.busy = FALSE]
    /\ Got(c)

----------------------------------------------------------------------------
(* Handles on the vertices of an object *)

\* The object and its lines are read; then the mode changes, and the handles follow
\* on a timer.
startVertexEdit ==
  \E o \in Objects :
    /\ ui.mode.kind # "vertex" \/ ui.mode.of # o
    /\ Send(Call("prepare", [kind |-> "vertex", of |-> o], <<>>))
    /\ UNCHANGED <<ui, world>>

\* As the last step of a commit it lets the next drag be saved.
prepared ==
  \E c \in calls, ok \in BOOLEAN :
    /\ c.op \in {"prepare", "again"}
    /\ LET u == [ui EXCEPT !.busy = @ /\ c.op = "prepare"]
       IN ui' = IF ok THEN [SetMode(u, c.mode) EXCEPT !.timer = c.mode.of] ELSE u
    /\ Got(c) /\ UNCHANGED world

SessionTimer == ui.timer # Nil /\ Show([ui EXCEPT !.session = ui.timer, !.timer = Nil])

\* A handle is dropped, or a vertex deleted: what is dropped while a commit is on its
\* way is not saved.
onDragEnd ==
  /\ ui.session # Nil /\ ~ui.busy
  /\ Send(Call("commit", [kind |-> "vertex", of |-> ui.session], <<>>))
  /\ ui' = [ui EXCEPT !.busy = TRUE] /\ UNCHANGED world

\* Saved or refused, the handles are put on the object again, unless the mode is over.
vertexCommit ==
  \E c \in calls :
    /\ c.op = "commit"
    /\ IF ui.mode.kind = "vertex"
       THEN calls' = (calls \ {c}) \cup {[c EXCEPT !.op = "again"]} /\ UNCHANGED <<ui, world>>
       ELSE Got(c) /\ ui' = [ui EXCEPT !.busy = FALSE] /\ UNCHANGED world

Next ==
  \/ onMode \/ onCancelMode \/ ClickLine \/ ClickRing \/ ClickMeasure \/ ClickOnce
  \/ snapPoint \/ PopPoint \/ finishDraw \/ snapAwaited \/ edited
  \/ startVertexEdit \/ prepared \/ SessionTimer \/ onDragEnd \/ vertexCommit

Spec == Init /\ [][Next]_vars

----------------------------------------------------------------------------
(* Properties *)

\* What is clicked is drawn once: whatever answers late, however often Enter and the
\* double click are heard, no click is a vertex of two objects, nor twice of one, and
\* two edits of geometry never race each other.
DrawnOnce ==
  /\ ~world.twice
  /\ Cardinality({c \in calls : c.op \in {"edit", "commit", "again"}}) <= 1
====
