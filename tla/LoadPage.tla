---- MODULE LoadPage ----
(***************************************************************************)
(* The studies of the load (src/frontend/components/load/Load.tsx): the    *)
(* overview and the tabs that ask about an entity or a filter, Analysis,   *)
(* Losses, Anomalies and the six of Advanced.  A tab that is left is       *)
(* unmounted.  Periods, dates, kinds and filters are one parameter, the    *)
(* figures of an answer are what was asked for.  The reports are           *)
(* LoadReports, the losses of customers CustomerLosses.                    *)
(***************************************************************************)
EXTENDS Screen

CONSTANTS
  Ids,               \* entities of any level
  Anomalies,
  MaxTurns, MaxNews  \* bounds: what the user does, notifications

Levels == {"gi", "feeder"}  \* or "uid", "up3", "trafo_gi", "gd"
Settings == {1, 2}
System == [level |-> "system", id |-> Nil]
Entities == {System} \cup [level : Levels, id : Ids \cup {Nil}]
Picking == {"analysis", "losses", "forecast", "gd"}
Fixed == {"n1", "calib"}
Querying == Picking \cup Fixed \cup {"anomalies", "profiles", "health"}
Studies == Querying \cup {"overview", "customers"}

Call(op, key) == [op |-> op, key |-> key, again |-> FALSE, from |-> "shown"]
Turn == world.turns < MaxTurns /\ world' = [world EXCEPT !.turns = @ + 1]

\* A tab as it is mounted: the analysis with the entity another tab opened last, the
\* transformers of a feeder with none.
Mounted(tab, focus, ov) ==
  LET f == IF tab = "analysis" /\ focus # Nil THEN focus
           ELSE [ent |-> IF tab = "gd" THEN [level |-> "feeder", id |-> Nil] ELSE System, point |-> FALSE]
  IN [tab |-> tab, focus |-> focus, ov |-> ov, ent |-> f.ent, point |-> f.point, param |-> 1, data |-> Nil, busy |-> FALSE,
      items |-> Nil, sel |-> Nil, part |-> Nil, note |-> Nil, act |-> Nil]

----------------------------------------------------------------------------
(* What a page asks for *)

Wanted(u) == [tab |-> u.tab, level |-> IF u.point THEN "point" ELSE u.ent.level, id |-> u.ent.id, param |-> u.param]
Unpicked(u) == u.ent # System /\ u.ent.id = Nil
Query(u) == IF u.tab \in Querying /\ ~Unpicked(u) THEN {Call("query", Wanted(u))} ELSE {}

\* The list of the picker.
List(u) == IF u.tab \in Picking /\ u.ent.level # "system" THEN {Call("entities", u.ent.level)} ELSE {}

\* Below the losses the detail of a feeder, over the anomalies the series of one.
Part(u) ==
  IF u.sel # Nil /\ (u.tab = "losses" => u.data # Nil)
  THEN {Call("part", [sel |-> u.sel, param |-> IF u.tab = "losses" THEN u.param ELSE Nil])} ELSE {}

\* mutant: The effects have no cleanup.
Awaited_Always(c, u) == TRUE

\* Answers that still count: a tab that was left is gone, the list of another level and
\* the part of another selection are stopped.
Awaited(c, u) ==
  \/ c.op \in {"overview", "save"}
  \/ /\ u.tab = ui.tab
     /\ c.op = "query" \/ (c.op = "entities" /\ c.key = u.ent.level) \/ (c.op = "part" /\ c \in Part(u))

\* A save goes on, but knows no longer the dialog or the tab it was for.
Left(c, u) ==
  IF c.op # "save" \/ c.from = "gone" THEN c
  ELSE IF u.tab # ui.tab THEN [c EXCEPT !.from = "gone"]
  ELSE IF u.sel = Nil THEN [c EXCEPT !.from = "closed"] ELSE c

\* The page is rendered as u and its effects run: the query when its parameters are
\* others, the list of the picker when the level is, the part when it is shown anew.
\* Mounted for another tab's entity, the analysis sets it again and asks twice.
Drawn(u, C, reload) ==
  LET moved == u.tab # ui.tab
      query == moved \/ reload \/ Wanted(u) # Wanted(ui)
      list == moved \/ u.ent.level # ui.ent.level
      v == [u EXCEPT !.data = IF query /\ Unpicked(u) THEN Nil ELSE @,
                     !.busy = @ \/ (query /\ u.tab # "anomalies" /\ Query(u) # {}),
                     !.items = IF list /\ List(u) = {} THEN Nil ELSE @]
      part == moved \/ Part(v) # Part(ui)
      twice == IF moved /\ u.tab = "analysis" /\ u.focus # Nil THEN {[c EXCEPT !.again = TRUE] : c \in Query(u)} ELSE {}
      asked == {Left(c, v) : c \in {d \in C : Awaited(d, v)}}
               \cup twice \cup (IF query THEN Query(v) ELSE {}) \cup (IF list THEN List(v) ELSE {}) \cup (IF part THEN Part(v) ELSE {})
  IN /\ ui' = [v EXCEPT !.part = IF part THEN Nil ELSE @]
     /\ Cardinality(asked) <= MaxCalls /\ calls' = asked

\* The tab is the address's.
Init ==
  /\ \E t \in Studies : ui = LET u == Mounted(t, Nil, FALSE) IN [u EXCEPT !.busy = t # "anomalies" /\ Query(u) # {}]
  /\ calls = {Call("overview", Nil)} \cup Query(ui) \cup List(ui)
  /\ world = [turns |-> 0, news |-> 0, due |-> FALSE, notes |-> [a \in Anomalies |-> a]]

----------------------------------------------------------------------------
(* The page and its tabs *)

OverviewLoaded == \E c \in calls : c.op = "overview" /\ Got(c) /\ ui' = [ui EXCEPT !.ov = TRUE] /\ UNCHANGED world
setTab == \E t \in Studies \ {ui.tab} : Turn /\ Drawn(Mounted(t, ui.focus, ui.ov), calls, FALSE)

\* From the ranking, a loss, a table or an anomaly, whose dialog closes with the tab.
Openable ==
  \/ ui.tab = "overview" /\ ui.ov
  \/ ui.tab = "customers"
  \/ ui.tab = "losses" /\ ui.part # Nil
  \/ ui.tab = "anomalies" /\ ui.sel # Nil
  \/ ui.tab \in {"n1", "profiles", "health"} /\ ui.data # Nil
openAnalysis ==
  \E i \in Ids, point \in BOOLEAN :
    /\ Openable /\ Turn
    /\ IF point THEN ui.tab # "n1" ELSE ui.tab \in {"losses", "n1"}
    /\ Drawn(Mounted("analysis", [ent |-> [level |-> "feeder", id |-> i], point |-> point], ui.ov), calls, FALSE)

\* A minute went by; something was measured or found, and three seconds later the
\* overview and the tabs that count such news ask again.
Poll == Send(Call("overview", Nil)) /\ UNCHANGED <<ui, world>>
Notified ==
  /\ world.news < MaxNews /\ UNCHANGED <<ui, calls>>
  /\ world' = [world EXCEPT !.news = @ + 1, !.due = TRUE]
Refresh ==
  /\ world.due /\ world' = [world EXCEPT !.due = FALSE]
  /\ Drawn(ui, calls \cup {Call("overview", Nil)}, ui.tab \in {"analysis", "anomalies"})

----------------------------------------------------------------------------
(* Entities and parameters *)

\* A level, without an entity, or an entity of the list, which may still be the list of
\* the level before; two tabs ask again for the same one.  The losses show the detail of
\* a feeder at once.
Pick ==
  \E e \in Entities :
    /\ ui.tab \in Picking /\ Turn
    /\ ui.tab = "gd" => e.level = "feeder"
    /\ e.id # Nil => ui.items # Nil /\ e.level = ui.ent.level
    /\ Drawn([ui EXCEPT !.ent = e, !.point = FALSE,
                        !.sel = IF ui.tab = "losses" THEN (IF e.level = "feeder" THEN e.id ELSE Nil) ELSE @],
             calls, ui.tab \in {"analysis", "losses"})

Listed == \E c \in calls : c.op = "entities" /\ Got(c) /\ ui' = [ui EXCEPT !.items = c.key] /\ UNCHANGED world

\* The period, the date, the days, the kind, the severity, the status.
SetParam ==
  \E p \in Settings \ {ui.param} : ui.tab \in Querying \ Fixed /\ Turn /\ Drawn([ui EXCEPT !.param = p], calls, FALSE)

\* Any answer is shown.
Loaded ==
  \E c \in calls :
    /\ c.op = "query" /\ UNCHANGED world
    /\ Drawn([ui EXCEPT !.data = c.key, !.busy = FALSE], calls \ {c}, FALSE)

\* Nothing is shown, except that the anomalies stay.
Failed ==
  \E c \in calls :
    /\ UNCHANGED world
    /\ Drawn(CASE c.op = "query" /\ ui.tab # "anomalies" -> [ui EXCEPT !.data = Nil, !.busy = FALSE]
               [] c.op = "entities" -> [ui EXCEPT !.items = Nil]
               [] c.op = "save" /\ c.from = "shown" -> [ui EXCEPT !.act = Nil]
               [] OTHER -> ui, calls \ {c}, FALSE)

----------------------------------------------------------------------------
(* Details *)

PartLoaded == \E c \in calls : c.op = "part" /\ Got(c) /\ ui' = [ui EXCEPT !.part = c.key] /\ UNCHANGED world

\* A feeder of the losses.
SelectFeeder ==
  \E i \in Ids \ {ui.sel} : ui.tab = "losses" /\ ui.data # Nil /\ Turn /\ Drawn([ui EXCEPT !.sel = i], calls, FALSE)

\* mutant: The dialog keeps the text of the anomaly before.
NoteFor_Kept(u, a) == IF u.note = Nil THEN a ELSE u.note

\* The text of the dialog is whose note it is, typed on or not.
NoteFor(u, a) == a

\* The dialog lies over the list.
Open ==
  \E a \in Anomalies :
    /\ ui.tab = "anomalies" /\ ui.data # Nil /\ ui.sel = Nil /\ Turn
    /\ Drawn([ui EXCEPT !.sel = a, !.note = NoteFor(ui, a)], calls, FALSE)
Closed(u) == [u EXCEPT !.sel = Nil, !.act = Nil]
onClose == ui.tab = "anomalies" /\ ui.sel # Nil /\ UNCHANGED world /\ Drawn(Closed(ui), calls, FALSE)

\* Acknowledged, closed or opened again: a button waits for its own answer only.
save ==
  \E s \in {"ack", "closed"} \ {ui.act} :
    /\ ui.tab = "anomalies" /\ ui.sel # Nil /\ Turn
    /\ Send(Call("save", [of |-> ui.sel, status |-> s, note |-> ui.note, then |-> Wanted(ui)]))
    /\ ui' = [ui EXCEPT !.act = s]

\* Whatever dialog is open closes, and the list is read for the filter of when the
\* button was pressed.
Saved ==
  \E c \in calls :
    /\ c.op = "save" /\ world' = [world EXCEPT !.notes[c.key.of] = c.key.note]
    /\ IF c.from = "gone" THEN Got(c) /\ UNCHANGED ui
       ELSE Drawn(Closed(ui), (calls \ {c}) \cup {Call("query", c.key.then)}, FALSE)

Next ==
  \/ OverviewLoaded \/ setTab \/ openAnalysis \/ Poll \/ Notified \/ Refresh \/ Pick \/ Listed \/ SetParam \/ Loaded
  \/ Failed \/ PartLoaded \/ SelectFeeder \/ Open \/ onClose \/ save \/ Saved

Spec == Init /\ [][Next]_vars

----------------------------------------------------------------------------
(* Properties *)

\* The list of the picker is of the level chosen or will be, and the detail below the
\* table, or the series in the dialog, is of what is selected, and of its date, although
\* answers for others come late.
PartsOfChoice ==
  /\ ui.items # Nil => ui.items = ui.ent.level \/ List(ui) \subseteq calls
  /\ ui.part # Nil => {ui.part} = {c.key : c \in Part(ui)}

\* The note stored with an anomaly is the one typed for it, although saving ends with
\* whatever dialog is open by then.
NoteOfAnomaly == \A a \in Anomalies : world.notes[a] = a

\* The spinner turns only while an answer is on its way.
BusyAwaited == ui.busy => \E c \in calls : c.op = "query"

\* The figures are of the entity and the parameters chosen once nothing is awaited (not
\* so: answers come in any order, and one may come after the choice was undone).
FiguresOfChoice == calls = {} /\ ui.data # Nil => ui.data = Wanted(ui)

\* An entity is one of its level (not so: the list of the level before stays selectable).
PickedOfLevel == [][ui'.ent.id # Nil /\ ui'.ent # ui.ent /\ ui'.tab = ui.tab => ui.items = ui'.ent.level]_ui
====
