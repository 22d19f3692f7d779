---- MODULE PowerMonitor ----
(***************************************************************************)
(* The page of the control room, src/frontend/components/power/            *)
(* PowerMonitor.tsx: its tabs, the lists under them, the summary that is   *)
(* polled, the news that arrive on the WebSocket, and the overlay the      *)
(* operation tabs draw on the map.  Those tabs stay mounted behind the one *)
(* shown, so one of them may draw when it is not.  A change of the network *)
(* is a number; a list is known by the filter it was loaded with.          *)
(***************************************************************************)
EXTENDS Screen

CONSTANTS
  Lists,       \* the tabs that show a list
  OpsTabs,     \* the operation tabs
  Drawings,    \* overlays
  MaxChanges,  \* bound: maneuvers of others
  MaxMoves,    \* bound: tabs and filters chosen
  MaxFaults    \* bound: sockets and answers lost

Tabs == Lists \cup OpsTabs
Filters == {"all", "off"}

Load(l) == [op |-> "list", list |-> l, filter |-> ui.filter[l], from |-> 0]
Summary == [op |-> "summary", list |-> Nil, filter |-> Nil, from |-> world.version]
Config == [op |-> "config", list |-> Nil, filter |-> Nil, from |-> 0]

Init ==
  /\ ui = [page |-> "loading", summary |-> 0, tab |-> "outages", panel |-> TRUE,
           last |-> [mon |-> "outages", ops |-> "flisr"],
           filter |-> [l \in Lists |-> "all"], shown |-> [l \in Lists |-> Nil],
           overlays |-> [b \in OpsTabs |-> Nil], map |-> FALSE, drawn |-> Nil,
           timers |-> {}, opsTimer |-> FALSE, stale |-> FALSE]
  /\ calls = {Config}
  /\ world = [version |-> 0, up |-> TRUE, faults |-> 0, moves |-> 0]

Ready == ui.page = "ready"

----------------------------------------------------------------------------
(* Tabs *)

\* The overlay of the tab goes with it; a timer for the news of the operation tabs
\* is dropped with the effect that set it.
WithTab(u, b) ==
  [u EXCEPT !.tab = b,
            !.opsTimer = FALSE,
            !.last = IF b \in OpsTabs THEN [@ EXCEPT !.ops = b] ELSE [@ EXCEPT !.mon = b],
            !.drawn = IF ~u.map THEN @ ELSE IF b \in OpsTabs THEN u.overlays[b] ELSE Nil]

\* The lists a change of tab or of filter loads.
Loads(b) == IF b \in Lists \ {"outages"} THEN {Load(b)} ELSE {}

Move == world.moves < MaxMoves /\ world' = [world EXCEPT !.moves = @ + 1]

\* A button of the bar: the tabs of the group shown.
tabBtn(b) ==
  /\ Ready /\ ui.panel /\ b # ui.tab
  /\ (b \in OpsTabs) = (ui.tab \in OpsTabs)
  /\ ui' = WithTab(ui, b) /\ SendAll(Loads(b)) /\ Move

\* The other group, at the tab it was left at.
groupBtn ==
  LET b == IF ui.tab \in OpsTabs THEN ui.last.mon ELSE ui.last.ops
  IN Ready /\ ui.panel /\ ui' = WithTab(ui, b) /\ SendAll(Loads(b)) /\ Move

WithFilter(u, l, f) == [u EXCEPT !.filter[l] = f, !.opsTimer = FALSE]
Filtered(l, f) == {[Load(l) EXCEPT !.filter = f]}

\* A card of the header opens a tab with the filter its figures suggest.
openTab(b, f) ==
  /\ Ready /\ b \in Lists \ {"outages"} /\ Move
  /\ ui' = [WithFilter(WithTab(ui, b), b, f) EXCEPT !.panel = TRUE]
  /\ IF b = ui.tab /\ f = ui.filter[b] THEN UNCHANGED calls ELSE SendAll(Filtered(b, f))

\* Without the panel the tabs behind it are gone, what they drew is not.
TogglePanel == Ready /\ ui' = [ui EXCEPT !.panel = ~@] /\ Move /\ UNCHANGED calls

----------------------------------------------------------------------------
(* The panels of the lists *)

Panel(b) == Ready /\ ui.panel /\ ui.tab = b

SetFilter(l) ==
  /\ Panel(l) /\ Move
  /\ \E f \in Filters \ {ui.filter[l]} : ui' = WithFilter(ui, l, f) /\ SendAll(Filtered(l, f))

\* The list of outages has a button to load it again.
OutagesPanel == SetFilter("outages") \/ (Panel("outages") /\ Send(Load("outages")) /\ UNCHANGED <<ui, world>>)

\* A substation leads to its feeders: all of those that carry its code.
GiPanel ==
  \/ SetFilter("gi")
  \/ /\ Panel("gi")
     /\ ui' = WithFilter(WithTab(ui, "feeders"), "feeders", "all")
     /\ SendAll(Filtered("feeders", "all"))
     /\ Move

\* Feeders, distribution substations, transformers.
ListPanel(l) == l \notin {"outages", "gi"} /\ SetFilter(l)

----------------------------------------------------------------------------
(* Loading *)

configLoaded ==
  /\ Config \in calls
  /\ ui' = [ui EXCEPT !.page = "ready"]
  /\ calls' = (calls \ {Config}) \cup {Summary, Load("outages")} \cup Loads(ui.tab)
  /\ UNCHANGED world

\* mutant: The summary is asked for only when news has come.
Poll_OnNews == Ready /\ ui.opsTimer /\ calls' = calls \cup {Summary} /\ UNCHANGED <<ui, world>>

\* The summary is asked for every few seconds, whether or not the socket is up.
Poll == Ready /\ calls' = calls \cup {Summary} /\ UNCHANGED <<ui, world>>

\* The summary holds what was true at some moment since it was asked for.
loadSummary ==
  \E c \in calls : \E v \in c.from..world.version :
    /\ c.op = "summary"
    /\ ui' = [ui EXCEPT !.summary = v]
    /\ Got(c) /\ UNCHANGED world

ListAnswered ==
  \E c \in calls :
    /\ c.op = "list"
    /\ ui' = [ui EXCEPT !.shown[c.list] = c.filter]
    /\ Got(c) /\ UNCHANGED world

\* A failure leaves what is shown; without the configuration there is no page.
Failed ==
  \E c \in calls :
    /\ world.faults < MaxFaults
    /\ world' = [world EXCEPT !.faults = @ + 1]
    /\ ui' = IF c.op = "config" THEN [ui EXCEPT !.page = "error"] ELSE ui
    /\ Got(c)

----------------------------------------------------------------------------
(* News *)

\* The lists are loaded a moment later, with the filters and for the tab of now.
Maneuver ==
  /\ Ready /\ world.version < MaxChanges
  /\ world' = [world EXCEPT !.version = @ + 1]
  /\ ui' = IF world.up
           THEN [ui EXCEPT !.timers = @ \cup {[tab |-> ui.tab, filter |-> ui.filter]}, !.opsTimer = TRUE, !.stale = TRUE]
           ELSE ui
  /\ UNCHANGED calls

NewsTimer ==
  \E n \in ui.timers :
    /\ ui' = [ui EXCEPT !.timers = @ \ {n}]
    /\ SendAll({Summary} \cup {[Load(l) EXCEPT !.filter = n.filter[l]] : l \in {"outages", n.tab} \cap Lists})
    /\ UNCHANGED world

\* The tabs of the operations load theirs again.
OpsTimer == ui.opsTimer /\ Show([ui EXCEPT !.opsTimer = FALSE, !.stale = FALSE])

Socket ==
  /\ world' = [world EXCEPT !.up = ~@, !.faults = IF world.up THEN @ + 1 ELSE @]
  /\ world.up => world.faults < MaxFaults
  /\ UNCHANGED <<ui, calls>>

----------------------------------------------------------------------------
(* The overlay *)

\* mutant: A tab draws whether or not it is the one shown.
overlayFor_Always(b, d) ==
  Show([ui EXCEPT !.overlays[b] = d, !.drawn = IF ui.map THEN d ELSE @])

\* A tab, shown or not, has something to draw or to take away.
overlayFor(b, d) ==
  Show([ui EXCEPT !.overlays[b] = d, !.drawn = IF ui.map /\ ui.tab = b THEN d ELSE @])

MapReady ==
  /\ Ready /\ ~ui.map
  /\ Show([ui EXCEPT !.map = TRUE, !.drawn = IF ui.tab \in OpsTabs THEN ui.overlays[ui.tab] ELSE @])

Next ==
  \/ configLoaded \/ Poll \/ loadSummary \/ ListAnswered \/ Failed
  \/ \E b \in Tabs : tabBtn(b)
  \/ groupBtn \/ TogglePanel
  \/ \E b \in Tabs, f \in Filters : openTab(b, f)
  \/ OutagesPanel \/ GiPanel \/ \E l \in Lists : ListPanel(l)
  \/ Maneuver \/ NewsTimer \/ OpsTimer \/ Socket
  \/ \E b \in OpsTabs, d \in Drawings \cup {Nil} : Ready /\ overlayFor(b, d)
  \/ MapReady

\* The interval runs for as long as the page is open; every request is answered
\* or fails.
Fairness == WF_vars(Poll) /\ WF_vars(loadSummary) /\ WF_vars(configLoaded)

Spec == Init /\ [][Next]_vars /\ Fairness

----------------------------------------------------------------------------
(* Properties *)

\* What is drawn over the map belongs to the operation tab shown, and nothing is
\* drawn behind the other tabs, whichever tab's analysis is ready last.
OverlayOfTab ==
  ui.map => ui.drawn = IF ui.tab \in OpsTabs THEN ui.overlays[ui.tab] ELSE Nil

\* The figures of the header are those of the state of the network.
SummaryCurrent == ui.page = "error" \/ ui.summary = world.version
====
