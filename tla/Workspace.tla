---- MODULE Workspace ----
(***************************************************************************)
(* The pages of the application together: those of Editor, and those on    *)
(* which something is looked up: the studies (src/frontend/components/exec, *)
(* load), the events and assets, parts of the field page (field), and what *)
(* the client keeps on the device (public/sw.js).  They share nothing but  *)
(* the server, so that a behaviour is one of one page.                     *)
(***************************************************************************)
EXTENDS Editor

CONSTANTS
  Pages,  \* the pages looked at
  Outages,                                             \* infographic
  Queries, Tabs, Lengths,                              \* list
  Months, Filters, Gardus,                             \* losses
  Params,                                              \* flow
  Results, MaxLogged,                                  \* events
  Total,                                               \* assets
  Views, Deepest, MaxTiles, Workers,                   \* offline
  Places, Groups, Radii,                               \* nearby
  Regs, ParentOf, Periods, MaxValue                    \* regions

VARIABLE page  \* the page

vars == <<page, ui, calls, world>>

Info == INSTANCE Infographic WITH MaxCalls <- Calls["info"], MaxTurns <- Turns["info"], MaxNews <- News["info"], Levels <- Tabs
Losses == INSTANCE CustomerLosses WITH MaxCalls <- Calls["losses"], MaxTurns <- Turns["losses"]
Flow == INSTANCE PowerFlow WITH MaxCalls <- Calls["flow"], MaxTurns <- Turns["flow"]
Events == INSTANCE SwitchEvents WITH MaxCalls <- Calls["events"], MaxTurns <- Turns["events"], MaxEvents <- MaxLogged
Tree == INSTANCE Assets WITH MaxCalls <- Calls["assets"], MaxTurns <- Turns["assets"]
Offline == INSTANCE OfflineArea WITH MaxCalls <- Calls["offline"], MaxTurns <- Turns["offline"]
Worker == INSTANCE ServiceWorker WITH MaxCalls <- Calls["worker"], MaxTurns <- Turns["worker"], MaxNews <- News["worker"]
Field == INSTANCE FieldPage WITH MaxCalls <- Calls["field"], MaxTurns <- Turns["field"]
Area == INSTANCE Regions WITH MaxCalls <- Calls["regions"], MaxTurns <- Turns["regions"]

\* The keys of the lists of the infographic; Nil is no query.
ListKeys == [query : Queries, level : Tabs, qd : Info!Words, size : Info!Sizes]
ASSUME ListAssumption == Nil \notin ListKeys

\* The values of a region are numbers.
ASSUME BoundsAssumption == MaxValue \in Nat

Init ==
  /\ page \in Pages
  /\ \/ page = "gdb" /\ Gdb!Init
     \/ page = "drawing" /\ Drawing!Init
     \/ page = "layers" /\ Layering!Init
     \/ page = "selection" /\ Selection!Init
     \/ page = "normal" /\ Normal!Init
     \/ page = "exchange" /\ Panels!ExchangeInit
     \/ page = "trace" /\ Panels!TraceInit
     \/ page = "changes" /\ Package!Init
     \/ page = "review" /\ Rev!Init
     \/ page = "sld" /\ Diagrams!PageInit
     \/ page = "layout" /\ Diagrams!LayoutInit
     \/ page = "info" /\ Info!PageInit
     \/ page = "list" /\ Info!ListInit
     \/ page = "losses" /\ Losses!Init
     \/ page = "flow" /\ Flow!Init
     \/ page = "periodic" /\ Reporting!PeriodicInit
     \/ page = "loads" /\ Reporting!LoadInit
     \/ page = "events" /\ Events!Init
     \/ page = "assets" /\ Tree!Init
     \/ page = "offline" /\ Offline!Init
     \/ page = "worker" /\ Worker!AnswersInit
     \/ page = "update" /\ Worker!VersionsInit
     \/ page = "chat" /\ Chat!Init
     \/ page = "photos" /\ Field!PhotosInit
     \/ page = "nearby" /\ Field!NearbyInit
     \/ page = "regions" /\ Area!Init
     \/ page = "load" /\ Load!Init

Next ==
  /\ UNCHANGED page
  /\ \/ page = "gdb" /\ Gdb!Next
     \/ page = "drawing" /\ Drawing!Next
     \/ page = "layers" /\ Layering!Next
     \/ page = "selection" /\ Selection!Next
     \/ page = "normal" /\ Normal!Next
     \/ page = "exchange" /\ Panels!ExchangeNext
     \/ page = "trace" /\ Panels!TraceNext
     \/ page = "changes" /\ Package!Next
     \/ page = "review" /\ Rev!Next
     \/ page = "sld" /\ Diagrams!PageNext
     \/ page = "layout" /\ Diagrams!LayoutNext
     \/ page = "info" /\ Info!PageNext
     \/ page = "list" /\ Info!ListNext
     \/ page = "losses" /\ Losses!Next
     \/ page = "flow" /\ Flow!Next
     \/ page = "periodic" /\ Reporting!PeriodicNext
     \/ page = "loads" /\ Reporting!LoadNext
     \/ page = "events" /\ Events!Next
     \/ page = "assets" /\ Tree!Next
     \/ page = "offline" /\ Offline!Next
     \/ page = "worker" /\ Worker!AnswersNext
     \/ page = "update" /\ Worker!VersionsNext
     \/ page = "chat" /\ Chat!Next
     \/ page = "photos" /\ Field!PhotosNext
     \/ page = "nearby" /\ Field!NearbyNext
     \/ page = "regions" /\ Area!Next
     \/ page = "load" /\ Load!Next

Spec == Init /\ [][Next]_vars

----------------------------------------------------------------------------
(* Properties *)

\* What the user edits or saves is what stands on the screen, although answers for
\* several objects, packages, diagrams or reports come in any order: a click becomes
\* one vertex of one object, the form is the selected object's, only a change on the
\* list is checked, fields belong to the package, shifts to the diagram, a summary to
\* the report it was begun for, a note to the anomaly; a photo taken is not lost unless
\* the user was told so (refused, or neither compressed nor stored on the device).
EditedAsShown ==
  /\ page = "drawing" => Drawing!DrawnOnce
  /\ page = "selection" => Selection!EditedAsShown
  /\ page = "normal" => Normal!CheckedListed
  /\ page = "changes" => Package!FormOfPackage
  /\ page = "sld" => Diagrams!PositionsOfDiagram
  /\ page = "periodic" => Reporting!WrittenForReport
  /\ page = "load" => Load!NoteOfAnomaly
  /\ page = "photos" => Field!PhotoKept

\* What a map draws is what its page holds: the settings of the layers, the report of
\* the infographic, the results of the power flow, whether the map or they were ready
\* first; the colours of the legend; without network, the areas on the list of the device.
DrawnAsSet ==
  /\ page = "layers" => Layering!DrawnAsSet
  /\ page = "info" => Info!MapOfReport
  /\ page = "flow" => Flow!DrawnOfDetail
  /\ page = "offline" => Offline!AreasKeptInTurn
  /\ page = "regions" => Area!ColourOfLegend

\* The tables, popups and lists tell of what they name, however fast the user asks and
\* in whatever order answers come; an old answer that the device stored says
\* so, and an answer of the assistant is the one to the question above it.
ShownAsAsked ==
  /\ page = "info" => Info!PopupOfObject
  /\ page = "list" => Info!RowsOfList
  /\ page = "worker" => Worker!FreshUnlessTold
  /\ page = "chat" => Chat!AnswerOfQuestion
  /\ page = "regions" => Area!DetailOfSelection
  /\ page = "load" => Load!PartsOfChoice
  /\ page = "photos" => Field!PhotosOfRow

\* An import changes the network only once it was compared and approved, although several
\* users command at once from pages that are out of date.  A package of changes that was
\* released or cancelled, with no command on it under way, stays so; the weaker claim is
\* deliberate, for a command checked earlier may still overwrite it (changes.go writes by
\* id alone).  A page is loaded again under a new version of the application only when a
\* user took that version.
CommandsInOrder ==
  /\ page = "gdb" => Gdb!AppliedAfterReview
  /\ page = "review" => Rev!StaysOver
  /\ page = "update" => Worker!ReloadedWhenTaken

\* No two elements of a diagram are drawn over one another, nor the sections of two
\* parents as one (not said of the stubs of ties, layout.ts:242-261).
ApartOnPaper == page = "layout" => Diagrams!ApartOnPaper

\* What a page says it waits for is on its way: no spinner stays, and no button stays
\* disabled, once every request was answered or failed, although panels are closed and
\* opened again, and answers of the one before end the waiting of the next.
WaitsForAnswer ==
  LET Awaiting(waits, ops) == waits => \E c \in calls : c.op \in ops
  IN /\ page = "gdb" => /\ Awaiting(ui.progress, {"start"})
                        /\ Awaiting(ui.busy # "", {"ask", "delete"})
                        /\ Awaiting(ui.panel.busy # "", {"apply", "cancel"})
     /\ page = "selection" => Awaiting(ui.loading, {"select"})
     /\ page = "normal" => Awaiting(ui.busy, {"apply"})
     /\ page = "exchange" => Awaiting(ui.busy # "", {ui.busy})
     /\ page = "trace" => Awaiting(ui.panel.running, {"trace"})
     /\ page = "changes" => Awaiting(ui.busy # "", {ui.busy})
     /\ page = "review" => Awaiting(ui.busy # "", {"submit", "approve", "reject", "release", "cancel"})
     /\ page = "losses" => Awaiting(ui.imp # Nil /\ ui.imp.busy # "", {"preview", "apply", "delete"})
     /\ page = "flow" => Awaiting(ui.running, {"run"}) /\ Awaiting(ui.busy, {"feeder"})
     /\ page = "periodic" => Awaiting(ui.busy # "", {"open", "generate", "listed"}) /\ Awaiting(ui.view.saving, {"save"})
     /\ page = "loads" => Awaiting(ui.busy # "", {"open", "generate", "listed"}) /\ Awaiting(ui.ai # Nil /\ ui.ai.busy, {"ops"})
     /\ page = "events" => Awaiting(ui.busy # "", {ui.busy})
     /\ page = "assets" => Awaiting(ui.kids # Nil /\ ui.kids.loading, {"kids", "more"}) /\ Awaiting(ui.exporting, {"csv"})
     /\ page = "chat" => Awaiting(ui.busy, {"chat"})
     /\ page = "photos" => Awaiting(ui.busy, {"capture"})
     /\ page = "nearby" => Awaiting(ui.busy, {"nearby"})
     /\ page = "regions" => Awaiting(ui.busy, {"recompute"})
     /\ page = "load" => Load!BusyAwaited

\* The confirmation (lib/locales/id.ts, op.confirm_open) names the object that is opened.
OperatedAsNamed == page = "sld" => Diagrams!OperatedAsNamed

----------------------------------------------------------------------------
(* Values of the constants, for the runs *)

\* Answers on their way, what a user does, and changes from outside, per page (panels: exchange and trace; sld: its
\* layout too; info: list too; worker: update too; field: photos and nearby;
\* reports: periodic and loads).
CallsOf == [p \in {"gdb", "drawing", "layers", "selection", "normal", "panels", "changes", "review", "sld", "info", "losses",
                   "flow", "reports", "events", "assets", "offline", "worker", "chat", "field", "regions", "load"} |->
              IF p = "losses" THEN 4 ELSE IF p = "regions" THEN 3 ELSE 2]
TurnsOf == [p \in DOMAIN CallsOf |->
              IF p \in {"layers", "panels", "changes", "assets", "worker"} THEN 4
              ELSE IF p \in {"normal", "info", "losses", "flow", "reports", "offline", "chat", "field"} THEN 3 ELSE 2]
NewsOf == [p \in DOMAIN CallsOf |-> IF p = "worker" THEN 2 ELSE 1]

UlpOf == ("u" :> Nil) @@ ("v" :> Nil) @@ ("w" :> "u")
TypeOfMark == ("m1" :> "t1") @@ ("m2" :> "t2")
NormalFeeder == ("m1" :> "f1") @@ ("m2" :> "f1")
LiveFeeder == ("m1" :> "f1") @@ ("m2" :> "f2")

TooMany == {[layers |-> {"x", "y"}, area |-> "view"]}
\* Two neighbouring places, which share the tile of the zoom above.
Neighbours == {[box |-> [west |-> x, east |-> x, north |-> 0, south |-> 0], z |-> 0] : x \in {0, 1}}
KindOfReport == ("r1" :> "k") @@ ("r2" :> "g")
====
