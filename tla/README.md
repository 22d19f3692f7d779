# A formal model of quadranGIS

quadranGIS keeps the map of an electricity network: points (substations, switches, poles, customers) and lines, which
of them are supplied, who is without power and since when, and the changes that editors propose to the network.  This
directory holds TLA+ modules translated from `src/backend` and `src/frontend`, the configurations that check them with
TLC, and proofs checked by TLAPS.  `PROJECT.json` lists the runs, the mutants that show each property can fail, the
source lines every definition stands for, the disagreements found between code and documentation, the hazards and the
theorems.

Paths below are relative to `src/`.

## 1. Inventory

The server (`backend/internal`) keeps the network and the records of its operation; the web client (`frontend`) is a set
of pages that each keep their own state, send requests and take answers in whatever order they come, and that go on
working without network.

| Component | State | Operations | What is hard, and what makes it correct |
|---|---|---|---|
| Energy graph, `backend/internal/gis/graph.go` | nodes, edges, open positions, hop distances `dist`, normal-position distances `ndist`, energized flags, `gen`, `distDirty`, two timers; one `RWMutex` | `Load`, `Refresh` after an edit, `Maneuver`, `rebuild`, `computeGroups`, `RebuildDistances`, readers | Maneuvers update distances incrementally; long passes run in a read section and are installed in a later write section. Correct: distances and flags are those of a full pass; a result of an older graph never counts as current; the passes finally run. |
| Maneuvers and outages, `api/power_handlers.go`, `gis/power.go`, `api/ops_handlers.go`, `gis/flisr.go` | tables `gis_nodes`, `gis_edges`, `outages`, the maneuver log | `execManeuver`, `openContinuations`, start of the server | The graph changes first, then a chain of statements follows without a transaction. Correct: each dark customer is in exactly one active outage, ended outages are continued, tables follow the graph. |
| Changesets, `gis/changes.go`, `api/changes_handlers.go`, pages `changes/Changes.tsx` and `map/ChangesPanel.tsx` | package status, proposed operations with the version of their object | create, propose, remove, rebase, submit, review, cancel, release | Every check is a query of its own before the write. Correct: one release per approval, an operation applied at most once and never on an object that had changed, one open package per object; the fields edited are the package's. |
| Control room, `power/PowerMonitor.tsx`, `SOEPanel.tsx`, `OperateBox.tsx`, `lib/ws.ts` | tabs, lists, figures, selection, feed of events, overlay | socket events, polling, selecting, operating | The socket replays nothing; tabs stay mounted; the box outlives its element. Correct: no event is missing, a dialog names what it operates, the overlay is the shown tab's, the figures catch up. |
| Switching plans, reports of customers, fault analysis, AI analyses: tabs in `components/ops`, `ai/AiOpsPanel.tsx` | drafts, forms, results, streams | open, edit, save, execute; locate, isolate; report; ask | Late answers, other dispatchers, streams that are ended. Correct: what is saved, sent or drawn belongs to what stands on the screen. |
| Map editor, `components/map` | drawing, selection, settings of layers, trace, packages, previews | clicks that wait for snapping, select, edit, propose, filter, colour, check normal positions, import, export | Settings live in React state, in refs and in MapLibre; a selection changes while answers come. Correct: one click is one vertex, the form is the object's and goes to the package shown, the map draws what is set. |
| Single-line diagram, `sld/SLD.tsx`, `sld/layout.ts`, `gis/sld.go` | scope, diagram, shifts, overlay, object selected; reads the graph, may fill `ndist` | build, shift, save, select, operate | Builds overtake one another; the builder fills a cache after reading the graph twice. Correct: shifts belong to the diagram, elements are drawn apart, what is cached is the present normal topology. |
| Geodatabase import, `admin/GdbImport.tsx`, `gdbimport` | one job, staging tables | upload, compare, apply, cancel | Commands name no job; several administrators. Correct: nothing is applied that was not compared and approved. |
| Infographic and executive pages, `components/exec` | report, map, popups, lists, regions, summaries | choose, reload, page, write | Unguarded answers. Correct: map, popup, rows and summary are of what they name. |
| Load studies, `components/load`, power flow, assets, log of switch commands | lists, details, imports of bills | filter, page, open, import, compute | The same, with lists that grow in both directions. |
| Field outbox, `lib/outbox.ts`, `components/field` | queue in IndexedDB; reports and photos by `client_id` | enqueue, flush, direct send | Lossy network, tabs, sessions, partial success. Correct: nothing told to be kept is lost, a photo follows its report, the queue drains. |
| Offline areas, service worker, updates: `lib/offlineArea.ts`, `public/sw.js`, `pwa/PwaProvider.tsx` | list of areas, caches, versions | save, delete, fetch, install, take | Tiles shared by areas, stores beside answers, several tabs. Correct: listed areas can be drawn, an old answer says so, a page reloads only under a version somebody took. |
| Assistant, `ai/AiAssistant.tsx` | conversation, history | ask, stop, clear | A stream ended in the middle. Correct: the words under a question answer it. |
| Meter ingest, topology editor, feeder overrides, billing, FLISR search, authentication, realtime hub, tile cache, administration | tables and streams | statements, computations | Not modelled, see section 6. |

How they interact: a handler edits or proposes (`features.go`, `changes.go`), commits, and calls `afterEdit`, which
refreshes the graph and arms its timers; `execManeuver` is reached from the map, the diagram, plan steps and Kafka,
changes the graph under its lock, then writes the tables the other components read and announces the change on the
WebSocket, which makes pages read again; after a restart the graph is loaded from those tables.  The pages share
nothing but the server; the tabs of one browser share IndexedDB, `localStorage`, the caches and one service worker.

## 2. What is modelled

### EnergyGraph
`EnergyGraph.tla` is the graph itself: one action per critical section of `Graph.mu`.  The positions are `nodeOpen`,
`edgeOpen` and `openWays`; `dist` is a function on the supplied nodes.  `Cone`, `Reseed`, `Relax` and `ApplyEnergy`
follow `reseedConeLocked`, `relaxFromLocked` and `applyEnergyLocked`, and `OpenNode`, `CloseNode`, `OpenLine`,
`CloseLine`, `OpenWay`, `CloseWay` the branches of `Maneuver`.  `Bfs` is the full pass of `bfsLocked`, and the reference
definition `Supplied` says what supply means without any algorithm.

### GraphConcurrency
`GraphConcurrency.tla` interleaves those critical sections: request goroutines, timer goroutines, reloads and the
diagram builder.  Distances are abstracted to the network they were computed for; `EnergyGraph` justifies that a maneuver
on clean distances moves exactly its own switch in them.  Go maps are references, so the variable `alias` records who
holds the very map that `Graph.dist` is.  `Excused` names the two ways in which the code is known to accept an outdated
result (retries exhausted, reload without a new generation); the properties are stated with that proviso and again
without it, as the comments of the code promise.

### ManeuverOutages
`ManeuverOutages.tla` is `execManeuver` statement by statement: the graph, `NodeInfo`, `SetSwitchState`,
`ApplyEnergized`, `InsertManeuver`, `OpenOutage`, `CloseOutages`, `ActiveOutagesTouching`, `CloseOutageIDs` and
`openContinuations`, with a failing statement and a restart between any two.  A restart loads the graph and stores the
flags anew (`main.go:91`); that statement may fail as well, and may have stored a part, and the server serves all the same.
Whole sections of customers stand for customers, and `Paths` says which open elements darken a section.

### Changesets
`Changesets.tla` has every request on a package.  A request is two steps: what it reads and checks (`Propose`,
`RemoveItem`, `Rebase`, `Decide`, `Release`) and what it writes (`Write`, `MergeWrite`, `Replace`, `Discard`, `Resync`,
`SetStatus`, `Guard`), so that any other request fits between them; a release goes on item by item (`Apply`, `Mark`).
`ver` stands for `updated_at`.  The editor's transaction is reduced to the objects it rewrites or deletes (`Edit`).
`Interrupt` ends a request anywhere: its statements run under the context of the HTTP request.

### FieldOutbox and FieldLedger
`FieldOutbox.tla` takes every `await` of `outbox.ts`, of the report form, of the photo capture and of the provider apart:
forms, flushes, sessions and requests of several tabs interleave.  A request may be carried out although its sender has
given up, refused, or lost; the server is external and recognises a `client_id`.  A photo may not be compressible
(`Compressed`, `CaptureCompressed`) and IndexedDB may refuse a write (`QueueFailed`, `FlushBreaks`).  A photo of a report
that cannot be compressed is left out, and the page says "sent" or "queued" all the same (`Field.tsx:258`, `272`, `281`):
the program loses it without a word.  `skipped` holds those photos, and `NothingLost` speaks of all others only.
`FieldLedger.tla` is what the page promises for a report: once queued it is in the queue, on the server, or deleted by the
user.  `FieldOutbox` implements it (`Ledger == INSTANCE FieldLedger WITH ...`, checked as `LedgerSpec` and proved as
`ImplementsLedger`).

### The pages
`Screen.tla` is what all pages share: the state `ui`, the requests on their way `calls`, and `world`, what is outside
(the server, other users, the counters of the bounds).  An answer may come at any time and in any order, or fail; only a
guard in the page's code (`alive`, a key, an abort, a comparison) makes a late answer harmless, and that guard is in the
action that takes the answer.  Each page is a module over these three variables with one action per handler, effect or
answer; `Got(c)` consumes an answer, `Send` adds a request, `Turn` spends one of the user's turns.

`ControlRoom.tla` composes the pages of the control room, `Workspace.tla` all others, by namespaced instances that share
`ui`, `calls` and `world`; `page` says whose behaviour it is.  `Editor.tla` holds the instances of the editing pages, the
diagram, the reports and the assistant, and `Workspace` extends it, so that their proofs can stand in two modules.  A page is left by closing it, which is an action of
those pages whose requests outlive them.

| Module | Source | State and actions |
|---|---|---|
| `PowerMonitor` | `power/PowerMonitor.tsx` | tabs, lists by filter, summary by version, overlays by tab; socket, 600 ms reload, polling |
| `SoeFeed` | `power/SOEPanel.tsx`, `lib/ws.ts` | rows, buffer while paused, `lastId`; `onopen` asks for what was missed |
| `Operate` | `PowerMonitor.tsx`, `OperateBox.tsx` | element shown, category, dialog; select, operate, several ways |
| `SwitchingPlans` | `ops/PlansTab.tsx`, `ops/FlisrTab.tsx`, `gis/ops.go` | draft, stored plans, dialogs; a plan handed over by the FLISR tab (`openId`); other dispatchers |
| `FaultAnalysis`, `ReportsTab`, `AiOps` | `ops/*.tsx`, `ai/AiOpsPanel.tsx` | result and overlay; form and customer; target and streams |
| `MapDrawing` | `map/MapCanvas.tsx`, `MapWorkspace.tsx` | vertices, snaps on their way, handles, keys, undo |
| `MapSelection` | `MapWorkspace.tsx`, `FeaturePanel.tsx`, `SearchBox.tsx` | object, form, package shown, package of edits |
| `MapLayers` | `MapCanvas.tsx`, `LayerPanel.tsx`, `FeederFilter.tsx`, `FeederColoring.tsx`, `useOffMarkers.tsx`, `BoundaryOverlay.tsx` | settings, refs, what the map was given |
| `NormalPositions`, `MapPanels` | panels of normal positions, exchange, trace | list and checks; preview and file; seed and result |
| `ChangesPanel`, `Review` | `map/ChangesPanel.tsx`, `changes/Changes.tsx` | fields of a package; list, detail, commands by status and role, checked in one step and written in another |
| `Sld` | `sld/SLD.tsx`, `sld/layout.ts` | scope, diagram, shifts, selection; positions computed from any small forest |
| `GdbImport` | `admin/GdbImport.tsx`, `gdbimport.go` | page and job; other administrators, faults, restart |
| `Infographic` | `exec/Infographic.tsx`, `InfographicMap.tsx` | report, mark of changes, map, popup; page, search, size |
| `Regions` | `exec/RegionReliability.tsx` | region, level, classes |
| `ReportPages` | `exec/PeriodicReports.tsx`, `load/Reports.tsx` | list by kind, report, summary; stream of the assistant |
| `CustomerLosses`, `LoadPage` | `load/*.tsx` | month, detail, import; tabs with entity, parameters, details and notes |
| `PowerFlow`, `Assets`, `SwitchEvents` | their pages | run and detail on the map; rows in two directions; log by result |
| `FieldPage` | `field/AssetPhotos.tsx`, `field/Field.tsx` | photos and note of an object, in the panel or in a row of the list; position, radius, group |
| `OfflineArea` | `lib/offlineArea.ts`, `OfflineAreaButton.tsx` | areas on the list, tiles in the cache, workers of one download |
| `ServiceWorker` | `public/sw.js`, `PwaProvider.tsx`, `MobileShell.tsx` | one resource of each kind, cache, stores on their way, session; installing, waiting and active worker, shells, tabs |
| `AiChat` | `ai/AiAssistant.tsx` | messages, stream, history, provider |

A module whose constants are networks or functions ends with a section of values that its configuration names. An
operator whose name has an underscore (`Cone_Shallow`) is a mutated form of the definition after it, used to show that a
property can fail; it is not part of the model.

## 3. What the runs show

| Run | Question | Result and bounds |
|---|---|---|
| `energy_graph` | Are incrementally maintained distances and flags those of a full pass? | Holds on 22,590 states. Five nodes: two sources, a switch, a three-way switch, a customer; a loop, a tie, and an edit that removes the loop and moves the tie. No bound on the number of steps. A loop through a cone, a cone fed from two sides, and a way opened under a switch all occur. |
| `graph_safety` | Does an outdated result ever count as current? | Holds but for the recorded overtakings, on 1.6 million states: two handlers, a timer, one retry, two maneuvers, an edit and a reload. One retry shows both outcomes of the check; two maneuvers overtake one pass twice. |
| `graph_liveness` | Do dirty distances become clean, and are the groups stored again? | Holds under the fairness below on 0.36 million states, with two timers so that a timer may fire during a pass, and two edits, the second of which may re-arm a timer that runs or has fired. |
| `maneuver_one` | Do outages and tables follow the network with one operator? | Holds on 1.6 million states: two sections with a tie, six maneuvers, a failing statement, two restarts, of which one may fail to store the flags. Six maneuvers suffice for two outages, restoration through the tie, a continuation of a continuation and its end. |
| `maneuver_two` | Does closing an element end its outage with two operators? | No: the close may look before the open has inserted (`power_handlers.go:433`). |
| `changes` | Approvals, single application, conflicts, locks with two packages on one object | Holds on 1.3 million states: two requests at once, two items, six requests, one maneuver, one interruption. Six requests are enough to propose, submit, approve and release while another request rejects, resubmits or rebases. |
| `changes_interrupted` | Has a released package been replayed? | No: a release that breaks off leaves operations that nothing can replay (`changes.go:1000`). |
| `field_outbox` | Is a report that was queued ever lost, and does the queue drain? | But for photos of a report that cannot be compressed nothing is lost, photos follow their report, the ledger is implemented, and with fairness the queue drains: 126,152 states, one tab, a report with a photo, a photo of an element, two faults. |
| `field_tabs` | The same with two tabs and two users sharing queue and session | Holds with the same exception, on 0.73 million states; one report with a photo, two faults. Both tabs flush the same queue. |
| `control_room` | Is what is sent, operated, drawn and analysed what the screen names? | Holds on 1.5 million states over seven pages with two requests on their way each, two plans, and a switch, a node and a line that all have the same number; a maneuver meant for the node may reach the line, which the property leaves out. The figures catch up under the fairness below. |
| `workspace` | Is what is edited, drawn, listed and commanded what the page says? | Holds on 2.9 million states over twenty-seven pages; and nothing that shows a spinner or is disabled for a request waits for one that is not on its way (`WaitsForAnswer`). |
| `sld_operate` | Is the object that the dialog names the one operated? | No: the dialog names the last answer, the request the last click (`SLD.tsx:316`). |

Deadlock is not checked: a bounded model stops when its requests are used up, and a server without requests rests.

Bounds are constants with a name and appear only in guards: `MaxGen`, `MaxVer`, `MaxLoads`, `MaxManeuvers`, `MaxFaults`,
`MaxCrashes`, `MaxItems`, `MaxTouches`, `MaxRequests`, `MaxInterrupts` on the server; `MaxCalls` (requests of a page on
their way), `MaxTurns` (what the user does), `MaxNews` (changes of the world) and the few of single pages for the client.
Two requests on their way are what one answer needs to overtake another; three or four are given to pages where one
step sends several.  Two objects, packages, reports or filters are what it takes to mix one up with another, and three or
four turns are a first choice, a second one, and an edit between or after their answers.  One object is enough for
drawing (`Reshaped`), where clicks, not objects, could be mixed up.  Symmetry is used for goroutines
and packages, in runs without liveness properties, and for the two plans of `control_room`: they occur on one page, the
liveness property of that run speaks of another, and a behaviour never changes its page.

Fairness: `GraphConcurrency!FairSpec` assumes weak fairness of `Step` for each goroutine.  The Go scheduler runs every
runnable goroutine, `RWMutex` does not starve a waiting one, and an armed `time.AfterFunc` fires; no step waits for
another request.  Requests themselves are not assumed to arrive, and no statement is assumed to succeed where a module
models failures.

`FieldOutbox!FairSpec` assumes that a tab takes its next step (an awaited promise is settled, a timer of the provider
fires again), that the network comes back and that requests are then answered; faults are finitely many, by their bound.
`ControlRoom!LiveSpec` assumes that the polling interval fires as long as the page is open and that a request for the
summary or the configuration is answered or fails; the socket may be down for ever.  The pages of `Workspace` have no
fairness: `WaitsForAnswer` is the part of "does not wait for ever" that is theirs, the rest is up to the server.

### Reading the properties of Changesets
`AppliedOnce` and `LockHeld` name what the code does not exclude: a status written over another than the one its request
checked (`overwritten`) and two proposals written past each other's lock check (`clash`). `NoStaleApply` leaves out
items that were written across an approval their request had not seen (`late`). Without those provisos the properties
fail; with them they say that nothing else, such as rejection, resubmission, rebasing or interruption, breaks the
promise. `ReleaseUsesApproval` needs no proviso, because the release repeats its check in the statement that writes.

## 4. What is proved

`GraphConcurrency_proofs.tla`, for any number of goroutines, timers, objects, switches and retries:

- `TypeCorrect`: `Spec => []TypeOK`.
- `Freshness`: the inductive invariant. `DistCurrent` alone is not inductive: a commit is right only if the map the
  goroutine carries still fits, so the invariant adds what a goroutine noted (`Noted`: the noted generation and number of
  reloads never exceed the present ones), who may hold the map of `Graph.dist` (`Private`), what a carried map is worth
  while nothing has overtaken it (`Carried`), and the two conclusions for `dist` and `ndist`.
- `DistancesCurrent`, `NormalDistancesCurrent`: its consequences `DistCurrent` and `NormalCurrent`.
- `ManeuverLeavesNormal`: the action property `ManeuverKeepsNormal`, from `Private`.

`EnergyGraph_proofs.tla`, for every finite network, every set of alternative topologies and any number of steps:

- `TypeCorrect`, `DistancesExact`, `FlagsOfNodes`, `FlagsOfLines`, `NormalShortcut`: the invariants `TypeOK`, `DistExact`,
  `EnergizedIffSupplied`, `LinesFollowEnds`, `NormalDistWithoutCuts`; `OnlyOneDirection`: the action property `OneDirection`.

`DistExact` compares the stored distances with a full pass, and neither is easy to reason about: both are computed in
rounds.  The proof characterises the right distances without rounds.  A labelling is `Exact` when the labelled nodes with
label 0 are the closed sources, every other labelled node is fed by one that is one nearer, and what a labelled node feeds is
labelled, at most one more.  Two exact labellings of one network are equal (`ExactUnique`: take a node of least label where they
differ), so it suffices that each algorithm ends in an exact one.  `BfsExact` shows it of the full pass, `ReseedExact` of the
opening of an element (the cone that hung from it is forgotten and labelled again from its border), and `RelaxExact` of
the closing (shorter labels spread from the ends).  What the three rely on, that the roots or seeds a maneuver chooses are
enough, is one lemma per maneuver: a switch, a line, a way.  The inductive invariant is `Typed` and, while the distances
are not dirty, `InStep`: distances exact for the present positions, node flags the labelled nodes, line flags the closed
lines between them.  The functions over rounds are recursive functions on `Nat`; induction over the rounds is carried out by
taking a least counterexample, so that no theorem with an operator parameter is needed.  `FlagsOfNodes` then compares with
`Supplied`, the definition by sets closed under closed elements.

`ManeuverOutages_proofs.tla`, for every network of sections and paths and any bounds:

- `TypeCorrect`: `Spec => []TypeOK`, and `ContinuationsNested`: `Spec => []ContinuationAfterParent`, for any number of
  operators.
- `StoredAsHeld`, `OutagesDark`: `StoredInSync` and `ActiveOutagesDark`, with one operator.
- `CoveredOnce`: `DarkCoveredOnce`, with one operator and a network in which only switches are opened (`OnlySwitches`).

The hypotheses are those under which the code keeps the promise.  With two operators a close may look for outages before
the open has inserted its own, and the outage stays open for ever: that is the run `maneuver_two`.  A cut line is no isolator
for `flisr.go:650`, so what it keeps dark gets no continuation (`DarkCovered`, section 5).  Otherwise three facts are
carried through the statements of a maneuver: `Synced`, the tables differ from the graph at most by what the running maneuver
has still to write; `Within`, an active outage holds nothing that is lit, except what the running close has still to
end; `Covered`, what is dark is held by just one active outage, except what the running open has not yet recorded or
the running close has ended and not yet continued.  For any operators, `Typed` adds to `TypeOK` what a later statement
relies on: a continuation points at an older outage that ended, and its sections lie within it.

`Changesets_proofs.tla`, for any number of packages, objects, requests and items:

- `TypeCorrect`: `Spec => []TypeOK`.
- `AppliedAtMostOnce`: `Spec => []AppliedOnce`; `ConflictsSeen`: `Spec => []NoStaleApply`; `LocksKept`: `Spec => []LockHeld`.
- `ApprovalSpent`: `Spec => []ReleaseUsesApproval`.

A request writes on the strength of what it read, so the invariant `IInv` says of each session what its reading is still
worth.  `Read`: the item it means to change belongs to its package, a version it noted is no newer than the object, and
if its package is approved by now, it noted fewer approvals.  `Fresh`: the versions a release found when it looked for
conflicts are no newer than the bases of the items it still has to replay, late ones apart; and a request that may yet add an
item to that package will add a late one or one with a base as new.  `Once`: a package nobody overwrote is replayed by one
session, none of its items ran before the release, and of those still to do only the one to be marked has.  `Locks`: an
item is applied or failed only in a package that is released or overwritten, so no open package regains a pending item
without passing the check.  For `ApprovalSpent` it is enough that an approved package has one approval more than releases
(`Ledger`): only the decision that writes "approved" adds an approval, and only the guarded statement adds a release, taking
the status away as it does.

`FieldOutbox_proofs.tla`, for any number of tabs, users, reports, photos and faults:

- `TypeCorrect`: `Spec => []TypeOK`.
- `NeverLost`: `Spec => []NothingLost`, what the page called sent or queued is on the server, queued, or was deleted,
  each photo of a report too unless it could not be compressed.
- `ReportFirst`: `Spec => []PhotoAfterReport`.
- `ImplementsLedger`: `Spec => LedgerSpec`, the refinement.

All four rest on one inductive invariant, `IInv`.  `NothingLost` alone is not inductive, since a form says "queued" only
after several awaited steps, and a flush removes an item on the strength of an answer; so `IInv` adds what each of them may
rely on in between.  `Forms`: a form whose photos are being queued has its report kept and those already done kept too.
`Flushes`: everything a flush still has to send is kept, and is on the server when it is about to be removed.  `Requests`:
what was answered with success is stored, and a photo on its way has its report stored.  `Awaited`: a tab waits for at most
one request of its form and one of its flush, and it is the one the form or the flush is at, so that an answer is about the
item its sender thinks of; requests that were given up are free of this and may still be carried out.  `Stored`: a photo in
the queue waits for its report or has it on the server.  Because nothing the invariant relies on is ever forgotten
(`Grows`), what holds of one tab survives the steps of the others, and one lemma per action treats the tab that acts.  For
the refinement, each step of `Next` moves one report as the ledger allows (`Moves`) or none (`Same`); `IInv` is needed where
a request is carried out or a report is queued.

`ControlRoom_proofs.tla`, for any number of events, elements, plans, outages, customers, targets, tabs and requests on
their way, and any bounds:

- `FeedListsAll`: `Spec => []FeedComplete`; `AnalysisOfTarget`: `Spec => []AnalysisAsked`; `TabOwnsOverlay`:
  `Spec => []OverlayOfTab`.
- `ShownIsSent`: `Spec => []SentAsShown`.

A behaviour is one of one page, so there is one invariant per page (`PagesInv` and `OperateInv`) and one lemma that its
steps keep it.  The longest is that of the feed.  `FeedComplete` speaks of the moments at which the socket is up and
nothing is on its way; the invariant says what holds before.  `Socket`: the socket carries the last events there are, without a
gap, and nothing while it is down.  `Known`: an event above `lastId` is on the socket, or the socket is down and `onopen`
will ask for it, or an answer to `after` on its way includes it.  `Complete`: an event above the rows loaded that matches
the filter is listed or held back, or asked for, or newer than `lastId` and coming.  An answer to `after` may then raise
`lastId` only as far as it listed, a page that replaces the rows moves `floor`, and `resume` puts back what is held
(`OnlyRange`: what a filter leaves of a sequence; `PageIs`: what a page of the server contains).  For the analyses, what is
written in the panel and what streams is about `CurKey`, the target in the selectors: a target that comes back under
another number of the panel gets an empty panel (`ShownKeeps`).  For the maneuvers, the dialog over a category is that of
the element shown (`Named`), and a request to open says for what the dialog was confirmed (`Says`).

Nodes and lines are numbered apart, so a node and a line may share a number, and `ControlRoom.cfg` has that case.  The box
is reset when the number of the element changes or what makes it a switch (`OperateBox.tsx:65`), not when a node that is no
switch gives way to a line: the line inherits the category and the open dialog, and the maneuver goes to it although the
dialog names the node.  `Alike` says which elements the box cannot tell apart in this way, and `SentAsShown` lets a
maneuver reach one that is `Alike` the one named; that the code has this slip is `Operate!DialogNamesTarget` (section 5).

`Editor_proofs.tla` and `Workspace_proofs.tla`, for any number of objects, packages, feeders, reports, questions, areas, tabs
and so on, any number of requests on their way and any bounds:

- `ScreenIsEdited`: `Spec => []EditedAsShown`; `MapDrawsPage`: `Spec => []DrawnAsSet`; `AnswersAreShown`:
  `Spec => []ShownAsAsked`; `CommandsKeepOrder`: `Spec => []CommandsInOrder`; `WaitingIsAnswered`: `Spec => []WaitsForAnswer`.

Again there is one invariant per page, `PagesInv` puts them together (the layout of diagrams has none), and one lemma per
handler, effect and answer shows that it keeps its page's.  What an invariant adds is what a late answer relies on: which object, list or
question the answer still awaited is for, and that whatever made it outdated has also marked it so.  Some examples.
`DrawingInv`: a click is a vertex, or its snap is on its way, or it is in the one edit that is, and no click is two of these.
`LayersInv`: the refs equal the settings, before the map is ready as after it, and each layer was given what they say.
`SelInv`: object, mark and form are one, and an edit on its way goes to a package of the user or to none.
`DiagramInv`: shifts are of the diagram shown or of none.  `ListInv`: the answer still awaited is the one to the list's
present key, which is why its rows are.  `OfflineInv`: while no two changes of the list are beside each other, a deletion
is alone and takes no tile that an area left on the list needs.  `WorkerInv`: what the server gave to a question is no older than the
question.  `UpdateInv`: a version that takes over was taken by a user, or every tab is served by it already.  `GdbInv`: a job that
applies, or has applied, was compared and approved under its own number.  `Settled`, for packages: while a package is over
and settled, no command for it is between its check and its write, so the next one is checked against a status that is over.
For `WaitsForAnswer` each page says which request its spinner belongs to; a request that was given up is told
apart by its mark (`alive`, `closed`, `gone`), so the one awaited is another.

Of the constants the proofs need that `Nil` is not a set of objects, a way to paint the map, or a key of a list, and
that the largest value of a region is a number (`ObjectsAssumption`, `PaintAssumption`, `ListAssumption`,
`BoundsAssumption`): JavaScript's `null` is none of them either.

The assumptions are those named in the modules: nodes, sections and the other sets that are counted are finite, sets
of goroutines are disjoint, switches are objects, bounds are natural numbers, `None` and `NoOne` are not values, a
report's item is not a photo's, `Nil` is none of the values it stands beside, a line has no ways, a page of events has
room for one. TLC evaluates each on the constants of the runs. Each inductive invariant was checked by TLC on the
run's instance before it was proved.

Only model-checked: `ApartOnPaper`, since rows and columns of a diagram are recursive functions over a forest and would
need induction over data, which the provers here cannot do; the runs that show a violation; and what holds under
fairness such as `QueueDrains`, `DirtyClears` or the figures of the control room that catch up, since TLAPS has no ENABLED.

## 5. Disagreements found

Shown by runs, with source lines in `PROJECT.json`: the outage that stays open (`maneuver_two`), the package released
without its operations (`changes_interrupted`), the dialog that names another object (`sld_operate`).

Stated in the modules and found not to hold by separate TLC runs, but not part of the regular ones.  In the server:

- `EnergyGraph!NormalDistExact`: the shortcut `graph.go:745` looks at switches only, a cut substation is not one.
- `GraphConcurrency!OldNeverOverwrites`: after three retries an overtaken result is committed as clean (`graph.go:680`).
- `GraphConcurrency!NormalUntouched`: `computeGroups` shares `Graph.dist` between its two sections (`graph.go:747`).
- `ManeuverOutages!DarkCovered`: customers behind a cut line get no continuation (`flisr.go:650`).

In the client, all of the same two kinds, an answer taken without asking what it is for, or state that outlives its
object:

- `GdbImport!AppliedAsReviewed`, `CancelledUnchanged`: apply and cancel act on whatever job the server has by then.
- `MapSelection!ProposalKept`: a realtime reload without the package clears a proposed object that is selected.
- `MapLayers!LabelsAsSet`: labels do not follow every setting (`README.md:1300`).
- `MapPanels!AppliedAsPreviewed`: the file applied is the last one read, the preview the last one answered.
- `Infographic!PopupOfFilter`: a popup keeps the filter of its click.
- `ReportPages!SummaryOfReport`: the panel is not reset for another report, two streams add to one text.
- `Operate!DialogNamesTarget`, when a node that is no switch and a line have the same number (`OperateBox.tsx:65`).
- `SwitchingPlans!ConfirmedStep`, `AiOps!StartsOnce`: the dialog keeps the step of another plan; a panel mounted again
  starts again.
- `AiChat!ConversationKept`: a question still being answered is lost when the page is left (`README.md:1269`).
- `FieldPage!PhotosOfObject`, `NoteOfObject`: in the panel, photos and note of an object stay under the next.
- `FieldPage!ListOfFilter`, `ListAwaited`: a list read without network counts as the present one (`Field.tsx:163`).
- `Regions!TotalsOfPeriod`, `LoadPage!FiguresOfChoice`: totals and figures of an earlier choice.
- `LoadPage!PickedOfLevel`: the picker offers the list of the level before until the next is read (`load/common.tsx:94`).
- `OfflineArea!AreasKept`: deleting an area writes back a list read before another was saved (`offlineArea.ts:139`).
- `ServiceWorker!NeverOlder`, `GoneAfterLogout`; `ShellOfActive`, `Offered`: an older store finishes last, a
  store finishes after logout, the worker that activates deletes the shell of the one installing (`sw.js:32`), a tab
  opened during an install never offers it.
- `FieldOutbox!PhotoStoredOnce`: photos of a direct report that are queued again are stored twice (`Field.tsx:283`).
- `FieldOutbox!NothingLost` without its exception: a photo that cannot be compressed is skipped (`Field.tsx:258`).
- `Review!StaysOver` without its proviso: a decision checked before a release overwrites it (`changes.go:886`, `915`, `928`).

The passing properties about the same pages name what holds nevertheless; where a property has a proviso, its comment
says which of these it leaves out.

## 6. Not modelled

- The stubs of ties in a diagram (`layout.ts:242-261`): `ApartOnPaper` is about elements and sections.
- In `graph.go`: trace, summaries, validation and zone assignment, which read or aggregate; feeder membership appears only
  as the network it was computed for.
- Isolators are taken from open nodes only; `StillOffByIsolator` caches the isolator of a dark open switch under its own
  id, so what hangs below may be booked to the next switch up. It changes which record holds a customer, not whether one
  does.
- In `changes.go`: previews, titles, logs and the bodies of operations; operations of one package that destroy each
  other's targets are in the module (`Near`, `Edit`) but no regular run has a junction with its lines.
- Database errors inside a transaction roll it back and are an interrupted or failed step.
- Of the pages: rendering, formatting, charts, printing, keyboard shortcuts, zoom, permissions that only hide a control.
  A page that is one form over one request (units, types, points, users, settings) is not modelled; nor are the executive
  dashboard and the pages that only show a list.
- `lib/locales`, `components/docs/content.tsx`, `load/i18n.ts` and `mapStyle.ts` are data; `Icon`, `ui` and types have
  no state of their own.
- Meter ingest, billing, losses, power flow: floating-point arithmetic, mostly in SQL. The topology editor and the
  comparison of a geodatabase are SQL over geometry. Authentication is hashes and signatures.
- The consumers of Kafka, the hub and the tile cache: best effort, their clients read again.

