---- MODULE OfflineArea ----
(***************************************************************************)
(* Areas of the map saved on the device (src/frontend/lib/offlineArea.ts)  *)
(* from the map (components/field/OfflineAreaButton.tsx) and from the      *)
(* field page (Areas of components/field/Field.tsx).  The list of areas is *)
(* in localStorage, their tiles in one cache that the areas share.         *)
(***************************************************************************)
EXTENDS Screen

CONSTANTS
  Views,     \* what the map may show: a box in tiles of the deepest zoom, and a zoom
  Deepest,   \* the deepest zoom saved (18 from the map, 17 from the field page)
  MaxTiles,  \* mobile.offline_max_tiles
  Workers,   \* bound: tiles fetched at once by a download (six)
  MaxTurns   \* bound: what the user does

Extras == 0..1  \* further zooms (0 to 4)

\* Column and row of a place at zoom z.
TileAt(p, z) == p \div 2 ^ (Deepest - z)
tilesFor(b, zmin, zmax) ==
  UNION {{z} \X (TileAt(b.west, z)..TileAt(b.east, z)) \X (TileAt(b.north, z)..TileAt(b.south, z)) : z \in zmin..zmax}
Deep(z) == IF z > Deepest THEN Deepest ELSE z

Ids(S) == {a.id : a \in S}

\* A page entered: the map, or the field page with the list of areas.
Entered(p) ==
  [page |-> p, visit |-> world.turns, open |-> FALSE, view |-> Nil, extra |-> 0, ctrl |-> Nil,
   areas |-> IF p = "field" THEN Ids(world.areas) ELSE {}]

Init ==
  /\ world = [areas |-> {}, cache |-> {}, saved |-> {}, gone |-> {}, beside |-> FALSE, turns |-> 0]
  /\ calls = {}
  /\ \E p \in {"map", "field"} : ui = Entered(p)

Turn(id) ==
  /\ world.turns < MaxTurns
  /\ world' = [world EXCEPT !.turns = @ + 1,
                 \* history: deletions begun, and whether one ran beside something else
                 !.gone = @ \cup id,
                 !.beside = @ \/ (calls # {} /\ (id # {} \/ \E c \in calls : c.op = "delete"))]
Turned == Turn({})

\* A download or a deletion goes one step further.
Step(c, d) == calls' = (calls \ {c}) \cup {d}

----------------------------------------------------------------------------
(* The page *)

\* Downloads and deletions go on when the page is left, but nobody hears of their end.
Visit == \E p \in {"map", "field"} : Turned /\ ui' = Entered(p) /\ UNCHANGED calls

\* The browser loads the page again: what was going on is cut off.
Reload == Turned /\ calls' = {} /\ ui' = Entered(ui.page)

OpenDialog ==
  \E v \in Views :
    /\ ui.page = "map" /\ ~ui.open
    /\ Turned /\ ui' = [ui EXCEPT !.open = TRUE, !.view = v] /\ UNCHANGED calls
SetExtra == \E n \in Extras \ {ui.extra} : ui.open /\ Turned /\ ui' = [ui EXCEPT !.extra = n] /\ UNCHANGED calls

Download(tiles) ==
  /\ Cardinality(tiles) <= MaxTiles
  /\ Turned
  /\ Send([op |-> "download", id |-> world.turns + 1, visit |-> ui.visit, page |-> ui.page, left |-> tiles, fetching |-> {},
           storing |-> {}, urls |-> {}, aborted |-> FALSE])

\* The buttons stay enabled while a download runs: their own "disabled" stands over
\* "loading".
start ==
  /\ ui.open
  /\ Download(tilesFor(ui.view.box, ui.view.z, Deep(ui.view.z + ui.extra)))
  /\ ui' = [ui EXCEPT !.ctrl = world.turns + 1]
save == \E v \in Views : ui.page = "field" /\ Download(tilesFor(v.box, 0, Deepest)) /\ UNCHANGED ui

\* Closing the dialog stops the download begun last.
CloseDialog ==
  /\ ui.open
  /\ Turned
  /\ ui' = [ui EXCEPT !.open = FALSE]
  /\ calls' = {IF c.op = "download" /\ c.id = ui.ctrl THEN [c EXCEPT !.aborted = TRUE] ELSE c : c \in calls}

----------------------------------------------------------------------------
(* downloadArea *)

\* A worker takes the next tile.
Fetch ==
  \E c \in calls :
    /\ c.op = "download"
    /\ ~c.aborted /\ Cardinality(c.fetching \cup c.storing) < Workers
    /\ \E t \in c.left : Step(c, [c EXCEPT !.left = @ \ {t}, !.fetching = @ \cup {t}])
    /\ UNCHANGED <<ui, world>>

\* The tile arrives, or is passed over.
Fetched ==
  \E c \in calls :
    /\ c.op = "download"
    /\ ~c.aborted
    /\ \E t \in c.fetching : \/ Step(c, [c EXCEPT !.fetching = @ \ {t}, !.storing = @ \cup {t}])
                             \/ Step(c, [c EXCEPT !.fetching = @ \ {t}])
    /\ UNCHANGED <<ui, world>>

\* Its file is in the cache, or the device has no room for it.
Stored ==
  \E c \in calls :
    /\ c.op = "download"
    /\ \E t \in c.storing : \/ /\ Step(c, [c EXCEPT !.storing = @ \ {t}, !.urls = @ \cup {t}])
                               /\ world' = [world EXCEPT !.cache = @ \cup {t}]
                            \/ Step(c, [c EXCEPT !.storing = @ \ {t}]) /\ UNCHANGED world
    /\ UNCHANGED ui

\* The dialog, or the card, hears that the download is over; the card lists the areas.
Over(c, w, shut) ==
  IF c.visit # ui.visit THEN UNCHANGED ui
  ELSE IF c.page = "map" THEN ui' = [ui EXCEPT !.ctrl = Nil, !.open = @ /\ ~shut]
  ELSE ui' = [ui EXCEPT !.areas = Ids(w.areas)]

\* One worker meets the signal; those that are storing a tile finish that.
Aborted ==
  \E c \in calls :
    /\ c.op = "download"
    /\ c.aborted /\ c.left \cup c.fetching # {}
    /\ calls' = (calls \ {c}) \cup {[op |-> "stray", storing |-> S] : S \in {c.storing} \ {{}}}
    /\ Over(c, world, FALSE)
    /\ UNCHANGED world
StrayStored ==
  \E c \in calls :
    /\ c.op = "stray"
    /\ Got(c) /\ UNCHANGED ui
    /\ \E S \in SUBSET c.storing : world' = [world EXCEPT !.cache = @ \cup S]

\* mutant: The list read when the download began is written back.
Listed_Early(c) == [world EXCEPT !.areas = {[id |-> c.id, tiles |-> c.urls]}, !.saved = @ \cup {c.id}]

\* The area joins the list as it is now.
Listed(c) == [world EXCEPT !.areas = @ \cup {[id |-> c.id, tiles |-> c.urls]}, !.saved = @ \cup {c.id}]

\* All workers ran out of tiles.  A full localStorage keeps the old list and says nothing.
Downloaded ==
  \E c \in calls :
    /\ c.op = "download"
    /\ c.left \cup c.fetching \cup c.storing = {}
    /\ Got(c)
    /\ \E w \in {Listed(c), world} : world' = w /\ Over(c, w, TRUE)

----------------------------------------------------------------------------
(* deleteArea *)

\* mutant: Tiles of other areas go too.
Unused_All(a, rest) == a.tiles

\* Tiles that another area of the list uses are kept.
Unused(a, rest) == a.tiles \ UNION {r.tiles : r \in rest}

\* The bin beside an area of the card.
Delete ==
  \E id \in ui.areas :
    LET rest == {a \in world.areas : a.id # id}
    IN /\ Turn({id})
       /\ Send([op |-> "delete", id |-> id, visit |-> ui.visit, rest |-> rest,
                left |-> UNION {Unused(a, rest) : a \in world.areas \ rest}])
       /\ UNCHANGED ui
Erased ==
  \E c \in calls :
    /\ c.op = "delete"
    /\ \E t \in c.left : Step(c, [c EXCEPT !.left = @ \ {t}]) /\ world' = [world EXCEPT !.cache = @ \ {t}]
    /\ UNCHANGED ui

\* The list read at the beginning is written back without the area.
Deleted ==
  \E c \in calls :
    /\ c.op = "delete"
    /\ c.left = {}
    /\ Got(c)
    /\ world' = [world EXCEPT !.areas = c.rest]
    /\ ui' = IF c.visit = ui.visit THEN [ui EXCEPT !.areas = Ids(c.rest)] ELSE ui

Next ==
  \/ Visit \/ Reload \/ OpenDialog \/ SetExtra \/ start \/ save \/ CloseDialog
  \/ Fetch \/ Fetched \/ Stored \/ Aborted \/ StrayStored \/ Downloaded
  \/ Delete \/ Erased \/ Deleted

Spec == Init /\ [][Next]_vars

----------------------------------------------------------------------------
(* Properties *)

\* An area on the list has its tiles in the cache, and an area told to be saved is on
\* the list, until it is deleted.
AreasKept ==
  /\ \A a \in world.areas : a.id \notin world.gone => a.tiles \subseteq world.cache
  /\ world.saved \ world.gone \subseteq Ids(world.areas)

\* So it is as long as no deletion runs beside a download or another deletion, whatever
\* downloads run beside one another, are closed or cut off (offlineArea.ts:144).
AreasKeptInTurn == ~world.beside => AreasKept
====
