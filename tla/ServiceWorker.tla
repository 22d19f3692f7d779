---- MODULE ServiceWorker ----
(***************************************************************************)
(* The service worker (src/frontend/public/sw.js), in two parts with a     *)
(* next-state relation each.                                               *)
(*                                                                         *)
(* What it answers to one resource of the pages, asked for again and again *)
(* while the network comes and goes: a page, its data (rsc), an API        *)
(* answer, a map tile, a photo, a file of the build, an icon or base map.  *)
(* Storing goes on beside the answer.  A content is the version the server *)
(* had and the session it was for.                                         *)
(*                                                                         *)
(* How a new version of the application reaches the open tabs: the life of *)
(* the worker (install, activate and SKIP_WAITING), the tabs that watch it *)
(* and reload (components/pwa/PwaProvider.tsx) and the button that takes   *)
(* the new version (components/pwa/MobileShell.tsx).  The browser keeps at *)
(* most one worker installing, one waiting and one active; a version is    *)
(* one of sw.js with a VERSION, and so a shell, of its own.                *)
(***************************************************************************)
EXTENDS Screen

CONSTANTS
  Tabs,
  MaxTurns,  \* bound: requests and sign-outs, or what the users of the tabs do
  MaxNews    \* bound: changes on the server, or new versions of sw.js

----------------------------------------------------------------------------
(* Answers *)

Resources == {"page", "rsc", "api", "tile", "photo", "static", "asset"}
CacheFirst == {"photo", "static"}
HasTimeout == {"page", "rsc"}  \* after 8 s the cache answers
OfUser == {"page", "rsc", "api", "photo"}  \* the caches that signing out deletes

\* What the page gets: a content, of the server now or of a cache, told so (X-QGIS-Offline)
\* or not.
Live(x) == [got |-> x, told |-> FALSE]
None(what) == [got |-> Nil, told |-> what]

AnswersInit ==
  /\ \E r \in Resources, saved \in {{}, {0}} :
       /\ r # "tile" => saved = {}
       /\ world = [kind |-> r, version |-> 0, session |-> 0, cache |-> Nil, area |-> saved, turns |-> 0]
  /\ ui = [shown |-> Nil, asked |-> 0]
  /\ calls = {}

Turn == world.turns < MaxTurns
Content(c) == [version |-> world.version, session |-> c.session]

\* A photo and a file of the build never change under their name.
Outside ==
  /\ world.kind \notin CacheFirst
  /\ world.version < MaxNews
  /\ world' = [world EXCEPT !.version = @ + 1]
  /\ UNCHANGED <<ui, calls>>

\* The page of this session is still there to be answered.
Answer(c, a) == ui' = IF c.waited /\ c.session = world.session THEN [ui EXCEPT !.shown = a, !.asked = c.asked] ELSE ui

----------------------------------------------------------------------------
(* Strategies *)

\* A request: a stored file is the answer (cacheFirst), or the answer while the network
\* is asked for the next time (staleWhileRevalidate); else the network is asked.
Ask ==
  LET hit == world.cache # Nil /\ world.kind \in CacheFirst \cup {"asset"}
      c == [op |-> "fetch", n |-> world.turns, session |-> world.session, asked |-> world.version, waited |-> ~hit,
            res |-> Nil]
  IN /\ Turn
     /\ world' = [world EXCEPT !.turns = @ + 1]
     /\ ui' = IF hit THEN [ui EXCEPT !.shown = Live(world.cache), !.asked = world.version] ELSE ui
     /\ IF hit /\ world.kind \in CacheFirst THEN UNCHANGED calls ELSE Send(c)

\* The server answers; the answer is on its way.
Served ==
  \E c \in calls :
    /\ c.op = "fetch" /\ c.res = Nil
    /\ calls' = (calls \ {c}) \cup {[c EXCEPT !.res = Content(c)]}
    /\ UNCHANGED <<ui, world>>

\* An answer in order goes to the page and, meanwhile, to the cache.
Arrived ==
  \E c \in calls :
    /\ c.op = "fetch" /\ c.res # Nil
    /\ Answer(c, Live(c.res))
    /\ calls' = (calls \ {c}) \cup {[op |-> "put", n |-> c.n, res |-> c.res]}
    /\ UNCHANGED world

\* An answer that is an error is not stored.
Refused ==
  \E c \in calls :
    /\ c.op = "fetch" /\ c.res # Nil
    /\ Got(c) /\ Answer(c, None("error")) /\ UNCHANGED world

\* mutant: The stored answer passes for one of the server.
Stored_AsLive == Live(world.cache)

\* The stored answer; that of the API is marked (markOffline).
Stored == IF world.kind = "api" THEN [Live(world.cache) EXCEPT !.told = TRUE] ELSE Live(world.cache)

\* Nothing stored: an answer that says so, the page /offline.html, an empty tile, or an error.
Offline ==
  CASE world.kind = "api" -> None("offline")
    [] world.kind = "page" -> None("offline.html")
    [] world.kind = "tile" -> None("empty")
    [] OTHER -> None("error")

\* A tile of an area saved on the device goes before the tile the map fetched last, although
\* the head of the file (line 7) names the area last.
Fallback ==
  IF world.area # {} THEN Live([version |-> 0, session |-> 0])
  ELSE IF world.cache # Nil /\ world.kind \notin CacheFirst \cup {"asset"} THEN Stored
  ELSE Offline

\* No network, or 8 s without an answer; what comes later is thrown away.
Failed ==
  \E c \in calls :
    /\ c.op = "fetch"
    /\ c.res = Nil \/ world.kind \in HasTimeout
    /\ Got(c) /\ Answer(c, Fallback) /\ UNCHANGED world

\* The cache takes what it is given last, if there is room.
Put ==
  \E c \in calls :
    /\ c.op = "put"
    /\ Got(c) /\ UNCHANGED ui
    /\ world' \in {[world EXCEPT !.cache = c.res], world}

\* The oldest entries of a full cache go; files of the build and saved areas stay.
trim ==
  /\ world.kind # "static" /\ world.cache # Nil
  /\ world' = [world EXCEPT !.cache = Nil]
  /\ UNCHANGED <<ui, calls>>

\* Signing out deletes what was stored for the user, here and by CLEAR_USER_DATA, and
\* leaves the page; the worker goes on with what it fetches.
logout ==
  /\ Turn
  /\ world' = [world EXCEPT !.turns = @ + 1, !.session = @ + 1, !.cache = IF world.kind \in OfUser THEN Nil ELSE @]
  /\ ui' = [ui EXCEPT !.shown = Nil]
  /\ UNCHANGED calls

AnswersNext == Outside \/ Ask \/ Served \/ Arrived \/ Refused \/ Failed \/ Put \/ trim \/ logout

----------------------------------------------------------------------------
(* Versions: the tabs *)

\* A page as it is loaded: the worker that serves it, if there is one.
Loaded ==
  [open |-> TRUE, ready |-> FALSE, watches |-> FALSE, controller |-> world.active, follows |-> Nil, waiting |-> Nil,
   reloading |-> FALSE]
Closed == [Loaded EXCEPT !.open = FALSE]

\* The first visit, or a visit of an installed application.
VersionsInit ==
  /\ \E a \in {Nil, 0} :
       world = [script |-> 0, installing |-> Nil, waiting |-> Nil, active |-> a, activating |-> FALSE,
                shells |-> {a} \ {Nil}, took |-> {}, first |-> Nil, turns |-> 0]
  /\ ui = [t \in Tabs |-> Closed]
  /\ calls = {}

Acted(w) == world.turns < MaxTurns /\ world' = [w EXCEPT !.turns = @ + 1]
Tab(t, u) == ui' = [ui EXCEPT ![t] = u] /\ UNCHANGED calls

Open(t) == ~ui[t].open /\ Acted(world) /\ Tab(t, Loaded)
Close(t) == ui[t].open /\ Acted(world) /\ Tab(t, Closed)

\* The effect of the provider: register, and reload when the controller changes.
Mount(t) == ui[t].open /\ ~ui[t].ready /\ Tab(t, [ui[t] EXCEPT !.ready = TRUE]) /\ UNCHANGED world

\* register answers: a worker that waits is offered at once, one found later when it is
\* installed.
watch(t) ==
  /\ ui[t].ready /\ ~ui[t].watches
  /\ Tab(t, [ui[t] EXCEPT !.watches = TRUE,
               !.waiting = IF world.waiting # Nil /\ ui[t].controller # Nil THEN world.waiting ELSE @])
  /\ UNCHANGED world

\* The controller of an open page changed: it is loaded again, once.
Controlled(u, v) ==
  IF u.open THEN [u EXCEPT !.controller = v, !.reloading = @ \/ u.ready] ELSE u

Reload(t) == ui[t].reloading /\ Tab(t, Loaded) /\ UNCHANGED world

----------------------------------------------------------------------------
(* The worker of each version *)

NewVersion ==
  /\ world.script < MaxNews
  /\ world' = [world EXCEPT !.script = @ + 1]
  /\ UNCHANGED <<ui, calls>>

\* On registration, and every half hour: another sw.js is installed, its files stored.
\* Tabs that watch by now follow it (updatefound).
Update ==
  /\ \E t \in Tabs : ui[t].watches
  /\ world.installing = Nil /\ world.script \notin {world.waiting, world.active}
  /\ world' = [world EXCEPT !.installing = world.script, !.shells = @ \cup {world.script}]
  /\ ui' = [t \in Tabs |-> IF ui[t].watches THEN [ui[t] EXCEPT !.follows = world.script] ELSE ui[t]]
  /\ UNCHANGED calls

\* mutant: The new worker does not wait for the user.
AtOnce_Skips(w) == TRUE

\* A worker takes over at once only if there is none before it.
AtOnce(w) == w.active = Nil

\* Installed: tabs that follow it and are served by a worker offer it.
Installed ==
  /\ world.installing # Nil
  /\ world' = [world EXCEPT !.installing = Nil, !.waiting = world.installing]
  /\ ui' = [t \in Tabs |-> IF ui[t].follows = world.installing /\ ui[t].controller # Nil
                           THEN [ui[t] EXCEPT !.waiting = world.installing] ELSE ui[t]]
  /\ UNCHANGED calls
InstallFailed ==
  /\ world.installing # Nil
  /\ world' = [world EXCEPT !.installing = Nil]
  /\ UNCHANGED <<ui, calls>>

\* The worker that waits becomes the active one: of itself as the first, when every tab is
\* closed, or told to by SKIP_WAITING.  Pages served by the old one are served by it.
Activate ==
  /\ world.waiting # Nil /\ ~world.activating
  /\ AtOnce(world) \/ world.waiting \in world.took \/ \A t \in Tabs : ~ui[t].open
  /\ world' = [world EXCEPT !.active = world.waiting, !.waiting = Nil, !.activating = TRUE,
                 !.first = IF world.active = Nil THEN world.waiting ELSE @]
  /\ ui' = [t \in Tabs |-> IF ui[t].controller # Nil THEN Controlled(ui[t], world.waiting) ELSE ui[t]]
  /\ UNCHANGED calls

\* activate: the shells of all other versions are deleted, and every page is claimed.
Claim ==
  /\ world.activating
  /\ world' = [world EXCEPT !.activating = FALSE, !.shells = @ \cap {world.active}]
  /\ ui' = [t \in Tabs |-> IF ui[t].controller # world.active THEN Controlled(ui[t], world.active) ELSE ui[t]]
  /\ UNCHANGED calls

\* The button tells the worker this tab knows of to take over.
applyUpdate(t) ==
  /\ ui[t].open /\ ui[t].waiting # Nil
  /\ Acted([world EXCEPT !.took = @ \cup {ui[t].waiting}])
  /\ UNCHANGED <<ui, calls>>

VersionsNext ==
  \/ \E t \in Tabs : Open(t) \/ Close(t) \/ Mount(t) \/ watch(t) \/ Reload(t) \/ applyUpdate(t)
  \/ NewVersion \/ Update \/ Installed \/ InstallFailed \/ Activate \/ Claim

----------------------------------------------------------------------------
(* Properties *)

HasContent(a) == a # Nil /\ a.got # Nil

\* An answer of the API that does not say that it was stored is not older than its
\* question, however answers, failures and writes to the cache overtake one another.
FreshUnlessTold ==
  world.kind = "api" /\ HasContent(ui.shown) /\ ui.shown.told = FALSE => ui.shown.got.version >= ui.asked

\* The cache never goes back to an older version (not so: an older answer may arrive last).
NeverOlder == [][world.cache # Nil /\ world'.cache # Nil => world.cache.version <= world'.cache.version]_world

\* What was stored for a session is gone when it ended (not so: an answer on its way is
\* stored after the caches were deleted).
GoneAfterLogout == world.kind \in OfUser /\ world.cache # Nil => world.cache.session = world.session

\* A page is taken from its user and loaded again only when a user took the new version
\* that now serves it, or for the first worker of the device.
ReloadedWhenTaken ==
  \A t \in Tabs : ui[t].reloading => ui[t].controller \in world.took \cup {world.first}

\* The page shown without network is stored for the active worker (not so: a worker that
\* is activated while the next one is installed deletes what the next one stored).
ShellOfActive == world.active # Nil => world.active \in world.shells

\* A version that waits is offered in every tab (not so: a tab opened while it is being
\* installed never hears of it).
Offered == \A t \in Tabs : ui[t].watches /\ ui[t].controller # Nil /\ ~ui[t].reloading /\ world.waiting # Nil =>
                         ui[t].waiting = world.waiting
====
