---- MODULE Infographic ----
(***************************************************************************)
(* The recovery infographic and its map                                    *)
(* (src/frontend/components/exec/Infographic.tsx, InfographicMap.tsx).     *)
(* The page reads one report for the period, kind and outage chosen, again *)
(* when the server's mark of changes differs; the map, created once, is    *)
(* drawn from the report, and a click opens a popup on the objects there.  *)
(* Its lists, the log of one level or the customers, are read page by page *)
(* (usePaged, LogPanel, CustomersPanel and Pager of Infographic.tsx).      *)
(***************************************************************************)
EXTENDS Screen

CONSTANTS
  Kinds, Outages,  \* of events, and the events to choose from
  Objects,         \* of the map
  Queries, Levels, \* filters of a list, its tabs
  Lengths,         \* how many rows a list may have on the server
  MaxTurns, MaxNews  \* bounds: what the user does, changes on the server

Refreshes == {"off", "change", "minutes"}
Turn == world.turns < MaxTurns /\ world' = [world EXCEPT !.turns = @ + 1]

Call(op, q) == [op |-> op, query |-> q, version |-> 0, object |-> Nil]
Check == Call("version", Nil)
Load(u) == Call("data", u.query)
Info(u) == [Call("object", u.popup.query) EXCEPT !.object = u.popup.sel]

\* The page opens with today, all kinds and the refresh chosen before.
PageInit ==
  /\ \E r \in Refreshes :
       /\ ui = [query |-> [kind |-> Nil, outage |-> Nil], refresh |-> r, data |-> Nil, configs |-> FALSE, last |-> 0,
                timer |-> FALSE, hidden |-> FALSE, ready |-> FALSE, drawn |-> Nil, popup |-> Nil]
       /\ calls = {Load(ui)} \cup (IF r = "off" THEN {} ELSE {Check})
  /\ world = [version |-> 1, turns |-> 0]

\* mutant: An answer counts although what asked for it has gone.
Alive_All(C, op) == C

\* What asked has gone: its answer will be ignored.
Alive(C, op) == {c \in C : c.op # op}

\* The watch for changes starts anew: the timer is cleared, and a check leaves at once.
Watch(u, C) ==
  IF u.refresh = "off" \/ u.hidden THEN Alive(C, "version") ELSE Alive(C, "version") \cup {Check}
Asked(C) == Cardinality(C) <= MaxCalls /\ calls' = C

\* A kind forgets the outage; the outages offered are those of the report shown.
SetFilter ==
  \E k \in Kinds \cup {Nil}, o \in Outages \cup {Nil} :
    LET u == [ui EXCEPT !.query = [kind |-> k, outage |-> o], !.timer = FALSE] IN
    /\ IF k # ui.query.kind THEN o = Nil ELSE (o # ui.query.outage /\ (o = Nil \/ ui.data # Nil))
    /\ Turn /\ ui' = u /\ Asked(Watch(u, calls) \cup {Load(u)})

setRefresh ==
  \E r \in Refreshes \ {ui.refresh} :
    LET u == [ui EXCEPT !.refresh = r, !.timer = FALSE] IN Turn /\ ui' = u /\ Asked(Watch(u, calls))

\* Every 30 s, and when the tab is looked at again.
check ==
  /\ ui.refresh # "off" /\ ~ui.hidden
  /\ Send(Check) /\ UNCHANGED <<ui, world>>

Hide == Turn /\ ui' = [ui EXCEPT !.hidden = TRUE] /\ ~ui.hidden /\ UNCHANGED calls
onVisible ==
  /\ ui.hidden /\ ui' = [ui EXCEPT !.hidden = FALSE] /\ UNCHANGED world
  /\ IF ui.refresh = "off" THEN UNCHANGED calls ELSE Send(Check)

\* Something happens in the network: the page hears of it, or not.
Event ==
  /\ world.version <= MaxNews
  /\ world' = [world EXCEPT !.version = @ + 1] /\ UNCHANGED calls
  /\ \/ ui' = ui
     \/ ui.refresh # "off" /\ ui' = [ui EXCEPT !.timer = TRUE]

\* Three seconds after the first of the events.
Timer ==
  /\ ui.timer /\ ui' = [ui EXCEPT !.timer = FALSE] /\ UNCHANGED world
  /\ IF ui.hidden THEN UNCHANGED calls ELSE Send(Check)

Serve ==
  \E c \in calls :
    /\ c.version = 0 /\ UNCHANGED <<ui, world>>
    /\ calls' = (calls \ {c}) \cup {[c EXCEPT !.version = world.version]}

\* The first mark is only kept; another one means that the report is read again.
VersionAnswered ==
  \E c \in calls :
    /\ c.op = "version" /\ c.version # 0 /\ UNCHANGED world
    /\ ui' = [ui EXCEPT !.last = c.version]
    /\ Asked((calls \ {c}) \cup (IF ui.last \in {0, c.version} THEN {} ELSE {Load(ui)}))

\* By hand, by the interval of minutes, in another language.
load == Turn /\ UNCHANGED ui /\ Send(Load(ui))

\* The map is there with the first report and the configuration; the sources are set
\* once its style is loaded, from the last report.
apply(u) == IF u.ready THEN [u EXCEPT !.drawn = u.data] ELSE u

\* No request tells an old answer from a new one.
DataAnswered ==
  \E c \in calls :
    /\ c.op = "data" /\ c.version # 0 /\ Got(c) /\ UNCHANGED world
    /\ ui' = apply([ui EXCEPT !.data = [query |-> c.query, version |-> c.version]])

ConfigsLoaded == ~ui.configs /\ Show([ui EXCEPT !.configs = TRUE])

\* mutant: The map waits for the next report.
MapLoaded_Waits(u) == [u EXCEPT !.ready = TRUE]

MapLoaded(u) == apply([u EXCEPT !.ready = TRUE])
MapLoad == ui.configs /\ ui.data # Nil /\ ~ui.ready /\ Show(MapLoaded(ui))

\* A failed version check is tried again; a failed report is not, and an object or a
\* list shows the error.
Failed == \E c \in calls : Got(c) /\ UNCHANGED <<ui, world>>

\* The old popup goes; the objects hit, the uppermost chosen, are shown with the query
\* of the page now: what the popup was given does not change after that.
Opened(u, S, o) == [u EXCEPT !.popup = [query |-> u.query, targets |-> S, sel |-> o, info |-> Nil]]
click ==
  \E S \in SUBSET Objects :
    /\ ui.drawn # Nil /\ Turn
    /\ IF S = {}
       THEN ui' = [ui EXCEPT !.popup = Nil] /\ Asked(Alive(calls, "object"))
       ELSE \E o \in S : LET u == Opened(ui, S, o) IN ui' = u /\ Asked(Alive(calls, "object") \cup {Info(u)})

ObjectPopup ==
  /\ ui.popup # Nil
  /\ \E o \in ui.popup.targets \ {ui.popup.sel} :
       LET u == [ui EXCEPT !.popup.sel = o, !.popup.info = Nil] IN
       Turn /\ ui' = u /\ Asked(Alive(calls, "object") \cup {Info(u)})

ObjectAnswered ==
  \E c \in calls :
    /\ c.op = "object" /\ c.version # 0 /\ ui.popup # Nil /\ Got(c) /\ UNCHANGED world
    /\ ui' = [ui EXCEPT !.popup.info = [object |-> c.object, query |-> c.query]]

PageNext ==
  \/ SetFilter \/ setRefresh \/ check \/ Hide \/ onVisible \/ Event \/ Timer \/ Serve \/ VersionAnswered \/ load
  \/ DataAnswered \/ ConfigsLoaded \/ MapLoad \/ Failed \/ click \/ ObjectPopup \/ ObjectAnswered

----------------------------------------------------------------------------
(* A list read page by page: the log of one level, or the customers *)

Sizes == {1, 2}  \* rows of a page
Words == {"", "w"}

\* Everything that a list is read for, but the page.
Key(u) == [query |-> u.query, level |-> u.level, qd |-> u.qd, size |-> u.size]

\* The page chosen counts as long as the list is the one it was chosen in.
PageOf(u) == IF u.pg.key = Key(u) THEN u.pg.page ELSE 1
ListCall(u) == [op |-> "list", key |-> Key(u), page |-> PageOf(u)]

ListInit ==
  /\ \E q \in Queries, l \in Levels :
       ui = [query |-> q, level |-> l, q |-> "", qd |-> "", size |-> 2, pg |-> [key |-> Nil, page |-> 1], shown |-> Nil,
             res |-> Nil]
  /\ calls = {[op |-> "list", key |-> Key(ui), page |-> 1]}
  /\ world = [turns |-> 0]

\* mutant: The rows of the old list stay until the new ones come.
Emptied_Late(u) == [u EXCEPT !.shown = Key(u)]

\* Another list: the rows of the old one go at once.
Emptied(u) == IF u.shown = Key(u) THEN u ELSE [u EXCEPT !.shown = Key(u), !.res = Nil]

\* mutant: Answers of older requests count too.
AskedLast_All(u) == Cardinality(calls \cup {ListCall(u)}) <= MaxCalls /\ calls' = calls \cup {ListCall(u)}

\* Only the answer of the last request counts.
AskedLast(u) == calls' = {ListCall(u)}
Ask(u) == ui' = Emptied(u) /\ AskedLast(Emptied(u))

\* The filter of the page, the level, the size of a page.
SetQuery == \E q \in Queries \ {ui.query} : Turn /\ Ask([ui EXCEPT !.query = q])
SetTab == \E l \in Levels \ {ui.level} : Turn /\ Ask([ui EXCEPT !.level = l])
SetSize == \E n \in Sizes \ {ui.size} : Turn /\ Ask([ui EXCEPT !.size = n])

\* A word typed counts 300 ms later.
Type == \E w \in Words \ {ui.q} : Turn /\ ui' = [ui EXCEPT !.q = w] /\ UNCHANGED calls
Debounced == ui.q # ui.qd /\ Ask([ui EXCEPT !.qd = ui.q]) /\ UNCHANGED world

\* The report was read again: so is the list.
Refetch == Turn /\ Ask(ui)

Answered ==
  \E c \in calls, n \in Lengths :
    LET pages == IF n = 0 THEN 1 ELSE (n + c.key.size - 1) \div c.key.size
        page == IF c.page > pages THEN pages ELSE c.page
    IN Got(c) /\ UNCHANGED world /\ ui' = [ui EXCEPT !.res = [key |-> c.key, page |-> page, pages |-> pages]]

\* Rows, and the buttons below them, once a page is there.
Panel == ui.res # Nil

\* First, before, after, last; enabled by the page the server gave, which is not the
\* one asked for when the list got shorter.
go ==
  \E n \in {1, PageOf(ui) - 1, PageOf(ui) + 1, IF ui.res = Nil THEN 1 ELSE ui.res.pages} :
    LET wanted == IF n < 1 THEN 1 ELSE IF n > ui.res.pages THEN ui.res.pages ELSE n
        u == [ui EXCEPT !.pg = [key |-> Key(ui), page |-> wanted]]
    IN /\ Panel
       /\ IF n < PageOf(ui) \/ n = 1 THEN ui.res.page > 1 ELSE ui.res.page < ui.res.pages
       /\ Turn
       /\ IF wanted = PageOf(ui) THEN ui' = u /\ UNCHANGED calls ELSE Ask(u)

ListNext == SetQuery \/ SetTab \/ SetSize \/ Type \/ Debounced \/ Refetch \/ Answered \/ Failed \/ go

----------------------------------------------------------------------------
(* Properties *)

\* The popup never names one object and tells of another, although the answers for
\* several come in any order.
PopupOfObject == ui.popup # Nil => ui.popup.info = Nil \/ ui.popup.info.object = ui.popup.sel

\* The rows shown are of the filter, tab, word and size shown, although lists are asked
\* for faster than they come and their answers come in any order.
RowsOfList == ui.res # Nil => ui.res.key = Key(ui)

\* The map is drawn from the report the page shows, whether the map or the report was
\* ready first.
MapOfReport == ui.ready => ui.drawn = ui.data

\* The popup tells of the period and filter of the page.
PopupOfFilter == ui.popup # Nil => ui.popup.query = ui.query
====
