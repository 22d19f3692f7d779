---- MODULE Assets ----
(***************************************************************************)
(* The assets (src/frontend/components/assets/Assets.tsx): the tree, here  *)
(* the rows below one parent, read page by page in both directions, and    *)
(* the table, whose filters that only narrow it are one value.             *)
(***************************************************************************)
EXTENDS Screen

CONSTANTS
  Total,      \* rows below the parent
  Filters,
  MaxTurns    \* bound: what the user does

Page == 1  \* bound: rows of a page, two hundred in the code
Call(op) == [op |-> op, prev |-> FALSE, offset |-> 0, row |-> 0, had |-> FALSE, cur |-> Nil, filter |-> Nil]
Turn == world.turns < MaxTurns /\ world' = [world EXCEPT !.turns = @ + 1]

Init ==
  /\ ui = [tab |-> "tree", ready |-> FALSE, notReady |-> FALSE, open |-> FALSE, kids |-> Nil, sel |-> 0,
           filter |-> Nil, offset |-> 0, table |-> Nil, exporting |-> FALSE]
  /\ calls = {Call("root")}
  /\ world = [turns |-> 0]

\* The rows of a page that starts at an offset.
Rows(offset) == [i \in 1..(IF Total - offset < Page THEN Total - offset ELSE Page) |-> offset + i]
Kids(items, offset) == [items |-> items, offset |-> offset, loading |-> FALSE]

\* The graph is not loaded yet: asked again five seconds later.
RootLoaded == \E c \in calls : c.op = "root" /\ Got(c) /\ ui' = [ui EXCEPT !.ready = TRUE, !.notReady = FALSE] /\ UNCHANGED world
NotReady == \E c \in calls : c.op = "root" /\ Got(c) /\ ui' = [ui EXCEPT !.notReady = TRUE] /\ UNCHANGED world
loadRoot == ui.notReady /\ Call("root") \notin calls /\ Send(Call("root")) /\ UNCHANGED <<ui, world>>

\* Opened for the first time: its first rows are read.
toggle ==
  /\ ui.ready /\ ui.tab = "tree" /\ Turn
  /\ IF ui.open THEN ui' = [ui EXCEPT !.open = FALSE] /\ UNCHANGED calls
     ELSE IF ui.kids # Nil THEN ui' = [ui EXCEPT !.open = TRUE] /\ UNCHANGED calls
     ELSE ui' = [ui EXCEPT !.open = TRUE, !.kids = [Kids(<<>>, 0) EXCEPT !.loading = TRUE]] /\ Send(Call("kids"))

collapseAll == ui.ready /\ ui.open /\ ui.tab = "tree" /\ Show([ui EXCEPT !.open = FALSE])

\* Rows after those shown, unless some are being read; rows before them, at any time.
loadMore ==
  \E prev \in BOOLEAN :
    LET k == ui.kids
        off == IF prev THEN (IF k.offset < Page THEN 0 ELSE k.offset - Page) ELSE k.offset + Len(k.items)
    IN /\ ui.open /\ ui.tab = "tree" /\ k # Nil
       /\ IF prev THEN k.offset > 0 ELSE k.offset + Len(k.items) < Total /\ ~k.loading
       /\ Turn /\ ui' = [ui EXCEPT !.kids.loading = TRUE]
       /\ Send([Call("more") EXCEPT !.prev = prev, !.offset = off, !.cur = k])

\* mutant: What is there by then goes on waiting.
Merged_Waits(k, c) ==
  IF c.prev
  THEN [k EXCEPT !.items = SelectSeq(Rows(c.offset), LAMBDA r : r <= k.offset) \o @, !.offset = c.offset]
  ELSE [k EXCEPT !.items = @ \o Rows(c.offset)]

\* Of the rows before only those that are not there yet.
Merged(k, c) ==
  IF c.prev
  THEN Kids(SelectSeq(Rows(c.offset), LAMBDA r : r <= k.offset) \o k.items, c.offset)
  ELSE Kids(k.items \o Rows(c.offset), k.offset)

\* Merged into what is there by then, in the order of the answers.
KidsLoaded ==
  \E c \in calls :
    /\ c.op \in {"kids", "more"} /\ Got(c) /\ UNCHANGED world
    /\ ui' = [ui EXCEPT !.kids = IF c.op = "kids" THEN Kids(Rows(0), 0) ELSE Merged(IF @ = Nil THEN c.cur ELSE @, c)]

\* An object searched for, or the row of the table: what was open and read when it was
\* asked for decides what is read.
locate ==
  \E r \in 1..Total :
    /\ ui.ready /\ Turn /\ UNCHANGED ui
    /\ Send([Call("locate") EXCEPT !.row = r, !.had = ui.kids # Nil /\ \E i \in DOMAIN ui.kids.items : ui.kids.items[i] = r])

\* The path is opened and the object selected, among the rows around it.
Located ==
  \E c \in calls :
    /\ c.op = "locate" /\ Got(c) /\ UNCHANGED world
    /\ ui' = [ui EXCEPT !.tab = "tree", !.open = TRUE, !.sel = c.row,
                        !.kids = IF c.had THEN @ ELSE Kids(Rows(c.row - 1), c.row - 1)]

select ==
  /\ ui.open /\ ui.tab = "tree" /\ ui.kids # Nil
  /\ \E i \in DOMAIN ui.kids.items : ui.kids.items[i] # ui.sel /\ Show([ui EXCEPT !.sel = ui.kids.items[i]])

loadTable(u) == [Call("table") EXCEPT !.filter = u.filter, !.offset = u.offset]
SetTab ==
  \E t \in {"tree", "table"} \ {ui.tab} :
    /\ Turn /\ ui' = [ui EXCEPT !.tab = t] /\ IF t = "table" THEN Send(loadTable(ui)) ELSE UNCHANGED calls

\* From the number of a level or the panel of a row: the table, of that level and scope.
\* Another filter is read with the offset of before, then with none.
openTable ==
  \E f \in (Filters \cup {Nil}) \ {ui.filter} :
    LET u == [ui EXCEPT !.tab = "table", !.filter = f] IN
    /\ Turn /\ ui' = [u EXCEPT !.offset = 0]
    /\ SendAll({loadTable(u), loadTable([u EXCEPT !.offset = 0])})

pager ==
  \E n \in {0, 1} \ {ui.offset} :
    LET u == [ui EXCEPT !.offset = n] IN ui.tab = "table" /\ ui.table # Nil /\ Turn /\ ui' = u /\ Send(loadTable(u))

TableLoaded ==
  \E c \in calls :
    /\ c.op = "table" /\ Got(c) /\ UNCHANGED world
    /\ ui' = [ui EXCEPT !.table = [filter |-> c.filter, offset |-> c.offset]]

\* The button is given disabled, so it does not wait for the download.
exportCsv == ui.tab = "table" /\ ui.table # Nil /\ Turn /\ Send(Call("csv")) /\ ui' = [ui EXCEPT !.exporting = TRUE]
Exported == \E c \in calls : c.op = "csv" /\ Got(c) /\ ui' = [ui EXCEPT !.exporting = FALSE] /\ UNCHANGED world

\* The rows are as they were when more were asked for; a first page is forgotten.
Failed ==
  \E c \in calls :
    /\ c.op # "csv" /\ Got(c) /\ UNCHANGED world
    /\ ui' = CASE c.op = "kids" -> [ui EXCEPT !.kids = Nil]
               [] c.op = "more" -> [ui EXCEPT !.kids = [c.cur EXCEPT !.loading = FALSE]]
               [] OTHER -> ui

Next ==
  \/ RootLoaded \/ NotReady \/ loadRoot \/ toggle \/ collapseAll \/ loadMore \/ KidsLoaded \/ locate \/ Located \/ select
  \/ SetTab \/ openTable \/ pager \/ TableLoaded \/ exportCsv \/ Exported \/ Failed

Spec == Init /\ [][Next]_vars
====
