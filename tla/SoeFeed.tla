---- MODULE SoeFeed ----
(***************************************************************************)
(* The live sequence of events of the control room: the panel              *)
(* (src/frontend/components/power/SOEPanel.tsx) on the one WebSocket of    *)
(* the browser (src/frontend/lib/ws.ts).  The socket carries the events    *)
(* recorded while it is up and replays nothing; the panel asks for what it *)
(* missed when the socket is back, and for a page of older rows on demand. *)
(* Events are numbered as the server records them.  The cap of 2000 rows   *)
(* is not reached; the badge of unread rows and the alarm are left out.    *)
(***************************************************************************)
EXTENDS Screen, SequencesExt

CONSTANTS
  Categories,  \* values of the filter
  CategoryOf,  \* the category of each event
  PageSize,    \* rows the server sends at once
  MaxFaults    \* bound: sockets and answers lost

Events == 1..Len(CategoryOf)
NoFilter == "all"

\* Events of a set, the newest first; the page of them that the server sends.
Newest(S) == Only([i \in 1..Len(CategoryOf) |-> Len(CategoryOf) + 1 - i], S)
Page(S) == LET rows == Newest(S) IN SubSeq(rows, 1, Min({Len(rows), PageSize}))
Highest(S, n) == Max(S \cup {n})

matches(e, filter) == filter = NoFilter \/ CategoryOf[e] = filter

\* A request remembers how much was recorded when it left; the server answers
\* from a log that may have grown since.
Request(op, arg) == [op |-> op, filter |-> ui.filter, arg |-> arg, from |-> world.last]

Init ==
  /\ ui = [items |-> <<>>, buffer |-> <<>>, paused |-> FALSE, filter |-> NoFilter,
           lastId |-> 0, loading |-> TRUE, more |-> TRUE]
  /\ \E n \in {0} \cup Events :
       /\ world = [last |-> n, up |-> FALSE, wire |-> <<>>, floor |-> 0, missed |-> FALSE, gap |-> 0, faults |-> 0]
       /\ calls = {[op |-> "load", filter |-> NoFilter, arg |-> 0, from |-> n]}

----------------------------------------------------------------------------
(* The socket *)

Record ==
  /\ world.last + 1 \in Events
  /\ world' = [world EXCEPT !.last = @ + 1,
                            !.wire = IF world.up THEN Append(@, world.last + 1) ELSE @]
  /\ UNCHANGED <<ui, calls>>

onclose ==
  /\ world.up /\ world.faults < MaxFaults
  /\ world' = [world EXCEPT !.up = FALSE, !.wire = <<>>, !.faults = @ + 1]
  /\ UNCHANGED <<ui, calls>>

\* mutant: The panel does not ask for what it missed.
onopen_NoResync ==
  /\ ~world.up
  /\ world' = [world EXCEPT !.up = TRUE, !.missed = @ \/ ui.lastId = 0,
                            !.gap = IF ui.lastId = 0 THEN world.last ELSE @]
  /\ UNCHANGED <<ui, calls>>

\* The socket is back: the panel asks for the events after the last it knows of,
\* if it knows of any.
onopen ==
  /\ ~world.up
  /\ world' = [world EXCEPT !.up = TRUE, !.missed = @ \/ ui.lastId = 0,
                            !.gap = IF ui.lastId = 0 THEN world.last ELSE @]
  /\ IF ui.lastId > 0 THEN Send(Request("after", ui.lastId)) ELSE UNCHANGED calls
  /\ UNCHANGED ui

----------------------------------------------------------------------------
(* Rows *)

\* mutant: Events that come while the list is paused are dropped.
ingest_Drops(list, filter) ==
  LET new == {e \in list : matches(e, filter)}
      known == [ui EXCEPT !.lastId = Highest(list, @)]
  IN ui' = IF ui.paused THEN known
           ELSE [known EXCEPT !.items = Newest(new \ Range(@)) \o @]

\* Rows held back while the list is paused; put on top of it otherwise.
ingest(list, filter) ==
  LET new == {e \in list : matches(e, filter)}
      known == [ui EXCEPT !.lastId = Highest(list, @)]
  IN ui' = IF ui.paused
           THEN [known EXCEPT !.buffer = Newest(new) \o @]
           ELSE [known EXCEPT !.items = Newest(new \ Range(@)) \o @]

onmessage ==
  /\ world.wire # <<>>
  /\ world' = [world EXCEPT !.wire = Tail(@)]
  /\ ingest({Head(world.wire)}, ui.filter)
  /\ UNCHANGED calls

\* The rows asked for after a break are filtered as when they were asked for.
Resynced ==
  \E c \in calls : \E k \in c.from..world.last :
    /\ c.op = "after"
    /\ ingest({e \in Events : c.arg < e /\ e <= k}, c.filter)
    /\ world' = IF c.filter = ui.filter THEN world ELSE [world EXCEPT !.missed = TRUE, !.gap = Highest({k}, @)]
    /\ Got(c)

\* `floor` is where the rows loaded end.  An answer older than rows already known,
\* or than a gap, leaves them out; `gap` is the last event nobody asked for.
Loaded ==
  \E c \in calls : \E k \in c.from..world.last :
    LET all == {e \in Events : e <= k /\ matches(e, c.filter)}
        rows == Page(all)
    IN /\ c.op = "load"
       /\ ui' = [ui EXCEPT !.items = rows, !.buffer = <<>>, !.loading = FALSE,
                           !.more = Len(rows) = PageSize,
                           !.lastId = IF rows = <<>> THEN @ ELSE Highest({rows[1]}, @)]
       /\ world' = [world EXCEPT
            !.floor = IF Len(Newest(all)) > Len(rows) THEN rows[Len(rows)] - 1 ELSE 0,
            !.missed = (\E e \in (k + 1)..Highest({world.gap}, ui.lastId) : matches(e, c.filter)) \/ c.filter # ui.filter]
       /\ Got(c)

MoreLoaded ==
  \E c \in calls : \E k \in c.from..world.last :
    LET rows == Page({e \in Events : e <= k /\ e < c.arg /\ matches(e, c.filter)})
    IN /\ c.op = "more"
       /\ ui' = [ui EXCEPT !.items = @ \o rows, !.loading = FALSE, !.more = Len(rows) = PageSize]
       /\ Got(c)
       /\ UNCHANGED world

\* A page that fails leaves the list; a failed resynchronisation is not repeated.
Failed ==
  \E c \in calls :
    /\ world.faults < MaxFaults
    /\ world' = [world EXCEPT !.faults = @ + 1, !.missed = TRUE,
                              !.gap = IF c.op = "after" THEN Highest({c.from}, @) ELSE @]
    /\ ui' = [ui EXCEPT !.loading = IF c.op = "after" THEN @ ELSE FALSE]
    /\ Got(c)

----------------------------------------------------------------------------
(* The panel *)

SetFilter(f) ==
  /\ f # ui.filter
  /\ ui' = [ui EXCEPT !.filter = f, !.loading = TRUE]
  /\ Send([Request("load", 0) EXCEPT !.filter = f])
  /\ world' = [world EXCEPT !.missed = TRUE]

\* The button under the list.
More == ui.more /\ ui.items # <<>> /\ ~ui.loading

loadMore ==
  /\ More
  /\ ui' = [ui EXCEPT !.loading = TRUE]
  /\ Send(Request("more", ui.items[Len(ui.items)]))
  /\ UNCHANGED world

Pause == ~ui.paused /\ Show([ui EXCEPT !.paused = TRUE])

\* mutant: The rows held back are forgotten.
resume_Forgets ==
  /\ ui.paused
  /\ ui' = [ui EXCEPT !.buffer = <<>>, !.paused = FALSE]
  /\ UNCHANGED <<calls, world>>

resume ==
  /\ ui.paused
  /\ ui' = [ui EXCEPT !.items = Only(ui.buffer, Range(ui.buffer) \ Range(ui.items)) \o @,
                      !.buffer = <<>>, !.paused = FALSE]
  /\ UNCHANGED <<calls, world>>

Next ==
  \/ Record \/ onopen \/ onclose \/ onmessage
  \/ Resynced \/ Loaded \/ MoreLoaded \/ Failed
  \/ \E f \in {NoFilter} \cup Categories : SetFilter(f)
  \/ loadMore \/ Pause \/ resume

Spec == Init /\ [][Next]_vars

----------------------------------------------------------------------------
(* Properties *)

Quiet == calls = {} /\ world.wire = <<>> /\ world.up

\* Once the socket is up and nothing is on its way, every event recorded since the
\* last row loaded is in the list or held back, unless the panel has lost it in one
\* of the ways `missed` records: an answer older than the rows it replaced, a
\* failed resynchronisation, or a socket that came up before the first page.
FeedComplete ==
  (Quiet /\ ~world.missed) =>
    \A e \in Events :
      (world.floor < e /\ e <= world.last /\ matches(e, ui.filter))
        => e \in Range(ui.items) \cup Range(ui.buffer)

\* README.md: "daftar terbaru di atas", the newest rows on top.
NewestOnTop == \A i \in 1..(Len(ui.items) - 1) : ui.items[i] > ui.items[i + 1]
====
