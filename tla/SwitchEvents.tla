---- MODULE SwitchEvents ----
(***************************************************************************)
(* The log of commands from outside, and the form that sends one for a     *)
(* test (src/frontend/components/admin/SwitchEvents.tsx).  Commands are    *)
(* numbered as they come; each has a result, which is what the list is     *)
(* filtered by.                                                            *)
(***************************************************************************)
EXTENDS Screen

CONSTANTS
  Results,
  MaxEvents, MaxTurns  \* bounds: commands logged, what the user does

Page == 1  \* bound: rows of a page, a hundred in the code
Call(op) == [op |-> op, filter |-> Nil, before |-> 0, rows |-> <<>>, served |-> FALSE]
Turn == world.turns < MaxTurns /\ world' = [world EXCEPT !.turns = @ + 1]

Init ==
  /\ ui = [items |-> Nil, filter |-> Nil, auto |-> TRUE, open |-> 0, body |-> "open", busy |-> "", more |-> FALSE, types |-> FALSE]
  /\ calls = {Call("list"), Call("types")}
  /\ world = [log |-> <<>>, later |-> {}, turns |-> 0]

load(u, before) == [Call("list") EXCEPT !.filter = u.filter, !.before = before]

\* The newest rows, or those before one, newest first.
Matching(f, before) ==
  {i \in DOMAIN world.log : f \in {Nil, world.log[i]} /\ (before = 0 \/ i < before)}
Rows(f, before) ==
  LET S == Matching(f, before) IN IF S = {} THEN <<>> ELSE <<CHOOSE i \in S : \A j \in S : j <= i>>

Serve ==
  \E c \in calls :
    /\ c.op = "list" /\ ~c.served /\ UNCHANGED <<ui, world>>
    /\ calls' = (calls \ {c}) \cup {[c EXCEPT !.served = TRUE, !.rows = Rows(c.filter, c.before)]}

\* Older rows are appended to whatever is shown by then; the newest replace it.
Loaded ==
  \E c \in calls :
    /\ c.op = "list" /\ c.served /\ Got(c) /\ UNCHANGED world
    /\ ui' = [ui EXCEPT !.items = IF c.before > 0 /\ @ # Nil THEN @ \o c.rows ELSE c.rows,
                        !.more = Len(c.rows) = Page]

\* An empty list rather than a spinner; a command that could not be sent.
Failed ==
  \E c \in calls :
    /\ Got(c) /\ UNCHANGED world
    /\ ui' = CASE c.op = "types" -> [ui EXCEPT !.types = TRUE]
               [] c.op = "list" -> [ui EXCEPT !.items = IF @ = Nil THEN <<>> ELSE @]
               [] OTHER -> [ui EXCEPT !.busy = ""]

TypesLoaded == \E c \in calls : c.op = "types" /\ Got(c) /\ ui' = [ui EXCEPT !.types = TRUE] /\ UNCHANGED world

SetFilter ==
  \E f \in (Results \cup {Nil}) \ {ui.filter} : LET u == [ui EXCEPT !.filter = f] IN Turn /\ ui' = u /\ Send(load(u, 0))

SetAuto == Turn /\ ui' = [ui EXCEPT !.auto = ~@] /\ UNCHANGED calls

\* Every five seconds; and some time after a command was sent, with the filter of when
\* it was sent.
refresh == ui.auto /\ Send(load(ui, 0)) /\ UNCHANGED <<ui, world>>
Later ==
  \E f \in world.later :
    /\ Send([Call("list") EXCEPT !.filter = f]) /\ world' = [world EXCEPT !.later = @ \ {f}] /\ UNCHANGED ui

\* The button below the list stays free meanwhile.
loadMore ==
  /\ ui.items \notin {Nil, <<>>} /\ ui.more /\ Turn
  /\ UNCHANGED ui /\ Send(load(ui, ui.items[Len(ui.items)]))

Expand ==
  \E i \in (IF ui.items = Nil THEN {} ELSE {ui.items[k] : k \in DOMAIN ui.items}) :
    Turn /\ ui' = [ui EXCEPT !.open = IF @ = i THEN 0 ELSE i] /\ UNCHANGED calls

SetBody == \E b \in {"open", "close", "wrong"} \ {ui.body} : Turn /\ ui' = [ui EXCEPT !.body = b] /\ UNCHANGED calls

\* To the topic, or straight to the handler; only what parses is sent.
send ==
  \E mode \in {"kafka", "direct"} :
    /\ ui.busy = "" /\ ui.body # "wrong"
    /\ Send([Call(mode) EXCEPT !.filter = ui.filter]) /\ ui' = [ui EXCEPT !.busy = mode] /\ UNCHANGED world

\* The list is read at once, or 2.5 s after the command was queued, logged or not yet.
Sent ==
  \E c \in calls, r \in Results :
    /\ c.op \in {"kafka", "direct"} /\ Len(world.log) < MaxEvents /\ Got(c)
    /\ ui' = [ui EXCEPT !.busy = ""]
    /\ world' = [world EXCEPT !.log = IF c.op = "direct" THEN Append(@, r) ELSE @, !.later = @ \cup {c.filter}]

\* A command comes from outside.
Consumed ==
  \E r \in Results :
    /\ Len(world.log) < MaxEvents /\ UNCHANGED <<ui, calls>>
    /\ world' = [world EXCEPT !.log = Append(@, r)]

Next ==
  \/ Serve \/ Loaded \/ Failed \/ TypesLoaded \/ SetFilter \/ SetAuto \/ refresh \/ Later \/ loadMore \/ Expand
  \/ SetBody \/ send \/ Sent \/ Consumed

Spec == Init /\ [][Next]_vars
====
