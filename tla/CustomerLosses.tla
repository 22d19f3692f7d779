---- MODULE CustomerLosses ----
(***************************************************************************)
(* Losses per transformer from the customers' bills                        *)
(* (src/frontend/components/load/CustomerLosses.tsx): the list of a month, *)
(* one transformer's detail, and the import of the bills.  The filters     *)
(* that only narrow the list are one value.                                *)
(***************************************************************************)
EXTENDS Screen

CONSTANTS
  Months, Filters, Gardus, Files,
  MaxTurns  \* bound: what the user does

NoImport == [file |-> Nil, month |-> Nil, replace |-> FALSE, prev |-> Nil, busy |-> "", del |-> Nil]
Call(op, month) ==
  [op |-> op, month |-> month, filter |-> Nil, offset |-> 0, gardu |-> Nil, file |-> Nil, replace |-> FALSE,
   after |-> FALSE, lists |-> {}, closed |-> FALSE]
Meta == Call("meta", Nil)
Turn == world.turns < MaxTurns /\ world' = [world EXCEPT !.turns = @ + 1]
Ask(C) == Cardinality(C) <= MaxCalls /\ calls' = C

\* What the server has at first.
Init ==
  /\ ui = [months |-> Nil, month |-> Nil, filter |-> Nil, offset |-> 0, data |-> Nil, sel |-> Nil, detail |-> Nil,
           imp |-> Nil]
  /\ calls = {Meta}
  /\ \E S \in SUBSET Months : world = [months |-> S, turns |-> 0]

query(u) == IF u.month = Nil THEN {} ELSE {[Call("list", u.month) EXCEPT !.filter = u.filter, !.offset = u.offset]}

\* The detail stands on the page while a list does.
Detail(u) == IF u.data = Nil \/ u.sel = Nil THEN {} ELSE {[Call("detail", u.month) EXCEPT !.gardu = u.sel]}

\* The list is read for what was chosen, with the offset of before; then the offset is
\* reset and it is read again.  The detail is read again for another month.
Changed(u, C) ==
  LET v == [u EXCEPT !.data = IF u.month = Nil THEN Nil ELSE @, !.detail = IF u.month = ui.month THEN @ ELSE Nil]
  IN /\ ui' = [v EXCEPT !.offset = 0]
     /\ Ask(C \cup query(v) \cup query([v EXCEPT !.offset = 0]) \cup (IF u.month = ui.month THEN {} ELSE Detail(v)))

SetMonth == ui.months # Nil /\ \E p \in ui.months \ {ui.month} : Turn /\ Changed([ui EXCEPT !.month = p], calls)

\* UP3, ULP, words, status, order, lag.
SetFilter == \E f \in (Filters \cup {Nil}) \ {ui.filter} : Turn /\ Changed([ui EXCEPT !.filter = f], calls)

\* A month that is gone is replaced by the latest.
Kept(u, S) == IF u.month \in S THEN u.month ELSE IF S = {} THEN Nil ELSE CHOOSE p \in S : TRUE

MetaLoaded ==
  \E c \in calls :
    /\ c.op = "meta" /\ UNCHANGED world
    /\ LET u == [ui EXCEPT !.months = world.months,
                           !.month = IF c.after /\ c.month # Nil THEN c.month ELSE Kept(ui, world.months)]
       IN IF u.month = ui.month THEN ui' = u /\ Got(c) ELSE Changed(u, calls \ {c})

\* Any answer is shown, whatever it was asked for.  A list that was not there brings its
\* detail back; one of another lag has it read again.
Loaded ==
  \E c \in calls :
    /\ UNCHANGED world
    /\ \/ /\ c.op = "list"
          /\ LET u == [ui EXCEPT !.data = [month |-> c.month, filter |-> c.filter, offset |-> c.offset]]
             IN \/ ui.data # Nil /\ ui' = u /\ Got(c)
                \/ /\ ui.data # Nil => ui.data.filter # c.filter
                   /\ ui' = [u EXCEPT !.detail = Nil] /\ Ask((calls \ {c}) \cup Detail(u))
       \/ /\ c.op = "detail" /\ Got(c)
          /\ ui' = IF ui.sel = Nil \/ ui.data = Nil THEN ui ELSE [ui EXCEPT !.detail = [gardu |-> c.gardu, month |-> c.month]]

\* Without a list there is no detail either.
Failed ==
  \E c \in calls :
    /\ Got(c) /\ UNCHANGED world
    /\ LET open == ui.imp # Nil /\ ~c.closed
       IN ui' = CASE c.op = "list" -> [ui EXCEPT !.data = Nil, !.detail = Nil]
                  [] c.op = "meta" -> [ui EXCEPT !.months = {}]
                  [] c.op = "preview" /\ open -> [ui EXCEPT !.imp.busy = "", !.imp.prev = Nil]
                  [] c.op \in {"apply", "delete"} /\ open -> [ui EXCEPT !.imp.busy = ""]
                  [] OTHER -> ui

Pager ==
  \E n \in {0, 1} \ {ui.offset} :
    LET u == [ui EXCEPT !.offset = n] IN ui.data # Nil /\ Turn /\ ui' = u /\ Ask(calls \cup query(u))

\* A row of the list, or the cross of the detail.
GarduDetail ==
  \E g \in Gardus \cup {Nil} :
    LET u == [ui EXCEPT !.sel = g, !.detail = Nil] IN
    ui.data # Nil /\ g # ui.sel /\ Turn /\ ui' = u /\ Ask(calls \cup Detail(u))

prevMonth == CHOOSE p \in Months : TRUE

\* The import's month starts as the one shown, or the month before this one.  What was
\* sent goes on when the panel is closed.
ImportPanel ==
  /\ Turn
  /\ IF ui.imp = Nil
     THEN ui' = [ui EXCEPT !.imp = [NoImport EXCEPT !.month = IF ui.month = Nil THEN prevMonth ELSE ui.month]] /\ UNCHANGED calls
     ELSE ui' = [ui EXCEPT !.imp = Nil] /\ calls' = {[c EXCEPT !.closed = c.op \in {"preview", "apply", "delete"}] : c \in calls}

\* A file or a month chosen forgets the preview.
Chosen ==
  /\ ui.imp # Nil /\ Turn /\ UNCHANGED calls
  /\ \/ \E f \in Files \ {ui.imp.file} : ui' = [ui EXCEPT !.imp.file = f, !.imp.prev = Nil]
     \/ \E p \in Months \ {ui.imp.month} : ui' = [ui EXCEPT !.imp.month = p, !.imp.prev = Nil]
     \/ ui' = [ui EXCEPT !.imp.replace = ~@]

\* Preview needs a file, saving a preview with rows; only saving waits for its answer.
send ==
  \E op \in {"preview", "apply"} :
    /\ ui.imp # Nil /\ ui.imp.file # Nil /\ (op = "apply" => ui.imp.prev # Nil /\ ui.imp.busy # "apply")
    /\ Send([Call(op, ui.imp.month) EXCEPT !.file = ui.imp.file, !.replace = ui.imp.replace, !.lists = query(ui)])
    /\ ui' = [ui EXCEPT !.imp.busy = op] /\ UNCHANGED world

\* The preview is of the file and month sent.
Previewed ==
  \E c \in calls :
    /\ c.op = "preview" /\ Got(c) /\ UNCHANGED world
    /\ ui' = IF ui.imp = Nil \/ c.closed THEN ui
             ELSE [ui EXCEPT !.imp.busy = "", !.imp.prev = [file |-> c.file, month |-> c.month]]

\* The months are read again, then the one saved is shown; the list is read once more, as
\* it was when the command was given.
onDone(u, c, m) ==
  /\ ui' = [u EXCEPT !.offset = 0]
  /\ Ask((calls \ {c}) \cup {[Meta EXCEPT !.month = m, !.after = TRUE]} \cup c.lists
          \cup (IF u.offset = 0 THEN {} ELSE query([u EXCEPT !.offset = 0])))

Applied ==
  \E c \in calls :
    /\ c.op = "apply" /\ world' = [world EXCEPT !.months = @ \cup {c.month}]
    /\ onDone(IF ui.imp = Nil \/ c.closed THEN ui ELSE [ui EXCEPT !.imp = [@ EXCEPT !.file = Nil, !.prev = Nil, !.busy = ""]],
              c, c.month)

askDelete ==
  \E p \in (IF ui.months = Nil THEN {} ELSE ui.months) \cup {Nil} :
    ui.imp # Nil /\ p # ui.imp.del /\ Turn /\ UNCHANGED calls /\ ui' = [ui EXCEPT !.imp.del = p]
onConfirm ==
  /\ ui.imp # Nil /\ ui.imp.del # Nil /\ ui.imp.busy # "del"
  /\ Send([Call("delete", ui.imp.del) EXCEPT !.lists = query(ui)]) /\ ui' = [ui EXCEPT !.imp.busy = "del"] /\ UNCHANGED world
Deleted ==
  \E c \in calls :
    /\ c.op = "delete" /\ c.month \in world.months /\ world' = [world EXCEPT !.months = @ \ {c.month}]
    /\ onDone(IF ui.imp = Nil \/ c.closed THEN ui ELSE [ui EXCEPT !.imp.busy = "", !.imp.del = Nil], c, Nil)

Next ==
  \/ SetMonth \/ SetFilter \/ MetaLoaded \/ Loaded \/ Failed \/ Pager \/ GarduDetail \/ ImportPanel \/ Chosen
  \/ send \/ Previewed \/ Applied \/ askDelete \/ onConfirm \/ Deleted

Spec == Init /\ [][Next]_vars
====
