---- MODULE Regions ----
(***************************************************************************)
(* Reliability by region (src/frontend/components/exec/                    *)
(* RegionReliability.tsx): the totals of a period, a map coloured by one   *)
(* index at one level, and the region chosen on the map, in the table or   *)
(* by the address of the page.  A region has one value, or Nil without     *)
(* customers, for whatever index is chosen.                                *)
(***************************************************************************)
EXTENDS Screen

CONSTANTS
  Regs, ParentOf,  \* regions, and the one each belongs to (Nil for none)
  Periods,
  MaxValue,        \* bound: values of an index
  MaxTurns         \* bound: what the user does

Turn == world.turns < MaxTurns /\ world' = [world EXCEPT !.turns = @ + 1]
LevelOf(r) == IF ParentOf[r] = Nil THEN "up3" ELSE "ulp"
Call(op, r, p) == [op |-> op, region |-> r, period |-> p]

AskDetail(sel, p) == {Call("detail", r, p) : r \in {sel} \ {Nil}}

Init ==
  \E s \in Regs \cup {Nil}, p \in Periods :
    /\ ui = [period |-> p, level |-> "up3", sel |-> s, data |-> Nil, detail |-> Nil, expanded |-> {}, busy |-> FALSE]
    /\ calls = {Call("regions", Nil, p)} \cup AskDetail(s, p)
    /\ world = [turns |-> 0]

\* mutant: The answer for the region chosen before counts too.
Chosen_All(u, C) == ui' = [u EXCEPT !.detail = Nil] /\ SendAll(AskDetail(u.sel, u.period) \cup C)

\* Another region or period: what was shown goes, and its answer no longer counts.
Chosen(u, C) ==
  /\ ui' = [u EXCEPT !.detail = Nil]
  /\ calls' = {c \in calls : c.op # "detail"} \cup AskDetail(u.sel, u.period) \cup C
  /\ Cardinality(calls') <= MaxCalls

SetPeriod ==
  \E p \in Periods \ {ui.period} : Turn /\ Chosen([ui EXCEPT !.period = p], {Call("regions", Nil, p)})

\* On the map, in the table, among the parts of a region or the one it belongs to.
Select == \E r \in (Regs \cup {Nil}) \ {ui.sel} : Turn /\ Chosen([ui EXCEPT !.sel = r], {})
SetLevel == \E l \in {"up3", "ulp"} \ {ui.level} : Turn /\ ui' = [ui EXCEPT !.level = l] /\ UNCHANGED calls
Expand ==
  \E r \in Regs :
    /\ ui.data # Nil /\ ui.sel = Nil /\ LevelOf(r) = "up3"
    /\ Turn /\ UNCHANGED calls
    /\ ui' = [ui EXCEPT !.expanded = (@ \ {r}) \cup ({r} \ @)]

\* The totals that come last are shown, of whatever period.
Loaded ==
  \E c \in calls, v \in [Regs -> (0..MaxValue) \cup {Nil}] :
    /\ c.op = "regions" /\ Got(c) /\ UNCHANGED world
    /\ ui' = [ui EXCEPT !.data = [period |-> c.period, value |-> v]]

\* A region of the lower level switches the map to it, and unfolds its parent.
Detailed ==
  \E c \in calls :
    /\ c.op = "detail" /\ Got(c) /\ UNCHANGED world
    /\ ui' = [ui EXCEPT !.detail = c, !.level = IF LevelOf(c.region) = "ulp" THEN "ulp" ELSE @,
                        !.expanded = @ \cup ({ParentOf[c.region]} \ {Nil})]

\* The shares of the regions are computed anew, and the totals read for the period the
\* button was pressed in.
recompute ==
  /\ ~ui.busy /\ Turn /\ Send(Call("recompute", Nil, ui.period)) /\ ui' = [ui EXCEPT !.busy = TRUE]
Recomputed ==
  \E c \in calls :
    /\ c.op = "recompute" /\ UNCHANGED world
    /\ ui' = [ui EXCEPT !.busy = FALSE]
    /\ calls' = (calls \ {c}) \cup {Call("regions", Nil, c.period)}
Failed ==
  \E c \in calls : Got(c) /\ UNCHANGED world /\ ui' = IF c.op = "recompute" THEN [ui EXCEPT !.busy = FALSE] ELSE ui

Next ==
  SetPeriod \/ Select \/ SetLevel \/ Expand \/ Loaded \/ Detailed \/ recompute \/ Recomputed \/ Failed

Spec == Init /\ [][Next]_vars

----------------------------------------------------------------------------
(* Colours *)

\* The greatest value of a region of this level.
Greatest(value, level) ==
  LET S == {value[r] : r \in {q \in Regs : LevelOf(q) = level}} \ {Nil}
  IN IF S = {} THEN 0 ELSE CHOOSE m \in S : \A v \in S : v <= m

\* mutant: The greatest value falls beyond the last colour.
Class_Beyond(v, max) == IF v = Nil THEN "none" ELSE IF max = 0 THEN 0 ELSE (v * 5) \div max

\* One of five colours; grey without customers.
Class(v, max) ==
  IF v = Nil THEN "none" ELSE IF max = 0 THEN 0 ELSE IF (v * 5) \div max > 4 THEN 4 ELSE (v * 5) \div max

----------------------------------------------------------------------------
(* Properties *)

\* The region told of is the one chosen, for the period chosen, however fast regions and
\* periods are chosen and in whatever order answers come.
DetailOfSelection == ui.detail # Nil => ui.detail.region = ui.sel /\ ui.detail.period = ui.period

\* The colour of a region is one whose bounds in the legend hold its value.
ColourOfLegend ==
  ui.data # Nil => \A r \in Regs :
    LET v == ui.data.value[r]
        max == Greatest(ui.data.value, LevelOf(r))
        i == Class(v, max)
    IN v # Nil => i \in 0..4 /\ max * i <= 5 * v /\ 5 * v <= max * (i + 1)

\* The totals, the map and the table are of the period chosen (not so: the totals that
\* come last are shown, and recompute reads those of the period it began in).
TotalsOfPeriod == ui.data # Nil /\ calls = {} => ui.data.period = ui.period
====
