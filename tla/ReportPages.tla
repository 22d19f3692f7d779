---- MODULE ReportPages ----
(***************************************************************************)
(* The pages of reports: the periodic ones                                 *)
(* (src/frontend/components/exec/PeriodicReports.tsx) and those of the load *)
(* (src/frontend/components/load/Reports.tsx).  Both have a list by kind, a *)
(* report opened, made or made anew, and its summary.  That of a periodic  *)
(* report is written by hand or by the assistant; that of the load by the  *)
(* assistant in a panel that stays while the reports above it change       *)
(* (src/frontend/components/ai/AiOpsPanel.tsx): there a text is the set of *)
(* the reports its words are about; questions that follow are left out.    *)
(***************************************************************************)
EXTENDS Screen

CONSTANTS
  Reports, Kinds, KindOf,
  MaxTurns  \* bound: what the user does

----------------------------------------------------------------------------
(* Both pages: the list, a report opened or made *)

Call(op, r) == [op |-> op, report |-> r, kind |-> Nil, text |-> Nil, closed |-> FALSE]
Turn == world.turns < MaxTurns /\ world' = [world EXCEPT !.turns = @ + 1]
Ask(C) == Cardinality(C) <= MaxCalls /\ calls' = C

load(k) == [Call("list", Nil) EXCEPT !.kind = k]
Of(k) == {r \in world.made : k \in {Nil, KindOf[r]}}

SetKind == \E k \in (Kinds \cup {Nil}) \ {ui.kind} : LET u == [ui EXCEPT !.kind = k] IN Turn /\ ui' = u /\ Send(load(k))

\* The list that comes last is shown.
Listed ==
  \E c \in calls :
    /\ c.op = "list" /\ Got(c) /\ UNCHANGED world
    /\ ui' = [ui EXCEPT !.items = Of(c.kind)]

open ==
  \E r \in Reports :
    /\ ui.items # Nil /\ r \in ui.items /\ Turn
    /\ Send(Call("open", r)) /\ ui' = [ui EXCEPT !.busy = "open"]

\* A new one, or the one shown made anew: its summary is kept.
generate ==
  \E r \in Reports :
    /\ ui.busy # "gen" /\ Turn
    /\ Send([Call("generate", r) EXCEPT !.kind = ui.kind]) /\ ui' = [ui EXCEPT !.busy = "gen"]

\* The list is read, with the kind of when it began; then, even when that fails, the
\* report is opened.
Generated ==
  \E c \in calls :
    /\ c.op = "generate" /\ world' = [world EXCEPT !.made = @ \cup {c.report}] /\ UNCHANGED ui
    /\ Ask((calls \ {c}) \cup {[c EXCEPT !.op = "listed"]})
ListedThen ==
  \E c \in calls :
    /\ c.op = "listed" /\ Ask((calls \ {c}) \cup {Call("open", c.report)}) /\ UNCHANGED world
    /\ \E S \in {ui.items, Of(c.kind)} : ui' = [ui EXCEPT !.items = S, !.busy = "open"]

\* A report is gone, and what was being saved goes on without its view.
Removed(c) == {[d EXCEPT !.closed = d.op = "save"] : d \in calls \ {c}} \cup {load(c.kind)}

----------------------------------------------------------------------------
(* Periodic reports *)

NoView == [of |-> Nil, text |-> 0, editing |-> FALSE, ai |-> FALSE, saving |-> FALSE, confirm |-> FALSE]

PeriodicInit ==
  /\ ui = [kind |-> Nil, items |-> Nil, sel |-> Nil, busy |-> "", view |-> NoView]
  /\ calls = {Call("list", Nil)}
  /\ \E S \in SUBSET Reports : world = [made |-> S, text |-> [r \in Reports |-> 0], turns |-> 0]

\* Another report, or the same with another summary: what was being written is dropped,
\* the editor and the assistant are closed.
Viewed(u, r, n) ==
  [u EXCEPT !.sel = [report |-> r, text |-> n],
            !.view = IF u.sel = Nil THEN [NoView EXCEPT !.of = r, !.text = n]
                     ELSE IF u.sel.report = r /\ u.sel.text = n THEN u.view
                     ELSE [u.view EXCEPT !.of = r, !.text = n, !.editing = FALSE, !.ai = FALSE]]

\* The report that comes last is shown.
PeriodicOpened ==
  \E c \in calls :
    /\ c.op = "open" /\ c.report \in world.made /\ Got(c) /\ UNCHANGED world
    /\ ui' = [Viewed(ui, c.report, world.text[c.report]) EXCEPT !.busy = ""]

Edit ==
  /\ ui.sel # Nil /\ Turn /\ UNCHANGED calls
  /\ \/ ~ui.view.editing /\ ui' = [ui EXCEPT !.view.editing = TRUE]
     \/ ui.view.editing /\ ui.view.text # 1 /\ ui' = [ui EXCEPT !.view.text = 1]
     \/ ui.view.editing /\ ui' = [ui EXCEPT !.view.editing = FALSE, !.view.text = ui.sel.text]
     \/ ~ui.view.editing /\ ui' = [ui EXCEPT !.view.ai = ~@]

\* What was typed, or what the assistant wrote for the report, goes to the report shown.
saveNarrative ==
  \E n \in {ui.view.text, 2} :
    /\ ui.sel # Nil /\ (IF n = 2 THEN ui.view.ai /\ ~ui.view.editing ELSE ui.view.editing /\ ~ui.view.saving)
    /\ Send([Call("save", ui.sel.report) EXCEPT !.kind = ui.kind, !.text = n]) /\ ui' = [ui EXCEPT !.view.saving = TRUE] /\ UNCHANGED world

\* The report saved is shown again, whatever was opened meanwhile.
PeriodicSaved ==
  \E c \in calls :
    /\ c.op = "save" /\ c.report \in world.made /\ world' = [world EXCEPT !.text[c.report] = c.text]
    /\ LET u == Viewed(ui, c.report, c.text)
       IN ui' = IF c.closed THEN u ELSE [u EXCEPT !.view.editing = FALSE, !.view.ai = FALSE, !.view.saving = FALSE]
    /\ Ask((calls \ {c}) \cup {load(c.kind)})

askDelete == ui.sel # Nil /\ Turn /\ ui' = [ui EXCEPT !.view.confirm = ~@] /\ UNCHANGED calls
del == ui.view.confirm /\ ui.sel # Nil /\ Send([Call("delete", ui.sel.report) EXCEPT !.kind = ui.kind]) /\ UNCHANGED <<ui, world>>

\* Nothing is shown then; the list is read again.
PeriodicDeleted ==
  \E c \in calls :
    /\ c.op = "delete" /\ world' = [world EXCEPT !.made = @ \ {c.report}]
    /\ ui' = [ui EXCEPT !.sel = Nil, !.view = NoView] /\ Ask(Removed(c))

PeriodicFailed ==
  \E c \in calls :
    /\ c.op # "listed" /\ Got(c) /\ UNCHANGED world
    /\ ui' = CASE c.op \in {"open", "generate"} -> [ui EXCEPT !.busy = ""]
               [] c.op = "save" /\ ~c.closed -> [ui EXCEPT !.view.saving = FALSE]
               [] OTHER -> ui

PeriodicNext ==
  \/ SetKind \/ Listed \/ open \/ PeriodicOpened \/ generate \/ Generated \/ ListedThen \/ Edit \/ saveNarrative \/ PeriodicSaved
  \/ askDelete \/ del \/ PeriodicDeleted \/ PeriodicFailed

----------------------------------------------------------------------------
(* Reports of the load *)

LoadInit ==
  /\ ui = [kind |-> Nil, items |-> {}, sel |-> Nil, busy |-> "", del |-> FALSE, ai |-> Nil]
  /\ calls = {Call("list", Nil)}
  /\ \E S \in SUBSET Reports : world = [made |-> S, text |-> [r \in Reports |-> {}], turns |-> 0]

Stream(r) == Call("ops", r)

\* The panel starts by itself for each report it is shown with; a stream on its way for
\* another one goes on.
Started(u) ==
  IF u.sel = Nil THEN [u EXCEPT !.ai = Nil, !.del = FALSE]
  ELSE IF u.ai = Nil \/ u.ai.started = u.sel THEN u
  ELSE [u EXCEPT !.ai = [started |-> u.sel, words |-> {}, busy |-> TRUE]]

\* Without a report there is no panel, which ends the stream it knows of.
Streams(u, C) ==
  IF u.sel = Nil \/ u.ai = Nil THEN {c \in C : c.op # "ops"}
  ELSE IF u.ai.started = u.sel THEN C ELSE C \cup {Stream(u.sel)}
Shown(u, C) == ui' = Started(u) /\ Ask(Streams(u, C))

\* The report whose answer is last is shown.
LoadOpened ==
  \E c \in calls :
    /\ c.op = "open" /\ c.report \in world.made /\ UNCHANGED world
    /\ Shown([ui EXCEPT !.sel = c.report, !.busy = ""], calls \ {c})

\* The button of the assistant shows the panel or takes it away, with its stream.
ToggleAi ==
  /\ ui.sel # Nil /\ Turn
  /\ IF ui.ai # Nil THEN Shown([ui EXCEPT !.ai = Nil], calls)
     ELSE Shown([ui EXCEPT !.ai = [started |-> Nil, words |-> {}, busy |-> FALSE]], calls)

\* The words of any stream go to the last answer there is.
Patched(u, r) == [u EXCEPT !.ai.words = @ \cup {r}]
Delta == \E c \in calls : c.op = "ops" /\ ui.ai # Nil /\ Show(Patched(ui, c.report))

\* The end of any stream, an error or the stop button, ends the waiting.
StreamDone == \E c \in calls : c.op = "ops" /\ Got(c) /\ ui' = [ui EXCEPT !.ai.busy = FALSE] /\ UNCHANGED world

\* Written anew.
rerun ==
  /\ ui.ai # Nil /\ ~ui.ai.busy /\ Turn
  /\ Send(Stream(ui.sel)) /\ ui' = [ui EXCEPT !.ai = [started |-> ui.sel, words |-> {}, busy |-> TRUE]]

\* An answer that ended well can be used: it goes to the report shown.
Usable == ui.ai # Nil /\ ~ui.ai.busy /\ ui.ai.words # {}
onUse == Usable /\ Send([Call("save", ui.sel) EXCEPT !.kind = ui.kind, !.text = ui.ai.words]) /\ UNCHANGED <<ui, world>>

\* The report saved is shown again, without the panel.
LoadSaved ==
  \E c \in calls :
    /\ c.op = "save" /\ c.report \in world.made /\ world' = [world EXCEPT !.text[c.report] = c.text]
    /\ Shown([ui EXCEPT !.sel = c.report, !.ai = IF c.closed THEN @ ELSE Nil], (calls \ {c}) \cup {load(c.kind)})

setDel == ui.sel # Nil /\ Turn /\ ui' = [ui EXCEPT !.del = ~@] /\ UNCHANGED calls
onConfirm == ui.del /\ Send([Call("delete", ui.sel) EXCEPT !.kind = ui.kind]) /\ UNCHANGED <<ui, world>>
LoadDeleted ==
  \E c \in calls :
    /\ c.op = "delete" /\ world' = [world EXCEPT !.made = @ \ {c.report}]
    /\ Shown([ui EXCEPT !.sel = Nil], Removed(c))

LoadFailed ==
  \E c \in calls :
    /\ c.op \notin {"ops", "listed"} /\ Got(c) /\ UNCHANGED world
    /\ ui' = IF c.op \in {"open", "generate"} THEN [ui EXCEPT !.busy = ""] ELSE ui

LoadNext ==
  \/ SetKind \/ Listed \/ open \/ LoadOpened \/ generate \/ Generated \/ ListedThen \/ ToggleAi \/ Delta \/ StreamDone \/ rerun
  \/ onUse \/ LoadSaved \/ setDel \/ onConfirm \/ LoadDeleted \/ LoadFailed

----------------------------------------------------------------------------
(* Properties *)

\* What is saved as the summary of a periodic report was begun for that report, although
\* another one may be shown by a late answer while it is written.
WrittenForReport == ui.sel # Nil => ui.view.of = ui.sel.report

\* The summary saved with a report of the load tells of that report (not so: the panel is
\* not reset for another report, two streams add to one text).
SummaryOfReport == \A r \in Reports : world.text[r] \subseteq {r}
====
