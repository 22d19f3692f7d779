---- MODULE AiOps ----
(***************************************************************************)
(* The tab of AI analyses (src/frontend/components/ops/AiOpsTab.tsx) and   *)
(* the panel that streams one (src/frontend/components/ai/AiOpsPanel.tsx). *)
(* The panel is keyed by what it is about: another target, or a tab that   *)
(* is hidden, ends it and its stream.  Buttons of other tabs send a target *)
(* and have its analysis start by itself.                                  *)
(***************************************************************************)
EXTENDS Screen

CONSTANTS
  Targets,   \* ids, by task: what an analysis may be about
  MaxTurns,  \* bound: turns of a conversation
  MaxSent    \* bound: targets sent by other tabs

Tasks == DOMAIN Targets

Stream(about) == [op |-> "ops", about |-> about, nonce |-> ui.nonce]
NoPanel == [key |-> Nil, turns |-> <<>>, busy |-> FALSE, started |-> FALSE]

Init ==
  /\ \E p \in {"configured", "none"} : world = [provider |-> p, sent |-> {}, wrong |-> FALSE, times |-> 0]
  /\ ui = [task |-> "outage", id |-> [t \in Tasks |-> Nil], auto |-> Nil, nonce |-> 0,
           visible |-> FALSE, prov |-> Nil, panel |-> NoPanel]
  /\ calls = {}

\* What the selectors name: a task, and an id where the task has one.
CurKey(u) == <<u.task, u.id[u.task]>>
Ready(u) == u.visible /\ (Targets[u.task] # {} => u.id[u.task] # Nil)
PanelKey(u) == IF Ready(u) THEN <<CurKey(u), u.nonce>> ELSE Nil

\* mutant: The panel stays when its key changes.
Shown_OnePanel(u) ==
  /\ ui' = IF PanelKey(u) = Nil THEN [u EXCEPT !.panel = NoPanel] ELSE [u EXCEPT !.panel.key = PanelKey(u)]
  /\ UNCHANGED calls

\* A panel with another key replaces the one shown and stops its stream.
Shown(u) ==
  IF PanelKey(u) = u.panel.key THEN ui' = u /\ UNCHANGED calls
  ELSE /\ ui' = [u EXCEPT !.panel = [NoPanel EXCEPT !.key = PanelKey(u)]]
       /\ calls' = {c \in calls : c.op # "ops"}

----------------------------------------------------------------------------
(* The tab *)

SetVisible == Shown([ui EXCEPT !.visible = ~@]) /\ UNCHANGED world

\* Outages and plans are there: one of them is taken unless one was chosen.
load ==
  /\ ui.visible
  /\ \E ids \in [Tasks -> (UNION {Targets[t] : t \in Tasks}) \cup {Nil}] :
       /\ \A t \in Tasks : IF ui.id[t] # Nil \/ Targets[t] = {} THEN ids[t] = ui.id[t] ELSE ids[t] \in Targets[t]
       /\ Shown([ui EXCEPT !.id = ids])
  /\ UNCHANGED world

setTask(t) == ui.visible /\ Shown([ui EXCEPT !.task = t, !.auto = Nil]) /\ UNCHANGED world

SelectId(i) ==
  /\ ui.visible /\ ui.id[ui.task] # Nil /\ i \in Targets[ui.task]
  /\ Shown([ui EXCEPT !.id[ui.task] = i]) /\ UNCHANGED world

\* A button of another tab sends a target.
preset(t, i) ==
  /\ i \in (IF Targets[t] = {} THEN {Nil} ELSE Targets[t])
  /\ ui.nonce < MaxSent
  /\ Shown([ui EXCEPT !.task = t, !.id[t] = i, !.auto = <<t, i>>, !.nonce = @ + 1, !.visible = TRUE])
  /\ world' = [world EXCEPT !.sent = @ \cup {<<t, i>>}]

----------------------------------------------------------------------------
(* The panel *)

\* Which provider answers is asked once for all panels.
providers ==
  /\ ui.panel.key # Nil /\ ui.prov = Nil
  /\ \E p \in {world.provider, "none"} : Show([ui EXCEPT !.prov = p])

Question == [role |-> "user", about |-> CurKey(ui)]
Empty == [role |-> "assistant", about |-> Nil]

run(history) ==
  /\ Len(history) < MaxTurns
  /\ Send(Stream(CurKey(ui)))
  /\ ui' = [ui EXCEPT !.panel.turns = Append(history, Empty), !.panel.busy = TRUE]

Usable == ui.panel.key # Nil /\ ui.prov = "configured"

\* mutant: Any panel that a button once led to starts.
AutoStart_Any ==
  /\ Usable /\ ~ui.panel.started
  /\ ui.auto # Nil
  /\ Send(Stream(CurKey(ui)))
  /\ ui' = [ui EXCEPT !.panel = [@ EXCEPT !.turns = <<Empty>>, !.busy = TRUE, !.started = TRUE]]
  /\ world' = [world EXCEPT !.wrong = @ \/ CurKey(ui) \notin world.sent]

\* Once for the panel: a panel that comes back starts again.
AutoStart ==
  /\ Usable /\ ~ui.panel.started
  /\ ui.auto = CurKey(ui)
  /\ Send(Stream(CurKey(ui)))
  /\ ui' = [ui EXCEPT !.panel = [@ EXCEPT !.turns = <<Empty>>, !.busy = TRUE, !.started = TRUE]]
  /\ world' = [world EXCEPT !.wrong = @ \/ CurKey(ui) \notin world.sent,
                            !.times = IF @ < 2 THEN @ + 1 ELSE @]

Run == Usable /\ ~ui.panel.busy /\ run(<<>>) /\ UNCHANGED world

FollowUp ==
  /\ Usable /\ ~ui.panel.busy /\ ui.panel.turns # <<>>
  /\ run(Append(Only(ui.panel.turns, {t \in {ui.panel.turns[i] : i \in DOMAIN ui.panel.turns} : t.role # "error"}), Question))
  /\ UNCHANGED world

\* The last turn grows with the stream; the end, an error or the button ends it.
patch(role, about) == [ui EXCEPT !.panel.turns[Len(ui.panel.turns)] = [role |-> role, about |-> about]]

Delta ==
  \E c \in calls :
    /\ ui.panel.turns # <<>>
    /\ ui' = patch("assistant", c.about) /\ UNCHANGED <<calls, world>>

StreamEnds ==
  \E c \in calls : \E role \in {"assistant", "error"} :
    /\ ui.panel.turns # <<>>
    /\ ui' = [patch(role, c.about) EXCEPT !.panel.busy = FALSE]
    /\ Got(c) /\ UNCHANGED world

Stop ==
  /\ ui.panel.busy
  /\ ui' = [ui EXCEPT !.panel.busy = FALSE] /\ calls' = {} /\ UNCHANGED world

Next ==
  \/ SetVisible \/ load \/ providers \/ AutoStart \/ Run \/ FollowUp \/ Delta \/ StreamEnds \/ Stop
  \/ \E t \in Tasks : setTask(t)
  \/ \E i \in UNION {Targets[t] : t \in Tasks} : SelectId(i)
  \/ \E t \in Tasks : \E i \in Targets[t] \cup {Nil} : preset(t, i)

Spec == Init /\ [][Next]_vars

----------------------------------------------------------------------------
(* Properties *)

\* Whatever is written in the panel is about the outage or the plan that stands in
\* the selectors, although streams outlast a change of the selection.
AnswerOfTarget ==
  \A i \in DOMAIN ui.panel.turns : ui.panel.turns[i].about \in {Nil, CurKey(ui)}

\* AiOpsTab.tsx: "analisis dimulai otomatis hanya untuk target yang dikirim tombol di
\* tab lain": an analysis starts by itself only for a target some button sent.
AutoOnlyAsked == ~world.wrong

\* AiOpsPanel.tsx: "mulai otomatis sekali per target", once for each target.
StartsOnce == world.times <= ui.nonce
====
