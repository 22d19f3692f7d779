---- MODULE SwitchingPlans ----
(***************************************************************************)
(* The tab of switching plans (src/frontend/components/ops/PlansTab.tsx)   *)
(* beside the plans the server keeps (src/backend/internal/gis/ops.go).    *)
(* Requests overlap and their answers arrive in any order; other           *)
(* dispatchers change the same plans; changes of plans and outages are     *)
(* announced over the WebSocket, which makes the tab read its plan again.  *)
(* Any stored plan can be opened from the list, and the FLISR tab hands    *)
(* over the plan it has made; titles, notes and what a simulation shows    *)
(* are left out.                                                           *)
(***************************************************************************)
EXTENDS Screen

CONSTANTS
  Plans,     \* ids of plans
  Picks,     \* network elements selected on the map
  Actions,   \* open, close
  Initial,   \* what the server may hold at first: plans by id, or Nil
  MaxSteps,  \* bound: steps of a plan
  MaxOthers  \* bound: changes by other dispatchers and plans made by the FLISR tab

Step == [action : Actions, at : Picks]
Stored(p) == p \in Plans /\ world.store[p] # Nil

----------------------------------------------------------------------------
(* The server; the first `done` steps of a plan are done or skipped *)

SavePlan(p, steps) == [world.store EXCEPT ![p] = [status |-> "draft", steps |-> steps, done |-> 0]]
MaySave(p) == Stored(p) /\ world.store[p].status = "draft"

\* The status each command may start from, and the one it sets.
SetPlanStatus(op) ==
  CASE op = "approve" -> [from |-> {"draft"}, to |-> "approved"]
    [] op = "reopen"  -> [from |-> {"approved", "cancelled"}, to |-> "draft"]
    [] op = "cancel"  -> [from |-> {"draft", "approved", "executing"}, to |-> "cancelled"]

MaySet(p, op) == Stored(p) /\ world.store[p].status \in SetPlanStatus(op).from

DeletePlan(p) == Stored(p) /\ world.store[p].status \in {"draft", "cancelled"}

\* The step asked for must be the first that is not done or skipped.
opsStep(p, seq) ==
  /\ Stored(p) /\ world.store[p].status \in {"approved", "executing"}
  /\ seq = world.store[p].done + 1 /\ seq <= Len(world.store[p].steps)

MarkStep(p, seq) ==
  [world.store EXCEPT ![p].done = seq,
                      ![p].status = IF seq = Len(world.store[p].steps) THEN "done" ELSE "executing"]

----------------------------------------------------------------------------
(* Requests; `after` says what the tab awaits the answer for *)

Call(op, p) == [op |-> op, id |-> p, steps |-> <<>>, seq |-> 0, shown |-> Nil,
                after |-> "", reply |-> "sent", plan |-> Nil]
openPlan(p, after) == [Call("open", p) EXCEPT !.after = after]
Answered(ops) == {c \in calls : c.op \in ops /\ c.reply # "sent"}

\* The button whose request is running, and its step.
NotBusy == <<"", 0>>

Init ==
  /\ ui = [plan |-> Nil, draft |-> Nil, busy |-> NotBusy, confirm |-> Nil]
  /\ calls = {}
  /\ \E s \in Initial : world = [store |-> s, wrong |-> FALSE, others |-> 0]

----------------------------------------------------------------------------
(* What the tab shows and lets the user do *)

StepsShown ==
  IF ui.draft # Nil THEN ui.draft.steps ELSE IF ui.plan # Nil THEN ui.plan.steps ELSE <<>>

InList == ui.plan = Nil /\ ui.draft = Nil
Free == ui.confirm = Nil

NextSeq ==
  IF ui.plan # Nil /\ ui.plan.status \in {"approved", "executing"} /\ ui.plan.done < Len(StepsShown)
  THEN ui.plan.done + 1 ELSE 0

\* Edits the server does not have.
Unsaved == ui.plan # Nil /\ ui.draft # Nil /\ ui.draft.steps # ui.plan.steps

\* The buttons under the steps.  One whose request is running does not answer,
\* except "save": its `disabled` takes the place of `loading` (ui.tsx).
PlanButton(b) ==
  /\ Free
  /\ CASE b = "simulate" -> StepsShown # <<>> /\ ui.busy[1] # b
       [] b = "save"     -> ui.draft # Nil /\ ui.draft.steps # <<>>
       [] b = "approve"  -> ui.plan # Nil /\ ui.plan.status = "draft" /\ ~Unsaved
                            /\ ui.plan.steps # <<>> /\ ui.busy[1] # b
       [] b = "delete"   -> ui.plan # Nil /\ ui.plan.status \in {"draft", "cancelled"} /\ ui.busy[1] # b
       [] OTHER          -> ui.plan # Nil /\ ui.plan.status \in SetPlanStatus(b).from /\ ui.busy[1] # b

\* The buttons of the step that is next.
StepButton(b) ==
  /\ Free /\ NextSeq # 0
  /\ IF b = "execute" THEN ui.busy # <<"step", NextSeq>> ELSE ui.busy = NotBusy

Open(p) == InList /\ Stored(p) /\ Send(openPlan(p, "")) /\ UNCHANGED <<ui, world>>

\* The FLISR tab saves a plan of its own (FlisrTab.tsx), whatever this tab shows.
MakePlan ==
  /\ world.others < MaxOthers /\ world' = [world EXCEPT !.others = @ + 1]
  /\ \E x \in Step : Send([Call("create", Nil) EXCEPT !.steps = <<x>>])
  /\ UNCHANGED ui

newPlan == InList /\ Show([ui EXCEPT !.draft = [id |-> Nil, steps |-> <<>>]])

Back == ~InList /\ Free /\ Show([ui EXCEPT !.plan = Nil, !.draft = Nil])

\* A step of the element picked is added, or one is dropped, turned round or moved.
Edited(s) ==
  {Append(s, x) : x \in IF Len(s) < MaxSteps THEN Step ELSE {}}
  \cup {SubSeq(s, 1, i - 1) \o SubSeq(s, i + 1, Len(s)) : i \in DOMAIN s}
  \cup {[s EXCEPT ![i].action = a] : i \in DOMAIN s, a \in Actions}
  \cup {[s EXCEPT ![i] = s[i + 1], ![i + 1] = s[i]] : i \in 1..(Len(s) - 1)}

EditSteps ==
  /\ ui.draft # Nil /\ Free
  /\ \E s \in Edited(ui.draft.steps) : Show([ui EXCEPT !.draft.steps = s])

Press(name, c) == Send(c) /\ ui' = [ui EXCEPT !.busy = <<name, 0>>] /\ UNCHANGED world

simulate ==
  PlanButton("simulate") /\ Press("simulate", Call("simulate", Nil))

save ==
  PlanButton("save") /\ Press("save", [Call("save", ui.draft.id) EXCEPT !.steps = ui.draft.steps])

act(op) == PlanButton(op) /\ Press(op, Call(op, ui.plan.id))

PressStep(c) == Send(c) /\ ui' = [ui EXCEPT !.busy = <<"step", c.seq>>] /\ UNCHANGED world

skip == StepButton("skip") /\ PressStep([Call("skip", ui.plan.id) EXCEPT !.seq = NextSeq])

\* The dialog names the step: its place, its action and its element.
AskExecute ==
  /\ StepButton("execute")
  /\ Show([ui EXCEPT !.confirm = [seq |-> NextSeq, step |-> StepsShown[NextSeq]]])

CancelDialog == ui.confirm # Nil /\ ~InList /\ Show([ui EXCEPT !.confirm = Nil])

\* The step of the dialog, in the plan that is open when it is confirmed.
execute ==
  /\ ui.confirm # Nil /\ ui.plan # Nil /\ ui.busy[1] # "step"
  /\ PressStep([Call("execute", ui.plan.id) EXCEPT !.seq = ui.confirm.seq, !.shown = ui.confirm.step])

----------------------------------------------------------------------------
(* Requests at the server, and their answers *)

Serve ==
  \E c \in calls :
    LET May == CASE c.op = "simulate" -> TRUE
                 [] c.op = "open"     -> Stored(c.id)
                 [] c.op \in {"save", "create"} -> c.id # Nil => MaySave(c.id)
                 [] c.op = "delete"   -> DeletePlan(c.id)
                 [] c.op \in {"execute", "skip"} -> opsStep(c.id, c.seq)
                 [] OTHER             -> MaySet(c.id, c.op)
        Answer(kind, p) == calls' = (calls \ {c}) \cup {[c EXCEPT !.reply = kind, !.plan = p]}
        Wrote(s) == world' = [world EXCEPT !.store = s]
    IN
    /\ c.reply = "sent"
    /\ \/ ~May /\ Answer("refused", Nil) /\ UNCHANGED world
       \/ May /\ c.op = "simulate" /\ Answer("ok", Nil) /\ UNCHANGED world
       \/ May /\ c.op = "open" /\ Answer("ok", world.store[c.id]) /\ UNCHANGED world
       \/ /\ May /\ c.op \in {"save", "create"}
          /\ \E p \in (IF c.id = Nil THEN {q \in Plans : ~Stored(q)} ELSE {c.id}) :
               Wrote(SavePlan(p, c.steps)) /\ Answer("ok", p)
       \/ May /\ c.op = "delete" /\ Wrote([world.store EXCEPT ![c.id] = Nil]) /\ Answer("ok", Nil)
       \/ /\ May /\ c.op \in {"approve", "reopen", "cancel"}
          /\ Wrote([world.store EXCEPT ![c.id].status = SetPlanStatus(c.op).to]) /\ Answer("ok", c.id)
       \/ May /\ c.op = "skip" /\ Wrote(MarkStep(c.id, c.seq)) /\ Answer("ok", c.id)
       \/ /\ May /\ c.op = "execute" /\ Answer("ok", c.id)
          /\ world' = [world EXCEPT !.store = MarkStep(c.id, c.seq),
                                    !.wrong = @ \/ c.shown # world.store[c.id].steps[c.seq]]
    /\ UNCHANGED ui

\* mutant: The editor is left as it is.
WithPlan_KeepsDraft(u, id, p) ==
  [u EXCEPT !.plan = [id |-> id, status |-> p.status, steps |-> p.steps, done |-> p.done],
            !.draft = IF p.status = "draft" THEN [id |-> id, steps |-> p.steps] ELSE @]

\* What is on the screen is replaced, whatever has been typed or opened since.
WithPlan(u, id, p) ==
  [u EXCEPT !.plan = [id |-> id, status |-> p.status, steps |-> p.steps, done |-> p.done],
            !.draft = IF p.status = "draft" THEN [id |-> id, steps |-> p.steps] ELSE Nil]

OpenAnswered ==
  \E c \in Answered({"open"}) :
    LET free == [ui EXCEPT !.busy = IF c.after = "free" THEN NotBusy ELSE @]
    IN /\ ui' = IF c.reply = "refused" THEN free ELSE WithPlan(free, c.id, c.plan)
       /\ Got(c) /\ UNCHANGED world

\* The plan of the FLISR tab is handed over (onPlanCreated): the plan that is open is
\* read again, and the new one is opened beside it.
PlanHandedOver ==
  \E c \in Answered({"create"}) :
    LET read == IF c.reply = "refused" THEN {}
                ELSE {openPlan(c.plan, "")} \cup IF ui.plan = Nil THEN {} ELSE {openPlan(ui.plan.id, "")}
    IN /\ Cardinality((calls \ {c}) \cup read) <= MaxCalls
       /\ calls' = (calls \ {c}) \cup read
       /\ UNCHANGED <<ui, world>>

SimulateAnswered ==
  \E c \in Answered({"simulate"}) :
    ui' = [ui EXCEPT !.busy = NotBusy] /\ Got(c) /\ UNCHANGED world

\* A command carried out: the plan is opened again, before the button is freed.
\* A step refused: likewise; anything else refused only frees the button.
CommandAnswered ==
  \E c \in Answered({"save", "approve", "reopen", "cancel", "delete", "execute", "skip"}) :
    LET ok == c.reply = "ok"
        step == c.op \in {"execute", "skip"}
        again == (ok /\ c.op # "delete") \/ step
        closed == IF ok /\ c.op = "delete" THEN [ui EXCEPT !.plan = Nil, !.draft = Nil]
                  ELSE IF ok /\ step THEN [ui EXCEPT !.confirm = Nil] ELSE ui
    IN /\ ui' = IF again THEN closed ELSE [closed EXCEPT !.busy = NotBusy]
       /\ calls' = (calls \ {c}) \cup
            IF again THEN {openPlan(IF c.op = "save" THEN c.plan ELSE c.id, "free")} ELSE {}
       /\ UNCHANGED world

\* refreshKey has changed, a plan or an outage somewhere having changed: the plan that
\* is open is read again.  It need not: the WebSocket may be down.
Refresh == ui.plan # Nil /\ Send(openPlan(ui.plan.id, "")) /\ UNCHANGED <<ui, world>>

OtherDispatcher ==
  /\ world.others < MaxOthers
  /\ \E p \in Plans : \E s \in UNION {
         IF MaySave(p) THEN {SavePlan(p, <<x>>) : x \in Step} ELSE {},
         {[world.store EXCEPT ![p].status = SetPlanStatus(op).to] :
            op \in {o \in {"approve", "reopen", "cancel"} : MaySet(p, o)}},
         IF DeletePlan(p) THEN {[world.store EXCEPT ![p] = Nil]} ELSE {},
         {MarkStep(p, seq) : seq \in {n \in 1..MaxSteps : opsStep(p, n)}}} :
       /\ world' = [world EXCEPT !.store = s, !.others = @ + 1]
  /\ UNCHANGED <<ui, calls>>

Next ==
  \/ \E p \in Plans : Open(p)
  \/ MakePlan \/ PlanHandedOver
  \/ newPlan \/ Back \/ EditSteps
  \/ simulate \/ save \/ skip
  \/ \E op \in {"approve", "reopen", "cancel", "delete"} : act(op)
  \/ AskExecute \/ CancelDialog \/ execute
  \/ Serve \/ OpenAnswered \/ SimulateAnswered \/ CommandAnswered
  \/ Refresh \/ OtherDispatcher

Spec == Init /\ [][Next]_vars

----------------------------------------------------------------------------
(* Properties *)

\* The editor is open on the plan shown or on a new one, and never on a plan past
\* its draft: what `save` sends belongs to what is on the screen, although answers
\* for other plans may replace the screen at any time.
DraftOfPlan ==
  (ui.plan # Nil /\ ui.draft # Nil) => (ui.draft.id = ui.plan.id /\ ui.plan.status = "draft")

\* The dialog of the tab (components/ops/i18n.ts): "Execute step {n}: {action}
\* {code}?"  What is operated is what it named.
ConfirmedStep == ~world.wrong
====
