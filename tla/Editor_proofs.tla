---- MODULE Editor_proofs ----
(***************************************************************************)
(* The pages of Editor: an invariant of each, which its opening            *)
(* establishes and every step of it keeps, for any number of objects,      *)
(* packages, feeders, clicks, jobs, reports, questions and answers on      *)
(* their way.  Workspace_proofs puts them together with the others.        *)
(***************************************************************************)
EXTENDS Editor, SequenceTheorems, FiniteSetTheorems, WellFoundedInduction, TLAPS

\* A record with the fields F.
Fields(r, F) == r = [f \in F |-> r[f]]

\* A request of one of these kinds is among C.
Sent(C, ops) == \E c \in C : c.op \in ops

\* A request of these kinds is still there if each of them has one like it.
LEMMA StillSent ==
  ASSUME NEW C, NEW D, NEW ops, Sent(C, ops), \A c \in C : c.op \in ops => \E d \in D : d.op = c.op
  PROVE  Sent(D, ops)
BY DEF Sent

\* A set of numbers has a least one.
LEMMA Least ==
  ASSUME NEW S \in SUBSET Nat, S # {}
  PROVE  \E x \in S : \A y \in S : x <= y
<1>1. PICK x \in S : \A y \in S : ~ (<<y, x>> \in OpToRel(<, Nat))
  BY NatLessThanWellFounded, WFMin
<1>2. \A y \in S : ~(y < x)
  BY <1>1 DEF OpToRel
<1> QED BY <1>2

-----------------------------------------------------------------------------
(* GdbImport *)

JobWorld == {"job", "db", "work", "approved", "applied", "blind", "others", "faults"}

\* What is being carried out, and what was, was approved.
Reviewed(w) ==
  /\ Fields(w, JobWorld)
  /\ \A g \in w.work : Fields(g, {"id", "stage"}) /\ (g.stage # "compare" => g.id \in w.approved)
  /\ w.applied \subseteq w.approved
GdbInv == Reviewed(world)

\* No import at first.
LEMMA GdbInit == ASSUME Gdb!Init PROVE GdbInv
BY DEF Gdb!Init, GdbInv, Reviewed, Fields, JobWorld

\* A goroutine may end, and a row and the job in memory become anything.
LEMMA Fewer ==
  ASSUME NEW v, NEW w, Reviewed(w), Fields(v, JobWorld), v.work \subseteq w.work, v.approved = w.approved, v.applied = w.applied
  PROVE  Reviewed(v)
BY DEF Reviewed

\* A goroutine that ends a job approves and carries out nothing.
LEMMA Finished ==
  ASSUME NEW w, Reviewed(w), NEW id, NEW s
  PROVE  /\ Reviewed(Gdb!Finish(w, id, s)) /\ Gdb!Finish(w, id, s).work = w.work
         /\ Gdb!Finish(w, id, s).approved = w.approved /\ Gdb!Finish(w, id, s).applied = w.applied
BY DEF Gdb!Finish, Reviewed, Fields, JobWorld

\* A job begun is compared first.
LEMMA Started == ASSUME NEW w, Reviewed(w) PROVE Reviewed(Gdb!Start(w))
<1> DEFINE g == [id |-> Len(w.db) + 1, stage |-> "compare"]
<1>1. Fields(g, {"id", "stage"}) /\ g.stage = "compare"
  BY DEF Fields
<1>2. /\ Fields(Gdb!Start(w), JobWorld) /\ Gdb!Start(w).work = w.work \cup {g}
      /\ Gdb!Start(w).approved = w.approved /\ Gdb!Start(w).applied = w.applied
  BY DEF Gdb!Start, Reviewed, Fields, JobWorld
<1> HIDE DEF g
<1> QED BY <1>1, <1>2 DEF Reviewed

\* Only what is under review is carried out.
LEMMA Approved == ASSUME NEW w, Reviewed(w) PROVE Reviewed(Gdb!Apply(w))
<1>1. CASE Gdb!InReview(w)
  <2> DEFINE g == [id |-> w.job.id, stage |-> "apply"]
  <2>1. Fields(g, {"id", "stage"}) /\ g.id = w.job.id
    BY DEF Fields
  <2>2. /\ Fields(Gdb!Apply(w), JobWorld) /\ Gdb!Apply(w).work = w.work \cup {g}
        /\ Gdb!Apply(w).approved = w.approved \cup {w.job.id} /\ Gdb!Apply(w).applied = w.applied
    BY <1>1 DEF Gdb!Apply, Reviewed, Fields, JobWorld
  <2> HIDE DEF g
  <2> QED BY <2>1, <2>2 DEF Reviewed
<1>2. CASE ~Gdb!InReview(w)
  BY <1>2 DEF Gdb!Apply
<1> QED BY <1>1, <1>2

\* Nothing is carried out that was not approved, whoever commands.
LEMMA GdbNext == ASSUME GdbInv, Gdb!Next PROVE GdbInv'
<1> USE DEF GdbInv
<1>1. CASE UNCHANGED world
  BY <1>1 DEF Reviewed
<1>2. CASE Gdb!start \/ (\E i \in Gdb!Jobs : Gdb!askDelete(i)) \/ Gdb!DeleteDialog \/ Gdb!Decision \/ Gdb!ConfirmApply \/ Gdb!poll
  BY <1>1, <1>2 DEF Gdb!start, Gdb!askDelete, Gdb!DeleteDialog, Gdb!Decision, Gdb!ConfirmApply, Gdb!poll, Gdb!Show
<1>3. CASE Gdb!Compared
  <2> PICK g \in world.work : world' = [Gdb!Finish(world, g.id, "review") EXCEPT !.work = @ \ {g}]
    BY <1>3 DEF Gdb!Compared
  <2> DEFINE F == Gdb!Finish(world, g.id, "review")
  <2>1. Reviewed(F)
    BY Finished
  <2> QED BY <2>1, Fewer DEF Reviewed, Fields, JobWorld
<1>4. CASE Gdb!Applied
  <2> PICK g \in world.work : /\ g.stage = "apply"
                              /\ world' = [world EXCEPT !.applied = @ \cup {g.id},
                                             !.work = (@ \ {g}) \cup {[g EXCEPT !.stage = "finish"]}]
    BY <1>4 DEF Gdb!Applied
  <2>1. Fields([g EXCEPT !.stage = "finish"], {"id", "stage"}) /\ [g EXCEPT !.stage = "finish"].id = g.id
    BY DEF Reviewed, Fields
  <2> QED BY <2>1 DEF Reviewed, Fields, JobWorld
<1>5. CASE Gdb!ApplyDone
  <2> PICK g \in world.work : world' = [Gdb!Finish(world, g.id, "done") EXCEPT !.work = @ \ {g}]
    BY <1>5 DEF Gdb!ApplyDone
  <2> DEFINE F == Gdb!Finish(world, g.id, "done")
  <2>1. Reviewed(F)
    BY Finished
  <2> QED BY <2>1, Fewer DEF Reviewed, Fields, JobWorld
<1>6. CASE Gdb!StageFailed
  <2> PICK g \in world.work : world' = [Gdb!Finish(world, g.id, "failed") EXCEPT !.work = @ \ {g}, !.faults = @ + 1]
    BY <1>6 DEF Gdb!StageFailed
  <2> DEFINE F == Gdb!Finish(world, g.id, "failed")
  <2>1. Reviewed(F)
    BY Finished
  <2> QED BY <2>1, Fewer DEF Reviewed, Fields, JobWorld
<1>7. CASE Gdb!Restart
  BY <1>7 DEF Gdb!Restart, Reviewed, Fields, JobWorld
<1>8. CASE Gdb!Serve
  <2>1. \/ UNCHANGED world \/ world' = Gdb!Start(world) \/ \E b : world' = [Gdb!Apply(world) EXCEPT !.blind = b]
        \/ \E i, s : world' = [world EXCEPT !.db[i] = s]
    BY <1>8 DEF Gdb!Serve
  <2>2. CASE world' = Gdb!Start(world)
    BY <2>2, Started
  <2>3. ASSUME NEW b, world' = [Gdb!Apply(world) EXCEPT !.blind = b] PROVE GdbInv'
    BY <2>3, Approved DEF Reviewed, Fields, JobWorld
  <2>4. ASSUME NEW i, NEW s, world' = [world EXCEPT !.db[i] = s] PROVE GdbInv'
    BY <2>4 DEF Reviewed, Fields, JobWorld
  <2> QED BY <1>1, <2>1, <2>2, <2>3, <2>4
<1>9. CASE Gdb!Cancel
  BY <1>9, Finished DEF Gdb!Cancel
<1>10. CASE Gdb!OtherAdministrator
  <2> DEFINE w == [world EXCEPT !.others = @ + 1]
  <2>1. Reviewed(w)
    BY DEF Reviewed, Fields, JobWorld
  <2>2. world' = Gdb!Start(w) \/ world' = Gdb!Apply(w) \/ \E i, s : world' = Gdb!Finish(w, i, s)
    BY <1>10 DEF Gdb!OtherAdministrator
  <2> HIDE DEF w
  <2> QED BY <2>1, <2>2, Started, Approved, Finished
<1>11. CASE Gdb!AnswerOk
  BY <1>1, <1>11 DEF Gdb!AnswerOk
<1>12. CASE Gdb!AnswerFailed
  <2>1. UNCHANGED world \/ world' = [world EXCEPT !.faults = @ + 1]
    BY <1>12 DEF Gdb!AnswerFailed
  <2> QED BY <1>1, <2>1 DEF Reviewed, Fields, JobWorld
<1> QED BY <1>2, <1>3, <1>4, <1>5, <1>6, <1>7, <1>8, <1>9, <1>10, <1>11, <1>12 DEF Gdb!Next

GdbFields == {"job", "progress", "del", "busy", "panel"}
GdbPanelFields == {"confirm", "busy"}
GdbCall == {"op", "job", "reply", "got"}

GdbPage(u) == Fields(u, GdbFields) /\ Fields(u.panel, GdbPanelFields)
\* What u waits for is in C.
GdbAwaits(u, C) ==
  /\ u.progress => Sent(C, {"start"})
  /\ u.busy # "" => Sent(C, {"ask", "delete"})
  /\ u.panel.busy # "" => Sent(C, {"apply", "cancel"})
GdbWaits == GdbPage(ui) /\ (\A c \in calls : Fields(c, GdbCall)) /\ GdbAwaits(ui, calls)

\* A request as it leaves.
LEMMA GdbCalled ==
  /\ \A op : Fields(Gdb!Call(op), GdbCall) /\ Gdb!Call(op).op = op
  /\ \A op, j : LET c == [Gdb!Call(op) EXCEPT !.job = j] IN Fields(c, GdbCall) /\ c.op = op
<1>1. \A op : Fields(Gdb!Call(op), GdbCall) /\ Gdb!Call(op).op = op
  BY DEF Gdb!Call, Fields, GdbCall
<1>2. ASSUME NEW op, NEW j PROVE LET c == [Gdb!Call(op) EXCEPT !.job = j] IN Fields(c, GdbCall) /\ c.op = op
  <2> DEFINE d == Gdb!Call(op)
             c == [d EXCEPT !.job = j]
  <2>1. Fields(d, GdbCall) /\ d.op = op
    BY <1>1
  <2> HIDE DEF d
  <2>2. Fields(c, GdbCall) /\ c.op = op
    BY <2>1 DEF Fields, GdbCall
  <2> HIDE DEF c
  <2> QED BY <2>2 DEF c, d
<1> QED BY <1>1, <1>2

\* Nothing is waited for at first.
LEMMA GdbWaitsInit == ASSUME Gdb!Init PROVE GdbWaits
<1>1. Fields(Gdb!NoPanel, GdbPanelFields) /\ Gdb!NoPanel.busy = ""
  BY DEF Gdb!NoPanel, Fields, GdbPanelFields
<1>2. Fields(ui, GdbFields) /\ ui.panel = Gdb!NoPanel /\ ~ui.progress /\ ui.busy = ""
  BY DEF Gdb!Init, Fields, GdbFields
<1>3. \A c \in calls : Fields(c, GdbCall)
  BY GdbCalled DEF Gdb!Init
<1> QED BY <1>1, <1>2, <1>3 DEF GdbWaits, GdbPage, GdbAwaits

\* A request more, or one that took its reply: what was waited for is still there.
LEMMA GdbMore == ASSUME NEW u, NEW C, NEW D, GdbAwaits(u, C), C \subseteq D PROVE GdbAwaits(u, D)
BY DEF GdbAwaits, Sent

\* The server answers.
LEMMA GdbReplied ==
  ASSUME GdbWaits, UNCHANGED ui, NEW c \in calls, NEW r, NEW g,
         calls' = (calls \ {c}) \cup {[c EXCEPT !.reply = r]} \/ calls' = (calls \ {c}) \cup {[c EXCEPT !.reply = r, !.got = g]}
  PROVE  GdbWaits'
<1>p. PICK d : calls' = (calls \ {c}) \cup {d} /\ (d = [c EXCEPT !.reply = r] \/ d = [c EXCEPT !.reply = r, !.got = g])
  OBVIOUS
<1>1. Fields(d, GdbCall) /\ d.op = c.op
  BY <1>p DEF GdbWaits, Fields, GdbCall
<1>2. GdbAwaits(ui, calls')
  BY <1>p, <1>1 DEF GdbWaits, GdbAwaits, Sent
<1> QED BY <1>p, <1>1, <1>2 DEF GdbWaits

\* The job shown changes: the panel stays or goes away.
JobShown(u, j) == Gdb!SetJob(u, j)
\* Another import shown keeps the panel as it is, or closes it.
LEMMA GdbJobSet ==
  ASSUME NEW u, NEW j, GdbPage(u)
  PROVE  /\ GdbPage(JobShown(u, j)) /\ JobShown(u, j).progress = u.progress /\ JobShown(u, j).busy = u.busy
         /\ (JobShown(u, j).panel.busy = u.panel.busy \/ JobShown(u, j).panel.busy = "")
<1> DEFINE v == JobShown(u, j)
<1>1. Fields(Gdb!NoPanel, GdbPanelFields) /\ Gdb!NoPanel.busy = ""
  BY DEF Gdb!NoPanel, Fields, GdbPanelFields
<1>2. /\ Fields(v, GdbFields) /\ v.progress = u.progress /\ v.busy = u.busy
      /\ v.panel = u.panel \/ v.panel = Gdb!NoPanel
  BY DEF JobShown, Gdb!SetJob, GdbPage, Fields, GdbFields
<1> HIDE DEF v
<1>3. GdbPage(v) /\ v.progress = u.progress /\ v.busy = u.busy /\ (v.panel.busy = u.panel.busy \/ v.panel.busy = "")
  BY <1>1, <1>2 DEF GdbPage
<1> QED BY <1>3 DEF v

\* The panel waits, or no longer.
PanelBusy(u, x) == [u EXCEPT !.panel.busy = x]
\* The panel waits for what it is told, the rest of the page as before.
LEMMA GdbPanelSet ==
  ASSUME NEW u, NEW x, GdbPage(u)
  PROVE  /\ GdbPage(PanelBusy(u, x)) /\ PanelBusy(u, x).progress = u.progress
         /\ PanelBusy(u, x).busy = u.busy /\ PanelBusy(u, x).panel.busy = x
<1>0. Fields(u, GdbFields) /\ Fields(u.panel, GdbPanelFields)
  BY DEF GdbPage
<1> DEFINE p == [u.panel EXCEPT !.busy = x]
           v == PanelBusy(u, x)
<1>1. Fields(p, GdbPanelFields) /\ p.busy = x
  BY <1>0 DEF Fields, GdbPanelFields
<1>2. v = [u EXCEPT !.panel = p]
  BY <1>0 DEF PanelBusy, Fields, GdbFields, GdbPanelFields
<1> HIDE DEF p, v
<1>3. GdbPage(v) /\ v.progress = u.progress /\ v.busy = u.busy /\ v.panel.busy = x
  BY <1>0, <1>1, <1>2 DEF GdbPage, Fields, GdbFields
<1> QED BY <1>3 DEF v

\* It was answered.
PanelDone(u, y) == [u EXCEPT !.panel.busy = "", !.panel.confirm = y]
\* The panel waits no longer, the rest of the page as before.
LEMMA GdbPanelDone ==
  ASSUME NEW u, NEW y, GdbPage(u)
  PROVE  /\ GdbPage(PanelDone(u, y)) /\ PanelDone(u, y).progress = u.progress
         /\ PanelDone(u, y).busy = u.busy /\ PanelDone(u, y).panel.busy = ""
<1>0. Fields(u, GdbFields) /\ Fields(u.panel, GdbPanelFields)
  BY DEF GdbPage
<1> DEFINE p == [u.panel EXCEPT !.busy = "", !.confirm = y]
           v == PanelDone(u, y)
<1>1. Fields(p, GdbPanelFields) /\ p.busy = ""
  BY <1>0 DEF Fields, GdbPanelFields
<1>2. v = [u EXCEPT !.panel = p]
  BY <1>0 DEF PanelDone, Fields, GdbFields, GdbPanelFields
<1> HIDE DEF p, v
<1>3. GdbPage(v) /\ v.progress = u.progress /\ v.busy = u.busy /\ v.panel.busy = ""
  BY <1>0, <1>1, <1>2 DEF GdbPage, Fields, GdbFields
<1> QED BY <1>3 DEF v

\* Its dialog opens or closes.
PanelConfirm(u, y) == [u EXCEPT !.panel.confirm = y]
\* The dialog leaves what is waited for alone.
LEMMA GdbConfirmSet ==
  ASSUME NEW u, NEW y, GdbPage(u)
  PROVE  /\ GdbPage(PanelConfirm(u, y)) /\ PanelConfirm(u, y).progress = u.progress
         /\ PanelConfirm(u, y).busy = u.busy /\ PanelConfirm(u, y).panel.busy = u.panel.busy
<1>0. Fields(u, GdbFields) /\ Fields(u.panel, GdbPanelFields)
  BY DEF GdbPage
<1> DEFINE p == [u.panel EXCEPT !.confirm = y]
           v == PanelConfirm(u, y)
<1>1. Fields(p, GdbPanelFields) /\ p.busy = u.panel.busy
  BY <1>0 DEF Fields, GdbPanelFields
<1>2. v = [u EXCEPT !.panel = p]
  BY <1>0 DEF PanelConfirm, Fields, GdbFields, GdbPanelFields
<1> HIDE DEF p, v
<1>3. GdbPage(v) /\ v.progress = u.progress /\ v.busy = u.busy /\ v.panel.busy = u.panel.busy
  BY <1>0, <1>1, <1>2 DEF GdbPage, Fields, GdbFields
<1> QED BY <1>3 DEF v

\* An answer of one kind is gone: the other kinds are still there.
LEMMA GdbGot ==
  ASSUME GdbWaits, GdbPage(ui'), NEW c \in calls, calls' = calls \ {c},
         ui'.progress => ui.progress /\ c.op # "start",
         ui'.busy # "" => ui.busy # "" /\ c.op \notin {"ask", "delete"},
         ui'.panel.busy # "" => ui.panel.busy # "" /\ c.op \notin {"apply", "cancel"}
  PROVE  GdbWaits'
<1>1. GdbAwaits(ui', calls')
  BY DEF GdbWaits, GdbAwaits, Sent
<1> QED BY <1>1 DEF GdbWaits

\* What a request asks for is waited for.
LEMMA GdbSent ==
  ASSUME GdbWaits, GdbPage(ui'), NEW c, Fields(c, GdbCall), calls' = calls \cup {c},
         ui'.progress => ui.progress \/ c.op = "start",
         ui'.busy # "" => ui.busy # "" \/ c.op \in {"ask", "delete"},
         ui'.panel.busy # "" => ui.panel.busy # "" \/ c.op \in {"apply", "cancel"}
  PROVE  GdbWaits'
<1>1. GdbAwaits(ui', calls')
  BY DEF GdbWaits, GdbAwaits, Sent
<1> QED BY <1>1 DEF GdbWaits

\* Whatever is commanded, lost or answered, a spinner waits for a request on its way.
LEMMA GdbWaitsNext == ASSUME GdbWaits, Gdb!Next PROVE GdbWaits'
<1>0. GdbPage(ui) /\ Fields(ui, GdbFields)
  BY DEF GdbWaits, GdbPage
<1>1. CASE UNCHANGED <<ui, calls>>
  BY <1>1 DEF GdbWaits
<1>2. CASE Gdb!start
  <2>1. calls' = calls \cup {Gdb!Call("start")} /\ ui' = [ui EXCEPT !.progress = TRUE]
    BY <1>2 DEF Gdb!start, Gdb!Send
  <2>2. GdbPage(ui') /\ ui'.busy = ui.busy /\ ui'.panel = ui.panel
    BY <1>0, <2>1 DEF GdbPage, Fields, GdbFields
  <2> QED BY <2>1, <2>2, GdbCalled, GdbSent
<1>3. ASSUME NEW i, Gdb!askDelete(i) PROVE GdbWaits'
  <2> DEFINE c == [Gdb!Call("ask") EXCEPT !.job = i]
  <2>1. calls' = calls \cup {c} /\ ui' = [ui EXCEPT !.busy = "ask"]
    BY <1>3 DEF Gdb!askDelete, Gdb!Send
  <2>2. GdbPage(ui') /\ ui'.progress = ui.progress /\ ui'.panel = ui.panel
    BY <1>0, <2>1 DEF GdbPage, Fields, GdbFields
  <2>3. Fields(c, GdbCall) /\ c.op = "ask"
    BY GdbCalled
  <2> HIDE DEF c
  <2> QED BY <2>1, <2>2, <2>3, GdbSent
<1>4. CASE Gdb!DeleteDialog
  <2>1. CASE ui.busy # "del" /\ calls' = calls \cup {[Gdb!Call("delete") EXCEPT !.job = ui.del]} /\ ui' = [ui EXCEPT !.busy = "del"]
    <3> DEFINE c == [Gdb!Call("delete") EXCEPT !.job = ui.del]
    <3>1. calls' = calls \cup {c}
      BY <2>1
    <3>2. GdbPage(ui') /\ ui'.progress = ui.progress /\ ui'.panel = ui.panel
      BY <1>0, <2>1 DEF GdbPage, Fields, GdbFields
    <3>3. Fields(c, GdbCall) /\ c.op = "delete"
      BY GdbCalled
    <3> HIDE DEF c
    <3> QED BY <3>1, <3>2, <3>3, GdbSent
  <2>2. CASE calls' = calls /\ ui' = [ui EXCEPT !.del = Nil]
    <3>1. GdbPage(ui') /\ ui'.progress = ui.progress /\ ui'.panel = ui.panel /\ ui'.busy = ui.busy
      BY <1>0, <2>2 DEF GdbPage, Fields, GdbFields
    <3> QED BY <2>2, <3>1 DEF GdbWaits, GdbAwaits
  <2> QED BY <1>4, <2>1, <2>2 DEF Gdb!DeleteDialog, Gdb!Send, Gdb!Show
<1>5. CASE Gdb!Decision \/ Gdb!ConfirmApply
  <2>1. \/ \E b : calls' = calls /\ ui' = [ui EXCEPT !.panel.confirm = b]
        \/ \E op \in {"apply", "cancel"} : /\ calls' = calls \cup {[Gdb!Call(op) EXCEPT !.job = ui.job.id]}
                                           /\ ui' = [ui EXCEPT !.panel.busy = op]
    BY <1>5 DEF Gdb!Decision, Gdb!ConfirmApply, Gdb!Send, Gdb!Show
  <2>2. ASSUME NEW b, calls' = calls, ui' = [ui EXCEPT !.panel.confirm = b] PROVE GdbWaits'
    <3>1. GdbPage(ui') /\ ui'.progress = ui.progress /\ ui'.busy = ui.busy /\ ui'.panel.busy = ui.panel.busy
      <4>1. ui' = PanelConfirm(ui, b)
        BY <2>2 DEF PanelConfirm
      <4> QED BY <1>0, <4>1, GdbConfirmSet
    <3> QED BY <2>2, <3>1 DEF GdbWaits, GdbAwaits
  <2>3. ASSUME NEW op \in {"apply", "cancel"}, calls' = calls \cup {[Gdb!Call(op) EXCEPT !.job = ui.job.id]},
               ui' = [ui EXCEPT !.panel.busy = op]
        PROVE  GdbWaits'
    <3> DEFINE c == [Gdb!Call(op) EXCEPT !.job = ui.job.id]
    <3>1. calls' = calls \cup {c}
      BY <2>3
    <3>2. GdbPage(ui') /\ ui'.progress = ui.progress /\ ui'.busy = ui.busy
      <4>1. ui' = PanelBusy(ui, op)
        BY <2>3 DEF PanelBusy
      <4> QED BY <1>0, <4>1, GdbPanelSet
    <3>3. Fields(c, GdbCall) /\ c.op = op
      BY GdbCalled
    <3> HIDE DEF c
    <3> QED BY <3>1, <3>2, <3>3, GdbSent
  <2> QED BY <2>1, <2>2, <2>3
<1>6. CASE Gdb!poll
  <2>1. calls' = calls \cup {Gdb!Call("status")} /\ ui' = ui
    BY <1>6 DEF Gdb!poll, Gdb!Send
  <2> QED BY <1>0, <2>1, GdbCalled, GdbSent
<1>7. CASE Gdb!Serve
  <2>p. PICK c \in calls : /\ UNCHANGED ui
                           /\ \/ \E g : calls' = (calls \ {c}) \cup {[c EXCEPT !.reply = "ok", !.got = g]}
                              \/ \E r : calls' = (calls \ {c}) \cup {[c EXCEPT !.reply = r]}
    BY <1>7 DEF Gdb!Serve, Gdb!Answer, Gdb!Refuse
  <2> QED BY <2>p, GdbReplied
<1>8. CASE Gdb!Cancel
  BY <1>8, GdbReplied DEF Gdb!Cancel, Gdb!Answer
<1>9. CASE Gdb!Restart
  <2>1. UNCHANGED ui /\ calls' = {IF c.reply = "checked" THEN [c EXCEPT !.reply = "refused"] ELSE c : c \in calls}
    BY <1>9 DEF Gdb!Restart
  <2> DEFINE f(c) == IF c.reply = "checked" THEN [c EXCEPT !.reply = "refused"] ELSE c
  <2>2. \A c \in calls : Fields(f(c), GdbCall) /\ f(c).op = c.op
    BY DEF GdbWaits, Fields, GdbCall
  <2>3. calls' = {f(c) : c \in calls}
    BY <2>1
  <2> HIDE DEF f
  <2>4. \A d \in calls' : Fields(d, GdbCall)
    BY <2>2, <2>3
  <2>5. \A ops : Sent(calls, ops) => Sent(calls', ops)
    BY <2>2, <2>3 DEF Sent
  <2>6. GdbAwaits(ui, calls')
    BY <2>5 DEF GdbWaits, GdbAwaits
  <2> QED BY <2>1, <2>4, <2>6 DEF GdbWaits
<1>10. CASE Gdb!AnswerOk
  <2>p. PICK c \in calls : /\ calls' = calls \ {c}
                           /\ ui' = CASE c.op = "status" -> Gdb!SetJob(ui, c.got)
                                      [] c.op = "start" -> [Gdb!SetJob(ui, c.got) EXCEPT !.progress = FALSE]
                                      [] c.op = "ask" -> [ui EXCEPT !.del = c.job, !.busy = ""]
                                      [] c.op = "delete" -> [ui EXCEPT !.del = Nil, !.busy = ""]
                                      [] OTHER -> Gdb!SetJob([ui EXCEPT !.panel.busy = "", !.panel.confirm = @ /\ c.op # "apply"], c.got)
    BY <1>10, Zenon DEF Gdb!AnswerOk, Gdb!Got
  <2>g. PICK g : g = c.got
    OBVIOUS
  <2> DEFINE v == JobShown(ui, g)
  <2>v. v = Gdb!SetJob(ui, c.got)
    BY <2>g DEF JobShown
  <2>0. GdbPage(v) /\ v.progress = ui.progress /\ v.busy = ui.busy /\ (v.panel.busy = ui.panel.busy \/ v.panel.busy = "")
    BY <1>0, GdbJobSet, Zenon
  <2> HIDE DEF v
  <2>1. CASE c.op = "status"
    <3>1. ui' = v
      BY <2>p, <2>v, <2>1, Zenon
    <3> QED BY <2>p, <2>0, <2>1, <3>1, GdbGot
  <2>2. CASE c.op = "start"
    <3>1. ui' = [v EXCEPT !.progress = FALSE]
      <4>1. c.op # "status"
        BY <2>2
      <4> QED BY <2>p, <2>v, <2>2, <4>1, Zenon
    <3>2. GdbPage(ui') /\ ~ui'.progress /\ ui'.busy = v.busy /\ ui'.panel = v.panel
      BY <2>0, <3>1 DEF GdbPage, Fields, GdbFields
    <3> QED BY <2>p, <2>0, <2>2, <3>2, GdbGot
  <2>3. CASE c.op \in {"ask", "delete"}
    <3>1. \E x : ui' = [ui EXCEPT !.del = x, !.busy = ""]
      <4>1. c.op # "status" /\ c.op # "start" /\ (c.op = "ask" \/ c.op = "delete")
        BY <2>3
      <4>2. "ask" # "delete"
        OBVIOUS
      <4> QED BY <2>p, <4>1, <4>2, Zenon
    <3>2. GdbPage(ui') /\ ui'.progress = ui.progress /\ ui'.busy = "" /\ ui'.panel = ui.panel
      BY <1>0, <3>1 DEF GdbPage, Fields, GdbFields
    <3> QED BY <2>p, <2>3, <3>2, GdbGot
  <2>4. CASE c.op \notin {"status", "start", "ask", "delete"}
    <3>p. PICK b : ui' = Gdb!SetJob([ui EXCEPT !.panel.busy = "", !.panel.confirm = b], c.got)
      <4>1. ui' = Gdb!SetJob([ui EXCEPT !.panel.busy = "", !.panel.confirm = @ /\ c.op # "apply"], c.got)
        <5>1. c.op # "status" /\ c.op # "start" /\ c.op # "ask" /\ c.op # "delete"
          BY <2>4
        <5> QED BY <2>p, <5>1, Zenon
      <4> QED BY <4>1, Zenon
    <3> DEFINE u == PanelDone(ui, b)
               x == JobShown(u, g)
    <3>1. GdbPage(u) /\ u.progress = ui.progress /\ u.busy = ui.busy /\ u.panel.busy = ""
      BY <1>0, GdbPanelDone
    <3>2. ui' = x
      BY <2>g, <3>p DEF PanelDone, JobShown
    <3> HIDE DEF u
    <3>3. GdbPage(x) /\ x.progress = u.progress /\ x.busy = u.busy /\ x.panel.busy = ""
      BY <3>1, GdbJobSet, Zenon
    <3> HIDE DEF x
    <3> QED BY <2>p, <2>4, <3>1, <3>2, <3>3, GdbGot
  <2> QED BY <2>1, <2>2, <2>3, <2>4
<1>11. CASE Gdb!AnswerFailed
  <2>p. PICK c \in calls : /\ calls' = calls \ {c}
                           /\ ui' = CASE c.op = "start" -> [ui EXCEPT !.progress = FALSE]
                                      [] c.op \in {"ask", "delete"} -> [ui EXCEPT !.busy = ""]
                                      [] c.op \in {"apply", "cancel"} -> [ui EXCEPT !.panel.busy = ""]
                                      [] OTHER -> ui
    BY <1>11 DEF Gdb!AnswerFailed, Gdb!Got
  <2>1. CASE c.op = "start"
    <3>1. ui' = [ui EXCEPT !.progress = FALSE]
      BY <2>p, <2>1
    <3>2. GdbPage(ui') /\ ~ui'.progress /\ ui'.busy = ui.busy /\ ui'.panel = ui.panel
      BY <1>0, <3>1 DEF GdbPage, Fields, GdbFields
    <3> QED BY <2>p, <2>1, <3>2, GdbGot
  <2>2. CASE c.op \in {"ask", "delete"}
    <3>1. ui' = [ui EXCEPT !.busy = ""]
      BY <2>p, <2>2
    <3>2. GdbPage(ui') /\ ui'.progress = ui.progress /\ ui'.busy = "" /\ ui'.panel = ui.panel
      BY <1>0, <3>1 DEF GdbPage, Fields, GdbFields
    <3> QED BY <2>p, <2>2, <3>2, GdbGot
  <2>3. CASE c.op \in {"apply", "cancel"}
    <3>1. ui' = [ui EXCEPT !.panel.busy = ""]
      BY <2>p, <2>3
    <3>2. GdbPage(ui') /\ ui'.progress = ui.progress /\ ui'.busy = ui.busy /\ ui'.panel.busy = ""
      <4>1. ui' = PanelBusy(ui, "")
        BY <3>1 DEF PanelBusy
      <4> QED BY <1>0, <4>1, GdbPanelSet
    <3> QED BY <2>p, <2>3, <3>2, GdbGot
  <2>4. CASE c.op \notin {"start", "ask", "delete", "apply", "cancel"}
    <3>1. ui' = ui
      BY <2>p, <2>4
    <3> QED BY <1>0, <2>p, <2>4, <3>1, GdbGot
  <2> QED BY <2>1, <2>2, <2>3, <2>4
<1>12. CASE Gdb!Compared \/ Gdb!Applied \/ Gdb!ApplyDone \/ Gdb!StageFailed \/ Gdb!OtherAdministrator
  BY <1>1, <1>12 DEF Gdb!Compared, Gdb!Applied, Gdb!ApplyDone, Gdb!StageFailed, Gdb!OtherAdministrator
<1> QED BY <1>2, <1>3, <1>4, <1>5, <1>6, <1>7, <1>8, <1>9, <1>10, <1>11, <1>12 DEF Gdb!Next

-----------------------------------------------------------------------------
(* Review *)

ReviewFields == {"filter", "list", "sel", "detail", "note", "busy"}
ReviewCall == {"op", "about", "note", "got"}
ReviewWaits ==
  /\ Fields(ui, ReviewFields)
  /\ \A c \in calls : Fields(c, ReviewCall)
  /\ ui.busy # "" => Sent(calls, Rev!Actions)

\* A request as it leaves.
LEMMA ReviewCalled == \A op, p : Fields(Rev!Call(op, p), ReviewCall) /\ Rev!Call(op, p).op = op
BY DEF Rev!Call, Fields, ReviewCall

\* A command leaves, to be checked, and its button is disabled.
LEMMA ReviewCommanded ==
  ASSUME Rev!act
  PROVE  \E c : c.op \in Rev!Actions /\ Fields(c, ReviewCall) /\ c.got = "asked" /\ calls' = calls \cup {c} /\ ui' = [ui EXCEPT !.busy = c.op]
<1> PICK a \in Rev!Actions : /\ calls' = calls \cup {[Rev!Call(a, ui.detail.id) EXCEPT !.note = ui.note, !.got = "asked"]}
                             /\ ui' = [ui EXCEPT !.busy = a]
  BY DEF Rev!act, Rev!Send, Rev!Offered
<1> DEFINE d == Rev!Call(a, ui.detail.id)
           c == [d EXCEPT !.note = ui.note, !.got = "asked"]
<1>1. Fields(d, ReviewCall) /\ d.op = a
  BY ReviewCalled
<1>2. calls' = calls \cup {c}
  OBVIOUS
<1> HIDE DEF d
<1>3. Fields(c, ReviewCall) /\ c.op = a /\ c.got = "asked"
  BY <1>1 DEF Fields, ReviewCall
<1> HIDE DEF c
<1> QED BY <1>2, <1>3

\* Nor do the requests of a tick lack a field.
LEMMA ReviewTick == \A u : \A c \in Rev!Tick(u) : Fields(c, ReviewCall)
BY ReviewCalled DEF Rev!Tick

\* No action is on its way.
LEMMA ReviewWaitsInit == ASSUME Rev!Init PROVE ReviewWaits
<1>p. PICK sel, f : /\ ui = [filter |-> f, list |-> Nil, sel |-> sel, detail |-> Nil, note |-> Nil, busy |-> ""]
                    /\ calls = {Rev!Call("list", f)} \cup (IF sel = Nil THEN {} ELSE {Rev!Call("detail", sel)})
  BY DEF Rev!Init
<1>1. Fields(ui, ReviewFields) /\ ui.busy = ""
  BY <1>p DEF Fields, ReviewFields
<1>2. \A c \in calls : c = Rev!Call("list", f) \/ c = Rev!Call("detail", sel)
  BY <1>p
<1>3. \A c \in calls : Fields(c, ReviewCall)
  BY <1>2, ReviewCalled
<1> QED BY <1>1, <1>3 DEF ReviewWaits

\* A step that leaves the waiting and the actions on their way alone.
LEMMA ReviewAside ==
  ASSUME ReviewWaits, Fields(ui', ReviewFields), ui'.busy = ui.busy, \A c \in calls' : Fields(c, ReviewCall),
         \A c \in calls : c.op \in Rev!Actions => c \in calls'
  PROVE  ReviewWaits'
BY DEF ReviewWaits, Sent

\* Whatever is commanded or answered, an action that is waited for is on its way.
LEMMA ReviewWaitsNext == ASSUME ReviewWaits, Rev!Next PROVE ReviewWaits'
<1>0. Fields(ui, ReviewFields) /\ \A c \in calls : Fields(c, ReviewCall)
  BY DEF ReviewWaits
<1>1. CASE Rev!SetFilter
  <2>p. PICK f : ui' = [ui EXCEPT !.filter = f] /\ calls' = calls \cup {Rev!Call("list", f)}
    BY <1>1 DEF Rev!SetFilter, Rev!Send
  <2>1. Fields(ui', ReviewFields) /\ ui'.busy = ui.busy
    BY <1>0, <2>p DEF Fields, ReviewFields
  <2> QED BY <1>0, <2>p, <2>1, ReviewCalled, ReviewAside
<1>2. CASE Rev!Select
  <2>p. PICK p : ui' = [ui EXCEPT !.sel = p, !.note = Nil] /\ calls' = calls \cup {Rev!Call("detail", p)}
    BY <1>2 DEF Rev!Select, Rev!Send
  <2>1. Fields(ui', ReviewFields) /\ ui'.busy = ui.busy
    BY <1>0, <2>p DEF Fields, ReviewFields
  <2> QED BY <1>0, <2>p, <2>1, ReviewCalled, ReviewAside
<1>3. CASE Rev!Write
  <2>p. ui' = [ui EXCEPT !.note = ui.detail.id] /\ calls' = calls
    BY <1>3 DEF Rev!Write
  <2>1. Fields(ui', ReviewFields) /\ ui'.busy = ui.busy
    BY <1>0, <2>p DEF Fields, ReviewFields
  <2> QED BY <1>0, <2>p, <2>1, ReviewAside
<1>4. CASE Rev!act
  <2>p. PICK c : c.op \in Rev!Actions /\ Fields(c, ReviewCall) /\ calls' = calls \cup {c} /\ ui' = [ui EXCEPT !.busy = c.op]
    BY <1>4, ReviewCommanded
  <2>1. Fields(ui', ReviewFields)
    BY <1>0, <2>p DEF Fields, ReviewFields
  <2> QED BY <1>0, <2>p, <2>1 DEF ReviewWaits, Sent
<1>5. CASE Rev!Event
  <2>p. calls' = calls \cup Rev!Tick(ui) /\ ui' = Rev!Ticked(ui)
    BY <1>5 DEF Rev!Event, Rev!SendAll
  <2>1. Fields(ui', ReviewFields) /\ ui'.busy = ui.busy
    BY <1>0, <2>p DEF Rev!Ticked, Fields, ReviewFields
  <2> QED BY <1>0, <2>p, <2>1, ReviewTick, ReviewAside
<1>6. CASE Rev!Checked \/ Rev!Ends \/ Rev!Serve
  <2>p. PICK c, g : c \in calls /\ ui' = ui /\ calls' = (calls \ {c}) \cup {[c EXCEPT !.got = g]}
    BY <1>6 DEF Rev!Checked, Rev!Ends, Rev!Serve
  <2> DEFINE d == [c EXCEPT !.got = g]
  <2>1. Fields(d, ReviewCall) /\ d.op = c.op
    BY <1>0, <2>p DEF Fields, ReviewCall
  <2>2. calls' = (calls \ {c}) \cup {d}
    BY <2>p
  <2> HIDE DEF d
  <2> QED BY <2>p, <2>1, <2>2 DEF ReviewWaits, Sent
<1>7. CASE Rev!Loaded
  <2>p. PICK c \in calls : /\ c.op \in {"list", "detail"} /\ calls' = calls \ {c}
                           /\ \/ \E x : ui' = [ui EXCEPT !.list = x]
                              \/ \E x : ui' = [ui EXCEPT !.detail = x]
                              \/ ui' = ui
    BY <1>7 DEF Rev!Loaded, Rev!Got
  <2>1. Fields(ui', ReviewFields) /\ ui'.busy = ui.busy
    BY <1>0, <2>p DEF Fields, ReviewFields
  <2>2. c.op \notin Rev!Actions
    BY <2>p DEF Rev!Actions
  <2> QED BY <1>0, <2>p, <2>1, <2>2, ReviewAside
<1>8. CASE Rev!Acted
  <2>p. PICK c \in calls : calls' = (calls \ {c}) \cup Rev!Tick(ui) /\ ui' = [Rev!Ticked(ui) EXCEPT !.busy = ""]
    BY <1>8 DEF Rev!Acted
  <2> DEFINE v == Rev!Ticked(ui)
  <2>1. Fields(v, ReviewFields)
    BY <1>0 DEF Rev!Ticked, Fields, ReviewFields
  <2>2. ui' = [v EXCEPT !.busy = ""]
    BY <2>p
  <2> HIDE DEF v
  <2>3. Fields(ui', ReviewFields) /\ ui'.busy = ""
    BY <2>1, <2>2 DEF Fields, ReviewFields
  <2> QED BY <1>0, <2>p, <2>3, ReviewTick DEF ReviewWaits
<1>9. CASE Rev!OtherChecked \/ Rev!OtherEnds
  BY <1>9 DEF Rev!OtherChecked, Rev!OtherEnds, ReviewWaits
<1> QED BY <1>1, <1>2, <1>3, <1>4, <1>5, <1>6, <1>7, <1>8, <1>9 DEF Rev!Next

ReviewWorld == {"role", "status", "turns", "others", "checked", "settled"}

\* What is settled is over, and nothing is still to be written about it.
Settled(w, C) ==
  /\ Fields(w, ReviewWorld) /\ Fields(w.status, Own)
  /\ \A p \in w.settled : p \in Own /\ w.status[p] \in Rev!Over /\ p \notin Rev!UnderWay(w, C)

ReviewInv == Settled(world, calls)

\* Nothing is settled yet.
LEMMA ReviewInit == ASSUME Rev!Init PROVE ReviewInv
<1> PICK role, st : world = [role |-> role, status |-> [p \in Own |-> st], turns |-> 0, others |-> 0, checked |-> {}, settled |-> {}]
  BY DEF Rev!Init
<1>1. Fields(world, ReviewWorld) /\ world.settled = {} /\ world.status = [p \in Own |-> st]
  BY DEF Fields, ReviewWorld
<1>2. Fields(world.status, Own)
  BY <1>1 DEF Fields
<1> QED BY <1>1, <1>2 DEF ReviewInv, Settled

\* A step that writes nothing, and checks no command.
LEMMA ReviewAlone ==
  ASSUME ReviewInv, Fields(world', ReviewWorld), world'.status = world.status, world'.settled = world.settled,
         world'.checked = world.checked, \A c \in calls' : c.op \in Rev!Actions /\ c.got = "checked" => c \in calls
  PROVE  ReviewInv'
<1>1. Rev!UnderWay(world', calls') \subseteq Rev!UnderWay(world, calls)
  BY DEF Rev!UnderWay
<1>2. Fields(world'.status, Own) /\ \A p \in world'.settled : p \in Own /\ world'.status[p] \in Rev!Over /\ p \notin Rev!UnderWay(world', calls')
  BY <1>1 DEF ReviewInv, Settled
<1> QED BY <1>2 DEF ReviewInv, Settled

\* A command that ends may change the status of its own package, and settles no other one that is still to change.
LEMMA ReviewOutcomes ==
  ASSUME NEW w, NEW C, Settled(w, C), NEW a, NEW p, p \notin w.settled, NEW v \in Rev!Outcomes(w, a, p, C)
  PROVE  Settled(v, C)
<1>1. ASSUME NEW x, Settled(x, C) PROVE Settled(Rev!Ended(x, C), C)
  <2> DEFINE e == Rev!Ended(x, C)
  <2>1. /\ Fields(e, ReviewWorld) /\ e.status = x.status /\ e.checked = x.checked
        /\ e.settled = x.settled \cup {q \in Own : x.status[q] \in Rev!Over /\ q \notin Rev!UnderWay(x, C)}
    BY <1>1 DEF Rev!Ended, Settled, Fields, ReviewWorld
  <2>2. Rev!UnderWay(e, C) = Rev!UnderWay(x, C)
    BY <2>1 DEF Rev!UnderWay
  <2> HIDE DEF e
  <2>3. Settled(e, C)
    BY <1>1, <2>1, <2>2 DEF Settled
  <2> QED BY <2>3 DEF e
<1>2. Settled(Rev!Written(w, a, p), C)
  <2> DEFINE e == [w EXCEPT !.status[p] = Rev!To(a)]
  <2>1. /\ Fields(e, ReviewWorld) /\ e.checked = w.checked /\ e.settled = w.settled
        /\ e.status = [w.status EXCEPT ![p] = Rev!To(a)]
    BY DEF Settled, Fields, ReviewWorld
  <2>2. Rev!UnderWay(e, C) = Rev!UnderWay(w, C)
    BY <2>1 DEF Rev!UnderWay
  <2>3. Fields(e.status, Own) /\ \A q \in Own \ {p} : e.status[q] = w.status[q]
    BY <2>1 DEF Settled, Fields
  <2> HIDE DEF e
  <2>4. Settled(e, C)
    BY <2>1, <2>2, <2>3 DEF Settled
  <2> QED BY <2>4 DEF Rev!Written, e
<1> QED BY <1>1, <1>2 DEF Rev!Outcomes

\* Whoever commands, and however late what was checked is written, what is settled stays so.
LEMMA ReviewNext == ASSUME ReviewInv, ReviewWaits, Rev!Next PROVE ReviewInv'
<1>0. /\ Fields(world, ReviewWorld) /\ \A c \in calls : Fields(c, ReviewCall)
      /\ \A p, a : a \in Rev!Actions /\ Rev!Accepted(world, a, p) => p \notin world.settled
  <2>1. \A a \in Rev!Actions : Rev!From(a) \cap Rev!Over = {}
    BY DEF Rev!Actions, Rev!From, Rev!Over
  <2> QED BY <2>1 DEF ReviewInv, Settled, ReviewWaits, Rev!Accepted
<1>a. \A u : \A c \in Rev!Tick(u) : c.op \notin Rev!Actions
  BY ReviewCalled DEF Rev!Tick, Rev!Actions
<1>t. ASSUME Rev!Turn
      PROVE  /\ Fields(world', ReviewWorld) /\ world'.status = world.status /\ world'.settled = world.settled
             /\ world'.checked = world.checked
  BY <1>t, <1>0 DEF Rev!Turn, Fields, ReviewWorld
<1>1. CASE Rev!SetFilter \/ Rev!Select \/ Rev!Write
  <2>1. Rev!Turn /\ (calls' = calls \/ \E op \in {"list", "detail"} : \E p : calls' = calls \cup {Rev!Call(op, p)})
    BY <1>1 DEF Rev!SetFilter, Rev!Select, Rev!Write, Rev!Send
  <2>2. \A c \in calls' : c \in calls \/ c.op \notin Rev!Actions
    BY <2>1, ReviewCalled DEF Rev!Actions
  <2> QED BY <1>t, <2>1, <2>2, ReviewAlone
<1>2. CASE Rev!act
  <2>1. Rev!Turn
    BY <1>2 DEF Rev!act
  <2>2. \A c \in calls' : c \in calls \/ c.got = "asked"
    BY <1>2, ReviewCommanded
  <2> QED BY <1>t, <2>1, <2>2, ReviewAlone
<1>3. CASE Rev!Event \/ Rev!Acted
  <2>1. world' = world /\ calls' \subseteq calls \cup Rev!Tick(ui)
    BY <1>3 DEF Rev!Event, Rev!Acted, Rev!SendAll
  <2>2. \A c \in calls' : c \in calls \/ c.op \notin Rev!Actions
    BY <1>a, <2>1
  <2> QED BY <1>0, <2>1, <2>2, ReviewAlone
<1>4. CASE Rev!Serve
  <2>p. PICK c, g : c \in calls /\ world' = world /\ c.op \in {"list", "detail"} /\ calls' = (calls \ {c}) \cup {[c EXCEPT !.got = g]}
    BY <1>4 DEF Rev!Serve
  <2>1. [c EXCEPT !.got = g].op = c.op
    BY <1>0 DEF Fields, ReviewCall
  <2>2. \A d \in calls' : d \in calls \/ d.op \notin Rev!Actions
    BY <2>p, <2>1 DEF Rev!Actions
  <2> QED BY <1>0, <2>p, <2>2, ReviewAlone
<1>5. CASE Rev!Loaded
  <2>1. world' = world /\ calls' \subseteq calls
    BY <1>5 DEF Rev!Loaded, Rev!Got
  <2> QED BY <1>0, <2>1, ReviewAlone
<1>6. CASE Rev!Checked
  <2>p. PICK c \in calls : /\ c.op \in Rev!Actions /\ world' = world
                           /\ calls' = (calls \ {c}) \cup {[c EXCEPT !.got = IF Rev!Accepted(world, c.op, c.about) THEN "checked" ELSE "done"]}
    BY <1>6 DEF Rev!Checked
  <2> DEFINE g == IF Rev!Accepted(world, c.op, c.about) THEN "checked" ELSE "done"
             d == [c EXCEPT !.got = g]
  <2>1. Fields(c, ReviewCall)
    BY <1>0
  <2>2. d.op = c.op /\ d.about = c.about /\ d.got = g
    BY <2>1 DEF Fields, ReviewCall
  <2>3. calls' = (calls \ {c}) \cup {d}
    BY <2>p
  <2>4. g = "checked" => c.about \notin world.settled
    BY <1>0, <2>p
  <2> HIDE DEF d, g
  <2>5. \A p \in Rev!UnderWay(world, calls') : p \in Rev!UnderWay(world, calls) \/ (p = c.about /\ g = "checked")
    BY <2>2, <2>3 DEF Rev!UnderWay
  <2> QED BY <2>p, <2>4, <2>5 DEF ReviewInv, Settled
<1>7. CASE Rev!Ends
  <2>p. PICK c \in calls : /\ c.op \in Rev!Actions /\ c.got = "checked" /\ calls' = (calls \ {c}) \cup {[c EXCEPT !.got = "done"]}
                           /\ world' \in Rev!Outcomes(world, c.op, c.about, calls')
    BY <1>7 DEF Rev!Ends
  <2>1. [c EXCEPT !.got = "done"].got = "done"
    BY <1>0 DEF Fields, ReviewCall
  <2>2. Rev!UnderWay(world, calls') \subseteq Rev!UnderWay(world, calls) /\ c.about \in Rev!UnderWay(world, calls)
    BY <2>p, <2>1 DEF Rev!UnderWay
  <2>3. Settled(world, calls') /\ c.about \notin world.settled
    BY <2>2 DEF ReviewInv, Settled
  <2> QED BY <2>p, <2>3, ReviewOutcomes DEF ReviewInv
<1>8. CASE Rev!OtherChecked
  <2>p. PICK a \in Rev!Actions, p \in Own :
          /\ Rev!Accepted(world, a, p) /\ calls' = calls
          /\ world' = [world EXCEPT !.others = @ + 1, !.checked = @ \cup {<<a, p>>}]
    BY <1>8 DEF Rev!OtherChecked
  <2>1. /\ Fields(world', ReviewWorld) /\ world'.status = world.status /\ world'.settled = world.settled
        /\ world'.checked = world.checked \cup {<<a, p>>}
    BY <1>0, <2>p DEF Fields, ReviewWorld
  <2>2. p \notin world.settled
    BY <1>0, <2>p
  <2>3. Rev!UnderWay(world', calls') \subseteq Rev!UnderWay(world, calls) \cup {p}
    BY <2>p, <2>1 DEF Rev!UnderWay
  <2>4. \A q \in world'.settled : q \in Own /\ world'.status[q] \in Rev!Over /\ q \notin Rev!UnderWay(world', calls')
    BY <2>1, <2>2, <2>3 DEF ReviewInv, Settled
  <2>5. Fields(world'.status, Own)
    BY <2>1 DEF ReviewInv, Settled
  <2> QED BY <2>1, <2>4, <2>5 DEF ReviewInv, Settled
<1>9. CASE Rev!OtherEnds
  <2>p. PICK c \in world.checked : /\ calls' = calls
                                   /\ world' \in Rev!Outcomes([world EXCEPT !.checked = @ \ {c}], c[1], c[2], calls)
    BY <1>9 DEF Rev!OtherEnds
  <2> DEFINE w == [world EXCEPT !.checked = @ \ {c}]
  <2>1. Fields(w, ReviewWorld) /\ w.status = world.status /\ w.settled = world.settled /\ w.checked = world.checked \ {c}
    BY <1>0 DEF Fields, ReviewWorld
  <2>2. world' \in Rev!Outcomes(w, c[1], c[2], calls)
    BY <2>p
  <2> HIDE DEF w
  <2>3. Rev!UnderWay(w, calls) \subseteq Rev!UnderWay(world, calls) /\ c[2] \in Rev!UnderWay(world, calls)
    BY <2>1 DEF Rev!UnderWay
  <2>4. Settled(w, calls) /\ c[2] \notin w.settled
    BY <2>1, <2>3 DEF ReviewInv, Settled
  <2> QED BY <2>p, <2>2, <2>4, ReviewOutcomes DEF ReviewInv
<1> QED BY <1>1, <1>2, <1>3, <1>4, <1>5, <1>6, <1>7, <1>8, <1>9 DEF Rev!Next

\* So what is settled stays over.
LEMMA ReviewStays == ASSUME ReviewInv PROVE Rev!StaysOver
BY DEF ReviewInv, Settled, Rev!StaysOver

-----------------------------------------------------------------------------
(* MapDrawing *)

DrawingFields == {"mode", "draw", "snap", "measured", "busy", "finishing", "session", "timer"}
DrawingWorld == {"clicks", "saved", "twice"}
Editing(C, busy) == \A c \in C : c.op \in {"edit", "commit", "again"} =>
                      busy = TRUE /\ \A d \in C : d.op \in {"edit", "commit", "again"} => d = c

\* The points are clicks there were, each once, and not saved before.
Holds(pts, n) == \E i \in 1..Len(pts) : pts[i] = n
Once(pts, w) ==
  /\ pts \in Seq(Nat)
  /\ \A i \in 1..Len(pts) : pts[i] \in 1..w.clicks /\ pts[i] \notin w.saved
  /\ \A i, j \in 1..Len(pts) : pts[i] = pts[j] => i = j

\* A click is drawn, on its way to be drawn, or in the one edit that is on its way.
Apart(draw, C, w) ==
  /\ Once(draw, w)
  /\ \A c \in C : c.op = "edit" => Once(c.pts, w) /\ \A n \in Nat : ~(Holds(c.pts, n) /\ Holds(draw, n))
  /\ \A c \in C : c.op = "snap" => /\ c.pts[1] \in 1..w.clicks /\ c.pts[1] \notin w.saved /\ ~Holds(draw, c.pts[1])
                                   /\ \A d \in C : d.op = "edit" => ~Holds(d.pts, c.pts[1])
                                   /\ \A d \in C : d.op = "snap" /\ d.pts[1] = c.pts[1] => d = c

DrawingInv ==
  /\ Fields(ui, DrawingFields) /\ Fields(world, DrawingWorld)
  /\ world.clicks \in Nat /\ world.saved \subseteq 1..world.clicks /\ world.twice = FALSE
  /\ Apart(ui.draw, calls, world) /\ Editing(calls, ui.busy)

\* A request as it leaves.
LEMMA DrawingCall == \A op, mode, pts : LET c == Drawing!Call(op, mode, pts) IN c.op = op /\ c.mode = mode /\ c.pts = pts
BY DEF Drawing!Call

\* What is drawn is part of what was, and no request about points is new.
LEMMA ApartKept ==
  ASSUME NEW s, NEW t, NEW C, NEW D, NEW w, Apart(s, C, w), t \in Seq(Nat),
         \A i \in 1..Len(t) : Holds(s, t[i]), \A i, j \in 1..Len(t) : t[i] = t[j] => i = j,
         \A d \in D : d \in C \/ d.op \notin {"edit", "snap"}
  PROVE  Apart(t, D, w)
<1>1. Once(t, w)
  BY DEF Apart, Once, Holds
<1>2. \A n \in Nat : Holds(t, n) => Holds(s, n)
  BY DEF Holds
<1>3. \A c \in C : c.op = "snap" => c.pts[1] \in Nat
  BY DEF Apart
<1> QED BY <1>1, <1>2, <1>3 DEF Apart

Fresh(s, C, w, n) ==
  /\ n \in 1..w.clicks /\ n \in Nat /\ n \notin w.saved /\ ~Holds(s, n)
  /\ \A c \in C : (c.op = "edit" => ~Holds(c.pts, n)) /\ (c.op = "snap" => c.pts[1] # n)

\* A new click is none of those there were.
LEMMA ApartLater ==
  ASSUME NEW s, NEW C, NEW w, NEW x, NEW n, w.clicks \in Nat, Apart(s, C, w), n = w.clicks + 1, x.clicks = n, x.saved = w.saved,
         w.saved \subseteq 1..w.clicks
  PROVE  Apart(s, C, x) /\ x.saved \subseteq 1..x.clicks /\ Fresh(s, C, x, n)
<1>1. 1..w.clicks \subseteq 1..x.clicks /\ x.clicks \in 1..x.clicks /\ x.clicks \notin 1..w.clicks
  OBVIOUS
<1>2. \A pts : Once(pts, w) => Once(pts, x) /\ ~Holds(pts, x.clicks)
  BY <1>1 DEF Once, Holds
<1> QED BY <1>1, <1>2 DEF Apart, Fresh

\* A point follows those drawn.
LEMMA OnceMore ==
  ASSUME NEW s, NEW w, Once(s, w), NEW n \in 1..w.clicks, n \in Nat, n \notin w.saved, ~Holds(s, n)
  PROVE  Once(Append(s, n), w) /\ \A m \in Nat : Holds(Append(s, n), m) => Holds(s, m) \/ m = n
<1> DEFINE t == Append(s, n)
<1>1. s \in Seq(Nat) /\ Len(s) \in Nat
  BY DEF Once
<1>2. t \in Seq(Nat) /\ Len(t) = Len(s) + 1 /\ t[Len(s) + 1] = n /\ \A i \in 1..Len(s) : t[i] = s[i]
  BY <1>1
<1>3. \A i \in 1..Len(t) : i \in 1..Len(s) \/ i = Len(s) + 1
  BY <1>1, <1>2
<1> HIDE DEF t
<1>4. Once(t, w)
  BY <1>2, <1>3 DEF Once, Holds
<1>5. \A m \in Nat : Holds(t, m) => Holds(s, m) \/ m = n
  BY <1>2, <1>3 DEF Holds
<1> QED BY <1>4, <1>5 DEF t

\* Cardinality as the module of the page has it.
LEMMA DrawingCardinality == ASSUME NEW S PROVE Drawing!Cardinality(S) = Cardinality(S)
BY DEF Drawing!Cardinality, Cardinality

\* A new click among the points drawn keeps them apart from the edits.
LEMMA ApartMore ==
  ASSUME NEW s, NEW t, NEW C, NEW w, NEW n, Apart(s, C, w), Fresh(s, C, w, n), Once(t, w),
         \A m \in Nat : Holds(t, m) => Holds(s, m) \/ m = n
  PROVE  Apart(t, C, w)
<1>1. \A c \in C : c.op = "snap" => c.pts[1] \in Nat
  BY DEF Apart
<1> QED BY <1>1 DEF Apart, Fresh

\* No point is there twice when none is there.
LEMMA OnceNone == \A w : Once(<<>>, w) /\ \A n \in Nat : ~Holds(<<>>, n)
BY DEF Once, Holds

\* As many points as clicks.
LEMMA OncePoints ==
  ASSUME NEW pts, NEW w, Once(pts, w)
  PROVE  Cardinality(Drawing!Points(pts)) = Len(pts) /\ Drawing!Points(pts) \cap w.saved = {}
         /\ Drawing!Points(pts) \subseteq 1..w.clicks /\ \A n \in Nat : n \in Drawing!Points(pts) <=> Holds(pts, n)
<1> DEFINE P == Drawing!Points(pts)
<1>1. pts \in Seq(Nat) /\ DOMAIN pts = 1..Len(pts) /\ Len(pts) \in Nat
  BY DEF Once
<1>2. P = {pts[i] : i \in 1..Len(pts)}
  BY <1>1 DEF Drawing!Points
<1>3. pts \in [1..Len(pts) -> P]
  BY <1>1, <1>2
<1>4. pts \in Bijection(1..Len(pts), P)
  BY <1>2, <1>3 DEF Once, Bijection, Injection, Surjection, IsInjective
<1>5. IsFiniteSet(1..Len(pts)) /\ Cardinality(1..Len(pts)) = Len(pts)
  <2>1. ASSUME NEW n \in Nat PROVE IsFiniteSet(1..n) /\ Cardinality(1..n) = n
    <3>1. IsFiniteSet(1..n) /\ Cardinality(1..n) = IF 1 > n THEN 0 ELSE n - 1 + 1
      BY FS_Interval
    <3> QED BY <3>1
  <2> QED BY <1>1, <2>1
<1>6. Cardinality(P) = Len(pts)
  <2> HIDE DEF P
  <2>1. ExistsBijection(1..Len(pts), P)
    BY <1>4 DEF ExistsBijection
  <2> QED BY <1>5, <2>1, FS_Bijection
<1> QED BY <1>2, <1>6 DEF Once, Holds

\* Nothing is drawn at first.
LEMMA DrawingInit == ASSUME Drawing!Init PROVE DrawingInv
<1>1. calls = {} /\ Fields(world, DrawingWorld) /\ world.clicks = 0 /\ world.saved = {} /\ world.twice = FALSE
  BY DEF Drawing!Init, Fields, DrawingWorld
<1>2. Fields(ui, DrawingFields) /\ ui.draw = <<>>
  BY DEF Drawing!Init, Fields, DrawingFields
<1> QED BY <1>1, <1>2, OnceNone DEF DrawingInv, Apart, Editing

\* The mode or the handles change; what is drawn stays or goes.
LEMMA DrawingKept ==
  ASSUME DrawingInv, Fields(ui', DrawingFields), ui'.draw = ui.draw \/ ui'.draw = <<>>, world' = world,
         \A c \in calls' : c \in calls \/ c.op \notin {"edit", "snap"}, Editing(calls', ui'.busy)
  PROVE  DrawingInv'
<1>1. /\ ui'.draw \in Seq(Nat) /\ \A i \in 1..Len(ui'.draw) : Holds(ui.draw, ui'.draw[i])
      /\ \A i, j \in 1..Len(ui'.draw) : ui'.draw[i] = ui'.draw[j] => i = j
  <2> DEFINE s == ui.draw t == ui'.draw
  <2>1. s \in Seq(Nat) /\ \A i, j \in 1..Len(s) : s[i] = s[j] => i = j
    BY DEF DrawingInv, Apart, Once
  <2>2. CASE t = s
    BY <2>1, <2>2 DEF Holds
  <2>3. CASE t = <<>>
    BY <2>3
  <2> QED BY <2>2, <2>3
<1>2. Apart(ui'.draw, calls', world)
  BY <1>1, ApartKept DEF DrawingInv
<1> QED BY <1>2 DEF DrawingInv

\* Another mode draws nothing yet.
LEMMA DrawingSetMode ==
  ASSUME NEW u, Fields(u, DrawingFields), NEW m
  PROVE  LET v == Drawing!SetMode(u, m) IN Fields(v, DrawingFields) /\ v.draw = <<>> /\ v.busy = u.busy
BY DEF Drawing!SetMode, Fields, DrawingFields

\* Whatever is clicked, snapped, edited or answered, a click is drawn once and saved once.
LEMMA DrawingNext == ASSUME DrawingInv, Drawing!Next PROVE DrawingInv'
<1>0. /\ Fields(ui, DrawingFields) /\ Fields(world, DrawingWorld)
      /\ world.clicks \in Nat /\ world.saved \subseteq 1..world.clicks /\ world.twice = FALSE
      /\ Apart(ui.draw, calls, world) /\ Editing(calls, ui.busy) /\ Once(ui.draw, world)
  BY DEF DrawingInv, Apart
<1>1. CASE Drawing!onMode \/ Drawing!onCancelMode
  <2>1. PICK m : ui' = Drawing!SetMode(ui, m) /\ calls' = calls /\ world' = world
    BY <1>1, Zenon DEF Drawing!onMode, Drawing!onCancelMode, Drawing!Show
  <2>2. Fields(ui', DrawingFields) /\ ui'.draw = <<>> /\ ui'.busy = ui.busy
    BY <1>0, <2>1, DrawingSetMode
  <2> QED BY <1>0, <2>1, <2>2, DrawingKept
<1>2. CASE Drawing!NextClick /\ (Drawing!ClickLine \/ Drawing!ClickOnce)
  <2> DEFINE n == world.clicks + 1
  <2>1. world' = [world EXCEPT !.clicks = n]
    BY <1>2 DEF Drawing!NextClick
  <2>2. Fields(world', DrawingWorld) /\ world'.clicks = n /\ world'.saved = world.saved /\ world'.twice = world.twice
    BY <1>0, <2>1 DEF Fields, DrawingWorld
  <2>3. PICK op, c :
          /\ op \in {"snap", "edit"}
          /\ c = Drawing!Call(op, ui.mode, <<n>>) /\ calls' = calls \cup {c}
          /\ op = "snap" => ui' = [ui EXCEPT !.snap = n]
          /\ op = "edit" => ~ui.busy /\ ui' = [ui EXCEPT !.busy = TRUE]
    BY <1>2 DEF Drawing!ClickLine, Drawing!ClickOnce, Drawing!Send, Drawing!Here
  <2> HIDE DEF n
  <2>4. c.op = op /\ c.pts = <<n>>
    BY <2>3, DrawingCall
  <2>5. /\ Fields(ui', DrawingFields) /\ ui'.draw = ui.draw /\ (op = "snap" => ui'.busy = ui.busy) /\ (op = "edit" => ui'.busy = TRUE)
    BY <1>0, <2>3 DEF Fields, DrawingFields
  <2>6. n = world.clicks + 1
    BY DEF n
  <2>a. Apart(ui.draw, calls, world') /\ world'.saved \subseteq 1..world'.clicks /\ Fresh(ui.draw, calls, world', n)
    <3>1. world.clicks \in Nat /\ Apart(ui.draw, calls, world) /\ world.saved \subseteq 1..world.clicks
      BY <1>0
    <3>2. world'.clicks = n /\ world'.saved = world.saved
      BY <2>2, <2>6
    <3> QED BY ONLY <2>6, <3>1, <3>2, ApartLater
  <2>7. /\ Apart(ui.draw, calls, world') /\ world'.saved \subseteq 1..world'.clicks /\ n \in 1..world'.clicks /\ n \in Nat /\ n \notin world'.saved
        /\ ~Holds(ui.draw, n)
        /\ \A d \in calls : (d.op = "edit" => ~Holds(d.pts, n)) /\ (d.op = "snap" => d.pts[1] # n)
    BY <2>a DEF Fresh
  <2>8. c.pts \in Seq(Nat) /\ Len(c.pts) = 1 /\ c.pts[1] = n
    BY <2>4, <2>7
  <2>9. Once(c.pts, world') /\ \A m \in Nat : Holds(c.pts, m) <=> m = n
    BY <2>7, <2>8 DEF Once, Holds
  <2>10. Apart(ui.draw, calls', world')
    <3>1. \A d \in calls' : d \in calls \/ d = c
      BY <2>3
    <3>2. \A d \in calls : d.op = "snap" => d.pts[1] \in Nat
      BY <2>7 DEF Apart
    <3>3. \A d \in calls' : d.op = "edit" => Once(d.pts, world') /\ \A m \in Nat : ~(Holds(d.pts, m) /\ Holds(ui.draw, m))
      BY <2>7, <2>9, <3>1 DEF Apart
    <3>4. ASSUME NEW d \in calls', d.op = "snap"
          PROVE  /\ d.pts[1] \in 1..world'.clicks /\ d.pts[1] \notin world'.saved /\ ~Holds(ui.draw, d.pts[1])
                 /\ \A e \in calls' : e.op = "edit" => ~Holds(e.pts, d.pts[1])
                 /\ \A e \in calls' : e.op = "snap" /\ e.pts[1] = d.pts[1] => e = d
      <4>1. CASE d = c
        BY <2>3, <2>4, <2>7, <2>8, <3>1, <3>4, <4>1
      <4>2. CASE d \in calls /\ d # c
        BY <2>7, <2>8, <2>9, <3>1, <3>2, <3>4, <4>2 DEF Apart
      <4> QED BY <3>1, <4>1, <4>2
    <3> QED BY <2>7, <3>3, <3>4 DEF Apart
  <2>11. Editing(calls', ui'.busy)
    BY <1>0, <2>3, <2>4, <2>5 DEF Editing
  <2> QED BY <1>0, <2>2, <2>5, <2>7, <2>10, <2>11 DEF DrawingInv
<1>3. CASE Drawing!NextClick /\ (Drawing!ClickRing \/ Drawing!ClickMeasure)
  <2> DEFINE n == world.clicks + 1
  <2>1. world' = [world EXCEPT !.clicks = n]
    BY <1>3 DEF Drawing!NextClick
  <2>2. Fields(world', DrawingWorld) /\ world'.clicks = n /\ world'.saved = world.saved /\ world'.twice = world.twice
    BY <1>0, <2>1 DEF Fields, DrawingWorld
  <2> PICK s, m : /\ s = ui.draw \/ s = <<>>
                  /\ calls' = calls
                  /\ \/ ui' = [ui EXCEPT !.draw = Append(s, n)]
                     \/ ui' = [[ui EXCEPT !.draw = s, !.measured = m] EXCEPT !.draw = Append(s, n)]
    <3>1. CASE Drawing!ClickRing
      BY <3>1 DEF Drawing!ClickRing, Drawing!Drawn, Drawing!Here
    <3>2. CASE Drawing!ClickMeasure
      <4> DEFINE s == IF ui.measured THEN <<>> ELSE ui.draw u == [ui EXCEPT !.draw = s, !.measured = FALSE]
      <4>1. calls' = calls /\ ui' = [u EXCEPT !.draw = Append(u.draw, n)]
        BY <3>2 DEF Drawing!ClickMeasure, Drawing!Drawn, Drawing!Here
      <4>2. s = ui.draw \/ s = <<>>
        OBVIOUS
      <4> HIDE DEF s
      <4>3. u.draw = s
        BY <1>0 DEF Fields, DrawingFields
      <4>4. ui' = [[ui EXCEPT !.draw = s, !.measured = FALSE] EXCEPT !.draw = Append(s, n)]
        BY <4>1, <4>3
      <4> QED BY <4>1, <4>2, <4>4, Zenon
    <3> QED BY <1>3, <3>1, <3>2
  <2> HIDE DEF n
  <2>3. Fields(ui', DrawingFields) /\ ui'.draw = Append(s, n) /\ ui'.busy = ui.busy
    BY <1>0 DEF Fields, DrawingFields
  <2>4. Apart(s, calls, world)
    <3>1. CASE s = ui.draw
      BY <1>0, <3>1
    <3>2. CASE s = <<>>
      BY <1>0, <3>2, OnceNone DEF Apart
    <3> QED BY <3>1, <3>2
  <2>5. n = world.clicks + 1
    BY DEF n
  <2>a. Apart(s, calls, world') /\ world'.saved \subseteq 1..world'.clicks /\ Fresh(s, calls, world', n)
    BY ONLY <1>0, <2>2, <2>4, <2>5, ApartLater
  <2>6. /\ Apart(s, calls, world') /\ world'.saved \subseteq 1..world'.clicks /\ n \in 1..world'.clicks /\ n \in Nat /\ n \notin world'.saved
        /\ ~Holds(s, n)
        /\ \A d \in calls : (d.op = "edit" => ~Holds(d.pts, n)) /\ (d.op = "snap" => d.pts[1] # n)
    BY <2>a DEF Fresh
  <2>7. Once(Append(s, n), world') /\ \A m1 \in Nat : Holds(Append(s, n), m1) => Holds(s, m1) \/ m1 = n
    BY <2>6, OnceMore DEF Apart
  <2>8. Apart(Append(s, n), calls, world')
    <3> DEFINE t == Append(s, n)
    <3>1. Once(t, world') /\ \A m1 \in Nat : Holds(t, m1) => Holds(s, m1) \/ m1 = n
      BY <2>7
    <3> HIDE DEF t
    <3>2. Apart(t, calls, world')
      BY ONLY <2>a, <3>1, ApartMore
    <3> QED BY <3>2 DEF t
  <2> QED BY <1>0, <2>2, <2>3, <2>6, <2>8 DEF DrawingInv
<1>4. CASE Drawing!snapPoint
  <2> PICK c, x :           /\ c \in calls
                            /\ c.op = "snap" /\ calls' = calls \ {c} /\ world' = world
                            /\ ui' = [[ui EXCEPT !.draw = Append(ui.draw, c.pts[1])] EXCEPT !.snap = x]
    BY <1>4 DEF Drawing!snapPoint, Drawing!Drawn, Drawing!Got
  <2> DEFINE n == c.pts[1]
  <2>1. /\ n \in 1..world.clicks /\ n \in Nat /\ n \notin world.saved /\ ~Holds(ui.draw, n)
        /\ \A d \in calls : d.op = "edit" => ~Holds(d.pts, n)
        /\ \A d \in calls : d.op = "snap" /\ d.pts[1] = n => d = c
    BY <1>0 DEF Apart
  <2>2. Fields(ui', DrawingFields) /\ ui'.draw = Append(ui.draw, n) /\ ui'.busy = ui.busy
    <3> HIDE DEF n
    <3>1. ui' = [[ui EXCEPT !.draw = Append(ui.draw, n)] EXCEPT !.snap = x]
      BY DEF n
    <3> QED BY <1>0, <3>1 DEF Fields, DrawingFields
  <2> DEFINE t == Append(ui.draw, n)
  <2> HIDE DEF n
  <2>3. Once(t, world) /\ \A m \in Nat : Holds(t, m) => Holds(ui.draw, m) \/ m = n
    BY <1>0, <2>1, OnceMore
  <2> HIDE DEF t
  <2>4. \A d \in calls' : d \in calls /\ d # c
    OBVIOUS
  <2>5. \A d \in calls : d.op = "snap" => d.pts[1] \in Nat
    BY <1>0 DEF Apart
  <2>6. Apart(t, calls', world)
    BY <1>0, <2>1, <2>3, <2>4, <2>5 DEF Apart
  <2>7. Editing(calls', ui'.busy)
    BY <1>0, <2>2 DEF Editing
  <2> QED BY <1>0, <2>2, <2>6, <2>7 DEF DrawingInv, t
<1>5. CASE Drawing!PopPoint
  <2> DEFINE t == SubSeq(ui.draw, 1, Len(ui.draw) - 1)
  <2>1. /\ ui.draw # <<>> /\ ui' = [ui EXCEPT !.draw = t, !.measured = FALSE]
        /\ calls' = calls /\ world' = world
    BY <1>5 DEF Drawing!PopPoint, Drawing!Show
  <2>2. ui.draw \in Seq(Nat) /\ Len(ui.draw) \in Nat /\ Len(ui.draw) >= 1
    BY <1>0, <2>1 DEF Once
  <2>3. t \in Seq(Nat) /\ Len(t) = Len(ui.draw) - 1 /\ \A i \in 1..Len(t) : t[i] = ui.draw[i]
    BY <2>2
  <2> HIDE DEF t
  <2>4. Fields(ui', DrawingFields) /\ ui'.draw = t /\ ui'.busy = ui.busy
    BY <1>0, <2>1 DEF Fields, DrawingFields
  <2>5. \A i \in 1..Len(t) : i \in 1..Len(ui.draw)
    BY <2>2, <2>3
  <2>6. Apart(t, calls, world)
    <3>1. \A i \in 1..Len(t) : Holds(ui.draw, t[i])
      BY <2>3, <2>5 DEF Holds
    <3>2. \A i, j \in 1..Len(t) : t[i] = t[j] => i = j
      BY <1>0, <2>3, <2>5 DEF Once
    <3> QED BY <1>0, <2>3, <3>1, <3>2, ApartKept
  <2> QED BY <1>0, <2>1, <2>4, <2>6 DEF DrawingInv
<1>f. ASSUME NEW u, Fields(u, DrawingFields), u.draw = ui.draw, u.busy = ui.busy, NEW mode, Drawing!Finish(u, mode) PROVE DrawingInv'
  <2>1. CASE Drawing!Show(u)
    <3>1. ui' = u /\ calls' = calls /\ world' = world
      BY <2>1 DEF Drawing!Show
    <3> QED BY <1>0, <1>f, <3>1, DrawingKept
  <2>2. CASE Drawing!Show(Drawing!SetMode(u, Drawing!Select))
    <3>1. ui' = Drawing!SetMode(u, Drawing!Select) /\ calls' = calls /\ world' = world
      BY <2>2 DEF Drawing!Show
    <3>2. Fields(ui', DrawingFields) /\ ui'.draw = <<>> /\ ui'.busy = ui.busy
      BY <1>f, <3>1, DrawingSetMode
    <3> QED BY <1>0, <3>1, <3>2, DrawingKept
  <2>3. CASE /\ ~ui.busy /\ ui' = [u EXCEPT !.draw = <<>>, !.busy = TRUE]
             /\ calls' = calls \cup {Drawing!Call("edit", mode, u.draw)} /\ world' = world
    <3> DEFINE c == Drawing!Call("edit", mode, u.draw)
    <3>1. c.op = "edit" /\ c.pts = ui.draw
      BY <1>f, DrawingCall
    <3> HIDE DEF c
    <3>2. Fields(ui', DrawingFields) /\ ui'.draw = <<>> /\ ui'.busy = TRUE
      BY <1>f, <2>3 DEF Fields, DrawingFields
    <3>3. Editing(calls', ui'.busy)
      BY <1>0, <2>3, <3>1, <3>2 DEF Editing, c
    <3>4. \A d \in calls' : d \in calls \/ d = c
      BY <2>3 DEF c
    <3>5. \A d \in calls : d.op = "snap" => d.pts[1] \in Nat
      BY <1>0 DEF Apart
    <3>6. Apart(<<>>, calls', world)
      <4>1. \A d \in calls' : d.op = "edit" => Once(d.pts, world)
        BY <1>0, <3>1, <3>4 DEF Apart
      <4>2. \A d \in calls' : d.op = "snap" => d \in calls
        BY <3>1, <3>4
      <4>3. ASSUME NEW d \in calls', d.op = "snap"
            PROVE  /\ d.pts[1] \in 1..world.clicks /\ d.pts[1] \notin world.saved /\ ~Holds(ui.draw, d.pts[1]) /\ d.pts[1] \in Nat
                   /\ \A e \in calls' : e.op = "edit" => ~Holds(e.pts, d.pts[1])
                   /\ \A e \in calls' : e.op = "snap" /\ e.pts[1] = d.pts[1] => e = d
        BY <1>0, <3>1, <3>4, <3>5, <4>2, <4>3 DEF Apart
      <4> QED BY <4>1, <4>3, OnceNone DEF Apart
    <3> QED BY <1>0, <2>3, <3>2, <3>3, <3>6 DEF DrawingInv
  <2> QED BY <1>f, <2>1, <2>2, <2>3 DEF Drawing!Finish, Drawing!Free, Drawing!Send
<1>6. CASE Drawing!finishDraw
  <2>1. CASE Drawing!Finish(ui, ui.mode)
    BY <1>0, <1>f, <2>1
  <2>2. CASE Drawing!Show([ui EXCEPT !.measured = TRUE]) \/ Drawing!Show([ui EXCEPT !.finishing = ui.mode])
    <3>1. calls' = calls /\ world' = world /\ (ui' = [ui EXCEPT !.measured = TRUE] \/ ui' = [ui EXCEPT !.finishing = ui.mode])
      BY <2>2 DEF Drawing!Show
    <3>2. Fields(ui', DrawingFields) /\ ui'.draw = ui.draw /\ ui'.busy = ui.busy
      BY <1>0, <3>1 DEF Fields, DrawingFields
    <3> QED BY <1>0, <3>1, <3>2, DrawingKept
  <2> QED BY <1>6, <2>1, <2>2 DEF Drawing!finishDraw
<1>7. CASE Drawing!snapAwaited
  <2> DEFINE u == [ui EXCEPT !.finishing = Nil]
  <2>1. Drawing!Finish(u, ui.finishing)
    BY <1>7 DEF Drawing!snapAwaited
  <2>2. Fields(u, DrawingFields) /\ u.draw = ui.draw /\ u.busy = ui.busy
    BY <1>0 DEF Fields, DrawingFields
  <2> HIDE DEF u
  <2> QED BY <1>f, <2>1, <2>2
<1>8. CASE Drawing!edited
  <2> PICK c \in calls, ok \in BOOLEAN :
        /\ c.op = "edit" /\ calls' = calls \ {c}
        /\ world' = IF ok THEN Drawing!Saved(c.pts) ELSE world
        /\ ui' = [(IF c.mode.kind \in Drawing!OfObject THEN Drawing!SetMode(ui, Drawing!Select) ELSE ui) EXCEPT !.busy = FALSE]
    BY <1>8 DEF Drawing!edited, Drawing!Got
  <2>1. Fields(ui', DrawingFields) /\ (ui'.draw = ui.draw \/ ui'.draw = <<>>) /\ ui'.busy = FALSE
    <3> DEFINE u == IF c.mode.kind \in Drawing!OfObject THEN Drawing!SetMode(ui, Drawing!Select) ELSE ui
    <3>1. Fields(u, DrawingFields) /\ (u.draw = ui.draw \/ u.draw = <<>>)
      BY <1>0, DrawingSetMode
    <3>2. ui' = [u EXCEPT !.busy = FALSE]
      OBVIOUS
    <3> HIDE DEF u
    <3> QED BY <3>1, <3>2 DEF Fields, DrawingFields
  <2>2. \A d \in calls' : d \in calls /\ d.op \notin {"edit", "commit", "again"}
    BY <1>0 DEF Editing
  <2>3. Editing(calls', ui'.busy)
    BY <2>2 DEF Editing
  <2>4. CASE world' = world
    BY <2>1, <2>2, <2>3, <2>4, DrawingKept
  <2>5. CASE world' = Drawing!Saved(c.pts)
    <3>1. Once(c.pts, world)
      BY <1>0 DEF Apart
    <3> DEFINE P == Drawing!Points(c.pts)
    <3>2. /\ Cardinality(P) = Len(c.pts) /\ P \cap world.saved = {} /\ P \subseteq 1..world.clicks
          /\ (\A n \in Nat : n \in P <=> Holds(c.pts, n))
      BY <3>1, OncePoints
    <3>0. Len(c.pts) \in Nat /\ Drawing!Cardinality(P) = Len(c.pts)
      BY <3>1, <3>2, DrawingCardinality DEF Once
    <3>3. world' = [world EXCEPT !.saved = world.saved \cup P, !.twice = FALSE]
      <4>1. ~(P \cap world.saved # {}) /\ ~(Drawing!Cardinality(P) < Len(c.pts))
        BY <3>0, <3>2
      <4>2. world' = [world EXCEPT !.saved = @ \cup P, !.twice = @ \/ P \cap world.saved # {} \/ Drawing!Cardinality(P) < Len(c.pts)]
        BY <2>5 DEF Drawing!Saved
      <4>3. (world.twice \/ P \cap world.saved # {} \/ Drawing!Cardinality(P) < Len(c.pts)) = FALSE
        BY <1>0, <4>1
      <4> QED BY <4>2, <4>3, Zenon
    <3> HIDE DEF P
    <3>4. Fields(world', DrawingWorld) /\ world'.saved = world.saved \cup P /\ world'.twice = FALSE /\ world'.clicks = world.clicks
      BY <1>0, <3>3 DEF Fields, DrawingWorld
    <3>5. \A i \in 1..Len(ui.draw) : ui.draw[i] \in Nat /\ Holds(ui.draw, ui.draw[i])
      BY <1>0 DEF Once, Holds
    <3>6. Once(ui.draw, world')
      <4>1. \A i \in 1..Len(ui.draw) : ui.draw[i] \notin P
        BY <1>0, <3>2, <3>5 DEF Apart
      <4> QED BY <1>0, <3>4, <4>1 DEF Once
    <3>7. Apart(ui.draw, calls', world')
      <4>1. \A d \in calls : d.op = "snap" => d.pts[1] \in Nat /\ d.pts[1] \notin P
        BY <1>0, <3>2 DEF Apart
      <4> QED BY <1>0, <2>2, <3>4, <3>6, <4>1 DEF Apart
    <3>8. Apart(ui'.draw, calls', world')
      <4>1. CASE ui'.draw = ui.draw
        BY <3>7, <4>1
      <4>2. CASE ui'.draw = <<>>
        BY <3>7, <4>2, OnceNone DEF Apart
      <4> QED BY <2>1, <4>1, <4>2
    <3>9. world'.clicks \in Nat /\ world'.saved \subseteq 1..world'.clicks
      BY <1>0, <3>2, <3>4
    <3> QED BY <2>1, <2>3, <3>4, <3>8, <3>9 DEF DrawingInv
  <2> QED BY <2>4, <2>5
<1>9. CASE Drawing!startVertexEdit
  <2> PICK m : ui' = ui /\ world' = world /\ calls' = calls \cup {Drawing!Call("prepare", m, <<>>)}
    BY <1>9 DEF Drawing!startVertexEdit, Drawing!Send
  <2>1. Drawing!Call("prepare", m, <<>>).op = "prepare"
    BY DrawingCall
  <2>2. Editing(calls', ui'.busy)
    BY <1>0, <2>1 DEF Editing
  <2> QED BY <1>0, <2>1, <2>2, DrawingKept
<1>10. CASE Drawing!prepared
  <2> PICK c \in calls, ok \in BOOLEAN, b \in BOOLEAN :
        /\ c.op \in {"prepare", "again"} /\ calls' = calls \ {c} /\ world' = world
        /\ b = (ui.busy /\ c.op = "prepare")
        /\ ui' = IF ok THEN [Drawing!SetMode([ui EXCEPT !.busy = b], c.mode) EXCEPT !.timer = c.mode.of] ELSE [ui EXCEPT !.busy = b]
    <3>1. PICK c \in calls, ok \in BOOLEAN :
            /\ c.op \in {"prepare", "again"} /\ calls' = calls \ {c} /\ world' = world
            /\ LET u == [ui EXCEPT !.busy = ui.busy /\ c.op = "prepare"]
               IN ui' = IF ok THEN [Drawing!SetMode(u, c.mode) EXCEPT !.timer = c.mode.of] ELSE u
      BY <1>10 DEF Drawing!prepared, Drawing!Got
    <3> DEFINE b == ui.busy /\ c.op = "prepare"
    <3>2. b \in BOOLEAN /\ b = (ui.busy /\ c.op = "prepare")
      OBVIOUS
    <3>3. ui' = IF ok THEN [Drawing!SetMode([ui EXCEPT !.busy = b], c.mode) EXCEPT !.timer = c.mode.of] ELSE [ui EXCEPT !.busy = b]
      BY <3>1, Zenon
    <3> HIDE DEF b
    <3> QED BY <3>1, <3>2, <3>3
  <2> DEFINE u == [ui EXCEPT !.busy = b]
  <2>1. Fields(u, DrawingFields) /\ u.draw = ui.draw /\ u.busy = b
    BY <1>0 DEF Fields, DrawingFields
  <2> HIDE DEF u
  <2>2. ui' = u \/ ui' = [Drawing!SetMode(u, c.mode) EXCEPT !.timer = c.mode.of]
    BY DEF u
  <2> DEFINE v == Drawing!SetMode(u, c.mode)
  <2>3. Fields(v, DrawingFields) /\ v.draw = <<>> /\ v.busy = b
    BY <2>1, DrawingSetMode
  <2> HIDE DEF v
  <2>4. Fields(ui', DrawingFields) /\ (ui'.draw = ui.draw \/ ui'.draw = <<>>) /\ ui'.busy = b
    <3>1. CASE ui' = u
      BY <2>1, <3>1
    <3>2. CASE ui' = [v EXCEPT !.timer = c.mode.of]
      BY <2>3, <3>2 DEF Fields, DrawingFields
    <3> QED BY <2>2, <3>1, <3>2 DEF v
  <2>5. Editing(calls', b)
    BY <1>0 DEF Editing
  <2> QED BY <1>0, <2>4, <2>5, DrawingKept
<1>11. CASE Drawing!SessionTimer
  <2>1. ui' = [ui EXCEPT !.session = ui.timer, !.timer = Nil] /\ calls' = calls /\ world' = world
    BY <1>11 DEF Drawing!SessionTimer, Drawing!Show
  <2>2. Fields(ui', DrawingFields) /\ ui'.draw = ui.draw /\ ui'.busy = ui.busy
    BY <1>0, <2>1 DEF Fields, DrawingFields
  <2> QED BY <1>0, <2>1, <2>2, DrawingKept
<1>12. CASE Drawing!onDragEnd
  <2> PICK m : ~ui.busy /\ ui' = [ui EXCEPT !.busy = TRUE] /\ world' = world /\ calls' = calls \cup {Drawing!Call("commit", m, <<>>)}
    BY <1>12 DEF Drawing!onDragEnd, Drawing!Send
  <2>1. Fields(ui', DrawingFields) /\ ui'.draw = ui.draw /\ ui'.busy = TRUE
    BY <1>0 DEF Fields, DrawingFields
  <2>2. Drawing!Call("commit", m, <<>>).op = "commit"
    BY DrawingCall
  <2>3. Editing(calls', ui'.busy)
    BY <1>0, <2>1, <2>2 DEF Editing
  <2> QED BY <1>0, <2>1, <2>2, <2>3, DrawingKept
<1>13. CASE Drawing!vertexCommit
  <2> PICK c \in calls :
        /\ c.op = "commit" /\ world' = world
        /\ \/ calls' = (calls \ {c}) \cup {[c EXCEPT !.op = "again"]} /\ ui' = ui
           \/ calls' = calls \ {c} /\ ui' = [ui EXCEPT !.busy = FALSE]
    BY <1>13 DEF Drawing!vertexCommit, Drawing!Got
  <2>1. ui.busy = TRUE /\ \A d \in calls : d.op \in {"edit", "commit", "again"} => d = c
    BY <1>0 DEF Editing
  <2>2. CASE calls' = (calls \ {c}) \cup {[c EXCEPT !.op = "again"]} /\ ui' = ui
    <3> DEFINE d == [c EXCEPT !.op = "again"]
    <3>1. d.op \notin {"edit", "snap"}
      OBVIOUS
    <3>2. calls' = (calls \ {c}) \cup {d}
      BY <2>2
    <3> HIDE DEF d
    <3>3. Editing(calls', ui'.busy)
      BY <2>1, <2>2, <3>2 DEF Editing
    <3> QED BY <1>0, <2>2, <3>1, <3>2, <3>3, DrawingKept
  <2>3. CASE calls' = calls \ {c} /\ ui' = [ui EXCEPT !.busy = FALSE]
    <3>1. Fields(ui', DrawingFields) /\ ui'.draw = ui.draw /\ ui'.busy = FALSE
      BY <1>0, <2>3 DEF Fields, DrawingFields
    <3>2. Editing(calls', ui'.busy)
      BY <2>1, <2>3 DEF Editing
    <3> QED BY <1>0, <2>3, <3>1, <3>2, DrawingKept
  <2> QED BY <2>2, <2>3
<1>14. Drawing!ClickLine \/ Drawing!ClickRing \/ Drawing!ClickMeasure \/ Drawing!ClickOnce => Drawing!NextClick
  BY DEF Drawing!ClickLine, Drawing!ClickRing, Drawing!ClickMeasure, Drawing!ClickOnce
<1> QED BY <1>1, <1>2, <1>3, <1>4, <1>5, <1>6, <1>7, <1>8, <1>9, <1>10, <1>11, <1>12, <1>13, <1>14 DEF Drawing!Next

\* What is clicked is drawn once.
LEMMA DrawingOnce == ASSUME DrawingInv PROVE Drawing!DrawnOnce
<1> DEFINE S == {c \in calls : c.op \in {"edit", "commit", "again"}}
<1>1. \A c, d \in S : c = d
  BY DEF DrawingInv, Editing
<1>2. S = {} \/ \E c : S = {c}
  BY <1>1
<1> HIDE DEF S
<1>3. Cardinality(S) = 0 \/ Cardinality(S) = 1
  BY <1>2, FS_EmptySet, FS_Singleton
<1>5. Drawing!Cardinality(S) <= 1
  BY <1>3, DrawingCardinality
<1>4. ~world.twice
  BY DEF DrawingInv
<1> QED BY <1>4, <1>5 DEF Drawing!DrawnOnce, S

-----------------------------------------------------------------------------
(* MapLayers *)

LayerFields == {"set", "list", "listOpen", "stored", "ready", "visible", "energy", "filter", "style", "colour", "marks", "boundary",
                "shown", "filtered", "painted", "drawn", "labels"}
SettingFields == {"visible", "energy", "feeders", "live", "colour", "highlight", "off", "boundary", "labels"}
LayerCall == {"op", "alive", "got", "ready"}
Styles == [live : BOOLEAN, highlight : Feeders \cup {Nil}]

LayerRefs(u) == Fields(u, LayerFields) /\ u.style \in Styles /\ u.colour \in Layering!Colours
Settings(s) ==
  /\ Fields(s, SettingFields)
  /\ s.live \in BOOLEAN /\ s.off \in BOOLEAN /\ s.colour \in Layering!Colours /\ s.highlight \in Feeders \cup {Nil}

\* The layers show what the canvas keeps ...
LayersFiltered(u) == u.filtered = [visible |-> u.visible, energy |-> u.energy, feeders |-> u.filter] /\ u.shown = Layering!Wanted(u)
LayersPainted(u) == u.painted = Layering!Paint(u)
LayersBounded(u) == u.drawn = u.boundary
LayersDrawn(u) == u.painted # Nil => LayersFiltered(u) /\ LayersPainted(u) /\ LayersBounded(u)

\* ... and that is what is set.
Copied(u) ==
  /\ u.visible = u.set.visible /\ u.energy = u.set.energy
  /\ u.filter = [ids |-> u.set.feeders, live |-> u.set.live]
  /\ u.style = [live |-> u.set.live, highlight |-> u.set.highlight]
  /\ u.colour = u.set.colour /\ u.boundary = u.set.boundary

LayersKept(u) ==
  /\ Settings(u.set) /\ u.ready \in BOOLEAN
  /\ u.ready = TRUE <=> u.painted # Nil
  /\ u.energy = u.set.energy
  /\ u.ready = TRUE => Copied(u) /\ (u.set.off = TRUE \/ u.marks = {})
LayersShown(u) == LayerRefs(u) /\ LayersDrawn(u) /\ LayersKept(u)
LayersCalls(C, u) == \A c \in C : Fields(c, LayerCall) /\ (c.op = "off" /\ c.alive # FALSE => u.set.off = TRUE)
LayersInv == LayersShown(ui) /\ LayersCalls(calls, ui)

\* The page is a copy but for what the layers show.
KeepsRefs(u, v) ==
  /\ v.set = u.set /\ v.list = u.list /\ v.listOpen = u.listOpen /\ v.stored = u.stored /\ v.ready = u.ready
  /\ v.visible = u.visible /\ v.energy = u.energy /\ v.filter = u.filter /\ v.style = u.style /\ v.colour = u.colour
  /\ v.marks = u.marks /\ v.boundary = u.boundary
  /\ v.painted # Nil <=> u.painted # Nil

\* What is painted is something.
LEMMA LayersPaint == ASSUME NEW u, LayerRefs(u) PROVE Layering!Paint(u) # Nil
<1>1. Layering!NoStyle \in Styles
  BY DEF Layering!NoStyle, Styles
<1>2. Layering!Paint(u) \in [colour : Layering!Colours, style : Styles]
  BY <1>1 DEF Layering!Paint, LayerRefs
<1> QED BY <1>2, PaintAssumption DEF Styles

\* What is shown depends on what is kept.
LEMMA LayersWanted ==
  ASSUME NEW u, NEW v, v.energy = u.energy, v.marks = u.marks, v.visible = u.visible, v.filter = u.filter
  PROVE  Layering!Wanted(v) = Layering!Wanted(u)
BY DEF Layering!Wanted, Layering!Passes

\* The markers are drawn again.
LEMMA LayersRender ==
  ASSUME NEW u, LayerRefs(u), u.painted # Nil => LayersPainted(u) /\ LayersBounded(u)
  PROVE  LET v == Layering!renderOff(u)
         IN /\ LayerRefs(v) /\ KeepsRefs(u, v) /\ v.filtered = u.filtered /\ v.painted = u.painted /\ v.drawn = u.drawn
            /\ u.painted # Nil => v.shown = Layering!Wanted(v) /\ LayersPainted(v) /\ LayersBounded(v)
<1> DEFINE W == Layering!Wanted(u)
           v == [u EXCEPT !.shown = W]
<1>1. LayerRefs(v) /\ KeepsRefs(u, v) /\ v.shown = W /\ v.filtered = u.filtered /\ v.painted = u.painted /\ v.drawn = u.drawn
  <2> HIDE DEF W
  <2> QED BY DEF LayerRefs, Fields, LayerFields, KeepsRefs
<1>2. Layering!renderOff(u) = IF u.painted # Nil THEN v ELSE u
  BY DEF Layering!renderOff, Layering!Loaded
<1>3. W = Layering!Wanted(u)
  OBVIOUS
<1> HIDE DEF v, W
<1>4. Layering!Wanted(v) = W
  BY <1>1, <1>3, LayersWanted DEF KeepsRefs
<1>5. Layering!Paint(v) = Layering!Paint(u)
  BY <1>1 DEF Layering!Paint, KeepsRefs
<1> HIDE DEF Layering!NoStyle
<1>6. KeepsRefs(u, u)
  BY DEF KeepsRefs
<1> QED BY <1>1, <1>2, <1>4, <1>5, <1>6 DEF LayersPainted, LayersBounded, KeepsRefs

\* The filters are set again.
LEMMA LayersApply ==
  ASSUME NEW u, LayerRefs(u), u.painted # Nil => LayersPainted(u) /\ LayersBounded(u)
  PROVE  LET v == Layering!applyFilters(u) IN LayerRefs(v) /\ KeepsRefs(u, v) /\ LayersDrawn(v)
<1> DEFINE f == [visible |-> u.visible, energy |-> u.energy, feeders |-> u.filter]
           w == [u EXCEPT !.filtered = f]
           v == Layering!renderOff(w)
<1>1. LayerRefs(w) /\ KeepsRefs(u, w) /\ w.filtered = f /\ w.painted = u.painted /\ w.drawn = u.drawn
  <2> HIDE DEF f
  <2> QED BY DEF LayerRefs, Fields, LayerFields, KeepsRefs
<1>2. Layering!applyFilters(u) = IF u.painted # Nil THEN v ELSE u
  BY DEF Layering!applyFilters, Layering!Loaded
<1>3. f = [visible |-> u.visible, energy |-> u.energy, feeders |-> u.filter]
  OBVIOUS
<1>0. v = Layering!renderOff(w)
  OBVIOUS
<1> HIDE DEF v, w, f
<1>4. Layering!Paint(w) = Layering!Paint(u)
  BY <1>1 DEF Layering!Paint, KeepsRefs
<1>5. w.painted # Nil => LayersPainted(w) /\ LayersBounded(w)
  BY <1>1, <1>4 DEF LayersPainted, LayersBounded, KeepsRefs
<1>6. /\ LayerRefs(v) /\ KeepsRefs(w, v) /\ v.filtered = f
      /\ w.painted # Nil => v.shown = Layering!Wanted(v) /\ LayersPainted(v) /\ LayersBounded(v)
  BY <1>0, <1>1, <1>5, LayersRender
<1>7. KeepsRefs(u, v) /\ KeepsRefs(u, u)
  BY <1>1, <1>6 DEF KeepsRefs
<1>8. u.painted # Nil => LayersDrawn(v)
  BY <1>1, <1>3, <1>6, <1>7 DEF LayersDrawn, LayersFiltered, KeepsRefs
<1>9. u.painted = Nil => LayersDrawn(u)
  BY DEF LayersDrawn
<1> QED BY <1>2, <1>6, <1>7, <1>8, <1>9

\* The layers are painted again.
LEMMA LayersColour ==
  ASSUME NEW u, LayerRefs(u), u.painted # Nil => LayersFiltered(u) /\ LayersBounded(u)
  PROVE  LET v == Layering!applyColorMode(u) IN LayerRefs(v) /\ KeepsRefs(u, v) /\ LayersDrawn(v)
<1> DEFINE p == Layering!Paint(u)
           v == [u EXCEPT !.painted = p]
<1>0. p # Nil /\ p = Layering!Paint(u)
  BY LayersPaint
<1>1. Layering!applyColorMode(u) = IF u.painted # Nil THEN v ELSE u
  BY DEF Layering!applyColorMode, Layering!Loaded
<1>2. v = [u EXCEPT !.painted = p]
  OBVIOUS
<1> HIDE DEF v, p
<1>3. /\ LayerRefs(v) /\ v.painted = p /\ v.filtered = u.filtered /\ v.shown = u.shown /\ v.drawn = u.drawn
      /\ u.painted # Nil => KeepsRefs(u, v)
  BY <1>0, <1>2 DEF LayerRefs, Fields, LayerFields, KeepsRefs
<1>4. u.painted # Nil => Layering!Paint(v) = p /\ Layering!Wanted(v) = Layering!Wanted(u)
  BY <1>0, <1>3, LayersWanted DEF Layering!Paint, KeepsRefs
<1>5. u.painted # Nil => LayersDrawn(v)
  BY <1>3, <1>4 DEF LayersDrawn, LayersFiltered, LayersPainted, LayersBounded, KeepsRefs
<1>6. KeepsRefs(u, u) /\ (u.painted = Nil => LayersDrawn(u))
  BY DEF KeepsRefs, LayersDrawn
<1> QED BY <1>1, <1>3, <1>5, <1>6

\* What no setter of the canvas changes.
Around(u, v) ==
  /\ v.set = u.set /\ v.list = u.list /\ v.listOpen = u.listOpen /\ v.stored = u.stored /\ v.ready = u.ready
  /\ v.painted # Nil <=> u.painted # Nil

\* The types that are shown.
LEMMA LayersVisible ==
  ASSUME NEW u, LayerRefs(u), u.painted # Nil => LayersPainted(u) /\ LayersBounded(u), NEW x
  PROVE  LET v == Layering!setVisibleTypes(u, x)
         IN /\ LayerRefs(v) /\ LayersDrawn(v) /\ Around(u, v) /\ v.visible = x
            /\ v.energy = u.energy /\ v.filter = u.filter /\ v.style = u.style /\ v.colour = u.colour /\ v.marks = u.marks /\ v.boundary = u.boundary
<1> DEFINE w == [u EXCEPT !.visible = x]
           v == Layering!setVisibleTypes(u, x)
<1>1. /\ LayerRefs(w) /\ Around(u, w) /\ w.visible = x /\ w.painted = u.painted /\ w.drawn = u.drawn
      /\ w.energy = u.energy /\ w.filter = u.filter /\ w.style = u.style /\ w.colour = u.colour /\ w.marks = u.marks /\ w.boundary = u.boundary
  BY DEF LayerRefs, Fields, LayerFields, Around
<1>2. v = Layering!applyFilters(w)
  BY DEF Layering!setVisibleTypes
<1> HIDE DEF v, w
<1>3. w.painted # Nil => LayersPainted(w) /\ LayersBounded(w)
  BY <1>1 DEF LayersPainted, LayersBounded, Layering!Paint
<1>4. LayerRefs(v) /\ KeepsRefs(w, v) /\ LayersDrawn(v)
  BY <1>1, <1>2, <1>3, LayersApply
<1>5. /\ LayerRefs(v) /\ LayersDrawn(v) /\ Around(u, v) /\ v.visible = x
      /\ v.energy = u.energy /\ v.filter = u.filter /\ v.style = u.style /\ v.colour = u.colour /\ v.marks = u.marks /\ v.boundary = u.boundary
  BY <1>1, <1>4 DEF KeepsRefs, Around
<1> QED BY <1>5 DEF v

\* Those that are energized.
LEMMA LayersEnergy ==
  ASSUME NEW u, LayerRefs(u), u.painted # Nil => LayersPainted(u) /\ LayersBounded(u), NEW x
  PROVE  LET v == Layering!setEnergyFilter(u, x)
         IN /\ LayerRefs(v) /\ LayersDrawn(v) /\ Around(u, v) /\ v.energy = x
            /\ v.visible = u.visible /\ v.filter = u.filter /\ v.style = u.style /\ v.colour = u.colour /\ v.marks = u.marks /\ v.boundary = u.boundary
<1> DEFINE w == [u EXCEPT !.energy = x]
           v == Layering!setEnergyFilter(u, x)
<1>1. /\ LayerRefs(w) /\ Around(u, w) /\ w.energy = x /\ w.painted = u.painted /\ w.drawn = u.drawn
      /\ w.visible = u.visible /\ w.filter = u.filter /\ w.style = u.style /\ w.colour = u.colour /\ w.marks = u.marks /\ w.boundary = u.boundary
  BY DEF LayerRefs, Fields, LayerFields, Around
<1>2. v = Layering!applyFilters(w)
  BY DEF Layering!setEnergyFilter
<1> HIDE DEF v, w
<1>3. w.painted # Nil => LayersPainted(w) /\ LayersBounded(w)
  BY <1>1 DEF LayersPainted, LayersBounded, Layering!Paint
<1>4. LayerRefs(v) /\ KeepsRefs(w, v) /\ LayersDrawn(v)
  BY <1>1, <1>2, <1>3, LayersApply
<1>5. /\ LayerRefs(v) /\ LayersDrawn(v) /\ Around(u, v) /\ v.energy = x
      /\ v.visible = u.visible /\ v.filter = u.filter /\ v.style = u.style /\ v.colour = u.colour /\ v.marks = u.marks /\ v.boundary = u.boundary
  BY <1>1, <1>4 DEF KeepsRefs, Around
<1> QED BY <1>5 DEF v

\* Those of some feeders.
LEMMA LayersFilter ==
  ASSUME NEW u, LayerRefs(u), u.painted # Nil => LayersPainted(u) /\ LayersBounded(u), NEW x, NEW y
  PROVE  LET v == Layering!setFeederFilter(u, x, y)
         IN /\ LayerRefs(v) /\ LayersDrawn(v) /\ Around(u, v) /\ v.filter = [ids |-> x, live |-> y]
            /\ v.visible = u.visible /\ v.energy = u.energy /\ v.style = u.style /\ v.colour = u.colour /\ v.marks = u.marks /\ v.boundary = u.boundary
<1> DEFINE w == [u EXCEPT !.filter = [ids |-> x, live |-> y]]
           v == Layering!setFeederFilter(u, x, y)
<1>1. /\ LayerRefs(w) /\ Around(u, w) /\ w.filter = [ids |-> x, live |-> y] /\ w.painted = u.painted /\ w.drawn = u.drawn
      /\ w.visible = u.visible /\ w.energy = u.energy /\ w.style = u.style /\ w.colour = u.colour /\ w.marks = u.marks /\ w.boundary = u.boundary
  BY DEF LayerRefs, Fields, LayerFields, Around
<1>2. v = Layering!applyFilters(w)
  BY DEF Layering!setFeederFilter
<1> HIDE DEF v, w
<1>3. w.painted # Nil => LayersPainted(w) /\ LayersBounded(w)
  BY <1>1 DEF LayersPainted, LayersBounded, Layering!Paint
<1>4. LayerRefs(v) /\ KeepsRefs(w, v) /\ LayersDrawn(v)
  BY <1>1, <1>2, <1>3, LayersApply
<1>5. /\ LayerRefs(v) /\ LayersDrawn(v) /\ Around(u, v) /\ v.filter = [ids |-> x, live |-> y]
      /\ v.visible = u.visible /\ v.energy = u.energy /\ v.style = u.style /\ v.colour = u.colour /\ v.marks = u.marks /\ v.boundary = u.boundary
  BY <1>1, <1>4 DEF KeepsRefs, Around
<1> QED BY <1>5 DEF v

\* What the colours mean.
LEMMA LayersMode ==
  ASSUME NEW u, LayerRefs(u), u.painted # Nil => LayersFiltered(u) /\ LayersBounded(u), NEW x \in Layering!Colours
  PROVE  LET v == Layering!setColorMode(u, x)
         IN /\ LayerRefs(v) /\ LayersDrawn(v) /\ Around(u, v) /\ v.colour = x
            /\ v.visible = u.visible /\ v.energy = u.energy /\ v.filter = u.filter /\ v.style = u.style /\ v.marks = u.marks /\ v.boundary = u.boundary
<1> DEFINE w == [u EXCEPT !.colour = x]
           v == Layering!setColorMode(u, x)
<1>1. /\ LayerRefs(w) /\ Around(u, w) /\ w.colour = x /\ w.painted = u.painted /\ w.drawn = u.drawn /\ w.filtered = u.filtered /\ w.shown = u.shown
      /\ w.visible = u.visible /\ w.energy = u.energy /\ w.filter = u.filter /\ w.style = u.style /\ w.marks = u.marks /\ w.boundary = u.boundary
  BY DEF LayerRefs, Fields, LayerFields, Around
<1>2. v = Layering!applyColorMode(w)
  BY DEF Layering!setColorMode
<1> HIDE DEF v, w
<1>3. w.painted # Nil => LayersFiltered(w) /\ LayersBounded(w)
  BY <1>1, LayersWanted DEF LayersFiltered, LayersBounded
<1>4. LayerRefs(v) /\ KeepsRefs(w, v) /\ LayersDrawn(v)
  BY <1>1, <1>2, <1>3, LayersColour
<1>5. /\ LayerRefs(v) /\ LayersDrawn(v) /\ Around(u, v) /\ v.colour = x
      /\ v.visible = u.visible /\ v.energy = u.energy /\ v.filter = u.filter /\ v.style = u.style /\ v.marks = u.marks /\ v.boundary = u.boundary
  BY <1>1, <1>4 DEF KeepsRefs, Around
<1> QED BY <1>5 DEF v

\* The colours of feeders; in other modes they wait.
LEMMA LayersStyle ==
  ASSUME NEW u, LayerRefs(u), LayersDrawn(u), NEW x \in Styles
  PROVE  LET v == Layering!setFeederStyle(u, x)
         IN /\ LayerRefs(v) /\ LayersDrawn(v) /\ Around(u, v) /\ v.style = x
            /\ v.visible = u.visible /\ v.energy = u.energy /\ v.filter = u.filter /\ v.colour = u.colour /\ v.marks = u.marks /\ v.boundary = u.boundary
<1> DEFINE w == [u EXCEPT !.style = x]
           v == Layering!setFeederStyle(u, x)
<1>1. /\ LayerRefs(w) /\ Around(u, w) /\ w.style = x /\ w.painted = u.painted /\ w.drawn = u.drawn /\ w.filtered = u.filtered /\ w.shown = u.shown
      /\ w.visible = u.visible /\ w.energy = u.energy /\ w.filter = u.filter /\ w.colour = u.colour /\ w.marks = u.marks /\ w.boundary = u.boundary
  BY DEF LayerRefs, Fields, LayerFields, Around
<1>2. v = IF w.colour = "feeder" THEN Layering!applyColorMode(w) ELSE w
  BY DEF Layering!setFeederStyle
<1> HIDE DEF v, w
<1>3. w.painted # Nil => LayersFiltered(w) /\ LayersBounded(w)
  BY <1>1, LayersWanted DEF LayersDrawn, LayersFiltered, LayersBounded
<1>4. CASE w.colour = "feeder"
  <2>1. LayerRefs(v) /\ KeepsRefs(w, v) /\ LayersDrawn(v)
    BY <1>1, <1>2, <1>3, <1>4, LayersColour
  <2>2. /\ LayerRefs(v) /\ LayersDrawn(v) /\ Around(u, v) /\ v.style = x
        /\ v.visible = u.visible /\ v.energy = u.energy /\ v.filter = u.filter /\ v.colour = u.colour /\ v.marks = u.marks /\ v.boundary = u.boundary
    BY <1>1, <2>1 DEF KeepsRefs, Around
  <2> QED BY <2>2 DEF v
<1>5. CASE w.colour # "feeder"
  <2>1. v = w /\ Layering!Paint(w) = Layering!Paint(u)
    BY <1>1, <1>2, <1>5 DEF Layering!Paint
  <2>2. LayersDrawn(w)
    BY <1>1, <1>3, <2>1 DEF LayersDrawn, LayersPainted
  <2>3. /\ LayerRefs(v) /\ LayersDrawn(v) /\ Around(u, v) /\ v.style = x
        /\ v.visible = u.visible /\ v.energy = u.energy /\ v.filter = u.filter /\ v.colour = u.colour /\ v.marks = u.marks /\ v.boundary = u.boundary
    BY <1>1, <2>1, <2>2
  <2> QED BY <2>3 DEF v
<1> QED BY <1>4, <1>5

\* The objects that are off.
LEMMA LayersMarks ==
  ASSUME NEW u, LayerRefs(u), LayersDrawn(u), NEW x
  PROVE  LET v == Layering!setOffMarkers(u, x)
         IN /\ LayerRefs(v) /\ LayersDrawn(v) /\ Around(u, v) /\ v.marks = x
            /\ v.visible = u.visible /\ v.energy = u.energy /\ v.filter = u.filter /\ v.style = u.style /\ v.colour = u.colour /\ v.boundary = u.boundary
<1> DEFINE w == [u EXCEPT !.marks = x]
           v == Layering!setOffMarkers(u, x)
<1>1. /\ LayerRefs(w) /\ Around(u, w) /\ w.marks = x /\ w.painted = u.painted /\ w.drawn = u.drawn /\ w.filtered = u.filtered
      /\ w.visible = u.visible /\ w.energy = u.energy /\ w.filter = u.filter /\ w.style = u.style /\ w.colour = u.colour /\ w.boundary = u.boundary
  BY DEF LayerRefs, Fields, LayerFields, Around
<1>2. v = Layering!renderOff(w)
  BY DEF Layering!setOffMarkers
<1> HIDE DEF v, w
<1>3. w.painted # Nil => LayersPainted(w) /\ LayersBounded(w)
  BY <1>1 DEF LayersDrawn, LayersPainted, LayersBounded, Layering!Paint
<1>4. /\ LayerRefs(v) /\ KeepsRefs(w, v) /\ v.filtered = w.filtered /\ v.painted = w.painted
      /\ w.painted # Nil => v.shown = Layering!Wanted(v) /\ LayersPainted(v) /\ LayersBounded(v)
  BY <1>1, <1>2, <1>3, LayersRender
<1>5. LayersDrawn(v)
  BY <1>1, <1>4 DEF LayersDrawn, LayersFiltered, KeepsRefs
<1>6. /\ LayerRefs(v) /\ LayersDrawn(v) /\ Around(u, v) /\ v.marks = x
      /\ v.visible = u.visible /\ v.energy = u.energy /\ v.filter = u.filter /\ v.style = u.style /\ v.colour = u.colour /\ v.boundary = u.boundary
  BY <1>1, <1>4, <1>5 DEF KeepsRefs, Around
<1> QED BY <1>6 DEF v

\* The boundaries.
LEMMA LayersBoundary ==
  ASSUME NEW u, LayerRefs(u), LayersDrawn(u), NEW x
  PROVE  LET v == Layering!setBoundaryStyle(u, x)
         IN /\ LayerRefs(v) /\ LayersDrawn(v) /\ Around(u, v) /\ v.boundary = x
            /\ v.visible = u.visible /\ v.energy = u.energy /\ v.filter = u.filter /\ v.style = u.style /\ v.colour = u.colour /\ v.marks = u.marks
<1> DEFINE w == [u EXCEPT !.boundary = x]
           d == [w EXCEPT !.drawn = x]
           v == Layering!setBoundaryStyle(u, x)
<1>1. /\ LayerRefs(w) /\ Around(u, w) /\ w.boundary = x /\ w.painted = u.painted /\ w.filtered = u.filtered /\ w.shown = u.shown
      /\ w.visible = u.visible /\ w.energy = u.energy /\ w.filter = u.filter /\ w.style = u.style /\ w.colour = u.colour /\ w.marks = u.marks
  BY DEF LayerRefs, Fields, LayerFields, Around
<1>2. v = IF w.painted # Nil THEN d ELSE w
  BY DEF Layering!setBoundaryStyle, Layering!Loaded
<1>d. d = [w EXCEPT !.drawn = x]
  OBVIOUS
<1> HIDE DEF v, w, d
<1>3. LayerRefs(d) /\ KeepsRefs(w, d) /\ d.drawn = x /\ d.painted = w.painted /\ d.filtered = w.filtered /\ d.shown = w.shown
  BY <1>1, <1>d DEF LayerRefs, Fields, LayerFields, KeepsRefs
<1>4. /\ LayerRefs(v) /\ KeepsRefs(w, v) /\ v.painted = w.painted /\ v.filtered = w.filtered /\ v.shown = w.shown
      /\ w.painted # Nil => v.drawn = x
  BY <1>1, <1>2, <1>3 DEF KeepsRefs
<1>5. Layering!Wanted(v) = Layering!Wanted(u)
  BY <1>1, <1>4, LayersWanted DEF KeepsRefs
<1>6. Layering!Paint(v) = Layering!Paint(u)
  BY <1>1, <1>4 DEF KeepsRefs, Layering!Paint
<1>7. LayersDrawn(v)
  BY <1>1, <1>4, <1>5, <1>6 DEF LayersDrawn, LayersFiltered, LayersPainted, LayersBounded, KeepsRefs
<1>8. /\ LayerRefs(v) /\ LayersDrawn(v) /\ Around(u, v) /\ v.boundary = x
      /\ v.visible = u.visible /\ v.energy = u.energy /\ v.filter = u.filter /\ v.style = u.style /\ v.colour = u.colour /\ v.marks = u.marks
  BY <1>1, <1>4, <1>7 DEF KeepsRefs, Around
<1> QED BY <1>8 DEF v

-----------------------------------------------------------------------------

\* The filter and the colours follow the settings once the page is ready.
LEMMA LayersFollow ==
  ASSUME NEW u, LayerRefs(u), u.painted # Nil => LayersPainted(u) /\ LayersBounded(u), u.ready \in BOOLEAN
  PROVE  LET v == Layering!feederEffect(u)
         IN /\ LayerRefs(v) /\ Around(u, v) /\ v.visible = u.visible /\ v.energy = u.energy /\ v.style = u.style /\ v.colour = u.colour /\ v.marks = u.marks /\ v.boundary = u.boundary
            /\ u.ready = TRUE => LayersDrawn(v) /\ v.filter = [ids |-> u.set.feeders, live |-> u.set.live]
            /\ u.ready = FALSE => v = u
<1> DEFINE w == Layering!setFeederFilter(u, u.set.feeders, u.set.live)
           v == Layering!feederEffect(u)
<1>1. /\ LayerRefs(w) /\ LayersDrawn(w) /\ Around(u, w) /\ w.visible = u.visible /\ w.energy = u.energy /\ w.style = u.style /\ w.colour = u.colour /\ w.marks = u.marks /\ w.boundary = u.boundary
      /\ w.filter = [ids |-> u.set.feeders, live |-> u.set.live]
  BY LayersFilter
<1>2. v = IF u.ready THEN w ELSE u
  BY DEF Layering!feederEffect
<1> HIDE DEF v, w
<1>3. Around(u, u)
  BY DEF Around
<1>4. /\ LayerRefs(v) /\ Around(u, v) /\ v.visible = u.visible /\ v.energy = u.energy /\ v.style = u.style /\ v.colour = u.colour /\ v.marks = u.marks /\ v.boundary = u.boundary
      /\ u.ready = TRUE => LayersDrawn(v) /\ v.filter = [ids |-> u.set.feeders, live |-> u.set.live]
      /\ u.ready = FALSE => v = u
  BY <1>1, <1>2, <1>3
<1> QED BY <1>4 DEF v

\* The colours of a mode are applied, and what does not depend on them stays.
LEMMA LayersTint ==
  ASSUME NEW u, LayerRefs(u), LayersDrawn(u), u.ready \in BOOLEAN, u.set.live \in BOOLEAN, u.set.highlight \in Feeders \cup {Nil}
  PROVE  LET v == Layering!styleEffect(u)
         IN /\ LayerRefs(v) /\ LayersDrawn(v) /\ Around(u, v) /\ v.visible = u.visible /\ v.energy = u.energy /\ v.filter = u.filter /\ v.colour = u.colour /\ v.marks = u.marks /\ v.boundary = u.boundary
            /\ u.ready = TRUE => v.style = [live |-> u.set.live, highlight |-> u.set.highlight]
            /\ u.ready = FALSE => v = u
<1> DEFINE x == [live |-> u.set.live, highlight |-> u.set.highlight]
           w == Layering!setFeederStyle(u, x)
           v == Layering!styleEffect(u)
<1>0. x \in Styles
  BY DEF Styles
<1>2. v = IF u.ready THEN w ELSE u
  BY DEF Layering!styleEffect
<1>e. x = [live |-> u.set.live, highlight |-> u.set.highlight]
  OBVIOUS
<1> HIDE DEF v, x
<1>1. /\ LayerRefs(w) /\ LayersDrawn(w) /\ Around(u, w) /\ w.style = x /\ w.visible = u.visible /\ w.energy = u.energy /\ w.filter = u.filter /\ w.colour = u.colour /\ w.marks = u.marks /\ w.boundary = u.boundary
  BY <1>0, LayersStyle
<1> HIDE DEF w
<1>3. Around(u, u)
  BY DEF Around
<1>4. /\ LayerRefs(v) /\ LayersDrawn(v) /\ Around(u, v) /\ v.visible = u.visible /\ v.energy = u.energy /\ v.filter = u.filter /\ v.colour = u.colour /\ v.marks = u.marks /\ v.boundary = u.boundary
      /\ u.ready = TRUE => v.style = [live |-> u.set.live, highlight |-> u.set.highlight]
      /\ u.ready = FALSE => v = u
  BY <1>1, <1>2, <1>3, <1>e
<1> QED BY <1>4 DEF v

\* Settings alone change nothing that is drawn.
LEMMA LayersSet ==
  ASSUME NEW u, LayerRefs(u), LayersDrawn(u), NEW t
  PROVE  LET w == [u EXCEPT !.set = t]
         IN /\ LayerRefs(w) /\ LayersDrawn(w) /\ w.set = t /\ w.list = u.list /\ w.listOpen = u.listOpen /\ w.ready = u.ready /\ w.painted = u.painted
            /\ w.visible = u.visible /\ w.energy = u.energy /\ w.filter = u.filter /\ w.style = u.style /\ w.colour = u.colour /\ w.marks = u.marks /\ w.boundary = u.boundary
<1> DEFINE w == [u EXCEPT !.set = t]
<1>1. /\ LayerRefs(w) /\ w.set = t /\ w.list = u.list /\ w.listOpen = u.listOpen /\ w.ready = u.ready /\ w.painted = u.painted
      /\ w.drawn = u.drawn /\ w.filtered = u.filtered /\ w.shown = u.shown
      /\ w.visible = u.visible /\ w.energy = u.energy /\ w.filter = u.filter /\ w.style = u.style /\ w.colour = u.colour /\ w.marks = u.marks /\ w.boundary = u.boundary
  BY DEF LayerRefs, Fields, LayerFields
<1> HIDE DEF w
<1>2. LayersDrawn(w)
  BY <1>1, LayersWanted DEF LayersDrawn, LayersFiltered, LayersPainted, LayersBounded, Layering!Paint
<1>3. /\ LayerRefs(w) /\ LayersDrawn(w) /\ w.set = t /\ w.list = u.list /\ w.listOpen = u.listOpen /\ w.ready = u.ready /\ w.painted = u.painted
      /\ w.visible = u.visible /\ w.energy = u.energy /\ w.filter = u.filter /\ w.style = u.style /\ w.colour = u.colour /\ w.marks = u.marks /\ w.boundary = u.boundary
  BY <1>1, <1>2
<1> QED BY <1>3 DEF w

\* The parts of what is drawn.
LEMMA LayersParts ==
  ASSUME NEW u, LayersDrawn(u)
  PROVE  u.painted # Nil => LayersFiltered(u) /\ LayersPainted(u) /\ LayersBounded(u)
BY DEF LayersDrawn

\* What the invariant asks of a step that leaves the requests alone and the markers on or off.
LEMMA LayersStep ==
  ASSUME LayersInv, LayersShown(ui'), \A c \in calls' : c \in calls, ui'.set.off = ui.set.off
  PROVE  LayersInv'
BY DEF LayersInv, LayersCalls

\* The types that are shown are set.
LEMMA LayersSetVisible == ASSUME LayersInv, Layering!SetVisible PROVE LayersInv'
<1>0. LayerRefs(ui) /\ LayersDrawn(ui) /\ LayersKept(ui) /\ Settings(ui.set)
  BY DEF LayersInv, LayersShown, LayersKept
<1>p. PICK x : ui' = Layering!setVisibleTypes([ui EXCEPT !.set.visible = x], x) /\ calls' = calls
  BY DEF Layering!SetVisible, Layering!Change
<1> DEFINE t == [ui.set EXCEPT !.visible = x]
           w == [ui EXCEPT !.set = t]
<1>1. [ui EXCEPT !.set.visible = x] = w
  BY <1>0 DEF LayerRefs, Fields, LayerFields
<1>2. Settings(t) /\ t.visible = x /\ t.energy = ui.set.energy /\ t.feeders = ui.set.feeders /\ t.live = ui.set.live /\ t.colour = ui.set.colour /\ t.highlight = ui.set.highlight /\ t.off = ui.set.off /\ t.boundary = ui.set.boundary /\ t.labels = ui.set.labels
  BY <1>0 DEF Settings, Fields, SettingFields
<1>3. ui' = Layering!setVisibleTypes(w, x)
  BY <1>1, <1>p
<1> HIDE DEF t
<1>4. /\ LayerRefs(w) /\ LayersDrawn(w) /\ w.set = t /\ w.ready = ui.ready /\ w.painted = ui.painted
      /\ w.visible = ui.visible /\ w.energy = ui.energy /\ w.filter = ui.filter /\ w.style = ui.style /\ w.colour = ui.colour /\ w.marks = ui.marks /\ w.boundary = ui.boundary
  BY <1>0, LayersSet
<1> HIDE DEF w
<1>5. /\ LayerRefs(ui') /\ LayersDrawn(ui') /\ Around(w, ui') /\ ui'.visible = x
      /\ ui'.energy = w.energy /\ ui'.filter = w.filter /\ ui'.style = w.style /\ ui'.colour = w.colour /\ ui'.marks = w.marks /\ ui'.boundary = w.boundary
  BY <1>3, <1>4, LayersVisible, LayersParts
<1>6. LayersKept(ui')
  BY <1>0, <1>2, <1>4, <1>5 DEF LayersKept, Around, Copied
<1> QED BY <1>p, <1>2, <1>4, <1>5, <1>6, LayersStep DEF LayersShown, Around

\* The filter on energy is set.
LEMMA LayersSetEnergy == ASSUME LayersInv, Layering!SetEnergy PROVE LayersInv'
<1>0. LayerRefs(ui) /\ LayersDrawn(ui) /\ LayersKept(ui) /\ Settings(ui.set)
  BY DEF LayersInv, LayersShown, LayersKept
<1>p. PICK x : ui' = Layering!setEnergyFilter([ui EXCEPT !.set.energy = x], x) /\ calls' = calls
  BY DEF Layering!SetEnergy, Layering!Change
<1> DEFINE t == [ui.set EXCEPT !.energy = x]
           w == [ui EXCEPT !.set = t]
<1>1. [ui EXCEPT !.set.energy = x] = w
  BY <1>0 DEF LayerRefs, Fields, LayerFields
<1>2. Settings(t) /\ t.energy = x /\ t.visible = ui.set.visible /\ t.feeders = ui.set.feeders /\ t.live = ui.set.live /\ t.colour = ui.set.colour /\ t.highlight = ui.set.highlight /\ t.off = ui.set.off /\ t.boundary = ui.set.boundary /\ t.labels = ui.set.labels
  BY <1>0 DEF Settings, Fields, SettingFields
<1>3. ui' = Layering!setEnergyFilter(w, x)
  BY <1>1, <1>p
<1> HIDE DEF t
<1>4. /\ LayerRefs(w) /\ LayersDrawn(w) /\ w.set = t /\ w.ready = ui.ready /\ w.painted = ui.painted
      /\ w.visible = ui.visible /\ w.energy = ui.energy /\ w.filter = ui.filter /\ w.style = ui.style /\ w.colour = ui.colour /\ w.marks = ui.marks /\ w.boundary = ui.boundary
  BY <1>0, LayersSet
<1> HIDE DEF w
<1>5. /\ LayerRefs(ui') /\ LayersDrawn(ui') /\ Around(w, ui') /\ ui'.energy = x
      /\ ui'.visible = w.visible /\ ui'.filter = w.filter /\ ui'.style = w.style /\ ui'.colour = w.colour /\ ui'.marks = w.marks /\ ui'.boundary = w.boundary
  BY <1>3, <1>4, LayersEnergy, LayersParts
<1>6. LayersKept(ui')
  BY <1>0, <1>2, <1>4, <1>5 DEF LayersKept, Around, Copied
<1> QED BY <1>p, <1>2, <1>4, <1>5, <1>6, LayersStep DEF LayersShown, Around

\* Labels are set.
LEMMA LayersSetLabels == ASSUME LayersInv, Layering!SetLabels PROVE LayersInv'
<1>0. LayerRefs(ui) /\ LayersDrawn(ui) /\ LayersKept(ui) /\ Settings(ui.set)
  BY DEF LayersInv, LayersShown, LayersKept
<1>p. PICK x : ui' = Layering!setLabelsVisible([ui EXCEPT !.set.labels = x], x) /\ calls' = calls
  BY DEF Layering!SetLabels, Layering!Change
<1> DEFINE t == [ui.set EXCEPT !.labels = x]
           w == [ui EXCEPT !.set = t]
<1>1. [ui EXCEPT !.set.labels = x] = w
  BY <1>0 DEF LayerRefs, Fields, LayerFields
<1>2. Settings(t) /\ t.visible = ui.set.visible /\ t.energy = ui.set.energy /\ t.feeders = ui.set.feeders /\ t.live = ui.set.live /\ t.colour = ui.set.colour /\ t.highlight = ui.set.highlight /\ t.off = ui.set.off /\ t.boundary = ui.set.boundary
  BY <1>0 DEF Settings, Fields, SettingFields
<1>3. ui' = w \/ ui' = [w EXCEPT !.labels = x]
  BY <1>1, <1>p DEF Layering!setLabelsVisible
<1> HIDE DEF t
<1>4. /\ LayerRefs(w) /\ LayersDrawn(w) /\ w.set = t /\ w.ready = ui.ready /\ w.painted = ui.painted
      /\ w.visible = ui.visible /\ w.energy = ui.energy /\ w.filter = ui.filter /\ w.style = ui.style /\ w.colour = ui.colour /\ w.marks = ui.marks /\ w.boundary = ui.boundary
  BY <1>0, LayersSet
<1> HIDE DEF w
<1>5. /\ LayerRefs(ui') /\ ui'.set = t /\ ui'.ready = ui.ready /\ ui'.painted = w.painted /\ ui'.filtered = w.filtered /\ ui'.shown = w.shown /\ ui'.drawn = w.drawn
      /\ ui'.visible = w.visible /\ ui'.energy = w.energy /\ ui'.filter = w.filter /\ ui'.style = w.style /\ ui'.colour = w.colour /\ ui'.marks = w.marks /\ ui'.boundary = w.boundary
  BY <1>3, <1>4 DEF LayerRefs, Fields, LayerFields
<1>7. Layering!Wanted(ui') = Layering!Wanted(w)
  BY <1>5 DEF Layering!Wanted, Layering!Passes
<1>8. LayersDrawn(ui')
  BY <1>4, <1>5, <1>7 DEF LayersDrawn, LayersFiltered, LayersPainted, LayersBounded, Layering!Paint
<1>6. LayersKept(ui')
  BY <1>0, <1>2, <1>4, <1>5 DEF LayersKept, Copied
<1> QED BY <1>p, <1>2, <1>5, <1>6, <1>8, LayersStep DEF LayersShown

\* The colours are set.
LEMMA LayersSetColour == ASSUME LayersInv, Layering!SetColour PROVE LayersInv'
<1>0. LayerRefs(ui) /\ LayersDrawn(ui) /\ LayersKept(ui) /\ Settings(ui.set)
  BY DEF LayersInv, LayersShown, LayersKept
<1>p. PICK x \in Layering!Colours : ui' = Layering!ColourChosen(ui, x) /\ calls' = calls
  BY DEF Layering!SetColour, Layering!Change
<1> DEFINE t == [ui.set EXCEPT !.colour = x]
           w == [ui EXCEPT !.set = t]
           v == Layering!setColorMode(w, x)
           s == [v.set EXCEPT !.highlight = Nil]
           z == [v EXCEPT !.set = s]
<1>1. [ui EXCEPT !.set.colour = x] = w
  BY <1>0 DEF LayerRefs, Fields, LayerFields
<1>2. Settings(t) /\ t.colour = x /\ t.visible = ui.set.visible /\ t.energy = ui.set.energy /\ t.feeders = ui.set.feeders /\ t.live = ui.set.live /\ t.highlight = ui.set.highlight /\ t.off = ui.set.off /\ t.boundary = ui.set.boundary /\ t.labels = ui.set.labels
  BY <1>0 DEF Settings, Fields, SettingFields
<1> HIDE DEF t
<1>4. /\ LayerRefs(w) /\ LayersDrawn(w) /\ w.set = t /\ w.ready = ui.ready /\ w.painted = ui.painted
      /\ w.visible = ui.visible /\ w.energy = ui.energy /\ w.filter = ui.filter /\ w.style = ui.style /\ w.colour = ui.colour /\ w.marks = ui.marks /\ w.boundary = ui.boundary
  BY <1>0, LayersSet
<1> HIDE DEF w
<1>5. /\ LayerRefs(v) /\ LayersDrawn(v) /\ Around(w, v) /\ v.colour = x
      /\ v.visible = w.visible /\ v.energy = w.energy /\ v.filter = w.filter /\ v.style = w.style /\ v.marks = w.marks /\ v.boundary = w.boundary
  BY <1>4, LayersMode, LayersParts
<1>6. ui' = IF x = "feeder" THEN v ELSE Layering!styleEffect([v EXCEPT !.set.highlight = Nil])
  BY <1>1, <1>p DEF Layering!ColourChosen
<1> HIDE DEF v
<1>7. [v EXCEPT !.set.highlight = Nil] = z
  BY <1>5 DEF LayerRefs, Fields, LayerFields
<1>8. v.set = t
  BY <1>4, <1>5 DEF Around
<1>9. Settings(s) /\ s.highlight = Nil /\ s.visible = t.visible /\ s.energy = t.energy /\ s.feeders = t.feeders /\ s.live = t.live /\ s.colour = t.colour /\ s.off = t.off /\ s.boundary = t.boundary /\ s.labels = t.labels
  BY <1>2, <1>8 DEF Settings, Fields, SettingFields
<1> HIDE DEF s
<1>10. /\ LayerRefs(z) /\ LayersDrawn(z) /\ z.set = s /\ z.ready = v.ready /\ z.painted = v.painted
       /\ z.visible = v.visible /\ z.energy = v.energy /\ z.filter = v.filter /\ z.style = v.style /\ z.colour = v.colour /\ z.marks = v.marks /\ z.boundary = v.boundary
  BY <1>5, LayersSet
<1> HIDE DEF z
<1>11. z.ready \in BOOLEAN /\ s.live \in BOOLEAN /\ s.highlight \in Feeders \cup {Nil}
  BY <1>0, <1>4, <1>5, <1>9, <1>10 DEF LayersKept, Around, Settings
<1>12. CASE x = "feeder"
  <2>1. ui' = v
    BY <1>6, <1>12
  <2>2. LayersKept(ui')
    BY <1>0, <1>2, <1>4, <1>5, <2>1 DEF LayersKept, Around, Copied
  <2> QED BY <1>p, <1>2, <1>5, <1>8, <2>1, <2>2, LayersStep DEF LayersShown
<1>13. CASE x # "feeder"
  <2>1. ui' = Layering!styleEffect(z)
    BY <1>6, <1>7, <1>13
  <2>2. /\ LayerRefs(ui') /\ LayersDrawn(ui') /\ Around(z, ui') /\ ui'.visible = z.visible /\ ui'.energy = z.energy /\ ui'.filter = z.filter /\ ui'.colour = z.colour /\ ui'.marks = z.marks /\ ui'.boundary = z.boundary
        /\ z.ready = TRUE => ui'.style = [live |-> z.set.live, highlight |-> z.set.highlight]
    BY <1>10, <1>11, <2>1, LayersTint
  <2>3. LayersKept(ui')
    BY <1>0, <1>2, <1>4, <1>5, <1>9, <1>10, <2>2 DEF LayersKept, Around, Copied
  <2> QED BY <1>p, <1>2, <1>9, <1>10, <2>2, <2>3, LayersStep DEF LayersShown, Around
<1> QED BY <1>12, <1>13

\* Live or normal feeders are chosen.
LEMMA LayersSetLive == ASSUME LayersInv, Layering!SetLive PROVE LayersInv'
<1>0. LayerRefs(ui) /\ LayersDrawn(ui) /\ LayersKept(ui) /\ Settings(ui.set)
  BY DEF LayersInv, LayersShown, LayersKept
<1>a. ui' = Layering!feederEffect(Layering!styleEffect([ui EXCEPT !.set.live = ~@])) /\ calls' = calls
  BY Zenon DEF Layering!SetLive, Layering!Change
<1>b. \A b : (~b) \in BOOLEAN
  OBVIOUS
<1>p. PICK x \in BOOLEAN : ui' = Layering!feederEffect(Layering!styleEffect([ui EXCEPT !.set.live = x]))
  BY <1>a, <1>b, Zenon
<1> DEFINE t == [ui.set EXCEPT !.live = x]
           w == [ui EXCEPT !.set = t]
           v == Layering!styleEffect(w)
<1>1. [ui EXCEPT !.set.live = x] = w
  BY <1>0 DEF LayerRefs, Fields, LayerFields
<1>2. Settings(t) /\ t.live = x /\ t.visible = ui.set.visible /\ t.energy = ui.set.energy /\ t.feeders = ui.set.feeders /\ t.colour = ui.set.colour /\ t.highlight = ui.set.highlight /\ t.off = ui.set.off /\ t.boundary = ui.set.boundary /\ t.labels = ui.set.labels
  BY <1>0 DEF Settings, Fields, SettingFields
<1>3. ui' = Layering!feederEffect(v)
  BY <1>1, <1>p
<1> HIDE DEF t
<1>4. /\ LayerRefs(w) /\ LayersDrawn(w) /\ w.set = t /\ w.ready = ui.ready /\ w.painted = ui.painted
      /\ w.visible = ui.visible /\ w.energy = ui.energy /\ w.filter = ui.filter /\ w.style = ui.style /\ w.colour = ui.colour /\ w.marks = ui.marks /\ w.boundary = ui.boundary
  BY <1>0, LayersSet
<1> HIDE DEF w
<1>11. w.ready \in BOOLEAN /\ t.live \in BOOLEAN /\ t.highlight \in Feeders \cup {Nil}
  BY <1>0, <1>2, <1>4 DEF LayersKept, Settings
<1>5. /\ LayerRefs(v) /\ LayersDrawn(v) /\ Around(w, v) /\ v.visible = w.visible /\ v.energy = w.energy /\ v.filter = w.filter /\ v.colour = w.colour /\ v.marks = w.marks /\ v.boundary = w.boundary
      /\ w.ready = TRUE => v.style = [live |-> w.set.live, highlight |-> w.set.highlight]
      /\ w.ready = FALSE => v = w
  BY <1>4, <1>11, LayersTint
<1> HIDE DEF v
<1>12. v.ready \in BOOLEAN /\ (v.painted # Nil => LayersPainted(v) /\ LayersBounded(v))
  BY <1>5, <1>11, LayersParts DEF Around
<1>6. /\ LayerRefs(ui') /\ Around(v, ui') /\ ui'.visible = v.visible /\ ui'.energy = v.energy /\ ui'.style = v.style /\ ui'.colour = v.colour /\ ui'.marks = v.marks /\ ui'.boundary = v.boundary
      /\ v.ready = TRUE => LayersDrawn(ui') /\ ui'.filter = [ids |-> v.set.feeders, live |-> v.set.live]
      /\ v.ready = FALSE => ui' = v
  BY <1>3, <1>5, <1>12, LayersFollow
<1>7. LayersKept(ui') /\ LayersDrawn(ui')
  BY <1>0, <1>2, <1>4, <1>5, <1>6, <1>12 DEF LayersKept, Around, Copied
<1> QED BY <1>p, <1>a, <1>2, <1>4, <1>5, <1>6, <1>7, LayersStep DEF LayersShown, Around

\* A feeder is highlighted, or none.
LEMMA LayersHighlight == ASSUME LayersInv, Layering!toggleHighlight PROVE LayersInv'
<1>0. LayerRefs(ui) /\ LayersDrawn(ui) /\ LayersKept(ui) /\ Settings(ui.set)
  BY DEF LayersInv, LayersShown, LayersKept
<1>p. PICK x \in Feeders \cup {Nil} : ui' = Layering!styleEffect([ui EXCEPT !.set.highlight = x]) /\ calls' = calls
  BY DEF Layering!toggleHighlight, Layering!Change
<1> DEFINE t == [ui.set EXCEPT !.highlight = x]
           w == [ui EXCEPT !.set = t]
<1>1. [ui EXCEPT !.set.highlight = x] = w
  BY <1>0 DEF LayerRefs, Fields, LayerFields
<1>2. Settings(t) /\ t.highlight = x /\ t.visible = ui.set.visible /\ t.energy = ui.set.energy /\ t.feeders = ui.set.feeders /\ t.live = ui.set.live /\ t.colour = ui.set.colour /\ t.off = ui.set.off /\ t.boundary = ui.set.boundary /\ t.labels = ui.set.labels
  BY <1>0 DEF Settings, Fields, SettingFields
<1>3. ui' = Layering!styleEffect(w)
  BY <1>1, <1>p
<1> HIDE DEF t
<1>4. /\ LayerRefs(w) /\ LayersDrawn(w) /\ w.set = t /\ w.ready = ui.ready /\ w.painted = ui.painted
      /\ w.visible = ui.visible /\ w.energy = ui.energy /\ w.filter = ui.filter /\ w.style = ui.style /\ w.colour = ui.colour /\ w.marks = ui.marks /\ w.boundary = ui.boundary
  BY <1>0, LayersSet
<1> HIDE DEF w
<1>11. w.ready \in BOOLEAN /\ t.live \in BOOLEAN /\ t.highlight \in Feeders \cup {Nil}
  BY <1>0, <1>2, <1>4 DEF LayersKept, Settings
<1>5. /\ LayerRefs(ui') /\ LayersDrawn(ui') /\ Around(w, ui') /\ ui'.visible = w.visible /\ ui'.energy = w.energy /\ ui'.filter = w.filter /\ ui'.colour = w.colour /\ ui'.marks = w.marks /\ ui'.boundary = w.boundary
      /\ w.ready = TRUE => ui'.style = [live |-> w.set.live, highlight |-> w.set.highlight]
  BY <1>3, <1>4, <1>11, LayersTint
<1>6. LayersKept(ui')
  BY <1>0, <1>2, <1>4, <1>5 DEF LayersKept, Around, Copied
<1> QED BY <1>p, <1>2, <1>4, <1>5, <1>6, LayersStep DEF LayersShown, Around

\* Feeders are chosen.
LEMMA LayersSetIds == ASSUME LayersInv, Layering!setIds PROVE LayersInv'
<1>0. LayerRefs(ui) /\ LayersDrawn(ui) /\ LayersKept(ui) /\ Settings(ui.set)
  BY DEF LayersInv, LayersShown, LayersKept
<1>p. PICK x : ui' = Layering!feederEffect([ui EXCEPT !.set.feeders = x]) /\ calls' = calls
  BY DEF Layering!setIds, Layering!Change
<1> DEFINE t == [ui.set EXCEPT !.feeders = x]
           w == [ui EXCEPT !.set = t]
<1>1. [ui EXCEPT !.set.feeders = x] = w
  BY <1>0 DEF LayerRefs, Fields, LayerFields
<1>2. Settings(t) /\ t.feeders = x /\ t.visible = ui.set.visible /\ t.energy = ui.set.energy /\ t.live = ui.set.live /\ t.colour = ui.set.colour /\ t.highlight = ui.set.highlight /\ t.off = ui.set.off /\ t.boundary = ui.set.boundary /\ t.labels = ui.set.labels
  BY <1>0 DEF Settings, Fields, SettingFields
<1>3. ui' = Layering!feederEffect(w)
  BY <1>1, <1>p
<1> HIDE DEF t
<1>4. /\ LayerRefs(w) /\ LayersDrawn(w) /\ w.set = t /\ w.ready = ui.ready /\ w.painted = ui.painted
      /\ w.visible = ui.visible /\ w.energy = ui.energy /\ w.filter = ui.filter /\ w.style = ui.style /\ w.colour = ui.colour /\ w.marks = ui.marks /\ w.boundary = ui.boundary
  BY <1>0, LayersSet
<1> HIDE DEF w
<1>12. w.ready \in BOOLEAN /\ (w.painted # Nil => LayersPainted(w) /\ LayersBounded(w))
  BY <1>0, <1>4, LayersParts DEF LayersKept
<1>5. /\ LayerRefs(ui') /\ Around(w, ui') /\ ui'.visible = w.visible /\ ui'.energy = w.energy /\ ui'.style = w.style /\ ui'.colour = w.colour /\ ui'.marks = w.marks /\ ui'.boundary = w.boundary
      /\ w.ready = TRUE => LayersDrawn(ui') /\ ui'.filter = [ids |-> w.set.feeders, live |-> w.set.live]
      /\ w.ready = FALSE => ui' = w
  BY <1>3, <1>4, <1>12, LayersFollow
<1>6. LayersKept(ui') /\ LayersDrawn(ui')
  BY <1>0, <1>2, <1>4, <1>5, <1>12 DEF LayersKept, Around, Copied
<1> QED BY <1>p, <1>2, <1>4, <1>5, <1>6, LayersStep DEF LayersShown, Around

\* Fields that nothing drawn depends on.
LEMMA LayersAside ==
  ASSUME NEW u, NEW v, LayersShown(u), LayerRefs(v), v.set = u.set, v.ready = u.ready, v.painted = u.painted, v.filtered = u.filtered,
         v.shown = u.shown, v.drawn = u.drawn, v.visible = u.visible, v.energy = u.energy, v.filter = u.filter, v.style = u.style, v.colour = u.colour, v.marks = u.marks, v.boundary = u.boundary
  PROVE  LayersShown(v)
<1>1. Layering!Wanted(v) = Layering!Wanted(u)
  BY LayersWanted
<1>2. LayersDrawn(v)
  BY <1>1 DEF LayersShown, LayersDrawn, LayersFiltered, LayersPainted, LayersBounded, Layering!Paint
<1> QED BY <1>2 DEF LayersShown, LayersKept, Copied

\* A request as it leaves.
LEMMA LayersFresh == \A op : LET c == Layering!Call(op) IN Fields(c, LayerCall) /\ c.op = op
BY DEF Layering!Call, Fields, LayerCall

\* The panel opens or closes.
LEMMA LayersTogglePanel == ASSUME LayersInv, Layering!TogglePanel PROVE LayersInv'
<1>0. LayerRefs(ui) /\ LayersDrawn(ui) /\ LayersKept(ui) /\ Settings(ui.set)
  BY DEF LayersInv, LayersShown, LayersKept
<1>a. ui' = [ui EXCEPT !.listOpen = ~@]
  BY Zenon DEF Layering!TogglePanel
<1>1. PICK b : ui' = [ui EXCEPT !.listOpen = b]
  BY <1>a, Zenon
<1>2. /\ LayerRefs(ui') /\ ui'.set = ui.set /\ ui'.ready = ui.ready /\ ui'.painted = ui.painted /\ ui'.filtered = ui.filtered
      /\ ui'.shown = ui.shown /\ ui'.drawn = ui.drawn /\ ui'.visible = ui.visible /\ ui'.energy = ui.energy /\ ui'.filter = ui.filter /\ ui'.style = ui.style /\ ui'.colour = ui.colour /\ ui'.marks = ui.marks /\ ui'.boundary = ui.boundary
  BY <1>0, <1>1 DEF LayerRefs, Fields, LayerFields
<1>3. LayersShown(ui')
  BY <1>2, LayersAside DEF LayersInv
<1>4. calls' = calls \/ calls' = calls \cup {Layering!Call("list")}
  BY DEF Layering!TogglePanel, Layering!Send
<1> DEFINE k == Layering!Call("list")
<1>5. Fields(k, LayerCall) /\ k.op # "off"
  BY LayersFresh
<1> HIDE DEF k
<1>6. LayersCalls(calls', ui')
  BY <1>2, <1>4, <1>5 DEF LayersInv, LayersCalls, k
<1> QED BY <1>3, <1>6 DEF LayersInv

\* A boundary that was chosen is drawn once the map is ready.
LEMMA LayersBoundaryChosen ==
  ASSUME LayersInv, NEW x, NEW w, LayerRefs(w), LayersDrawn(w), w.painted = ui.painted, w.ready = ui.ready, w.set = [ui.set EXCEPT !.boundary = x],
         w.visible = ui.visible, w.energy = ui.energy, w.filter = ui.filter, w.style = ui.style, w.colour = ui.colour, w.marks = ui.marks, w.boundary = ui.boundary,
         ui' = IF w.ready THEN Layering!setBoundaryStyle(w, x) ELSE w, calls' = calls
  PROVE  LayersInv'
<1>0. LayerRefs(ui) /\ LayersDrawn(ui) /\ LayersKept(ui) /\ Settings(ui.set)
  BY DEF LayersInv, LayersShown, LayersKept
<1> DEFINE t == [ui.set EXCEPT !.boundary = x]
           v == Layering!setBoundaryStyle(w, x)
<1>1. Settings(t) /\ t.boundary = x /\ t.visible = ui.set.visible /\ t.energy = ui.set.energy /\ t.feeders = ui.set.feeders /\ t.live = ui.set.live /\ t.colour = ui.set.colour /\ t.highlight = ui.set.highlight /\ t.off = ui.set.off /\ t.labels = ui.set.labels
  BY <1>0 DEF Settings, Fields, SettingFields
<1>2. w.set = t
  OBVIOUS
<1>3. /\ LayerRefs(v) /\ LayersDrawn(v) /\ Around(w, v) /\ v.boundary = x /\ v.visible = w.visible /\ v.energy = w.energy /\ v.filter = w.filter /\ v.style = w.style /\ v.colour = w.colour /\ v.marks = w.marks
  BY LayersBoundary
<1> HIDE DEF t, v
<1>4. Around(w, w)
  BY DEF Around
<1>5. LayerRefs(ui') /\ LayersDrawn(ui') /\ Around(w, ui') /\ ui'.visible = w.visible /\ ui'.energy = w.energy /\ ui'.filter = w.filter /\ ui'.style = w.style /\ ui'.colour = w.colour /\ ui'.marks = w.marks /\ (w.ready = TRUE => ui'.boundary = x)
  BY <1>3, <1>4 DEF v
<1>6. LayersKept(ui')
  BY <1>0, <1>1, <1>2, <1>5 DEF LayersKept, Around, Copied
<1> QED BY <1>1, <1>2, <1>5, <1>6, LayersStep DEF LayersShown, Around

\* A boundary is chosen, or the default one comes.
LEMMA LayersSetBoundary == ASSUME LayersInv, Layering!SetBoundary \/ Layering!BoundaryDefault PROVE LayersInv'
<1>0. LayerRefs(ui) /\ LayersDrawn(ui) /\ LayersKept(ui) /\ Settings(ui.set)
  BY DEF LayersInv, LayersShown, LayersKept
<1>1. CASE Layering!SetBoundary
  <2> DEFINE F(x) == [ui EXCEPT !.set.boundary = x, !.stored = TRUE]
             G(v) == IF v.ready THEN Layering!setBoundaryStyle(v, v.set.boundary) ELSE v
  <2>a. calls' = calls /\ ui' = G(F(~ui.set.boundary))
    BY <1>1, Zenon DEF Layering!SetBoundary, Layering!Change
  <2> HIDE DEF F, G
  <2>p. PICK x : ui' = G(F(x))
    BY <2>a, Zenon
  <2> DEFINE t == [ui.set EXCEPT !.boundary = x]
             w == [ui EXCEPT !.set = t, !.stored = TRUE]
             m == [ui EXCEPT !.set = t]
  <2>1. F(x) = w
    BY <1>0 DEF F, LayerRefs, Fields, LayerFields
  <2>2. t.boundary = x /\ t = [ui.set EXCEPT !.boundary = x]
    BY <1>0 DEF Settings, Fields, SettingFields
  <2>3. ui' = IF w.ready THEN Layering!setBoundaryStyle(w, w.set.boundary) ELSE w
    BY <2>p, <2>1 DEF G
  <2> HIDE DEF t
  <2>4. /\ LayerRefs(m) /\ LayersDrawn(m) /\ m.set = t /\ m.ready = ui.ready /\ m.painted = ui.painted
        /\ m.visible = ui.visible /\ m.energy = ui.energy /\ m.filter = ui.filter /\ m.style = ui.style /\ m.colour = ui.colour /\ m.marks = ui.marks /\ m.boundary = ui.boundary
    BY <1>0, LayersSet
  <2>5. /\ LayerRefs(w) /\ w.set = t /\ w.ready = m.ready /\ w.painted = m.painted /\ w.filtered = m.filtered
        /\ w.shown = m.shown /\ w.drawn = m.drawn /\ w.visible = m.visible /\ w.energy = m.energy /\ w.filter = m.filter /\ w.style = m.style /\ w.colour = m.colour /\ w.marks = m.marks /\ w.boundary = m.boundary
    BY <1>0 DEF LayerRefs, Fields, LayerFields
  <2> HIDE DEF w, m
  <2>6. LayersDrawn(w)
    BY <2>4, <2>5, LayersWanted DEF LayersDrawn, LayersFiltered, LayersPainted, LayersBounded, Layering!Paint
  <2>7. ui' = IF w.ready THEN Layering!setBoundaryStyle(w, x) ELSE w
    BY <2>2, <2>3, <2>5
  <2> QED BY <2>a, <2>2, <2>4, <2>5, <2>6, <2>7, LayersBoundaryChosen
<1>2. CASE Layering!BoundaryDefault
  <2>p. calls' = calls /\ ui' = LET v == [ui EXCEPT !.set.boundary = TRUE]
                              IN IF v.ready THEN Layering!setBoundaryStyle(v, TRUE) ELSE v
    BY <1>2 DEF Layering!BoundaryDefault, Layering!Show
  <2> DEFINE t == [ui.set EXCEPT !.boundary = TRUE]
             w == [ui EXCEPT !.set = t]
  <2>1. [ui EXCEPT !.set.boundary = TRUE] = w
    BY <1>0 DEF LayerRefs, Fields, LayerFields
  <2>2. t = [ui.set EXCEPT !.boundary = TRUE]
    OBVIOUS
  <2>3. ui' = IF w.ready THEN Layering!setBoundaryStyle(w, TRUE) ELSE w
    BY <2>p, <2>1
  <2> HIDE DEF t
  <2>4. /\ LayerRefs(w) /\ LayersDrawn(w) /\ w.set = t /\ w.ready = ui.ready /\ w.painted = ui.painted
        /\ w.visible = ui.visible /\ w.energy = ui.energy /\ w.filter = ui.filter /\ w.style = ui.style /\ w.colour = ui.colour /\ w.marks = ui.marks /\ w.boundary = ui.boundary
    BY <1>0, LayersSet
  <2> HIDE DEF w
  <2> QED BY <2>p, <2>2, <2>3, <2>4, LayersBoundaryChosen
<1> QED BY <1>1, <1>2

\* Requests dropped are those there were.
LEMMA LayersDropped ==
  ASSUME NEW C, \A c \in C : Fields(c, LayerCall)
  PROVE  \A c \in Layering!Dropped(C) : Fields(c, LayerCall) /\ (c.op = "off" => c.alive = FALSE)
<1> TAKE c \in Layering!Dropped(C)
<1>1. CASE c \in {d \in C : d.op # "off"}
  BY <1>1
<1>2. ASSUME NEW d \in C, c = [d EXCEPT !.alive = FALSE] PROVE Fields(c, LayerCall) /\ (c.op = "off" => c.alive = FALSE)
  <2>1. Fields(d, LayerCall)
    OBVIOUS
  <2> QED BY <1>2, <2>1 DEF Fields, LayerCall
<1> QED BY <1>1, <1>2 DEF Layering!Dropped

\* The markers of what is off are shown or hidden.
LEMMA LayersSetOff == ASSUME LayersInv, Layering!SetOff PROVE LayersInv'
<1>0. LayerRefs(ui) /\ LayersDrawn(ui) /\ LayersKept(ui) /\ Settings(ui.set)
  BY DEF LayersInv, LayersShown, LayersKept
<1>a. ui' = LET v == [ui EXCEPT !.set.off = ~@] IN IF v.ready /\ ~v.set.off THEN Layering!setOffMarkers(v, {}) ELSE v
  BY Zenon DEF Layering!SetOff
<1>b. \A b : (~b) \in BOOLEAN
  OBVIOUS
<1>p. PICK x \in BOOLEAN : /\ ui' = LET v == [ui EXCEPT !.set.off = x] IN IF v.ready /\ ~v.set.off THEN Layering!setOffMarkers(v, {}) ELSE v
                           /\ x = ~ui.set.off
  BY <1>a, <1>b, Zenon
<1> DEFINE t == [ui.set EXCEPT !.off = x]
           w == [ui EXCEPT !.set = t]
           v == Layering!setOffMarkers(w, {})
<1>1. [ui EXCEPT !.set.off = x] = w
  BY <1>0 DEF LayerRefs, Fields, LayerFields
<1>2. Settings(t) /\ t.off = x /\ t.visible = ui.set.visible /\ t.energy = ui.set.energy /\ t.feeders = ui.set.feeders /\ t.live = ui.set.live /\ t.colour = ui.set.colour /\ t.highlight = ui.set.highlight /\ t.boundary = ui.set.boundary /\ t.labels = ui.set.labels
  BY <1>0 DEF Settings, Fields, SettingFields
<1>3. ui' = IF w.ready /\ ~w.set.off THEN v ELSE w
  BY <1>1, <1>p
<1> HIDE DEF t
<1>4. /\ LayerRefs(w) /\ LayersDrawn(w) /\ w.set = t /\ w.ready = ui.ready /\ w.painted = ui.painted
      /\ w.visible = ui.visible /\ w.energy = ui.energy /\ w.filter = ui.filter /\ w.style = ui.style /\ w.colour = ui.colour /\ w.marks = ui.marks /\ w.boundary = ui.boundary
  BY <1>0, LayersSet
<1> HIDE DEF w
<1>5. /\ LayerRefs(v) /\ LayersDrawn(v) /\ Around(w, v) /\ v.marks = {} /\ v.visible = w.visible /\ v.energy = w.energy /\ v.filter = w.filter /\ v.style = w.style /\ v.colour = w.colour /\ v.boundary = w.boundary
  BY <1>4, LayersMarks
<1> HIDE DEF v
<1>6. Around(w, w)
  BY DEF Around
<1>7. /\ LayerRefs(ui') /\ LayersDrawn(ui') /\ Around(w, ui') /\ ui'.visible = w.visible /\ ui'.energy = w.energy /\ ui'.filter = w.filter /\ ui'.style = w.style /\ ui'.colour = w.colour /\ ui'.boundary = w.boundary
      /\ w.ready = TRUE => t.off = TRUE \/ ui'.marks = {}
  BY <1>2, <1>3, <1>4, <1>5, <1>6
<1>8. LayersKept(ui')
  BY <1>0, <1>2, <1>4, <1>7 DEF LayersKept, Around, Copied
<1>9. calls' = Layering!Dropped(calls) \cup IF ui.ready /\ ~ui.set.off THEN {Layering!Call("off")} ELSE {}
  BY DEF Layering!SetOff
<1>10. \A c \in Layering!Dropped(calls) : Fields(c, LayerCall) /\ (c.op = "off" => c.alive = FALSE)
  BY LayersDropped DEF LayersInv, LayersCalls
<1>11. ~ui.set.off => x = TRUE
  BY <1>p
<1>12. LayersCalls(calls', ui')
  BY <1>2, <1>4, <1>7, <1>9, <1>10, <1>11, LayersFresh DEF LayersCalls, Around
<1> QED BY <1>7, <1>8, <1>12 DEF LayersInv, LayersShown

\* The first layers show what the refs say.
LEMMA LayersBuild ==
  ASSUME NEW u, LayerRefs(u), u.painted = Nil
  PROVE  LET v == [Layering!BuildLayers(u) EXCEPT !.ready = TRUE]
         IN /\ LayerRefs(v) /\ LayersPainted(v) /\ LayersBounded(v) /\ v.painted # Nil /\ v.ready = TRUE /\ v.set = u.set
            /\ v.visible = u.visible /\ v.energy = u.energy /\ v.filter = u.filter /\ v.style = u.style /\ v.colour = u.colour /\ v.marks = u.marks /\ v.boundary = u.boundary
<1> DEFINE p == Layering!Paint(u)
           w == [u EXCEPT !.painted = p, !.drawn = u.boundary, !.labels = TRUE]
           x == Layering!renderOff(w)
           v == [x EXCEPT !.ready = TRUE]
<1>1. p # Nil /\ p = Layering!Paint(u)
  BY LayersPaint
<1>2. Layering!BuildLayers(u) = x
  BY DEF Layering!BuildLayers
<1> HIDE DEF p
<1>3. LayerRefs(w) /\ w.painted = p /\ w.drawn = u.boundary /\ w.set = u.set /\ w.visible = u.visible /\ w.energy = u.energy /\ w.filter = u.filter /\ w.style = u.style /\ w.colour = u.colour /\ w.marks = u.marks /\ w.boundary = u.boundary
  BY DEF LayerRefs, Fields, LayerFields
<1> HIDE DEF w
<1>4. LayersPainted(w) /\ LayersBounded(w)
  BY <1>1, <1>3 DEF LayersPainted, LayersBounded, Layering!Paint
<1>5. LayerRefs(x) /\ KeepsRefs(w, x) /\ x.painted = w.painted /\ x.drawn = w.drawn
  BY <1>3, <1>4, LayersRender
<1>v. v = [x EXCEPT !.ready = TRUE]
  OBVIOUS
<1> HIDE DEF x, v
<1>6. /\ LayerRefs(v) /\ v.painted = x.painted /\ v.drawn = x.drawn /\ v.ready = TRUE /\ v.set = x.set
      /\ v.visible = x.visible /\ v.energy = x.energy /\ v.filter = x.filter /\ v.style = x.style /\ v.colour = x.colour /\ v.marks = x.marks /\ v.boundary = x.boundary
  BY <1>5, <1>v DEF LayerRefs, Fields, LayerFields
<1>7. v.visible = u.visible /\ v.energy = u.energy /\ v.filter = u.filter /\ v.style = u.style /\ v.colour = u.colour /\ v.marks = u.marks /\ v.boundary = u.boundary
  BY <1>3, <1>5, <1>6 DEF KeepsRefs
<1>8. v.painted = p /\ v.drawn = u.boundary /\ v.set = u.set
  BY <1>3, <1>5, <1>6 DEF KeepsRefs
<1>9. LayersPainted(v) /\ LayersBounded(v)
  BY <1>1, <1>7, <1>8 DEF LayersPainted, LayersBounded, Layering!Paint
<1>10. /\ LayerRefs(v) /\ LayersPainted(v) /\ LayersBounded(v) /\ v.painted # Nil /\ v.ready = TRUE /\ v.set = u.set
       /\ v.visible = u.visible /\ v.energy = u.energy /\ v.filter = u.filter /\ v.style = u.style /\ v.colour = u.colour /\ v.marks = u.marks /\ v.boundary = u.boundary
  BY <1>1, <1>6, <1>7, <1>8, <1>9
<1> QED BY <1>2, <1>10 DEF v

\* The map is ready, and is given the settings.
LEMMA LayersReady == ASSUME LayersInv, Layering!onReady PROVE LayersInv'
<1>0. LayerRefs(ui) /\ LayersDrawn(ui) /\ LayersKept(ui) /\ Settings(ui.set)
  BY DEF LayersInv, LayersShown, LayersKept
<1> DEFINE u == [Layering!BuildLayers(ui) EXCEPT !.ready = TRUE]
           a == Layering!setVisibleTypes(u, u.set.visible)
           v == Layering!setColorMode(a, u.set.colour)
           b == Layering!styleEffect(v)
           c == Layering!feederEffect(b)
           w == Layering!setBoundaryStyle(c, v.set.boundary)
           z == Layering!setOffMarkers(w, {})
<1>1. ui.ready = FALSE /\ ui' = IF w.set.off THEN w ELSE z
  BY <1>0 DEF Layering!onReady, LayersKept
<1>2. ui.painted = Nil
  BY <1>0, <1>1 DEF LayersKept
<1>3. /\ LayerRefs(u) /\ LayersPainted(u) /\ LayersBounded(u) /\ u.painted # Nil /\ u.ready = TRUE /\ u.set = ui.set
      /\ u.visible = ui.visible /\ u.energy = ui.energy /\ u.filter = ui.filter /\ u.style = ui.style /\ u.colour = ui.colour /\ u.marks = ui.marks /\ u.boundary = ui.boundary
  BY <1>0, <1>2, LayersBuild
<1> HIDE DEF u
<1>4. /\ LayerRefs(a) /\ LayersDrawn(a) /\ Around(u, a) /\ a.visible = ui.set.visible
      /\ a.energy = u.energy /\ a.filter = u.filter /\ a.style = u.style /\ a.colour = u.colour /\ a.marks = u.marks /\ a.boundary = u.boundary
  BY <1>3, LayersVisible
<1> HIDE DEF a
<1>5. u.set.colour \in Layering!Colours
  BY <1>0, <1>3 DEF Settings
<1>6. /\ LayerRefs(v) /\ LayersDrawn(v) /\ Around(a, v) /\ v.colour = u.set.colour
      /\ v.visible = a.visible /\ v.energy = a.energy /\ v.filter = a.filter /\ v.style = a.style /\ v.marks = a.marks /\ v.boundary = a.boundary
  BY <1>4, <1>5, LayersMode, LayersParts
<1> HIDE DEF v
<1>7. v.ready = TRUE /\ v.set = ui.set /\ v.set.live \in BOOLEAN /\ v.set.highlight \in Feeders \cup {Nil} /\ v.painted # Nil
  BY <1>0, <1>3, <1>4, <1>6 DEF Around, Settings
<1>8. /\ LayerRefs(b) /\ LayersDrawn(b) /\ Around(v, b) /\ b.visible = v.visible /\ b.energy = v.energy /\ b.filter = v.filter /\ b.colour = v.colour /\ b.marks = v.marks /\ b.boundary = v.boundary
      /\ b.style = [live |-> v.set.live, highlight |-> v.set.highlight]
  BY <1>6, <1>7, LayersTint
<1> HIDE DEF b
<1>9. b.ready = TRUE /\ b.set = ui.set /\ (b.painted # Nil => LayersPainted(b) /\ LayersBounded(b)) /\ b.painted # Nil
  BY <1>7, <1>8, LayersParts DEF Around
<1>10. /\ LayerRefs(c) /\ LayersDrawn(c) /\ Around(b, c) /\ c.visible = b.visible /\ c.energy = b.energy /\ c.style = b.style /\ c.colour = b.colour /\ c.marks = b.marks /\ c.boundary = b.boundary
       /\ c.filter = [ids |-> b.set.feeders, live |-> b.set.live]
  BY <1>8, <1>9, LayersFollow
<1> HIDE DEF c
<1>11. /\ LayerRefs(w) /\ LayersDrawn(w) /\ Around(c, w) /\ w.visible = c.visible /\ w.energy = c.energy /\ w.filter = c.filter /\ w.style = c.style /\ w.colour = c.colour /\ w.marks = c.marks /\ w.boundary = v.set.boundary
  BY <1>10, LayersBoundary
<1> HIDE DEF w
<1>12. /\ LayerRefs(z) /\ LayersDrawn(z) /\ Around(w, z) /\ z.visible = w.visible /\ z.energy = w.energy /\ z.filter = w.filter /\ z.style = w.style /\ z.colour = w.colour /\ z.boundary = w.boundary /\ z.marks = {}
  BY <1>11, LayersMarks
<1> HIDE DEF z
<1>13. w.set = ui.set /\ w.ready = TRUE /\ w.painted # Nil
  BY <1>9, <1>10, <1>11 DEF Around
<1>14. Copied(w)
  BY <1>0, <1>3, <1>4, <1>6, <1>7, <1>8, <1>9, <1>10, <1>11, <1>13 DEF Copied, LayersKept
<1>15. Copied(z)
  BY <1>12, <1>14 DEF Copied, Around
<1>16. LayersShown(ui') /\ ui'.set = ui.set
  <2>1. CASE ui.set.off = TRUE
    BY <1>0, <1>1, <1>11, <1>13, <1>14, <2>1 DEF LayersShown, LayersKept, Copied
  <2>2. CASE ui.set.off = FALSE
    BY <1>0, <1>1, <1>12, <1>13, <1>15, <2>2 DEF LayersShown, LayersKept, Copied, Around
  <2> QED BY <1>0, <2>1, <2>2 DEF Settings
<1> DEFINE k == Layering!Call("list")
           o == Layering!Call("off")
<1>17. calls' = (IF ui.set.off THEN {o} ELSE {}) \cup IF ui.listOpen THEN {k} ELSE {}
  BY DEF Layering!onReady
<1>18. Fields(k, LayerCall) /\ k.op # "off" /\ Fields(o, LayerCall)
  BY LayersFresh
<1> HIDE DEF k, o
<1>19. LayersCalls(calls', ui')
  BY <1>0, <1>16, <1>17, <1>18 DEF LayersCalls, Settings
<1> QED BY <1>16, <1>19 DEF LayersInv

\* The markers are asked for again.
LEMMA LayersPoll == ASSUME LayersInv, Layering!Poll PROVE LayersInv'
<1> DEFINE k == Layering!Call("list")
           o == Layering!Call("off")
<1>1. ui' = ui /\ (calls' = calls \cup {k} \/ (ui.set.off /\ calls' = calls \cup {o}))
  BY DEF Layering!Poll, Layering!Send
<1>2. Fields(k, LayerCall) /\ k.op # "off" /\ Fields(o, LayerCall)
  BY LayersFresh
<1> HIDE DEF k, o
<1>3. ui.set.off \in BOOLEAN
  BY DEF LayersInv, LayersShown, LayersKept, Settings
<1> QED BY <1>1, <1>2, <1>3 DEF LayersInv, LayersCalls

\* The server answers.
LEMMA LayersServe == ASSUME LayersInv, Layering!Serve PROVE LayersInv'
<1>p. PICK c, x : c \in calls /\ ui' = ui /\ calls' = (calls \ {c}) \cup {[c EXCEPT !.ready = TRUE, !.got = x]}
  BY DEF Layering!Serve
<1> DEFINE d == [c EXCEPT !.ready = TRUE, !.got = x]
<1>0. Fields(c, LayerCall) /\ (c.op = "off" /\ c.alive # FALSE => ui.set.off = TRUE)
  BY <1>p DEF LayersInv, LayersCalls
<1>1. Fields(d, LayerCall) /\ d.op = c.op /\ d.alive = c.alive
  BY <1>0 DEF Fields, LayerCall
<1> HIDE DEF d
<1> QED BY <1>p, <1>0, <1>1 DEF LayersInv, LayersCalls, d

\* The markers come.
LEMMA LayersOffLoaded == ASSUME LayersInv, Layering!OffLoaded PROVE LayersInv'
<1>0. LayerRefs(ui) /\ LayersDrawn(ui) /\ LayersKept(ui) /\ Settings(ui.set)
  BY DEF LayersInv, LayersShown, LayersKept
<1>p. PICK c \in calls : /\ c.op = "off" /\ calls' = calls \ {c}
                       /\ ui' = IF c.alive THEN Layering!setOffMarkers(ui, c.got) ELSE ui
  BY DEF Layering!OffLoaded, Layering!Got
<1>1. c.alive # FALSE => ui.set.off = TRUE
  BY <1>p DEF LayersInv, LayersCalls
<1> DEFINE v == Layering!setOffMarkers(ui, c.got)
<1>2. LayerRefs(v) /\ LayersDrawn(v) /\ Around(ui, v) /\ v.visible = ui.visible /\ v.energy = ui.energy /\ v.filter = ui.filter /\ v.style = ui.style /\ v.colour = ui.colour /\ v.boundary = ui.boundary
  BY <1>0, LayersMarks
<1> HIDE DEF v
<1>3. CASE c.alive = FALSE
  BY <1>p, <1>3, LayersStep DEF LayersInv
<1>4. CASE c.alive # FALSE
  <2>1. LayersKept(v)
    BY <1>0, <1>1, <1>2, <1>4 DEF LayersKept, Around, Copied
  <2>2. ui' = v \/ ui' = ui
    BY <1>p DEF v
  <2> QED BY <1>p, <1>0, <1>2, <2>1, <2>2, LayersStep DEF LayersShown, Around
<1> QED BY <1>3, <1>4

\* The list of the feeders comes.
LEMMA LayersListLoaded == ASSUME LayersInv, Layering!ListLoaded PROVE LayersInv'
<1>0. LayerRefs(ui) /\ LayersDrawn(ui) /\ LayersKept(ui) /\ Settings(ui.set)
  BY DEF LayersInv, LayersShown, LayersKept
<1>p. PICK c \in calls : calls' = calls \ {c} /\ ui' = Layering!Prune([ui EXCEPT !.list = c.got])
  BY DEF Layering!ListLoaded, Layering!Got
<1> DEFINE l == [ui EXCEPT !.list = c.got]
<1>1. /\ LayerRefs(l) /\ l.set = ui.set /\ l.ready = ui.ready /\ l.painted = ui.painted /\ l.filtered = ui.filtered
      /\ l.shown = ui.shown /\ l.drawn = ui.drawn /\ l.visible = ui.visible /\ l.energy = ui.energy /\ l.filter = ui.filter /\ l.style = ui.style /\ l.colour = ui.colour /\ l.marks = ui.marks /\ l.boundary = ui.boundary
  BY <1>0 DEF LayerRefs, Fields, LayerFields
<1>2. ui' = Layering!Prune(l)
  BY <1>p
<1> HIDE DEF l
<1>3. LayersShown(l)
  BY <1>1, LayersAside DEF LayersInv
<1> DEFINE x == l.set.feeders \cap l.list
           t == [ui.set EXCEPT !.feeders = x]
           w == [l EXCEPT !.set = t]
<1>4. [l EXCEPT !.set.feeders = @ \cap l.list] = w
  BY <1>1 DEF LayerRefs, Fields, LayerFields
<1>5. ui' = l \/ ui' = Layering!feederEffect(w)
  BY <1>2, <1>4 DEF Layering!Prune
<1>6. Settings(t) /\ t.feeders = x /\ t.visible = ui.set.visible /\ t.energy = ui.set.energy /\ t.live = ui.set.live /\ t.colour = ui.set.colour /\ t.highlight = ui.set.highlight /\ t.off = ui.set.off /\ t.boundary = ui.set.boundary /\ t.labels = ui.set.labels
  BY <1>0 DEF Settings, Fields, SettingFields
<1> HIDE DEF t, x
<1>7. LayersDrawn(l) /\ LayersKept(l)
  BY <1>3 DEF LayersShown
<1>8. /\ LayerRefs(w) /\ LayersDrawn(w) /\ w.set = t /\ w.ready = l.ready /\ w.painted = l.painted
      /\ w.visible = l.visible /\ w.energy = l.energy /\ w.filter = l.filter /\ w.style = l.style /\ w.colour = l.colour /\ w.marks = l.marks /\ w.boundary = l.boundary
  BY <1>1, <1>7, LayersSet
<1> HIDE DEF w
<1>9. w.ready \in BOOLEAN /\ (w.painted # Nil => LayersPainted(w) /\ LayersBounded(w))
  BY <1>7, <1>8, LayersParts DEF LayersKept
<1>10. CASE ui' = l
  BY <1>p, <1>1, <1>3, <1>10, LayersStep
<1>11. CASE ui' = Layering!feederEffect(w)
  <2>1. /\ LayerRefs(ui') /\ Around(w, ui') /\ ui'.visible = w.visible /\ ui'.energy = w.energy /\ ui'.style = w.style /\ ui'.colour = w.colour /\ ui'.marks = w.marks /\ ui'.boundary = w.boundary
        /\ w.ready = TRUE => LayersDrawn(ui') /\ ui'.filter = [ids |-> w.set.feeders, live |-> w.set.live]
        /\ w.ready = FALSE => ui' = w
    BY <1>8, <1>9, <1>11, LayersFollow
  <2>2. LayersKept(ui') /\ LayersDrawn(ui')
    BY <1>1, <1>6, <1>7, <1>8, <1>9, <2>1 DEF LayersKept, Around, Copied
  <2> QED BY <1>p, <1>6, <1>8, <2>1, <2>2, LayersStep DEF LayersShown, Around
<1> QED BY <1>5, <1>10, <1>11

\* The network changes.
LEMMA LayersNetwork == ASSUME LayersInv, Layering!Network PROVE LayersInv'
BY DEF LayersInv, Layering!Network

\* The map is not ready.
LEMMA LayersInit == ASSUME Layering!Init PROVE LayersInv
<1> DEFINE T == [visible |-> Types, energy |-> "all", feeders |-> {}, live |-> TRUE, colour |-> "type",
                 highlight |-> Nil, off |-> TRUE, boundary |-> FALSE, labels |-> TRUE]
           n == Layering!NoStyle
<1>1. /\ ui = [set |-> T,
               list |-> {}, listOpen |-> FALSE, stored |-> FALSE, ready |-> FALSE,
               visible |-> Types, energy |-> "all", filter |-> [ids |-> {}, live |-> TRUE], style |-> n,
               colour |-> "type", marks |-> {}, boundary |-> TRUE,
               shown |-> {}, filtered |-> Nil, painted |-> Nil, drawn |-> Nil, labels |-> Nil]
      /\ calls = {}
  BY DEF Layering!Init
<1>2. Settings(T) /\ T.energy = "all"
  BY DEF Settings, Fields, SettingFields, Layering!Colours
<1>3. n \in Styles
  BY DEF Layering!NoStyle, Styles
<1> HIDE DEF T, n
<1>4. LayerRefs(ui)
  BY <1>1, <1>3 DEF LayerRefs, Fields, LayerFields, Layering!Colours
<1>5. ui.set = T /\ ui.ready = FALSE /\ ui.painted = Nil /\ ui.energy = "all"
  BY <1>1
<1> QED BY <1>1, <1>2, <1>4, <1>5 DEF LayersInv, LayersShown, LayersCalls, LayersDrawn, LayersKept

\* Whatever is set, read or answered, before or after the map is ready, the layers show what is set.
LEMMA LayersNext == ASSUME LayersInv, Layering!Next PROVE LayersInv'
<1>1. CASE Layering!SetVisible BY <1>1, LayersSetVisible
<1>2. CASE Layering!SetEnergy BY <1>2, LayersSetEnergy
<1>3. CASE Layering!SetLabels BY <1>3, LayersSetLabels
<1>4. CASE Layering!SetColour BY <1>4, LayersSetColour
<1>5. CASE Layering!SetLive BY <1>5, LayersSetLive
<1>6. CASE Layering!toggleHighlight BY <1>6, LayersHighlight
<1>7. CASE Layering!setIds BY <1>7, LayersSetIds
<1>8. CASE Layering!TogglePanel BY <1>8, LayersTogglePanel
<1>9. CASE Layering!SetBoundary \/ Layering!BoundaryDefault BY <1>9, LayersSetBoundary
<1>10. CASE Layering!SetOff BY <1>10, LayersSetOff
<1>11. CASE Layering!onReady BY <1>11, LayersReady
<1>12. CASE Layering!Poll BY <1>12, LayersPoll
<1>13. CASE Layering!Serve BY <1>13, LayersServe
<1>14. CASE Layering!OffLoaded BY <1>14, LayersOffLoaded
<1>15. CASE Layering!ListLoaded BY <1>15, LayersListLoaded
<1>16. CASE Layering!Network BY <1>16, LayersNetwork
<1> QED BY <1>1, <1>2, <1>3, <1>4, <1>5, <1>6, <1>7, <1>8, <1>9, <1>10, <1>11, <1>12, <1>13, <1>14, <1>15, <1>16 DEF Layering!Next

\* The settings, drawn.
LEMMA LayersAsSet == ASSUME LayersInv PROVE Layering!DrawnAsSet
<1>0. LayerRefs(ui) /\ LayersDrawn(ui) /\ LayersKept(ui) /\ Settings(ui.set)
  BY DEF LayersInv, LayersShown, LayersKept
<1> SUFFICES ASSUME ui.ready PROVE Layering!DrawnAsSet
  BY DEF Layering!DrawnAsSet
<1>1. ui.ready = TRUE /\ ui.painted # Nil
  BY <1>0 DEF LayersKept
<1>2. LayersFiltered(ui) /\ LayersPainted(ui) /\ LayersBounded(ui) /\ Copied(ui) /\ (ui.set.off = TRUE \/ ui.marks = {})
  BY <1>0, <1>1 DEF LayersDrawn, LayersKept
<1>3. ui.filtered = [visible |-> ui.set.visible, energy |-> ui.set.energy,
                     feeders |-> [ids |-> ui.set.feeders, live |-> ui.set.live]]
  BY <1>2 DEF LayersFiltered, Copied
<1>4. ui.painted = [colour |-> ui.set.colour,
                    style |-> IF ui.set.colour = "feeder" THEN [live |-> ui.set.live, highlight |-> ui.set.highlight]
                              ELSE Layering!NoStyle]
  BY <1>2 DEF LayersPainted, Copied, Layering!Paint
<1>5. ui.shown = {m \in ui.marks : ui.set.off /\ ui.set.energy # "on" /\ TypeOf[m] \in ui.set.visible /\ (ui.set.feeders = {} \/ Layering!FeederOf(m, ui.set.live) \in ui.set.feeders)}
  <2>1. ui.filter.ids = ui.set.feeders /\ ui.filter.live = ui.set.live /\ ui.visible = ui.set.visible /\ ui.energy = ui.set.energy
    BY <1>2 DEF Copied
  <2>2. ui.shown = IF ui.set.energy = "on" THEN {}
                   ELSE {m \in ui.marks : TypeOf[m] \in ui.set.visible /\ (ui.set.feeders = {} \/ Layering!FeederOf(m, ui.set.live) \in ui.set.feeders)}
    BY <1>2, <2>1 DEF LayersFiltered, Layering!Wanted, Layering!Passes
  <2> HIDE DEF Layering!FeederOf
  <2> QED BY <1>2, <2>2
<1>6. ui.set.off \/ ui.marks = {}
  BY <1>2
<1>7. ui.drawn = ui.set.boundary
  BY <1>2 DEF LayersBounded, Copied
<1> QED BY <1>3, <1>4, <1>5, <1>6, <1>7 DEF Layering!DrawnAsSet

-----------------------------------------------------------------------------
(* MapSelection *)

SelFields == {"selected", "highlight", "loading", "form", "neighbours", "confirm", "approval", "cs", "view", "draft"}

\* One object is selected, marked and edited; the package of edits is the user's.
SelShown(u) ==
  /\ Fields(u, SelFields)
  /\ u.highlight = u.selected /\ u.form = u.selected
  /\ u.cs \in Own \cup {Nil}
SelRequests(C) == \A c \in C : c.op \in {"save", "delete", "draw"} => c.pkg \in Own \cup {Nil}
SelInv ==
  /\ SelShown(ui) /\ SelRequests(calls)
  /\ ui.loading => Sent(calls, {"select"})

\* A request as it leaves.
LEMMA SelCall == \A op, obj, pkg : LET c == Selection!Call(op, obj, pkg) IN c.op = op /\ c.obj = obj /\ c.pkg = pkg
BY DEF Selection!Call

\* Nothing is selected at first.
LEMMA SelInit == ASSUME Selection!Init PROVE SelInv
<1>1. Fields(ui, SelFields) /\ ui.highlight = ui.selected /\ ui.form = ui.selected /\ ui.cs = Nil /\ ui.loading = FALSE
  BY DEF Selection!Init, Fields, SelFields
<1>2. \A c \in calls : c.op = "packages"
  BY SelCall DEF Selection!Init
<1> QED BY <1>1, <1>2 DEF SelInv, SelShown, SelRequests

\* Another selection, and what leaves the selection alone.
LEMMA SelSet ==
  ASSUME NEW u, SelShown(u), NEW f
  PROVE  SelShown(Selection!SetSelected(u, f)) /\ Selection!SetSelected(u, f).loading = u.loading
<1> DEFINE v == [u EXCEPT !.selected = f, !.highlight = f]
<1>1. Fields(v, SelFields) /\ v.selected = f /\ v.highlight = f /\ v.cs = u.cs /\ v.loading = u.loading
  BY DEF SelShown, Fields, SelFields
<1>2. Selection!SetSelected(u, f) = [v EXCEPT !.form = v.selected, !.neighbours = Nil]
  BY DEF Selection!SetSelected, Selection!Filled
<1> HIDE DEF v
<1> QED BY <1>1, <1>2 DEF SelShown, Fields, SelFields

\* What is drawn goes, the selection stays.
LEMMA SelUndrawn ==
  ASSUME NEW u, SelShown(u)
  PROVE  SelShown(Selection!Undrawn(u)) /\ Selection!Undrawn(u).loading = u.loading
BY DEF Selection!Undrawn, SelShown, Fields, SelFields

\* The package and the neighbours are read, nothing is written.
LEMMA SelReads ==
  ASSUME NEW u
  PROVE  /\ \A c \in Selection!ReadPackage(u) : c.op = "draft"
         /\ \A c \in Selection!ReadAbout(u) : c.op = "neighbours"
BY SelCall DEF Selection!ReadPackage, Selection!ReadAbout

\* What the invariant asks of a step.
LEMMA SelStep ==
  ASSUME SelInv, SelShown(ui'), SelRequests(calls'),
         ui'.loading => \/ Sent(calls', {"select"})
                        \/ ui.loading /\ \A c \in calls : c.op = "select" => c \in calls'
  PROVE  SelInv'
BY DEF SelInv, Sent

\* Whatever is clicked or answered, one object is selected, marked and edited.
LEMMA SelNext == ASSUME SelInv, Selection!Next PROVE SelInv'
<1>0. SelShown(ui) /\ SelRequests(calls) /\ Fields(ui, SelFields)
  BY DEF SelInv, SelShown
<1>1. CASE Selection!PackagesLoaded
  <2> PICK c \in calls : /\ c.op = "packages"
                         /\ \/ \E own \in Own \cup {Nil}, view \in Others \cup {Nil} :
                                 LET u == [ui EXCEPT !.approval = TRUE, !.cs = own, !.view = view]
                                 IN ui' = Selection!Undrawn(u) /\ calls' = (calls \ {c}) \cup Selection!ReadPackage(u)
                            \/ calls' = calls \ {c} /\ ui' = ui
    BY <1>1 DEF Selection!PackagesLoaded, Selection!Got
  <2>1. ASSUME NEW own \in Own \cup {Nil}, NEW view, NEW u, u = [ui EXCEPT !.approval = TRUE, !.cs = own, !.view = view],
               ui' = Selection!Undrawn(u), calls' = (calls \ {c}) \cup Selection!ReadPackage(u)
        PROVE  SelInv'
    <3>1. SelShown(u) /\ u.loading = ui.loading
      BY <1>0, <2>1 DEF SelShown, Fields, SelFields
    <3>2. SelRequests(calls')
      BY <1>0, <2>1, SelReads DEF SelRequests
    <3> QED BY <2>1, <3>1, <3>2, SelUndrawn, SelStep
  <2>2. CASE calls' = calls \ {c} /\ ui' = ui
    BY <1>0, <2>2, SelStep DEF SelRequests
  <2> QED BY <2>1, <2>2
<1>2. CASE Selection!onSwitch
  <2> PICK own \in Own : LET u == [ui EXCEPT !.cs = own, !.view = Nil] IN ui' = u /\ calls' = calls \cup Selection!ReadPackage(u)
    BY <1>2 DEF Selection!onSwitch, Selection!SendAll
  <2> DEFINE R == Selection!ReadPackage([ui EXCEPT !.cs = own, !.view = Nil])
  <2>1. ui' = [ui EXCEPT !.cs = own, !.view = Nil] /\ calls' = calls \cup R
    OBVIOUS
  <2>2. \A c \in R : c.op = "draft"
    BY SelReads
  <2> HIDE DEF R
  <2>3. SelShown(ui') /\ ui'.loading = ui.loading
    BY <1>0, <2>1 DEF SelShown, Fields, SelFields
  <2>4. SelRequests(calls')
    BY <1>0, <2>1, <2>2 DEF SelRequests
  <2> QED BY <2>1, <2>3, <2>4, SelStep
<1>3. CASE Selection!onCloseView
  <2> DEFINE u == [ui EXCEPT !.view = Nil]
  <2>1. ui' = Selection!Undrawn(u) /\ calls' = calls \cup Selection!ReadPackage(u)
    BY <1>3 DEF Selection!onCloseView, Selection!SendAll
  <2>2. SelShown(u) /\ u.loading = ui.loading
    BY <1>0 DEF SelShown, Fields, SelFields
  <2> HIDE DEF u
  <2>3. SelRequests(calls')
    BY <1>0, <2>1, SelReads DEF SelRequests
  <2> QED BY <2>1, <2>2, <2>3, SelUndrawn, SelStep
<1>4. CASE Selection!DraftLoaded
  <2> PICK c, got : c \in calls /\ c.op = "draft" /\ ui' = [ui EXCEPT !.draft = got] /\ calls' = calls \ {c}
    BY <1>4 DEF Selection!DraftLoaded, Selection!Got
  <2>1. SelShown(ui') /\ ui'.loading = ui.loading
    BY <1>0 DEF SelShown, Fields, SelFields
  <2> QED BY <1>0, <2>1, SelStep DEF SelRequests
<1>5. CASE Selection!select
  <2> PICK o : calls' = calls \cup {Selection!Call("select", o, Selection!CsRead(ui))} /\ ui' = [ui EXCEPT !.loading = TRUE]
    BY <1>5 DEF Selection!select, Selection!Send
  <2>1. SelShown(ui')
    BY <1>0 DEF SelShown, Fields, SelFields
  <2>2. SelRequests(calls') /\ Sent(calls', {"select"})
    BY <1>0, SelCall DEF SelRequests, Sent
  <2> QED BY <2>1, <2>2, SelStep
<1>6. CASE Selection!Selected
  <2> DEFINE w == [ui EXCEPT !.loading = FALSE]
  <2> PICK c \in calls : LET u == Selection!SetSelected(w, Selection!Feature(c.obj, c.pkg))
                         IN \/ ui' = u /\ calls' = (calls \ {c}) \cup Selection!ReadAbout(u)
                            \/ ui' = w /\ calls' = calls \ {c}
    BY <1>6 DEF Selection!Selected, Selection!Then, Selection!Got
  <2>1. SelShown(w) /\ w.loading = FALSE
    BY <1>0 DEF SelShown, Fields, SelFields
  <2> HIDE DEF w
  <2>2. SelShown(ui') /\ ui'.loading = FALSE
    BY <2>1, SelSet
  <2>3. SelRequests(calls')
    BY <1>0, SelReads DEF SelRequests
  <2> QED BY <2>2, <2>3, SelStep
<1>7. CASE Selection!reloadSelected
  <2> PICK c \in calls : /\ c.op = "reload"
                         /\ LET u == Selection!SetSelected(ui, Selection!Feature(c.obj, c.pkg))
                            IN \/ ui' = u /\ calls' = (calls \ {c}) \cup Selection!ReadAbout(u)
                               \/ ui' = Selection!SetSelected(ui, Nil) /\ calls' = calls \ {c}
    BY <1>7 DEF Selection!reloadSelected, Selection!Then, Selection!Got
  <2>1. SelShown(ui') /\ ui'.loading = ui.loading
    BY <1>0, SelSet
  <2>2. SelRequests(calls') /\ \A d \in calls : d.op = "select" => d \in calls'
    BY <1>0, SelReads DEF SelRequests
  <2> QED BY <2>1, <2>2, SelStep
<1>8. CASE Selection!Realtime
  <2>1. ui' = ui /\ (calls' = calls \/ calls' = calls \cup {Selection!Call("reload", ui.selected.obj, Nil)})
    BY <1>8 DEF Selection!Realtime, Selection!Send
  <2>2. SelRequests(calls')
    BY <1>0, <2>1, SelCall DEF SelRequests
  <2> QED BY <1>0, <2>1, <2>2, SelStep
<1>9. CASE Selection!NeighboursLoaded
  <2> PICK c \in calls : c.op = "neighbours" /\ ui' = [ui EXCEPT !.neighbours = c.obj] /\ calls' = calls \ {c}
    BY <1>9 DEF Selection!NeighboursLoaded, Selection!Got
  <2>1. SelShown(ui') /\ ui'.loading = ui.loading
    BY <1>0 DEF SelShown, Fields, SelFields
  <2> QED BY <1>0, <2>1, SelStep DEF SelRequests
<1>10. CASE Selection!save \/ Selection!del \/ Selection!Draw
  <2>1. ui' = ui /\ \E op, o : calls' = calls \cup {Selection!Call(op, o, Selection!Csq(ui))}
    BY <1>10 DEF Selection!save, Selection!del, Selection!Draw, Selection!Edit, Selection!Send
  <2>2. Selection!Csq(ui) \in Own \cup {Nil}
    BY <1>0 DEF SelShown, Selection!Csq
  <2>3. SelRequests(calls')
    BY <1>0, <2>1, <2>2, SelCall DEF SelRequests
  <2> QED BY <1>0, <2>1, <2>3, SelStep
<1>11. CASE Selection!askDelete \/ Selection!cancelDelete
  <2> PICK b \in BOOLEAN : ui' = [ui EXCEPT !.confirm = b] /\ calls' = calls
    BY <1>11 DEF Selection!askDelete, Selection!cancelDelete, Selection!Show
  <2>1. SelShown(ui') /\ ui'.loading = ui.loading
    BY <1>0 DEF SelShown, Fields, SelFields
  <2> QED BY <1>0, <2>1, SelStep
<1>12. CASE Selection!Edited
  <2>a. \A c, S : Selection!Then(c, S) => calls' = (calls \ {c}) \cup S
    BY DEF Selection!Then
  <2> PICK c \in calls :
        /\ c.op \in {"save", "delete", "draw"}
        /\ \/ \E pkg \in IF ui.approval THEN Selection!Placed(c) ELSE {Nil} :
                LET u == IF pkg = Nil THEN ui ELSE Selection!afterEdit(ui, pkg)
                    more == Selection!ReadPackage(u)
                IN \/ /\ c.op = "save"
                      /\ ui' = Selection!SetSelected(u, Selection!Feature(c.obj, pkg)) /\ Selection!Then(c, Selection!ReadAbout(ui') \cup more)
                   \/ c.op = "draw" /\ ui' = [u EXCEPT !.loading = TRUE] /\ Selection!Then(c, more \cup {Selection!Call("select", c.obj, Selection!CsRead(ui))})
                   \/ /\ c.op = "delete"
                      /\ \/ ui' = Selection!SetSelected([u EXCEPT !.confirm = FALSE], Nil) /\ Selection!Then(c, more)
                         \/ /\ pkg # Nil /\ ui' = [u EXCEPT !.confirm = FALSE]
                            /\ Selection!Then(c, more \cup {Selection!Call("reload", c.obj, Selection!CsRead(ui))})
           \/ Selection!Got(c) /\ ui' = [ui EXCEPT !.confirm = @ /\ c.op # "delete"]
    BY <1>12, Zenon DEF Selection!Edited
  <2>0. c.op # "select"
    OBVIOUS
  <2>1. CASE Selection!Got(c) /\ ui' = [ui EXCEPT !.confirm = @ /\ c.op # "delete"]
    <3> PICK b : ui' = [ui EXCEPT !.confirm = b]
      BY <2>1, Zenon
    <3>0. calls' = calls \ {c}
      BY <2>1 DEF Selection!Got
    <3>1. SelShown(ui') /\ ui'.loading = ui.loading
      BY <1>0 DEF SelShown, Fields, SelFields
    <3> QED BY <1>0, <2>0, <3>0, <3>1, SelStep DEF SelRequests
  <2>2. ASSUME NEW pkg \in IF ui.approval THEN Selection!Placed(c) ELSE {Nil},
               LET u == IF pkg = Nil THEN ui ELSE Selection!afterEdit(ui, pkg)
                  more == Selection!ReadPackage(u)
              IN \/ /\ c.op = "save"
                    /\ ui' = Selection!SetSelected(u, Selection!Feature(c.obj, pkg)) /\ Selection!Then(c, Selection!ReadAbout(ui') \cup more)
                 \/ c.op = "draw" /\ ui' = [u EXCEPT !.loading = TRUE] /\ Selection!Then(c, more \cup {Selection!Call("select", c.obj, Selection!CsRead(ui))})
                 \/ /\ c.op = "delete"
                    /\ \/ ui' = Selection!SetSelected([u EXCEPT !.confirm = FALSE], Nil) /\ Selection!Then(c, more)
                       \/ /\ pkg # Nil /\ ui' = [u EXCEPT !.confirm = FALSE]
                          /\ Selection!Then(c, more \cup {Selection!Call("reload", c.obj, Selection!CsRead(ui))}) 
        PROVE  SelInv'
    <3> DEFINE u == IF pkg = Nil THEN ui ELSE Selection!afterEdit(ui, pkg)
    <3>0. \/ /\ ui' = Selection!SetSelected(u, Selection!Feature(c.obj, pkg))
             /\ Selection!Then(c, Selection!ReadAbout(ui') \cup Selection!ReadPackage(u))
          \/ /\ ui' = [u EXCEPT !.loading = TRUE]
             /\ Selection!Then(c, Selection!ReadPackage(u) \cup {Selection!Call("select", c.obj, Selection!CsRead(ui))})
          \/ ui' = Selection!SetSelected([u EXCEPT !.confirm = FALSE], Nil) /\ Selection!Then(c, Selection!ReadPackage(u))
          \/ /\ ui' = [u EXCEPT !.confirm = FALSE]
             /\ Selection!Then(c, Selection!ReadPackage(u) \cup {Selection!Call("reload", c.obj, Selection!CsRead(ui))})
      BY <2>2
    <3>00. u = IF pkg = Nil THEN ui ELSE Selection!afterEdit(ui, pkg)
      OBVIOUS
    <3> HIDE DEF u
    <3>1. pkg \in Own \cup {Nil}
      BY <1>0 DEF Selection!Placed, SelRequests
    <3>2. SelShown(u) /\ u.loading = ui.loading
      BY <1>0, <3>00, <3>1 DEF Selection!afterEdit, SelShown, Fields, SelFields
    <3> DEFINE v == [u EXCEPT !.confirm = FALSE]
               w == [u EXCEPT !.loading = TRUE]
    <3>3. SelShown(v) /\ v.loading = u.loading /\ SelShown(w)
      BY <3>2 DEF SelShown, Fields, SelFields
    <3>4. \/ ui' = Selection!SetSelected(u, Selection!Feature(c.obj, pkg))
          \/ ui' = w /\ Selection!Call("select", c.obj, Selection!CsRead(ui)) \in calls'
          \/ ui' = Selection!SetSelected(v, Nil)
          \/ ui' = v
      BY <3>0, <2>a
    <3> HIDE DEF v, w
    <3>5. SelShown(ui') /\ (ui'.loading = ui.loading \/ Sent(calls', {"select"}))
      BY <3>2, <3>3, <3>4, SelSet, SelCall DEF Sent
    <3>6. \A d \in calls' : d \in calls \/ d.op \in {"draft", "neighbours", "select", "reload"}
      BY <2>a, <3>0, SelReads, SelCall
    <3>7. calls \ {c} \subseteq calls'
      BY <2>a, <3>0
    <3>8. SelRequests(calls')
      BY <1>0, <3>6 DEF SelRequests
    <3> QED BY <2>0, <3>5, <3>7, <3>8, SelStep
  <2> QED BY <2>1, <2>2
<1> QED BY <1>1, <1>2, <1>3, <1>4, <1>5, <1>6, <1>7, <1>8, <1>9, <1>10, <1>11, <1>12 DEF Selection!Next

-----------------------------------------------------------------------------
(* NormalPositions *)

NormalFields == {"filter", "scope", "items", "checked", "confirm", "busy"}
NormalWorld == {"off", "turns", "edit", "approval"}

\* Lists are sets of objects, and only what is on the list is checked.
NormalInv ==
  /\ Fields(ui, NormalFields) /\ Fields(world, NormalWorld)
  /\ world.off \subseteq Objects
  /\ \A c \in calls : c.ids \subseteq Objects
  /\ ui.items = Nil \/ ui.items \in SUBSET Objects
  /\ ui.checked \subseteq Normal!Listed(ui)
  /\ ui.busy => Sent(calls, {"apply"})

\* A request as it leaves.
LEMMA NormalCall == \A op, scope : LET c == Normal!Call(op, scope) IN c.op = op /\ c.ids = {}
BY DEF Normal!Call

\* Nothing is checked at first.
LEMMA NormalInit == ASSUME Normal!Init PROVE NormalInv
<1> PICK filter, s :
      /\ ui = [filter |-> filter, scope |-> s, items |-> Nil, checked |-> {}, confirm |-> FALSE, busy |-> FALSE]
      /\ calls = {Normal!Call("load", s)}
  BY DEF Normal!Init
<1> PICK edit \in BOOLEAN, approval \in BOOLEAN :
      world = [off |-> Objects, turns |-> 0, edit |-> edit, approval |-> approval]
  BY DEF Normal!Init
<1>1. /\ Fields(ui, NormalFields) /\ ui.items = Nil /\ ui.checked = {} /\ ui.busy = FALSE
      /\ \A c \in calls : c.ids = {}
  BY NormalCall DEF Fields, NormalFields
<1>2. Fields(world, NormalWorld) /\ world.off = Objects
  BY DEF Fields, NormalWorld
<1> QED BY <1>1, <1>2 DEF NormalInv

\* A list replaced, with its checks.
LEMMA NormalLoaded ==
  ASSUME NormalInv, NEW S \in SUBSET Objects
  PROVE  LET u == Normal!Loaded(ui, S)
         IN Fields(u, NormalFields) /\ u.items = S /\ u.busy = ui.busy /\ u.checked \subseteq Normal!Listed(u)
<1> DEFINE u == Normal!Loaded(ui, S)
<1>1. Fields(u, NormalFields) /\ u.items = S /\ u.busy = ui.busy /\ u.checked = S \cap Suggested
  BY DEF Normal!Loaded, NormalInv, Fields, NormalFields
<1>2. S # Nil
  BY ObjectsAssumption
<1> HIDE DEF u
<1>3. Fields(u, NormalFields) /\ u.items = S /\ u.busy = ui.busy /\ u.checked \subseteq Normal!Listed(u)
  BY <1>1, <1>2 DEF Normal!Listed
<1> QED BY <1>3 DEF u

\* What the invariant asks of a step that leaves the list alone.
LEMMA NormalStep ==
  ASSUME NormalInv, Fields(ui', NormalFields), Fields(world', NormalWorld),
         world'.off \subseteq Objects, ui'.items = ui.items,
         ui'.checked = ui.checked \/ ui'.checked \subseteq Normal!Listed(ui),
         \A c \in calls' : c \in calls \/ c.ids \subseteq Objects,
         ui'.busy => Sent(calls', {"apply"})
  PROVE  NormalInv'
BY DEF NormalInv, Normal!Listed

\* Whatever is listed, checked or applied, only what is on the list is checked.
LEMMA NormalNext == ASSUME NormalInv, Normal!Next PROVE NormalInv'
<1>0. /\ Fields(ui, NormalFields) /\ Fields(world, NormalWorld) /\ world.off \subseteq Objects
      /\ \A c \in calls : c.ids \subseteq Objects
      /\ ui.checked \subseteq Normal!Listed(ui) /\ (ui.busy => Sent(calls, {"apply"}))
  BY DEF NormalInv
<1>a. Normal!Turn => Fields(world', NormalWorld) /\ world'.off = world.off
  BY <1>0 DEF Normal!Turn, Fields, NormalWorld
<1>b. \A op, s, C : C = calls \cup {Normal!Call(op, s)} => /\ \A c \in C : c \in calls \/ c.ids \subseteq Objects
                                                           /\ Sent(calls, {"apply"}) => Sent(C, {"apply"})
  BY NormalCall DEF Sent
<1>1. CASE Normal!SetScope
  <2> PICK s : ui' = [ui EXCEPT !.scope = s] /\ calls' = calls \cup {Normal!Call("load", s)}
    BY <1>1 DEF Normal!SetScope, Normal!Send
  <2>1. Fields(ui', NormalFields) /\ ui'.items = ui.items /\ ui'.checked = ui.checked /\ ui'.busy = ui.busy
    BY <1>0 DEF Fields, NormalFields
  <2>2. Normal!Turn
    BY <1>1 DEF Normal!SetScope
  <2> QED BY <1>0, <1>a, <1>b, <2>1, <2>2, NormalStep
<1>2. CASE Normal!FilterCleared
  <2>1. /\ ui' = [ui EXCEPT !.filter = FALSE, !.scope = "all"] /\ Normal!Turn
        /\ calls' = calls \/ calls' = calls \cup {Normal!Call("load", "all")}
    BY <1>2 DEF Normal!FilterCleared, Normal!Send
  <2>2. Fields(ui', NormalFields) /\ ui'.items = ui.items /\ ui'.checked = ui.checked /\ ui'.busy = ui.busy
    BY <1>0, <2>1 DEF Fields, NormalFields
  <2> QED BY <1>0, <1>a, <1>b, <2>1, <2>2, NormalStep
<1>3. CASE Normal!refresh
  <2>1. ui' = ui /\ Normal!Turn /\ calls' = calls \cup {Normal!Call("load", ui.scope)}
    BY <1>3 DEF Normal!refresh, Normal!Send
  <2> QED BY <1>0, <1>a, <1>b, <2>1, NormalStep
<1>4. CASE Normal!toggle
  <2> PICK S : /\ S \in {(ui.checked \cup {i}) \ (ui.checked \cap {i}) : i \in Normal!Listed(ui)} \cup {Normal!Listed(ui) \cap Suggested, {}}
               /\ Normal!Turn /\ ui' = [ui EXCEPT !.checked = S] /\ calls' = calls
    BY <1>4, Zenon DEF Normal!toggle
  <2>1. S \subseteq Normal!Listed(ui)
    BY <1>0
  <2>2. Fields(ui', NormalFields) /\ ui'.items = ui.items /\ ui'.checked = S /\ ui'.busy = ui.busy
    BY <1>0 DEF Fields, NormalFields
  <2> QED BY <1>0, <1>a, <2>1, <2>2, NormalStep
<1>5. CASE Normal!ask \/ Normal!cancel
  <2> PICK b \in BOOLEAN : ui' = [ui EXCEPT !.confirm = b] /\ calls' = calls /\ world' = world
    BY <1>5 DEF Normal!ask, Normal!cancel, Normal!Show
  <2>1. Fields(ui', NormalFields) /\ ui'.items = ui.items /\ ui'.checked = ui.checked /\ ui'.busy = ui.busy
    BY <1>0 DEF Fields, NormalFields
  <2> QED BY <1>0, <2>1, NormalStep
<1>6. CASE Normal!apply
  <2> DEFINE d == Normal!Call("apply", ui.scope)
             c == [d EXCEPT !.ids = ui.checked]
  <2>1. calls' = calls \cup {c} /\ ui' = [ui EXCEPT !.busy = TRUE] /\ world' = world
    BY <1>6 DEF Normal!apply, Normal!Send
  <2>2. c.op = d.op /\ (c.ids = ui.checked \/ c.ids = d.ids) /\ d.op = "apply" /\ d.ids = {}
    BY NormalCall
  <2> HIDE DEF c, d
  <2>3. ui.checked \subseteq Objects
    BY <1>0 DEF NormalInv, Normal!Listed
  <2>4. Fields(ui', NormalFields) /\ ui'.items = ui.items /\ ui'.checked = ui.checked
    BY <1>0, <2>1 DEF Fields, NormalFields
  <2>5. Sent(calls', {"apply"}) /\ \A e \in calls' : e \in calls \/ e.ids \subseteq Objects
    BY <2>1, <2>2, <2>3 DEF Sent
  <2> QED BY <1>0, <2>1, <2>4, <2>5, NormalStep
<1>7. CASE Normal!Serve
  <2> PICK c, S :           /\ c \in calls
                            /\ ui' = ui /\ S \subseteq Objects
                            /\ calls' = (calls \ {c}) \cup {[c EXCEPT !.ready = TRUE, !.ids = S]} \/ calls' = (calls \ {c}) \cup {[c EXCEPT !.ready = TRUE]}
                            /\ world' = world \/ world' = [world EXCEPT !.off = @ \ c.ids]
    <3> DEFINE T(c) == world.off \cap IF c.scope = "feeders" THEN Filtered ELSE Objects
    <3>1. PICK c \in calls : /\ ui' = ui
                             /\ calls' = (calls \ {c}) \cup {[c EXCEPT !.ready = TRUE, !.ids = T(c)]} \/ calls' = (calls \ {c}) \cup {[c EXCEPT !.ready = TRUE]}
                             /\ world' = world \/ world' = [world EXCEPT !.off = @ \ c.ids]
      BY <1>7 DEF Normal!Serve
    <3>2. T(c) \subseteq Objects
      BY <1>0
    <3> HIDE DEF T
    <3> QED BY <3>1, <3>2
  <2> DEFINE d == [c EXCEPT !.ready = TRUE, !.ids = S]
             e == [c EXCEPT !.ready = TRUE]
  <2>1. d.op = c.op /\ (d.ids = S \/ d.ids = c.ids) /\ e.op = c.op /\ e.ids = c.ids
    OBVIOUS
  <2>2. calls' = (calls \ {c}) \cup {d} \/ calls' = (calls \ {c}) \cup {e}
    OBVIOUS
  <2> HIDE DEF d, e
  <2>3. \A a \in calls' : a \in calls \/ a.ids \subseteq Objects
    BY <1>0, <2>1, <2>2
  <2>4. Sent(calls, {"apply"}) => Sent(calls', {"apply"})
    BY <2>1, <2>2 DEF Sent
  <2>5. Fields(world', NormalWorld) /\ world'.off \subseteq Objects
    BY <1>0 DEF Fields, NormalWorld
  <2> QED BY <1>0, <2>3, <2>4, <2>5, NormalStep
<1>8. CASE Normal!LoadAnswered
  <2> PICK c \in calls : /\ c.op = "load" /\ calls' = calls \ {c} /\ world' = world
                         /\ ui' = Normal!Loaded(ui, c.ids) \/ ui' = [ui EXCEPT !.items = Normal!Listed(ui)]
    BY <1>8 DEF Normal!LoadAnswered, Normal!Got
  <2>1. \A d \in calls' : d.ids \subseteq Objects
    BY <1>0
  <2>2. Sent(calls, {"apply"}) => Sent(calls', {"apply"})
    BY DEF Sent
  <2>3. CASE ui' = Normal!Loaded(ui, c.ids)
    <3>1. c.ids \in SUBSET Objects
      BY <1>0
    <3>2. Fields(ui', NormalFields) /\ ui'.items = c.ids /\ ui'.busy = ui.busy /\ ui'.checked \subseteq Normal!Listed(ui')
      BY <2>3, <3>1, NormalLoaded
    <3> QED BY <1>0, <2>1, <2>2, <3>1, <3>2 DEF NormalInv
  <2>4. CASE ui' = [ui EXCEPT !.items = Normal!Listed(ui)]
    <3>1. Fields(ui', NormalFields) /\ ui'.items = Normal!Listed(ui) /\ ui'.busy = ui.busy /\ ui'.checked = ui.checked
      BY <1>0, <2>4 DEF Fields, NormalFields
    <3>2. Normal!Listed(ui) \in SUBSET Objects
      BY DEF NormalInv, Normal!Listed
    <3>3. Normal!Listed(ui') = Normal!Listed(ui)
      BY <3>1, <3>2, ObjectsAssumption DEF Normal!Listed
    <3> QED BY <1>0, <2>1, <2>2, <3>1, <3>2, <3>3 DEF NormalInv
  <2> QED BY <2>3, <2>4
<1>9. CASE Normal!ApplyAnswered
  <2> PICK c \in calls : /\ world' = world
                         /\ ui' = [ui EXCEPT !.busy = FALSE, !.confirm = FALSE] \/ ui' = [ui EXCEPT !.busy = FALSE]
                         /\ calls' = calls \ {c} \/ calls' = (calls \ {c}) \cup {Normal!Call("timer", c.scope)}
    BY <1>9 DEF Normal!ApplyAnswered, Normal!Got
  <2>1. Fields(ui', NormalFields) /\ ui'.items = ui.items /\ ui'.checked = ui.checked /\ ui'.busy = FALSE
    BY <1>0 DEF Fields, NormalFields
  <2>2. \A d \in calls' : d \in calls \/ d.ids \subseteq Objects
    BY NormalCall
  <2> QED BY <1>0, <2>1, <2>2, NormalStep
<1>10. CASE Normal!Timer
  <2> PICK c \in calls : c.op = "timer" /\ calls' = (calls \ {c}) \cup {Normal!Call("load", c.scope)} /\ ui' = ui /\ world' = world
    BY <1>10 DEF Normal!Timer
  <2>1. \A d \in calls' : d \in calls \/ d.ids \subseteq Objects
    BY NormalCall
  <2>2. Sent(calls, {"apply"}) => Sent(calls', {"apply"})
    BY DEF Sent
  <2> QED BY <1>0, <2>1, <2>2, NormalStep
<1>11. CASE Normal!Network
  <2> PICK i \in Objects : world' = [world EXCEPT !.turns = @ + 1, !.off = (@ \cup {i}) \ (@ \cap {i})] /\ ui' = ui /\ calls' = calls
    BY <1>11 DEF Normal!Network
  <2>1. Fields(world', NormalWorld) /\ world'.off \subseteq Objects
    BY <1>0 DEF Fields, NormalWorld
  <2> QED BY <1>0, <2>1, NormalStep
<1> QED BY <1>1, <1>2, <1>3, <1>4, <1>5, <1>6, <1>7, <1>8, <1>9, <1>10, <1>11 DEF Normal!Next

-----------------------------------------------------------------------------
(* ChangesPanel *)

ChangesFields == {"own", "view", "cs", "form", "mine", "busy"}

\* The fields are those of the package read; a button is disabled for its request.
ChangesInv ==
  /\ Fields(ui, ChangesFields)
  /\ Package!FormOfPackage
  /\ ui.busy # "" => Sent(calls, {ui.busy}) /\ ui.busy \in {"new", "save", "remove", "submit"}

\* A request as it leaves.
LEMMA ChangesCall == \A op, id : LET c == Package!Call(op, id) IN c.op = op /\ c.id = id
BY DEF Package!Call

\* No package is shown at first.
LEMMA ChangesInit == ASSUME Package!Init PROVE ChangesInv
<1> PICK own, view : ui = [own |-> own, view |-> view, cs |-> Nil, form |-> Nil, mine |-> {}, busy |-> ""]
  BY DEF Package!Init
<1>1. Fields(ui, ChangesFields) /\ ui.cs = Nil /\ ui.busy = ""
  BY DEF Fields, ChangesFields
<1> QED BY <1>1 DEF ChangesInv, Package!FormOfPackage

\* What the invariant asks of a step that shows no other package.
LEMMA ChangesStep ==
  ASSUME ChangesInv, Fields(ui', ChangesFields), ui'.cs \in {ui.cs, Nil}, ui'.form = ui.form,
         \/ ui'.busy = ""
         \/ ui'.busy = ui.busy /\ \A c \in calls : c.op \in {"new", "save", "remove", "submit"} => \E d \in calls' : d.op = c.op
         \/ ui'.busy \in {"new", "save", "remove", "submit"} /\ Sent(calls', {ui'.busy})
  PROVE  ChangesInv'
BY DEF ChangesInv, Package!FormOfPackage, Sent

\* Whatever is created, shown or sent, the fields are those of the package.
LEMMA ChangesNext == ASSUME ChangesInv, Package!Next PROVE ChangesInv'
<1>0. Fields(ui, ChangesFields)
  BY DEF ChangesInv
<1>a. \A c, S : Package!Then(c, S) => calls' = (calls \ {c}) \cup S
  BY DEF Package!Then
<1>1. CASE Package!MineLoaded
  <2> PICK c \in calls : /\ c.op = "mine"
                         /\ LET u == [ui EXCEPT !.mine = {p \in Own : world.status[p] \in {"draft", "rejected"}}]
                            IN \/ c.id # Nil /\ ui' = u /\ Package!Then(c, {Package!Call("package", c.id)})
                               \/ c.id = Nil /\ ui' = [u EXCEPT !.cs = Nil] /\ calls' = calls \ {c}
                               \/ ui' = ui /\ calls' = calls \ {c}
    BY <1>1 DEF Package!MineLoaded, Package!Got
  <2> DEFINE M == {p \in Own : world.status[p] \in {"draft", "rejected"}}
             u == [ui EXCEPT !.mine = M]
  <2>1. Fields(u, ChangesFields) /\ u.cs = ui.cs /\ u.form = ui.form /\ u.busy = ui.busy
    <3> HIDE DEF M
    <3> QED BY <1>0 DEF Fields, ChangesFields
  <2>2. ui' = u \/ ui' = [u EXCEPT !.cs = Nil] \/ ui' = ui
    OBVIOUS
  <2> HIDE DEF u
  <2>3. Fields(ui', ChangesFields) /\ ui'.cs \in {ui.cs, Nil} /\ ui'.form = ui.form /\ ui'.busy = ui.busy
    BY <1>0, <2>1, <2>2 DEF Fields, ChangesFields
  <2>4. \A d \in calls : d.op \in {"new", "save", "remove", "submit"} => d \in calls'
    BY <1>a
  <2> QED BY <2>3, <2>4, ChangesStep
<1>2. CASE Package!Serve
  <2> PICK c \in calls : c.op = "package" /\ ui' = ui /\ calls \ {c} \subseteq calls'
    BY <1>2 DEF Package!Serve
  <2> QED BY <1>0, ChangesStep
<1>3. CASE Package!PackageLoaded
  <2> PICK c \in calls : c.op = "package" /\ calls' = calls \ {c} /\ (ui' = Package!Loaded(ui, c) \/ ui' = ui)
    BY <1>3 DEF Package!PackageLoaded, Package!Got
  <2>1. CASE ui' = ui
    BY <1>0, <2>1, ChangesStep
  <2>2. CASE ui' = Package!Loaded(ui, c)
    <3>1. Fields(ui', ChangesFields) /\ ui'.cs.id = c.id /\ ui'.form = c.id /\ ui'.busy = ui.busy
      BY <1>0, <2>2 DEF Package!Loaded, Fields, ChangesFields
    <3>2. ui.busy # "" => Sent(calls', {ui.busy}) /\ ui.busy \in {"new", "save", "remove", "submit"}
      BY DEF ChangesInv, Sent
    <3> QED BY <3>1, <3>2 DEF ChangesInv, Package!FormOfPackage
  <2> QED BY <2>1, <2>2
<1>4. CASE Package!onSwitch \/ Package!onCloseView \/ Package!onChanged
  <2>1. \/ \E p : ui' = [ui EXCEPT !.own = p] \/ \E v : ui' = [ui EXCEPT !.view = v]
        \/ \E p, v : ui' = [ui EXCEPT !.own = p, !.view = v]
    BY <1>4 DEF Package!onSwitch, Package!onCloseView, Package!onChanged
  <2>2. calls \subseteq calls'
    BY <1>4 DEF Package!onSwitch, Package!onCloseView, Package!onChanged, Package!Send
  <2>3. Fields(ui', ChangesFields) /\ ui'.cs = ui.cs /\ ui'.form = ui.form /\ ui'.busy = ui.busy
    BY <1>0, <2>1 DEF Fields, ChangesFields
  <2> QED BY <2>2, <2>3, ChangesStep
<1>5. CASE Package!newSet \/ Package!save \/ Package!removeItem \/ Package!submit
  <2> PICK op, id : op \in {"new", "save", "remove", "submit"} /\ ui' = [ui EXCEPT !.busy = op] /\ calls' = calls \cup {Package!Call(op, id)}
    BY <1>5 DEF Package!newSet, Package!save, Package!removeItem, Package!submit, Package!Edit, Package!Send
  <2>1. Fields(ui', ChangesFields) /\ ui'.cs = ui.cs /\ ui'.form = ui.form /\ ui'.busy = op
    BY <1>0 DEF Fields, ChangesFields
  <2>2. Sent(calls', {op})
    BY ChangesCall DEF Sent
  <2> QED BY <2>1, <2>2, ChangesStep
<1>6. CASE Package!Ran
  <2>1. (\E p : ui' = [ui EXCEPT !.own = p, !.view = Nil, !.busy = ""]) \/ ui' = [ui EXCEPT !.busy = ""]
    BY <1>6 DEF Package!Ran
  <2>2. Fields(ui', ChangesFields) /\ ui'.cs = ui.cs /\ ui'.form = ui.form /\ ui'.busy = ""
    BY <1>0, <2>1 DEF Fields, ChangesFields
  <2> QED BY <2>2, ChangesStep
<1> QED BY <1>1, <1>2, <1>3, <1>4, <1>5, <1>6 DEF Package!Next

-----------------------------------------------------------------------------
(* MapPanels *)

ExchangeFields == {"layers", "area", "polygon", "stats", "busy", "file", "report", "open", "geojson", "onMap"}
ExchangeInv == Fields(ui, ExchangeFields) /\ (ui.busy # "" => Sent(calls, {ui.busy}))

\* Nothing is on its way.
LEMMA ExchangeInit == ASSUME Panels!ExchangeInit PROVE ExchangeInv
BY DEF Panels!ExchangeInit, ExchangeInv, Fields, ExchangeFields

\* A request begun says what the page is busy with.
LEMMA ExchangeSent ==
  ASSUME ExchangeInv, NEW op, NEW x, calls' = calls \cup {Panels!ExchangeCall(op, x)}, Fields(ui', ExchangeFields), ui'.busy = op
  PROVE  ExchangeInv'
<1>1. Panels!ExchangeCall(op, x).op = op
  BY DEF Panels!ExchangeCall
<1> QED BY <1>1 DEF ExchangeInv, Sent

\* Whatever is exported, imported or answered, a button that is disabled waits for its request.
LEMMA ExchangeNext == ASSUME ExchangeInv, Panels!ExchangeNext PROVE ExchangeInv'
<1>0. Fields(ui, ExchangeFields)
  BY DEF ExchangeInv
<1>1. ASSUME calls' = calls, Fields(ui', ExchangeFields), ui'.busy = ui.busy PROVE ExchangeInv'
  BY <1>1 DEF ExchangeInv
<1>2. CASE Panels!Select
  <2>1. calls' = calls
    BY <1>2 DEF Panels!Select
  <2>p. \/ \E S : ui' = [ui EXCEPT !.layers = S, !.stats = Nil]
        \/ \E a : ui' = [ui EXCEPT !.area = a, !.stats = Nil]
        \/ \E b : ui' = [ui EXCEPT !.polygon = b, !.stats = Nil]
    BY <1>2, Zenon DEF Panels!Select
  <2>2. Fields(ui', ExchangeFields) /\ ui'.busy = ui.busy
    BY <1>0, <2>p DEF Fields, ExchangeFields
  <2> QED BY <1>1, <2>1, <2>2
<1>3. CASE Panels!check
  <2>1. calls' = calls \cup {Panels!ExchangeCall("check", Panels!Selection(ui))} /\ ui' = [ui EXCEPT !.busy = "check"]
    BY <1>3 DEF Panels!check, Panels!Send
  <2>2. Fields(ui', ExchangeFields) /\ ui'.busy = "check"
    BY <1>0, <2>1 DEF Fields, ExchangeFields
  <2> QED BY <2>1, <2>2, ExchangeSent
<1>4. CASE Panels!download
  <2>1. calls' = calls \cup {Panels!ExchangeCall("download", Panels!Selection(ui))} /\ ui' = [ui EXCEPT !.busy = "download"]
    BY <1>4 DEF Panels!download, Panels!Send
  <2>2. Fields(ui', ExchangeFields) /\ ui'.busy = "download"
    BY <1>0, <2>1 DEF Fields, ExchangeFields
  <2> QED BY <2>1, <2>2, ExchangeSent
<1>5. CASE Panels!Exported
  <2>p. ui' = [ui EXCEPT !.busy = ""] \/ \E x : ui' = [[ui EXCEPT !.busy = ""] EXCEPT !.stats = x]
    BY <1>5 DEF Panels!Exported
  <2> QED BY <1>0, <2>p DEF Fields, ExchangeFields, ExchangeInv
<1>6. CASE Panels!chooseFile
  <2>1. CASE \E f \in Files : /\ ui' = [ui EXCEPT !.file = f, !.report = Nil, !.busy = "preview", !.geojson = f]
                              /\ calls' = calls \cup {Panels!ExchangeCall("preview", f)}
    <3>1. PICK f \in Files : /\ ui' = [ui EXCEPT !.file = f, !.report = Nil, !.busy = "preview", !.geojson = f]
                             /\ calls' = calls \cup {Panels!ExchangeCall("preview", f)}
      BY <2>1
    <3>2. Fields(ui', ExchangeFields) /\ ui'.busy = "preview"
      BY <1>0, <3>1 DEF Fields, ExchangeFields
    <3> QED BY <3>1, <3>2, ExchangeSent
  <2>2. CASE \E f : ui' = [ui EXCEPT !.file = f, !.report = Nil] /\ calls' = calls
    <3>1. Fields(ui', ExchangeFields) /\ ui'.busy = ui.busy
      BY <1>0, <2>2 DEF Fields, ExchangeFields
    <3> QED BY <1>1, <2>2, <3>1
  <2> QED BY <1>6, <2>1, <2>2 DEF Panels!chooseFile, Panels!Send
<1>7. CASE Panels!openPreview \/ Panels!onClose
  <2>p. calls' = calls /\ \E b : ui' = [ui EXCEPT !.open = b]
    BY <1>7 DEF Panels!openPreview, Panels!onClose, Panels!Show
  <2>2. Fields(ui', ExchangeFields) /\ ui'.busy = ui.busy
    BY <1>0, <2>p DEF Fields, ExchangeFields
  <2> QED BY <1>1, <2>p, <2>2
<1>8. CASE Panels!toggleMap
  <2>p. calls' = calls /\ (ui' = [ui EXCEPT !.onMap = Nil] \/ \E x : ui' = [ui EXCEPT !.open = FALSE, !.onMap = x])
    BY <1>8 DEF Panels!toggleMap, Panels!Show
  <2>2. Fields(ui', ExchangeFields) /\ ui'.busy = ui.busy
    BY <1>0, <2>p DEF Fields, ExchangeFields
  <2> QED BY <1>1, <2>p, <2>2
<1>9. CASE Panels!onApply
  <2>1. calls' = calls \cup {Panels!ExchangeCall("apply", ui.file)} /\ ui' = [ui EXCEPT !.busy = "apply"]
    BY <1>9 DEF Panels!onApply, Panels!Send
  <2>2. Fields(ui', ExchangeFields) /\ ui'.busy = "apply"
    BY <1>0, <2>1 DEF Fields, ExchangeFields
  <2> QED BY <2>1, <2>2, ExchangeSent
<1>10. CASE Panels!Imported
  <2>p. ui' = [ui EXCEPT !.busy = ""] \/ \E x : ui' = [[ui EXCEPT !.busy = ""] EXCEPT !.report = x, !.open = TRUE]
    BY <1>10, Zenon DEF Panels!Imported
  <2> QED BY <1>0, <2>p DEF Fields, ExchangeFields, ExchangeInv
<1> QED BY <1>2, <1>3, <1>4, <1>5, <1>6, <1>7, <1>8, <1>9, <1>10 DEF Panels!ExchangeNext

TraceFields == {"open", "panel", "seed", "selected", "result", "drawn"}
PanelFields == {"node", "dir", "limits", "running"}
TracePage(u) == Fields(u, TraceFields) /\ Fields(u.panel, PanelFields)
TraceInv == TracePage(ui) /\ (ui.panel.running => Sent(calls, {"trace"}))

\* A panel that is not there waits for nothing.
LEMMA NoPanelFields == Fields(Panels!NoPanel, PanelFields) /\ Panels!NoPanel.running = FALSE
BY DEF Fields, PanelFields, Panels!NoPanel

\* No trace runs.
LEMMA TraceInit == ASSUME Panels!TraceInit PROVE TraceInv
<1> DEFINE p == Panels!NoPanel
<1>1. ui = [open |-> FALSE, panel |-> p, seed |-> Nil, selected |-> Nil, result |-> Nil, drawn |-> Nil]
  BY DEF Panels!TraceInit
<1>2. Fields(p, PanelFields) /\ p.running = FALSE
  BY NoPanelFields
<1> HIDE DEF p
<1> QED BY <1>1, <1>2 DEF TraceInv, TracePage, Fields, TraceFields

\* One value of the panel.
LEMMA TraceNode ==
  ASSUME NEW u, TracePage(u), NEW x
  PROVE  /\ TracePage([u EXCEPT !.panel.node = x]) /\ [u EXCEPT !.panel.node = x].panel.running = u.panel.running
         /\ TracePage([u EXCEPT !.panel.dir = x]) /\ [u EXCEPT !.panel.dir = x].panel.running = u.panel.running
         /\ TracePage([u EXCEPT !.panel.limits = x]) /\ [u EXCEPT !.panel.limits = x].panel.running = u.panel.running
         /\ TracePage([u EXCEPT !.panel.running = x]) /\ [u EXCEPT !.panel.running = x].panel.running = x
<1> DEFINE N == [u.panel EXCEPT !.node = x]
           D == [u.panel EXCEPT !.dir = x]
           L == [u.panel EXCEPT !.limits = x]
           R == [u.panel EXCEPT !.running = x]
<1>1. /\ [u EXCEPT !.panel.node = x] = [u EXCEPT !.panel = N]
      /\ [u EXCEPT !.panel.dir = x] = [u EXCEPT !.panel = D]
      /\ [u EXCEPT !.panel.limits = x] = [u EXCEPT !.panel = L]
      /\ [u EXCEPT !.panel.running = x] = [u EXCEPT !.panel = R]
  BY DEF TracePage, Fields, TraceFields
<1>2. /\ Fields(N, PanelFields) /\ N.running = u.panel.running /\ Fields(D, PanelFields) /\ D.running = u.panel.running
      /\ Fields(L, PanelFields) /\ L.running = u.panel.running /\ Fields(R, PanelFields) /\ R.running = x
  BY DEF TracePage, Fields, PanelFields
<1> HIDE DEF N, D, L, R
<1> QED BY <1>1, <1>2 DEF TracePage, Fields, TraceFields

\* A choice in the panel starts no trace.
LEMMA TracePanel ==
  ASSUME NEW u, TracePage(u), NEW x, NEW v,
         v = [u EXCEPT !.panel.node = x] \/ v = [u EXCEPT !.panel.dir = x] \/ v = [u EXCEPT !.panel.limits = x]
  PROVE  TracePage(v) /\ v.panel.running = u.panel.running
<1>1. CASE v = [u EXCEPT !.panel.node = x]
  BY <1>1, TraceNode
<1>2. CASE v = [u EXCEPT !.panel.dir = x]
  BY <1>2, TraceNode
<1>3. CASE v = [u EXCEPT !.panel.limits = x]
  BY <1>3, TraceNode
<1> QED BY <1>1, <1>2, <1>3

\* Nor does an object selected on the map.
LEMMA TraceSelected ==
  ASSUME NEW u, TracePage(u)
  PROVE  TracePage(Panels!SelectedEffect(u)) /\ Panels!SelectedEffect(u).panel.running = u.panel.running
BY TraceNode DEF Panels!SelectedEffect

\* A node asked for is traced.
LEMMA TraceSeeded ==
  ASSUME NEW u, TracePage(u)
  PROVE  /\ TracePage(Panels!SeedEffect(u))
         /\ Panels!SeedEffect(u).panel.running => u.panel.running \/ Sent(Panels!SeedRun(u), {"trace"})
<1>1. CASE u.seed = Nil
  BY <1>1 DEF Panels!SeedEffect
<1>2. CASE u.seed # Nil
  <2> DEFINE a == u.seed.node
             b == u.seed.dir
             P == [u.panel EXCEPT !.node = a, !.dir = b, !.running = TRUE]
             p == [u.panel EXCEPT !.dir = b]
             w == [u EXCEPT !.panel = P]
  <2>1. Panels!SeedEffect(u) = w
    BY <1>2 DEF Panels!SeedEffect, TracePage, Fields, TraceFields
  <2>2. Fields(P, PanelFields)
    BY DEF TracePage, Fields, PanelFields
  <2>3. Panels!SeedRun(u) = {Panels!TraceCall(a, p)}
    BY <1>2 DEF Panels!SeedRun
  <2> HIDE DEF P, p, a, b
  <2>4. Panels!TraceCall(a, p).op = "trace"
    BY DEF Panels!TraceCall
  <2>5. TracePage(w)
    BY <2>2 DEF TracePage, Fields, TraceFields
  <2> QED BY <2>1, <2>3, <2>4, <2>5 DEF Sent
<1> QED BY <1>1, <1>2

\* Whatever is selected, run or answered, a trace that runs was asked for.
LEMMA TraceNext == ASSUME TraceInv, Panels!TraceNext PROVE TraceInv'
<1>0. TracePage(ui)
  BY DEF TraceInv
<1>1. ASSUME calls' = calls, TracePage(ui'), ui'.panel.running = ui.panel.running PROVE TraceInv'
  BY <1>1 DEF TraceInv
<1>2. CASE Panels!openTab
  <2> DEFINE p == Panels!NoPanel
             u == [ui EXCEPT !.open = TRUE, !.panel = p]
             v == Panels!SelectedEffect(u)
  <2>1. ui' = Panels!SeedEffect(v) /\ calls' = calls \cup Panels!SeedRun(u)
    BY <1>2 DEF Panels!openTab, Panels!SendAll
  <2>2. Fields(p, PanelFields) /\ p.running = FALSE
    BY NoPanelFields
  <2> HIDE DEF p
  <2>3. TracePage(u) /\ u.panel.running = FALSE /\ u.seed = ui.seed
    BY <1>0, <2>2 DEF TracePage, Fields, TraceFields
  <2> HIDE DEF u
  <2>4. TracePage(v) /\ v.panel.running = FALSE
    BY <2>3, TraceSelected
  <2>s. v.seed = u.seed
    <3>1. \A x : [u EXCEPT !.panel.node = x].seed = u.seed
      BY <2>3 DEF TracePage, Fields, TraceFields
    <3> QED BY <3>1 DEF Panels!SelectedEffect
  <2> HIDE DEF v
  <2>5. TracePage(ui') /\ (ui'.panel.running => Sent(Panels!SeedRun(v), {"trace"}))
    BY <2>1, <2>4, TraceSeeded
  <2>6. Sent(Panels!SeedRun(v), {"trace"}) => Sent(Panels!SeedRun(u), {"trace"})
    <3>1. \A x, y : Panels!TraceCall(x, y).op = "trace"
      BY DEF Panels!TraceCall
    <3> QED BY <2>s, <3>1 DEF Panels!SeedRun, Sent
  <2> QED BY <2>1, <2>5, <2>6 DEF TraceInv, Sent
<1>3. CASE Panels!closeTab
  <2> DEFINE p == Panels!NoPanel
  <2>1. ui' = [ui EXCEPT !.open = FALSE, !.panel = p]
    BY <1>3 DEF Panels!closeTab, Panels!Show
  <2>2. Fields(p, PanelFields) /\ p.running = FALSE
    BY NoPanelFields
  <2> HIDE DEF p
  <2> QED BY <1>0, <2>1, <2>2 DEF TraceInv, TracePage, Fields, TraceFields
<1>4. CASE Panels!startTrace
  <2>p. PICK x : LET u == [ui EXCEPT !.open = TRUE, !.seed = x]
                 IN ui' = Panels!SeedEffect(u) /\ calls' = calls \cup Panels!SeedRun(u)
    BY <1>4 DEF Panels!startTrace, Panels!SendAll
  <2> DEFINE u == [ui EXCEPT !.open = TRUE, !.seed = x]
  <2>1. ui' = Panels!SeedEffect(u) /\ calls' = calls \cup Panels!SeedRun(u)
    BY <2>p
  <2>2. TracePage(u) /\ u.panel.running = ui.panel.running
    BY <1>0 DEF TracePage, Fields, TraceFields
  <2> HIDE DEF u
  <2> QED BY <2>1, <2>2, TraceSeeded DEF TraceInv, Sent
<1>5. CASE Panels!select
  <2>p. PICK o : LET u == [ui EXCEPT !.selected = o] IN calls' = calls /\ ui' = IF u.open THEN Panels!SelectedEffect(u) ELSE u
    BY <1>5 DEF Panels!select
  <2> DEFINE u == [ui EXCEPT !.selected = o]
  <2>1. calls' = calls /\ (ui' = Panels!SelectedEffect(u) \/ ui' = u)
    BY <2>p
  <2>2. TracePage(u) /\ u.panel.running = ui.panel.running
    BY <1>0 DEF TracePage, Fields, TraceFields
  <2> HIDE DEF u
  <2> QED BY <1>1, <2>1, <2>2, TraceSelected
<1>6. CASE Panels!Form
  <2>p. calls' = calls /\ \E x : \/ ui' = [ui EXCEPT !.panel.node = x]
                                 \/ ui' = [ui EXCEPT !.panel.dir = x]
                                 \/ ui' = [ui EXCEPT !.panel.limits = x]
    <3>1. CASE \E x : ui' = [ui EXCEPT !.panel.node = x] \/ ui' = [ui EXCEPT !.panel.dir = x]
      BY <1>6, <3>1 DEF Panels!Form
    <3>2. CASE ui' = [ui EXCEPT !.panel.limits = IF @ = "none" THEN "some" ELSE "none"]
      <4>1. \E x : ui' = [ui EXCEPT !.panel.limits = x]
        BY <3>2, Zenon
      <4> QED BY <1>6, <4>1 DEF Panels!Form
    <3> QED BY <1>6, <3>1, <3>2 DEF Panels!Form
  <2>1. PICK x : \/ ui' = [ui EXCEPT !.panel.node = x]
                 \/ ui' = [ui EXCEPT !.panel.dir = x]
                 \/ ui' = [ui EXCEPT !.panel.limits = x]
    BY <2>p
  <2>2. TracePage(ui') /\ ui'.panel.running = ui.panel.running
    BY <1>0, <2>1, TracePanel
  <2> QED BY <1>1, <2>p, <2>2
<1>7. CASE Panels!run
  <2> DEFINE c == Panels!TraceCall(ui.panel.node, ui.panel)
  <2>1. calls' = calls \cup {c} /\ ui' = [ui EXCEPT !.panel.running = TRUE]
    BY <1>7 DEF Panels!run, Panels!Send
  <2>2. c.op = "trace"
    BY DEF Panels!TraceCall
  <2> HIDE DEF c
  <2>3. TracePage(ui')
    BY <1>0, <2>1, TraceNode
  <2> QED BY <2>1, <2>2, <2>3 DEF TraceInv, Sent
<1>8. CASE Panels!Traced
  <2> DEFINE u == [ui EXCEPT !.panel.running = FALSE]
  <2>1. PICK c : ui' = [u EXCEPT !.result = c, !.drawn = c] \/ ui' = u
    BY <1>8 DEF Panels!Traced, Panels!onTraceResult
  <2>2. TracePage(u) /\ u.panel.running = FALSE
    BY <1>0, TraceNode
  <2> HIDE DEF u
  <2> QED BY <2>1, <2>2 DEF TraceInv, TracePage, Fields, TraceFields
<1>9. CASE Panels!clear
  <2>1. ui' = [ui EXCEPT !.result = Nil, !.drawn = Nil] /\ calls' = calls
    BY <1>9 DEF Panels!clear, Panels!onTraceResult, Panels!Show
  <2> QED BY <1>0, <1>1, <2>1 DEF TracePage, Fields, TraceFields
<1>10. CASE Panels!ResultPanel
  <2> DEFINE u == [ui EXCEPT !.selected = ui.result.node]
  <2>1. calls' = calls /\ ui' = Panels!SelectedEffect(u)
    BY <1>10 DEF Panels!ResultPanel, Panels!Show
  <2>2. TracePage(u) /\ u.panel.running = ui.panel.running
    BY <1>0 DEF TracePage, Fields, TraceFields
  <2> HIDE DEF u
  <2> QED BY <1>1, <2>1, <2>2, TraceSelected
<1> QED BY <1>2, <1>3, <1>4, <1>5, <1>6, <1>7, <1>8, <1>9, <1>10 DEF Panels!TraceNext

-----------------------------------------------------------------------------
(* Sld *)

DiagramFields == {"scope", "diagram", "offsets", "dirty", "pfOn", "pf", "selected", "feature", "confirm", "mode", "hits", "focus"}

Shifts(u) == u.diagram # Nil => u.offsets \in {Nil, u.diagram}
DiagramInv ==
  /\ Fields(ui, DiagramFields)
  /\ Shifts(ui)
  /\ \A c \in calls : c.op = "save" => c.of \in {Nil, c.about}

\* A request as it leaves.
LEMMA DiagramCall == \A op, about : LET c == Diagrams!Call(op, about) IN c.op = op /\ c.about = about /\ c.of = Nil
BY DEF Diagrams!Call

\* No diagram at first.
LEMMA DiagramInit == ASSUME Diagrams!PageInit PROVE DiagramInv
<1>1. PICK m : ui = [scope |-> Nil, diagram |-> Nil, offsets |-> Nil, dirty |-> FALSE,
                     pfOn |-> FALSE, pf |-> Nil, selected |-> Nil, feature |-> Nil, confirm |-> Nil,
                     mode |-> m, hits |-> Nil, focus |-> Nil]
  BY DEF Diagrams!PageInit
<1>2. Fields(ui, DiagramFields) /\ ui.diagram = Nil
  BY <1>1 DEF Fields, DiagramFields
<1>3. \A c \in calls : c.op = "config"
  BY DiagramCall DEF Diagrams!PageInit
<1> QED BY <1>2, <1>3 DEF DiagramInv, Shifts

\* What the invariant asks of a step.
LEMMA DiagramStep ==
  ASSUME DiagramInv, Fields(ui', DiagramFields), Shifts(ui'),
         \A c \in calls' : (\E d \in calls : c.op = d.op /\ c.of = d.of /\ c.about = d.about) \/ c.op # "save" \/ c.of \in {Nil, c.about}
  PROVE  DiagramInv'
BY DEF DiagramInv

\* Requests that are told to be dropped, and those that are sent.
LEMMA DiagramDropped ==
  ASSUME NEW C
  PROVE  /\ \A c \in Diagrams!DropFlow(C) : \E d \in C : c.op = d.op /\ c.of = d.of /\ c.about = d.about
         /\ \A c \in Diagrams!DropFeature(C) : \E d \in C : c.op = d.op /\ c.of = d.of /\ c.about = d.about
<1>1. \A d : LET c == [d EXCEPT !.alive = FALSE] IN c.op = d.op /\ c.of = d.of /\ c.about = d.about
  OBVIOUS
<1> QED BY <1>1 DEF Diagrams!DropFlow, Diagrams!DropFeature

\* A diagram and its flow are read, nothing is written.
LEMMA DiagramSent == /\ \A s : Diagrams!build(s).op = "build"
                     /\ \A d : Diagrams!FlowOf(d).op = "flow"
BY DiagramCall DEF Diagrams!build, Diagrams!FlowOf

\* A diagram comes with its own shifts; the scope, the selection and the focus are no matter.
LEMMA DiagramShown ==
  ASSUME NEW u, Fields(u, DiagramFields), NEW s
  PROVE  Fields(Diagrams!Diagram(u, s), DiagramFields) /\ Shifts(Diagrams!Diagram(u, s))
BY DEF Diagrams!Diagram, Fields, DiagramFields, Shifts

\* None of these touches the diagram or the shifts.
LEMMA DiagramFocus ==
  ASSUME NEW u, Fields(u, DiagramFields), Shifts(u)
  PROVE  /\ Fields(Diagrams!Focus(u), DiagramFields) /\ Shifts(Diagrams!Focus(u))
         /\ Fields(Diagrams!Deselected(u), DiagramFields) /\ Shifts(Diagrams!Deselected(u))
         /\ \A s : Fields(Diagrams!SetScope(u, s), DiagramFields) /\ Shifts(Diagrams!SetScope(u, s))
BY DEF Diagrams!Focus, Diagrams!Deselected, Diagrams!SetScope, Fields, DiagramFields, Shifts

\* Whatever is built, moved or answered, the shifts are those of the diagram.
LEMMA DiagramNext == ASSUME DiagramInv, Diagrams!PageNext PROVE DiagramInv'
<1>0. Fields(ui, DiagramFields) /\ Shifts(ui)
  BY DEF DiagramInv
<1>a. \A c, S : Diagrams!Then(c, S) => calls' = (calls \ {c}) \cup S
  BY DEF Diagrams!Then
<1>1. CASE Diagrams!configLoaded
  <2>1. \/ \E m, s : ui' = Diagrams!SetScope([ui EXCEPT !.mode = m], s)
        \/ \E o : ui' = [ui EXCEPT !.focus = o]
        \/ ui' = ui
    BY <1>1 DEF Diagrams!configLoaded
  <2>2. \A m : Fields([ui EXCEPT !.mode = m], DiagramFields) /\ Shifts([ui EXCEPT !.mode = m])
    BY <1>0 DEF Fields, DiagramFields, Shifts
  <2>3. \A o : Fields([ui EXCEPT !.focus = o], DiagramFields) /\ Shifts([ui EXCEPT !.focus = o])
    BY <1>0 DEF Fields, DiagramFields, Shifts
  <2>4. Fields(ui', DiagramFields) /\ Shifts(ui')
    BY <1>0, <2>1, <2>2, <2>3, DiagramFocus
  <2>5. \E c : calls' = calls \ {c} \/ \E o, s : calls' = (calls \ {c}) \cup {Diagrams!Call("resolve", o)} \/ calls' = (calls \ {c}) \cup {Diagrams!build(s)}
    BY <1>1, <1>a DEF Diagrams!configLoaded, Diagrams!Got
  <2>6. \A c \in calls' : c \in calls \/ c.op # "save"
    BY <2>5, DiagramCall, DiagramSent
  <2> QED BY <2>4, <2>6, DiagramStep
<1>2. CASE Diagrams!Resolved
  <2>1. ui' = ui \/ \E m, o, s : ui' = Diagrams!SetScope([ui EXCEPT !.mode = m, !.focus = o], s)
    BY <1>2 DEF Diagrams!Resolved
  <2>2. \A m, o : LET u == [ui EXCEPT !.mode = m, !.focus = o] IN Fields(u, DiagramFields) /\ Shifts(u)
    BY <1>0 DEF Fields, DiagramFields, Shifts
  <2>3. Fields(ui', DiagramFields) /\ Shifts(ui')
    BY <1>0, <2>1, <2>2, DiagramFocus
  <2>4. \E c : calls' = calls \ {c} \/ \E s : calls' = (calls \ {c}) \cup {Diagrams!build(s)}
    BY <1>2, <1>a DEF Diagrams!Resolved, Diagrams!Got
  <2>5. \A c \in calls' : c \in calls \/ c.op # "save"
    BY <2>4, DiagramSent
  <2> QED BY <2>3, <2>5, DiagramStep
<1>3. CASE Diagrams!Built
  <2>1. \E s : ui' = Diagrams!Focus(Diagrams!Diagram(ui, s)) \/ ui' = Diagrams!Diagram(ui, s) \/ ui' = ui
    BY <1>3 DEF Diagrams!Built
  <2>2. Fields(ui', DiagramFields) /\ Shifts(ui')
    BY <1>0, <2>1, DiagramShown, DiagramFocus
  <2> DEFINE Old(c) == \E d \in calls : c.op = d.op /\ c.of = d.of /\ c.about = d.about
  <2>3. /\ \A c \in Diagrams!DropFlow(calls) : Old(c)
        /\ \A c \in Diagrams!DropFeature(Diagrams!DropFlow(calls)) : Old(c)
        /\ \A c \in calls : Old(c)
    <3>1. \A c \in Diagrams!DropFlow(calls) : Old(c)
      BY DiagramDropped
    <3>2. \A c \in Diagrams!DropFeature(Diagrams!DropFlow(calls)) : \E d \in Diagrams!DropFlow(calls) : c.op = d.op /\ c.of = d.of /\ c.about = d.about
      BY DiagramDropped
    <3> QED BY <3>1, <3>2
  <2>4. \A c \in calls' : Old(c) \/ c.op # "save"
    <3> HIDE DEF Old
    <3>1. PICK c : \/ LET u == Diagrams!Focus(Diagrams!Diagram(ui, c.about))
                          T == (IF u.pfOn THEN {Diagrams!FlowOf(c.about)} ELSE {}) \cup IF u.selected # ui.selected THEN {Diagrams!Call("feature", u.selected)} ELSE {}
                          S == IF u.selected # ui.selected THEN Diagrams!DropFeature(Diagrams!DropFlow(calls)) ELSE Diagrams!DropFlow(calls)
                      IN calls' = (S \ {c}) \cup T
                   \/ \E s : calls' = (calls \ {c}) \cup {Diagrams!Call("timer", s)}
                   \/ calls' = calls \ {c}
      BY <1>3, <1>a DEF Diagrams!Built, Diagrams!Got
    <3>2. CASE \E s : calls' = (calls \ {c}) \cup {Diagrams!Call("timer", s)}
      BY <2>3, <3>2, DiagramCall
    <3>3. CASE calls' = calls \ {c}
      BY <2>3, <3>3
    <3>4. ASSUME NEW u, NEW T, NEW S,
                 T = (IF u.pfOn THEN {Diagrams!FlowOf(c.about)} ELSE {}) \cup IF u.selected # ui.selected THEN {Diagrams!Call("feature", u.selected)} ELSE {},
                 S = IF u.selected # ui.selected THEN Diagrams!DropFeature(Diagrams!DropFlow(calls)) ELSE Diagrams!DropFlow(calls),
                 calls' = (S \ {c}) \cup T
          PROVE  \A d \in calls' : Old(d) \/ d.op # "save"
      <4>1. \A d \in T : d.op # "save"
        BY <3>4, DiagramCall, DiagramSent
      <4>2. \A d \in S : Old(d)
        BY <2>3, <3>4
      <4> QED BY <3>4, <4>1, <4>2
    <3> QED BY <3>1, <3>2, <3>3, <3>4
  <2> QED BY <2>2, <2>4, DiagramStep
<1>4. CASE Diagrams!Timer
  <2>1. ui' = ui /\ \E c : calls' = calls \ {c} \/ \E s : calls' = (calls \ {c}) \cup {Diagrams!build(s)}
    BY <1>4, <1>a DEF Diagrams!Timer, Diagrams!Got
  <2>2. \A c \in calls' : c \in calls \/ c.op # "save"
    BY <2>1, DiagramSent
  <2> QED BY <1>0, <2>1, <2>2, DiagramStep
<1>5. CASE Diagrams!SetMode
  <2>1. calls' = calls /\ \E m : ui' = [ui EXCEPT !.mode = m, !.hits = Nil]
    BY <1>5 DEF Diagrams!SetMode
  <2>2. Fields(ui', DiagramFields) /\ Shifts(ui')
    BY <1>0, <2>1 DEF Fields, DiagramFields, Shifts
  <2> QED BY <2>1, <2>2, DiagramStep
<1>6. CASE Diagrams!Search \/ Diagrams!openHere
  <2>1. ui' = ui /\ \E x : calls' = calls \cup {Diagrams!Call("search", x)} \/ calls' = calls \cup {Diagrams!Call("resolve", x)}
    BY <1>6 DEF Diagrams!Search, Diagrams!openHere, Diagrams!Send
  <2>2. \A c \in calls' : c \in calls \/ c.op # "save"
    BY <2>1, DiagramCall
  <2> QED BY <1>0, <2>1, <2>2, DiagramStep
<1>7. CASE Diagrams!Searched
  <2>1. PICK c : calls' = calls \ {c} /\ ui' = [ui EXCEPT !.hits = c.about]
    BY <1>7 DEF Diagrams!Searched, Diagrams!Got
  <2>2. Fields(ui', DiagramFields) /\ Shifts(ui')
    BY <1>0, <2>1 DEF Fields, DiagramFields, Shifts
  <2>3. \A d \in calls' : d \in calls
    BY <2>1
  <2> QED BY <2>2, <2>3, DiagramStep
<1>8. CASE Diagrams!pickScope
  <2> DEFINE s == Diagrams!Scope(ui.mode, ui.hits, Diagrams!Level(ui))
  <2>1. ui' = Diagrams!SetScope(Diagrams!Deselected(ui), s) /\ calls' = Diagrams!DropFeature(calls) \cup {Diagrams!build(s)}
    BY <1>8 DEF Diagrams!pickScope
  <2> HIDE DEF s
  <2>2. Fields(ui', DiagramFields) /\ Shifts(ui')
    BY <1>0, <2>1, DiagramFocus
  <2> QED BY <2>1, <2>2, DiagramDropped, DiagramSent, DiagramStep
<1>9. CASE Diagrams!changeLevel
  <2> PICK s : ui' = Diagrams!SetScope(ui, s) /\ calls' = calls \cup {Diagrams!build(s)}
    BY <1>9 DEF Diagrams!changeLevel, Diagrams!Send
  <2>1. \A c \in calls' : c \in calls \/ c.op # "save"
    BY DiagramSent
  <2> QED BY <1>0, <2>1, DiagramFocus, DiagramStep
<1>10. CASE Diagrams!Area
  <2>1. ui' = [ui EXCEPT !.scope = Nil, !.diagram = Nil, !.pf = Nil] /\ calls' = Diagrams!DropFlow(calls)
    BY <1>10 DEF Diagrams!Area
  <2>2. Fields(ui', DiagramFields) /\ Shifts(ui')
    BY <1>0, <2>1 DEF Fields, DiagramFields, Shifts
  <2> QED BY <2>1, <2>2, DiagramDropped, DiagramStep
<1>11. CASE Diagrams!togglePf
  <2>1. ui' = [ui EXCEPT !.pfOn = ~@, !.pf = IF ui.pfOn THEN Nil ELSE @]
    BY <1>11, Zenon DEF Diagrams!togglePf
  <2>2. PICK b, x : ui' = [ui EXCEPT !.pfOn = b, !.pf = x]
    BY <2>1, Zenon
  <2>3. Fields(ui', DiagramFields) /\ Shifts(ui')
    BY <1>0, <2>2 DEF Fields, DiagramFields, Shifts
  <2>4. calls' = Diagrams!DropFlow(calls) \/ calls' = Diagrams!DropFlow(calls) \cup {} \/ calls' = Diagrams!DropFlow(calls) \cup {Diagrams!FlowOf(ui.diagram)}
    BY <1>11 DEF Diagrams!togglePf
  <2>5. \A c \in calls' : c \in Diagrams!DropFlow(calls) \/ c.op # "save"
    BY <2>4, DiagramSent
  <2> QED BY <2>3, <2>5, DiagramDropped, DiagramStep
<1>12. CASE Diagrams!Flowed
  <2>1. PICK c : calls' = calls \ {c} /\ (ui' = ui \/ ui' = [ui EXCEPT !.pf = c.about])
    BY <1>12 DEF Diagrams!Flowed, Diagrams!Got
  <2>2. Fields(ui', DiagramFields) /\ Shifts(ui')
    BY <1>0, <2>1 DEF Fields, DiagramFields, Shifts
  <2>3. \A d \in calls' : d \in calls
    BY <2>1
  <2> QED BY <2>2, <2>3, DiagramStep
<1>13. CASE Diagrams!onMove
  <2>1. ui' = [ui EXCEPT !.offsets = ui.diagram, !.dirty = TRUE] /\ calls' = calls
    BY <1>13 DEF Diagrams!onMove
  <2>2. Fields(ui', DiagramFields) /\ Shifts(ui')
    BY <1>0, <2>1 DEF Fields, DiagramFields, Shifts
  <2> QED BY <2>1, <2>2, DiagramStep
<1>14. CASE Diagrams!savePositions
  <2> DEFINE d == Diagrams!Call("save", ui.diagram)
             c == [d EXCEPT !.of = ui.offsets]
  <2>1. ui' = ui /\ calls' = calls \cup {c} /\ ui.diagram # Nil
    BY <1>14 DEF Diagrams!savePositions, Diagrams!Send, Diagrams!Panel
  <2>2. d.about = ui.diagram /\ d.of = Nil /\ c.about = d.about /\ (c.of = ui.offsets \/ c.of = d.of)
    BY DiagramCall
  <2> HIDE DEF c, d
  <2>3. c.of \in {Nil, c.about}
    BY <1>0, <2>1, <2>2 DEF Shifts
  <2>4. \A e \in calls' : e \in calls \/ e.of \in {Nil, e.about}
    BY <2>1, <2>3
  <2> QED BY <1>0, <2>1, <2>4, DiagramStep
<1>15. CASE Diagrams!resetPositions
  <2>1. ui' = ui /\ calls' = calls \cup {Diagrams!Call("reset", ui.diagram)}
    BY <1>15 DEF Diagrams!resetPositions, Diagrams!Send
  <2>2. \A c \in calls' : c \in calls \/ c.op # "save"
    BY <2>1, DiagramCall
  <2> QED BY <1>0, <2>1, <2>2, DiagramStep
<1>16. CASE Diagrams!Stored
  <2>1. PICK c : calls' = calls \ {c} /\ (ui' = ui \/ ui' = [ui EXCEPT !.dirty = FALSE] \/ ui' = [ui EXCEPT !.offsets = Nil, !.dirty = FALSE])
    BY <1>16 DEF Diagrams!Stored, Diagrams!Got
  <2>2. Fields(ui', DiagramFields) /\ Shifts(ui')
    BY <1>0, <2>1 DEF Fields, DiagramFields, Shifts
  <2>3. \A d \in calls' : d \in calls
    BY <2>1
  <2> QED BY <2>2, <2>3, DiagramStep
<1>17. CASE Diagrams!click
  <2> PICK o : ui' = [ui EXCEPT !.selected = o] /\ calls' = Diagrams!DropFeature(calls) \cup {Diagrams!Call("feature", o)}
    BY <1>17 DEF Diagrams!click
  <2>1. Fields(ui', DiagramFields) /\ Shifts(ui')
    BY <1>0 DEF Fields, DiagramFields, Shifts
  <2>2. \A c \in calls' : c \in Diagrams!DropFeature(calls) \/ c.op # "save"
    BY DiagramCall
  <2> QED BY <2>1, <2>2, DiagramDropped, DiagramStep
<1>18. CASE Diagrams!close
  <2>1. ui' = Diagrams!Deselected(ui) /\ calls' = Diagrams!DropFeature(calls)
    BY <1>18 DEF Diagrams!close
  <2> QED BY <1>0, <2>1, DiagramFocus, DiagramDropped, DiagramStep
<1>19. CASE Diagrams!FeatureLoaded
  <2>1. PICK c : calls' = calls \ {c} /\ (ui' = ui \/ ui' = [ui EXCEPT !.feature = c.about])
    BY <1>19 DEF Diagrams!FeatureLoaded, Diagrams!Got
  <2>2. Fields(ui', DiagramFields) /\ Shifts(ui')
    BY <1>0, <2>1 DEF Fields, DiagramFields, Shifts
  <2>3. \A d \in calls' : d \in calls
    BY <2>1
  <2> QED BY <2>2, <2>3, DiagramStep
<1>20. CASE Diagrams!AskOpen \/ Diagrams!CancelOpen
  <2> PICK x : ui' = [ui EXCEPT !.confirm = x] /\ calls' = calls
    BY <1>20 DEF Diagrams!AskOpen, Diagrams!CancelOpen, Diagrams!Show
  <2>1. Fields(ui', DiagramFields) /\ Shifts(ui')
    BY <1>0 DEF Fields, DiagramFields, Shifts
  <2> QED BY <2>1, DiagramStep
<1>21. CASE Diagrams!operate
  <2>1. ui' = ui /\ calls' = calls \cup {Diagrams!Call("operate", ui.selected)}
    BY <1>21 DEF Diagrams!operate, Diagrams!Send
  <2>2. \A c \in calls' : c \in calls \/ c.op # "save"
    BY <2>1, DiagramCall
  <2> QED BY <1>0, <2>1, <2>2, DiagramStep
<1>22. CASE Diagrams!Operated
  <2> PICK c : /\ ui' = ui \/ ui' = [ui EXCEPT !.feature = c.about, !.confirm = Nil]
               /\ calls' = calls \ {c} \/ calls' = (calls \ {c}) \cup IF ui.scope = Nil THEN {} ELSE {Diagrams!build(ui.scope)}
    BY <1>22, <1>a DEF Diagrams!Operated, Diagrams!Got
  <2>1. Fields(ui', DiagramFields) /\ Shifts(ui')
    BY <1>0 DEF Fields, DiagramFields, Shifts
  <2>2. \A d \in calls' : d \in calls \/ d.op # "save"
    BY DiagramSent
  <2> QED BY <2>1, <2>2, DiagramStep
<1>23. CASE Diagrams!Event
  <2>1. ui' = ui /\ calls' = calls \cup ((IF ui.scope = Nil THEN {} ELSE {Diagrams!build(ui.scope)})
                       \cup IF ui.feature = Nil THEN {} ELSE {Diagrams!Call("refresh", ui.feature)})
    BY <1>23 DEF Diagrams!Event, Diagrams!SendAll
  <2>2. \A d \in calls' : d \in calls \/ d.op # "save"
    BY <2>1, DiagramSent, DiagramCall
  <2> QED BY <1>0, <2>1, <2>2, DiagramStep
<1> QED BY <1>1, <1>2, <1>3, <1>4, <1>5, <1>6, <1>7, <1>8, <1>9, <1>10, <1>11, <1>12, <1>13, <1>14, <1>15, <1>16, <1>17,
           <1>18, <1>19, <1>20, <1>21, <1>22, <1>23 DEF Diagrams!PageNext

-----------------------------------------------------------------------------
(* ReportPages *)

PeriodicFields == {"kind", "items", "sel", "busy", "view"}
ViewFields == {"of", "text", "editing", "ai", "saving", "confirm"}

\* The view is the one of the report shown; what is waited for is on its way.
PeriodicShown(u) ==
  /\ Fields(u, PeriodicFields) /\ Fields(u.view, ViewFields)
  /\ u.sel # Nil => u.view.of = u.sel.report
PeriodicInv ==
  /\ PeriodicShown(ui)
  /\ ui.busy # "" => Sent(calls, {"open", "generate", "listed"})
  /\ ui.view.saving \in BOOLEAN
  /\ ui.view.saving => \E c \in calls : c.op = "save" /\ c.closed = FALSE

\* A request as it leaves.
LEMMA PeriodicCall == \A op, r : LET c == Reporting!Call(op, r) IN c.op = op /\ c.closed = FALSE
BY DEF Reporting!Call

\* Reading the reports again is no command.
LEMMA PeriodicLoad == \A k : Reporting!load(k).op = "list"
<1> TAKE k
<1> DEFINE d == Reporting!Call("list", Nil)
<1>1. [d EXCEPT !.kind = k].op = d.op /\ d.op = "list"
  BY PeriodicCall
<1> QED BY <1>1 DEF Reporting!load

\* No report is shown at first.
LEMMA PeriodicInit == ASSUME Reporting!PeriodicInit PROVE PeriodicInv
<1>1. Fields(ui, PeriodicFields) /\ ui.sel = Nil /\ ui.busy = "" /\ ui.view = Reporting!NoView
  BY DEF Reporting!PeriodicInit, Fields, PeriodicFields
<1>2. Fields(Reporting!NoView, ViewFields) /\ Reporting!NoView.saving = FALSE
  BY DEF Reporting!NoView, Fields, ViewFields
<1> QED BY <1>1, <1>2 DEF PeriodicInv, PeriodicShown

\* A report shown has its own view; what is being saved goes on.
LEMMA PeriodicView ==
  ASSUME PeriodicShown(ui), ui.view.saving \in BOOLEAN, NEW r, NEW n
  PROVE  LET u == Reporting!Viewed(ui, r, n)
         IN PeriodicShown(u) /\ u.busy = ui.busy /\ u.view.saving \in {ui.view.saving, FALSE}
<1> DEFINE sel == [report |-> r, text |-> n]
           fresh == [Reporting!NoView EXCEPT !.of = r, !.text = n]
           moved == [ui.view EXCEPT !.of = r, !.text = n, !.editing = FALSE, !.ai = FALSE]
           u == Reporting!Viewed(ui, r, n)
<1>1. Fields(fresh, ViewFields) /\ fresh.of = r /\ fresh.saving = FALSE
  BY DEF Reporting!NoView, Fields, ViewFields
<1>2. Fields(moved, ViewFields) /\ moved.of = r /\ moved.saving = ui.view.saving
  BY DEF PeriodicShown, Fields, ViewFields
<1>3. sel.report = r
  OBVIOUS
<1>4. u = [ui EXCEPT !.sel = sel, !.view = IF ui.sel = Nil THEN fresh ELSE IF ui.sel.report = r /\ ui.sel.text = n THEN ui.view ELSE moved]
  BY DEF Reporting!Viewed
<1> HIDE DEF sel, fresh, moved, u
<1>5. /\ Fields(u, PeriodicFields) /\ u.sel = sel /\ u.busy = ui.busy
      /\ u.view = IF ui.sel = Nil THEN fresh ELSE IF ui.sel.report = r /\ ui.sel.text = n THEN ui.view ELSE moved
  BY <1>4 DEF PeriodicShown, Fields, PeriodicFields
<1>6. PeriodicShown(u) /\ u.busy = ui.busy /\ u.view.saving \in {ui.view.saving, FALSE}
  BY <1>1, <1>2, <1>3, <1>5 DEF PeriodicShown
<1> QED BY <1>6 DEF u

\* What was saved is neither edited nor saved any longer.
LEMMA PeriodicSaved ==
  ASSUME NEW w, Fields(w, ViewFields)
  PROVE  LET v == [w EXCEPT !.editing = FALSE, !.ai = FALSE, !.saving = FALSE]
         IN Fields(v, ViewFields) /\ v.of = w.of /\ v.saving = FALSE
BY DEF Fields, ViewFields

\* What the invariant asks of a step.
LEMMA PeriodicStep ==
  ASSUME PeriodicInv, PeriodicShown(ui'), ui'.view.saving \in BOOLEAN,
         \/ ui'.busy = ""
         \/ ui'.busy = ui.busy /\ \A c \in calls : c.op \in {"open", "generate", "listed"} => \E d \in calls' : d.op \in {"open", "generate", "listed"}
         \/ Sent(calls', {"open", "generate", "listed"}),
         \/ ui'.view.saving = FALSE
         \/ ui'.view.saving = ui.view.saving /\ \A c \in calls : c.op = "save" /\ c.closed = FALSE => c \in calls'
         \/ \E c \in calls' : c.op = "save" /\ c.closed = FALSE
  PROVE  PeriodicInv'
BY DEF PeriodicInv, Sent

\* Whatever is opened, written or answered, a summary goes to the report it was begun for.
LEMMA PeriodicNext == ASSUME PeriodicInv, Reporting!PeriodicNext PROVE PeriodicInv'
<1>0. PeriodicShown(ui) /\ ui.view.saving \in BOOLEAN
  BY DEF PeriodicInv
<1>1. CASE Reporting!SetKind
  <2>1. calls \subseteq calls' /\ \E k : ui' = [ui EXCEPT !.kind = k]
    BY <1>1 DEF Reporting!SetKind, Reporting!Send
  <2>2. PeriodicShown(ui') /\ ui'.view = ui.view /\ ui'.busy = ui.busy
    BY <1>0, <2>1 DEF PeriodicShown, Fields, PeriodicFields
  <2> QED BY <1>0, <2>1, <2>2, PeriodicStep
<1>2. CASE Reporting!Listed
  <2> PICK c, S : c \in calls /\ c.op = "list" /\ calls' = calls \ {c} /\ ui' = [ui EXCEPT !.items = S]
    BY <1>2 DEF Reporting!Listed, Reporting!Got
  <2>1. PeriodicShown(ui') /\ ui'.view = ui.view /\ ui'.busy = ui.busy
    BY <1>0 DEF PeriodicShown, Fields, PeriodicFields
  <2> QED BY <1>0, <2>1, PeriodicStep
<1>3. CASE Reporting!open
  <2> PICK r : calls' = calls \cup {Reporting!Call("open", r)} /\ ui' = [ui EXCEPT !.busy = "open"]
    BY <1>3 DEF Reporting!open, Reporting!Send
  <2>1. PeriodicShown(ui') /\ ui'.view = ui.view
    BY <1>0 DEF PeriodicShown, Fields, PeriodicFields
  <2>2. Sent(calls', {"open", "generate", "listed"})
    BY PeriodicCall DEF Sent
  <2> QED BY <1>0, <2>1, <2>2, PeriodicStep
<1>4. CASE Reporting!PeriodicOpened
  <2> PICK c, n : c \in calls /\ c.op = "open" /\ calls' = calls \ {c} /\ ui' = [Reporting!Viewed(ui, c.report, n) EXCEPT !.busy = ""]
    BY <1>4 DEF Reporting!PeriodicOpened, Reporting!Got
  <2> DEFINE u == Reporting!Viewed(ui, c.report, n)
  <2>1. PeriodicShown(u) /\ u.view.saving \in {ui.view.saving, FALSE} /\ ui' = [u EXCEPT !.busy = ""]
    BY <1>0, PeriodicView
  <2> HIDE DEF u
  <2>2. PeriodicShown(ui') /\ ui'.view = u.view /\ ui'.busy = ""
    BY <2>1 DEF PeriodicShown, Fields, PeriodicFields
  <2> QED BY <1>0, <2>1, <2>2, PeriodicStep
<1>5. CASE Reporting!generate
  <2> PICK r : calls' = calls \cup {[Reporting!Call("generate", r) EXCEPT !.kind = ui.kind]} /\ ui' = [ui EXCEPT !.busy = "gen"]
    BY <1>5 DEF Reporting!generate, Reporting!Send
  <2>1. PeriodicShown(ui') /\ ui'.view = ui.view
    BY <1>0 DEF PeriodicShown, Fields, PeriodicFields
  <2> DEFINE d == Reporting!Call("generate", r)
             c == [d EXCEPT !.kind = ui.kind]
  <2>a. calls' = calls \cup {c} /\ c.op = d.op /\ d.op = "generate"
    BY PeriodicCall
  <2> HIDE DEF c, d
  <2>2. Sent(calls', {"open", "generate", "listed"})
    BY <2>a DEF Sent
  <2> QED BY <1>0, <2>1, <2>2, PeriodicStep
<1>6. CASE Reporting!Generated
  <2> PICK c \in calls : c.op = "generate" /\ calls' = (calls \ {c}) \cup {[c EXCEPT !.op = "listed"]} /\ ui' = ui
    BY <1>6 DEF Reporting!Generated, Reporting!Ask
  <2>1. [c EXCEPT !.op = "listed"].op = "listed" \/ [c EXCEPT !.op = "listed"].op = c.op
    OBVIOUS
  <2>2. Sent(calls', {"open", "generate", "listed"})
    BY <2>1 DEF Sent
  <2> QED BY <1>0, <2>2, PeriodicStep
<1>7. CASE Reporting!ListedThen
  <2> PICK c, S : c \in calls /\ c.op = "listed" /\ calls' = (calls \ {c}) \cup {Reporting!Call("open", c.report)} /\ ui' = [ui EXCEPT !.items = S, !.busy = "open"]
    BY <1>7 DEF Reporting!ListedThen, Reporting!Ask
  <2>1. PeriodicShown(ui') /\ ui'.view = ui.view
    BY <1>0 DEF PeriodicShown, Fields, PeriodicFields
  <2>2. Sent(calls', {"open", "generate", "listed"})
    BY PeriodicCall DEF Sent
  <2> QED BY <1>0, <2>1, <2>2, PeriodicStep
<1>8. CASE Reporting!Edit
  <2>1. PICK e, t, a : calls' = calls /\ (\/ ui' = [ui EXCEPT !.view.editing = TRUE] \/ ui' = [ui EXCEPT !.view.text = 1]
                                         \/ ui' = [ui EXCEPT !.view.editing = FALSE, !.view.text = t] \/ ui' = [ui EXCEPT !.view.ai = a])
    BY <1>8, Zenon DEF Reporting!Edit
  <2>2. Fields(ui', PeriodicFields) /\ ui'.sel = ui.sel /\ ui'.busy = ui.busy
    BY <1>0, <2>1 DEF PeriodicShown, Fields, PeriodicFields
  <2> DEFINE w == ui.view
  <2>a. \/ ui'.view = [w EXCEPT !.editing = TRUE] \/ ui'.view = [w EXCEPT !.text = 1]
        \/ ui'.view = [w EXCEPT !.editing = FALSE, !.text = t] \/ ui'.view = [w EXCEPT !.ai = a]
    BY <1>0, <2>1 DEF PeriodicShown, Fields, PeriodicFields
  <2>b. Fields(w, ViewFields)
    BY <1>0 DEF PeriodicShown
  <2> HIDE DEF w
  <2>3. Fields(ui'.view, ViewFields) /\ ui'.view.of = w.of /\ ui'.view.saving = w.saving
    BY <2>a, <2>b DEF Fields, ViewFields
  <2>4. PeriodicShown(ui')
    BY <1>0, <2>2, <2>3 DEF PeriodicShown, w
  <2> QED BY <1>0, <2>1, <2>2, <2>3, <2>4, PeriodicStep DEF w
<1>9. CASE Reporting!saveNarrative
  <2> PICK n : calls' = calls \cup {[Reporting!Call("save", ui.sel.report) EXCEPT !.kind = ui.kind, !.text = n]} /\ ui' = [ui EXCEPT !.view.saving = TRUE]
    BY <1>9 DEF Reporting!saveNarrative, Reporting!Send
  <2>1. Fields(ui', PeriodicFields) /\ ui'.sel = ui.sel /\ ui'.busy = ui.busy
    BY <1>0 DEF PeriodicShown, Fields, PeriodicFields
  <2>2. Fields(ui'.view, ViewFields) /\ ui'.view.of = ui.view.of /\ ui'.view.saving = TRUE
    BY <1>0 DEF PeriodicShown, Fields, PeriodicFields, ViewFields
  <2> DEFINE d == Reporting!Call("save", ui.sel.report)
             c == [d EXCEPT !.kind = ui.kind, !.text = n]
  <2>a. calls' = calls \cup {c} /\ c.op = d.op /\ c.closed = d.closed /\ d.op = "save" /\ d.closed = FALSE
    BY PeriodicCall
  <2> HIDE DEF c, d
  <2>3. \E e \in calls' : e.op = "save" /\ e.closed = FALSE
    BY <2>a
  <2>4. PeriodicShown(ui')
    BY <1>0, <2>1, <2>2 DEF PeriodicShown
  <2> QED BY <1>0, <2>1, <2>2, <2>3, <2>4, PeriodicStep
<1>10. CASE Reporting!PeriodicSaved
  <2> PICK c \in calls : /\ c.op = "save"
                         /\ LET u == Reporting!Viewed(ui, c.report, c.text)
                            IN ui' = IF c.closed THEN u ELSE [u EXCEPT !.view.editing = FALSE, !.view.ai = FALSE, !.view.saving = FALSE]
                         /\ calls' = (calls \ {c}) \cup {Reporting!load(c.kind)}
    BY <1>10 DEF Reporting!PeriodicSaved, Reporting!Ask
  <2> DEFINE u == Reporting!Viewed(ui, c.report, c.text)
  <2>1. PeriodicShown(u) /\ u.view.saving \in {ui.view.saving, FALSE} /\ u.busy = ui.busy
    BY <1>0, PeriodicView
  <2>2. ui' = IF c.closed THEN u ELSE [u EXCEPT !.view.editing = FALSE, !.view.ai = FALSE, !.view.saving = FALSE]
    OBVIOUS
  <2> HIDE DEF u
  <2>3. \A d \in calls : d.op \in {"open", "generate", "listed"} => d \in calls'
    OBVIOUS
  <2>4. CASE c.closed
    <3>1. \A d \in calls : d.op = "save" /\ d.closed = FALSE => d \in calls'
      BY <2>4
    <3> QED BY <1>0, <2>1, <2>2, <2>3, <2>4, <3>1, PeriodicStep
  <2>5. CASE ~c.closed
    <3>0. ui' = [u EXCEPT !.view.editing = FALSE, !.view.ai = FALSE, !.view.saving = FALSE]
      BY <2>2, <2>5
    <3>1. Fields(ui', PeriodicFields) /\ ui'.sel = u.sel /\ ui'.busy = u.busy
      BY <2>1, <3>0 DEF PeriodicShown, Fields, PeriodicFields
    <3>a. ui'.view = [u.view EXCEPT !.editing = FALSE, !.ai = FALSE, !.saving = FALSE]
      BY <2>1, <3>0 DEF PeriodicShown, Fields, PeriodicFields
    <3> DEFINE w == u.view
    <3>b. Fields(w, ViewFields) /\ ui'.view = [w EXCEPT !.editing = FALSE, !.ai = FALSE, !.saving = FALSE]
      BY <2>1, <3>a DEF PeriodicShown
    <3> HIDE DEF w
    <3>c. Fields(ui'.view, ViewFields) /\ ui'.view.of = w.of /\ ui'.view.saving = FALSE
      BY <3>b, PeriodicSaved, Zenon
    <3>2. Fields(ui'.view, ViewFields) /\ ui'.view.of = u.view.of /\ ui'.view.saving = FALSE
      BY <3>c DEF w
    <3>3. PeriodicShown(ui')
      BY <2>1, <3>1, <3>2 DEF PeriodicShown
    <3> QED BY <2>1, <2>3, <3>1, <3>2, <3>3, PeriodicStep
  <2> QED BY <2>4, <2>5
<1>11. CASE Reporting!askDelete
  <2>1. calls' = calls /\ \E b : ui' = [ui EXCEPT !.view.confirm = b]
    BY <1>11, Zenon DEF Reporting!askDelete
  <2>2. Fields(ui', PeriodicFields) /\ ui'.sel = ui.sel /\ ui'.busy = ui.busy
    BY <1>0, <2>1 DEF PeriodicShown, Fields, PeriodicFields
  <2>3. Fields(ui'.view, ViewFields) /\ ui'.view.of = ui.view.of /\ ui'.view.saving = ui.view.saving
    BY <1>0, <2>1 DEF PeriodicShown, Fields, PeriodicFields, ViewFields
  <2>4. PeriodicShown(ui')
    BY <1>0, <2>2, <2>3 DEF PeriodicShown
  <2> QED BY <1>0, <2>1, <2>2, <2>3, <2>4, PeriodicStep
<1>12. CASE Reporting!del
  <2>1. ui' = ui /\ calls \subseteq calls'
    BY <1>12 DEF Reporting!del, Reporting!Send
  <2> QED BY <1>0, <2>1, PeriodicStep
<1>13. CASE Reporting!PeriodicDeleted
  <2> PICK c \in calls : /\ c.op = "delete" /\ ui' = [ui EXCEPT !.sel = Nil, !.view = Reporting!NoView]
                         /\ calls' = {[d EXCEPT !.closed = d.op = "save"] : d \in calls \ {c}} \cup {Reporting!load(c.kind)}
    BY <1>13, Zenon DEF Reporting!PeriodicDeleted, Reporting!Ask, Reporting!Removed
  <2>1. \A d \in calls : d.op # "delete" => \E e \in calls' : e.op = d.op
    <3> TAKE d \in calls
    <3> HAVE d.op # "delete"
    <3>1. \A b : [d EXCEPT !.closed = b].op = d.op
      OBVIOUS
    <3>2. [d EXCEPT !.closed = d.op = "save"].op = d.op
      BY <3>1, Zenon
    <3>3. [d EXCEPT !.closed = d.op = "save"] \in calls'
      OBVIOUS
    <3> QED BY <3>2, <3>3
  <2>2. Fields(Reporting!NoView, ViewFields) /\ Reporting!NoView.saving = FALSE
    BY DEF Reporting!NoView, Fields, ViewFields
  <2>3. Fields(ui', PeriodicFields) /\ ui'.sel = Nil /\ ui'.busy = ui.busy /\ ui'.view = Reporting!NoView
    BY <1>0 DEF PeriodicShown, Fields, PeriodicFields
  <2>4. PeriodicShown(ui')
    BY <2>2, <2>3 DEF PeriodicShown
  <2> HIDE DEF Reporting!NoView
  <2>5. \A d \in calls : d.op \in {"open", "generate", "listed"} => \E e \in calls' : e.op \in {"open", "generate", "listed"}
    BY <2>1
  <2> QED BY <2>2, <2>3, <2>4, <2>5, PeriodicStep
<1>14. CASE Reporting!PeriodicFailed
  <2> PICK c \in calls :
        /\ c.op # "listed" /\ calls' = calls \ {c}
        /\ ui' = CASE c.op \in {"open", "generate"} -> [ui EXCEPT !.busy = ""]
                   [] c.op = "save" /\ ~c.closed -> [ui EXCEPT !.view.saving = FALSE]
                   [] OTHER -> ui
    BY <1>14 DEF Reporting!PeriodicFailed, Reporting!Got
  <2>1. CASE c.op \in {"open", "generate"}
    <3>0. ui' = [ui EXCEPT !.busy = ""]
      BY <2>1
    <3>1. PeriodicShown(ui') /\ ui'.view = ui.view /\ ui'.busy = ""
      BY <1>0, <3>0 DEF PeriodicShown, Fields, PeriodicFields
    <3> QED BY <1>0, <2>1, <3>1, PeriodicStep
  <2>2. CASE c.op = "save" /\ ~c.closed
    <3>0. ui' = [ui EXCEPT !.view.saving = FALSE]
      BY <2>2
    <3>1. Fields(ui', PeriodicFields) /\ ui'.sel = ui.sel /\ ui'.busy = ui.busy
      BY <1>0, <3>0 DEF PeriodicShown, Fields, PeriodicFields
    <3>2. Fields(ui'.view, ViewFields) /\ ui'.view.of = ui.view.of /\ ui'.view.saving = FALSE
      BY <1>0, <3>0 DEF PeriodicShown, Fields, PeriodicFields, ViewFields
    <3>3. PeriodicShown(ui')
      BY <1>0, <3>1, <3>2 DEF PeriodicShown
    <3> QED BY <2>2, <3>1, <3>2, <3>3, PeriodicStep
  <2>3. CASE c.op \notin {"open", "generate"} /\ ~(c.op = "save" /\ ~c.closed)
    <3>1. ui' = ui
      BY <2>3
    <3>2. \A d \in calls : d.op = "save" /\ d.closed = FALSE => d \in calls'
      BY <2>3
    <3>3. \A d \in calls : d.op \in {"open", "generate", "listed"} => d \in calls'
      BY <2>3
    <3> QED BY <1>0, <3>1, <3>2, <3>3, PeriodicStep
  <2> QED BY <2>1, <2>2, <2>3
<1> QED BY <1>1, <1>2, <1>3, <1>4, <1>5, <1>6, <1>7, <1>8, <1>9, <1>10, <1>11, <1>12, <1>13, <1>14 DEF Reporting!PeriodicNext

ReportsFields == {"kind", "items", "sel", "busy", "del", "ai"}
AiFields == {"started", "words", "busy"}

\* A panel that waits, waits for a stream; a stream has a panel.
Streaming(a, C) ==
  /\ a # Nil \/ Sent(C, {"ops"}) => Fields(a, AiFields)
  /\ a # Nil /\ a.busy = TRUE => Sent(C, {"ops"})
ReportsInv ==
  /\ Fields(ui, ReportsFields)
  /\ ui.ai # Nil => ui.ai.busy \in BOOLEAN
  /\ ui.busy # "" => Sent(calls, {"open", "generate", "listed"})
  /\ Streaming(ui.ai, calls)

\* A request as it leaves.
LEMMA ReportsCall == \A op, r : LET c == Reporting!Call(op, r) IN c.op = op
BY DEF Reporting!Call

\* Reading the reports again is no command.
LEMMA ReportsLoad == \A k : Reporting!load(k).op = "list"
<1> TAKE k
<1> DEFINE d == Reporting!Call("list", Nil)
<1>1. [d EXCEPT !.kind = k].op = d.op /\ d.op = "list"
  BY ReportsCall
<1> QED BY <1>1 DEF Reporting!load

\* The stream of a panel.
LEMMA ReportsStream == \A r : Reporting!Stream(r).op = "ops"
BY ReportsCall DEF Reporting!Stream

\* No panel at first.
LEMMA ReportsInit == ASSUME Reporting!LoadInit PROVE ReportsInv
<1>1. Fields(ui, ReportsFields) /\ ui.ai = Nil /\ ui.busy = ""
  BY DEF Reporting!LoadInit, Fields, ReportsFields
<1>2. \A c \in calls : c.op = "list"
  BY ReportsCall DEF Reporting!LoadInit
<1>3. ~Sent(calls, {"ops"})
  BY <1>2 DEF Sent
<1> QED BY <1>1, <1>3 DEF ReportsInv, Streaming

\* The panel starts by itself, with a stream of its own.
LEMMA ReportsShown ==
  ASSUME NEW u, NEW C, Fields(u, ReportsFields), u.ai # Nil => u.ai.busy \in BOOLEAN,
         u.sel = Nil \/ u.ai = Nil \/ Streaming(u.ai, C), Reporting!Shown(u, C)
  PROVE  /\ Fields(ui', ReportsFields) /\ ui'.busy = u.busy
         /\ ui'.ai # Nil => ui'.ai.busy \in BOOLEAN
         /\ Streaming(ui'.ai, calls')
         /\ \A c \in C : c.op # "ops" => c \in calls'
<1>0. ui' = Reporting!Started(u) /\ calls' = Reporting!Streams(u, C)
  BY DEF Reporting!Shown, Reporting!Ask
<1>1. CASE u.sel = Nil
  <2>1. ui' = [u EXCEPT !.ai = Nil, !.del = FALSE] /\ calls' = {c \in C : c.op # "ops"}
    BY <1>0, <1>1 DEF Reporting!Started, Reporting!Streams
  <2>2. Fields(ui', ReportsFields) /\ ui'.busy = u.busy /\ ui'.ai = Nil
    BY <2>1 DEF Fields, ReportsFields
  <2>3. ~Sent(calls', {"ops"})
    BY <2>1 DEF Sent
  <2> QED BY <2>1, <2>2, <2>3 DEF Streaming
<1>2. CASE u.sel # Nil /\ u.ai = Nil
  <2>1. ui' = u /\ calls' = {c \in C : c.op # "ops"}
    BY <1>0, <1>2 DEF Reporting!Started, Reporting!Streams
  <2>2. ~Sent(calls', {"ops"})
    BY <2>1 DEF Sent
  <2> QED BY <1>2, <2>1, <2>2 DEF Streaming
<1>3. CASE u.sel # Nil /\ u.ai # Nil /\ u.ai.started = u.sel
  BY <1>0, <1>3 DEF Reporting!Started, Reporting!Streams
<1>4. CASE u.sel # Nil /\ u.ai # Nil /\ u.ai.started # u.sel
  <2> DEFINE a == [started |-> u.sel, words |-> {}, busy |-> TRUE]
  <2>1. ui' = [u EXCEPT !.ai = a] /\ calls' = C \cup {Reporting!Stream(u.sel)}
    BY <1>0, <1>4 DEF Reporting!Started, Reporting!Streams
  <2>2. Fields(a, AiFields) /\ a.busy = TRUE
    BY DEF Fields, AiFields
  <2> HIDE DEF a
  <2>3. Fields(ui', ReportsFields) /\ ui'.busy = u.busy /\ ui'.ai = a
    BY <2>1 DEF Fields, ReportsFields
  <2>4. Sent(calls', {"ops"})
    BY <2>1, ReportsStream DEF Sent
  <2> QED BY <2>1, <2>2, <2>3, <2>4 DEF Streaming
<1> QED BY <1>1, <1>2, <1>3, <1>4

\* What the invariant asks of a step that leaves the panel alone.
LEMMA ReportsStep ==
  ASSUME ReportsInv, Fields(ui', ReportsFields), ui'.ai = ui.ai,
         \A c \in calls : c.op = "ops" => c \in calls',
         \A c \in calls' : c.op = "ops" => c \in calls,
         \/ ui'.busy = ""
         \/ ui'.busy = ui.busy /\ \A c \in calls : c.op \in {"open", "generate", "listed"} => c \in calls'
         \/ Sent(calls', {"open", "generate", "listed"})
  PROVE  ReportsInv'
<1>1. Sent(calls, {"ops"}) <=> Sent(calls', {"ops"})
  BY DEF Sent
<1>2. ui'.busy # "" => Sent(calls', {"open", "generate", "listed"})
  BY DEF ReportsInv, Sent
<1> QED BY <1>1, <1>2 DEF ReportsInv, Streaming

\* And of one that shows a report, or none.
LEMMA ReportsMoved ==
  ASSUME ReportsInv, NEW u, NEW C, Fields(u, ReportsFields), u.ai # Nil => u.ai.busy \in BOOLEAN,
         u.sel = Nil \/ u.ai = Nil \/ Streaming(u.ai, C), Reporting!Shown(u, C),
         u.busy = "" \/ (u.busy = ui.busy /\ \A c \in calls : c.op \in {"open", "generate", "listed"} => \E d \in C : d.op = c.op)
  PROVE  ReportsInv'
<1>1. /\ Fields(ui', ReportsFields) /\ ui'.busy = u.busy
      /\ ui'.ai # Nil => ui'.ai.busy \in BOOLEAN
      /\ Streaming(ui'.ai, calls')
      /\ \A c \in C : c.op # "ops" => c \in calls'
  BY ReportsShown
<1>2. ui'.busy # "" => Sent(calls', {"open", "generate", "listed"})
  <2> SUFFICES ASSUME ui'.busy # "" PROVE Sent(calls', {"open", "generate", "listed"})
    OBVIOUS
  <2>1. PICK c \in calls : c.op \in {"open", "generate", "listed"}
    BY <1>1 DEF ReportsInv, Sent
  <2>2. PICK d \in C : d.op = c.op
    BY <1>1, <2>1
  <2>3. d \in calls'
    BY <1>1, <2>1, <2>2
  <2> QED BY <2>1, <2>2, <2>3 DEF Sent
<1> QED BY <1>1, <1>2 DEF ReportsInv

\* Whatever is opened, streamed or stopped, what is waited for is on its way.
LEMMA ReportsNext == ASSUME ReportsInv, Reporting!LoadNext PROVE ReportsInv'
<1>0. Fields(ui, ReportsFields) /\ (ui.ai # Nil => ui.ai.busy \in BOOLEAN)
  BY DEF ReportsInv
<1>1. CASE Reporting!SetKind
  <2>1. (\E k : calls' = calls \cup {Reporting!load(k)}) /\ \E k : ui' = [ui EXCEPT !.kind = k]
    BY <1>1 DEF Reporting!SetKind, Reporting!Send
  <2>2. Fields(ui', ReportsFields) /\ ui'.ai = ui.ai /\ ui'.busy = ui.busy
    BY <1>0, <2>1 DEF Fields, ReportsFields
  <2>3. \A c \in calls' : c \in calls \/ c.op = "list"
    BY <2>1, ReportsLoad
  <2> QED BY <2>1, <2>2, <2>3, ReportsStep
<1>2. CASE Reporting!Listed
  <2> PICK c, S : c \in calls /\ c.op = "list" /\ calls' = calls \ {c} /\ ui' = [ui EXCEPT !.items = S]
    BY <1>2 DEF Reporting!Listed, Reporting!Got
  <2>1. Fields(ui', ReportsFields) /\ ui'.ai = ui.ai /\ ui'.busy = ui.busy
    BY <1>0 DEF Fields, ReportsFields
  <2> QED BY <2>1, ReportsStep
<1>3. CASE Reporting!open
  <2> PICK r : calls' = calls \cup {Reporting!Call("open", r)} /\ ui' = [ui EXCEPT !.busy = "open"]
    BY <1>3 DEF Reporting!open, Reporting!Send
  <2>1. Fields(ui', ReportsFields) /\ ui'.ai = ui.ai
    BY <1>0 DEF Fields, ReportsFields
  <2>2. Sent(calls', {"open", "generate", "listed"}) /\ \A c \in calls' : c \in calls \/ c.op = "open"
    BY ReportsCall DEF Sent
  <2> QED BY <2>1, <2>2, ReportsStep
<1>4. CASE Reporting!LoadOpened
  <2> PICK c \in calls : c.op = "open" /\ Reporting!Shown([ui EXCEPT !.sel = c.report, !.busy = ""], calls \ {c})
    BY <1>4 DEF Reporting!LoadOpened
  <2> DEFINE u == [ui EXCEPT !.sel = c.report, !.busy = ""]
             C == calls \ {c}
  <2>1. Fields(u, ReportsFields) /\ u.ai = ui.ai /\ u.busy = ""
    BY <1>0 DEF Fields, ReportsFields
  <2>2. Sent(C, {"ops"}) <=> Sent(calls, {"ops"})
    BY DEF Sent
  <2>3. Streaming(u.ai, C)
    <3> HIDE DEF u, C
    <3> QED BY <2>1, <2>2 DEF ReportsInv, Streaming
  <2>4. Reporting!Shown(u, C)
    OBVIOUS
  <2> HIDE DEF u, C
  <2> QED BY <1>0, <2>1, <2>3, <2>4, ReportsMoved
<1>5. CASE Reporting!generate
  <2> PICK r : calls' = calls \cup {[Reporting!Call("generate", r) EXCEPT !.kind = ui.kind]} /\ ui' = [ui EXCEPT !.busy = "gen"]
    BY <1>5 DEF Reporting!generate, Reporting!Send
  <2>1. Fields(ui', ReportsFields) /\ ui'.ai = ui.ai
    BY <1>0 DEF Fields, ReportsFields
  <2> DEFINE d == Reporting!Call("generate", r)
             c == [d EXCEPT !.kind = ui.kind]
  <2>2. calls' = calls \cup {c} /\ c.op = d.op /\ d.op = "generate"
    BY ReportsCall
  <2> HIDE DEF c, d
  <2>3. Sent(calls', {"open", "generate", "listed"}) /\ \A e \in calls' : e \in calls \/ e.op = "generate"
    BY <2>2 DEF Sent
  <2> QED BY <2>1, <2>2, <2>3, ReportsStep
<1>6. CASE Reporting!Generated
  <2> PICK c \in calls : c.op = "generate" /\ calls' = (calls \ {c}) \cup {[c EXCEPT !.op = "listed"]} /\ ui' = ui
    BY <1>6 DEF Reporting!Generated, Reporting!Ask
  <2> DEFINE d == [c EXCEPT !.op = "listed"]
  <2>1. (d.op = "listed" \/ d.op = c.op) /\ calls' = (calls \ {c}) \cup {d}
    OBVIOUS
  <2> HIDE DEF d
  <2>2. Sent(calls', {"open", "generate", "listed"}) /\ d.op # "ops"
    BY <2>1 DEF Sent
  <2> QED BY <1>0, <2>1, <2>2, ReportsStep
<1>7. CASE Reporting!ListedThen
  <2> PICK c, S : c \in calls /\ c.op = "listed" /\ calls' = (calls \ {c}) \cup {Reporting!Call("open", c.report)} /\ ui' = [ui EXCEPT !.items = S, !.busy = "open"]
    BY <1>7 DEF Reporting!ListedThen, Reporting!Ask
  <2>1. Fields(ui', ReportsFields) /\ ui'.ai = ui.ai
    BY <1>0 DEF Fields, ReportsFields
  <2>2. Sent(calls', {"open", "generate", "listed"}) /\ \A d \in calls' : d \in calls \/ d.op = "open"
    BY ReportsCall DEF Sent
  <2> QED BY <2>1, <2>2, ReportsStep
<1>8. CASE Reporting!ToggleAi
  <2> DEFINE a == [started |-> Nil, words |-> {}, busy |-> FALSE]
             u == [ui EXCEPT !.ai = IF ui.ai # Nil THEN Nil ELSE a]
  <2>1. Reporting!Shown(u, calls)
    BY <1>8 DEF Reporting!ToggleAi
  <2>2. Fields(a, AiFields) /\ a.busy = FALSE
    BY DEF Fields, AiFields
  <2>3. Fields(u, ReportsFields) /\ u.ai = IF ui.ai # Nil THEN Nil ELSE a
    <3> HIDE DEF a
    <3> QED BY <1>0 DEF Fields, ReportsFields
  <2>4. u.busy = ui.busy
    BY <1>0 DEF Fields, ReportsFields
  <2> HIDE DEF u, a
  <2>5. (u.ai # Nil => u.ai.busy \in BOOLEAN) /\ (u.ai = Nil \/ Streaming(u.ai, calls))
    BY <2>2, <2>3 DEF Streaming
  <2> QED BY <2>1, <2>3, <2>4, <2>5, ReportsMoved
<1>9. CASE Reporting!Delta
  <2> PICK c \in calls : c.op = "ops" /\ ui.ai # Nil /\ ui' = Reporting!Patched(ui, c.report) /\ calls' = calls
    BY <1>9 DEF Reporting!Delta, Reporting!Show
  <2>0. ui' = [ui EXCEPT !.ai.words = @ \cup {c.report}]
    BY Zenon DEF Reporting!Patched
  <2>1. PICK x : ui' = [ui EXCEPT !.ai.words = x]
    BY <2>0, Zenon
  <2>2. Fields(ui', ReportsFields) /\ ui'.ai = [ui.ai EXCEPT !.words = x] /\ ui'.busy = ui.busy
    BY <1>0, <2>1 DEF Fields, ReportsFields
  <2> DEFINE a == ui.ai
  <2>3. Fields(a, AiFields) /\ ui'.ai = [a EXCEPT !.words = x]
    BY <2>2 DEF ReportsInv, Streaming
  <2> HIDE DEF a
  <2>4. Fields(ui'.ai, AiFields) /\ ui'.ai.busy = a.busy
    BY <2>3 DEF Fields, AiFields
  <2>5. Fields(ui'.ai, AiFields) /\ ui'.ai.busy = ui.ai.busy
    BY <2>4 DEF a
  <2> QED BY <2>2, <2>5 DEF ReportsInv, Streaming
<1>10. CASE Reporting!StreamDone
  <2> PICK c \in calls : c.op = "ops" /\ calls' = calls \ {c} /\ ui' = [ui EXCEPT !.ai.busy = FALSE]
    BY <1>10 DEF Reporting!StreamDone, Reporting!Got
  <2>1. Fields(ui', ReportsFields) /\ ui'.ai = [ui.ai EXCEPT !.busy = FALSE] /\ ui'.busy = ui.busy
    BY <1>0 DEF Fields, ReportsFields
  <2> DEFINE a == ui.ai
  <2>2. Fields(a, AiFields) /\ ui'.ai = [a EXCEPT !.busy = FALSE]
    <3>1. Sent(calls, {"ops"})
      BY DEF Sent
    <3> QED BY <2>1, <3>1 DEF ReportsInv, Streaming
  <2> HIDE DEF a
  <2>3. Fields(ui'.ai, AiFields) /\ ui'.ai.busy = FALSE
    BY <2>2 DEF Fields, AiFields
  <2>4. ui.busy # "" => Sent(calls', {"open", "generate", "listed"})
    BY DEF ReportsInv, Sent
  <2> QED BY <2>1, <2>3, <2>4 DEF ReportsInv, Streaming
<1>11. CASE Reporting!rerun
  <2> DEFINE a == [started |-> ui.sel, words |-> {}, busy |-> TRUE]
  <2>1. calls' = calls \cup {Reporting!Stream(ui.sel)} /\ ui' = [ui EXCEPT !.ai = a]
    BY <1>11 DEF Reporting!rerun, Reporting!Send
  <2>2. Fields(a, AiFields) /\ a.busy = TRUE
    BY DEF Fields, AiFields
  <2> HIDE DEF a
  <2>3. Fields(ui', ReportsFields) /\ ui'.ai = a /\ ui'.busy = ui.busy
    BY <1>0, <2>1 DEF Fields, ReportsFields
  <2>4. Sent(calls', {"ops"})
    BY <2>1, ReportsStream DEF Sent
  <2>5. ui.busy # "" => Sent(calls', {"open", "generate", "listed"})
    BY <2>1 DEF ReportsInv, Sent
  <2> QED BY <2>2, <2>3, <2>4, <2>5 DEF ReportsInv, Streaming
<1>12. CASE Reporting!onUse
  <2> DEFINE d == Reporting!Call("save", ui.sel)
             c == [d EXCEPT !.kind = ui.kind, !.text = ui.ai.words]
  <2>1. calls' = calls \cup {c} /\ ui' = ui /\ c.op = d.op /\ d.op = "save"
    BY <1>12, ReportsCall DEF Reporting!onUse, Reporting!Send
  <2> HIDE DEF c, d
  <2> QED BY <1>0, <2>1, ReportsStep
<1>17. CASE Reporting!onConfirm
  <2> DEFINE d == Reporting!Call("delete", ui.sel)
             c == [d EXCEPT !.kind = ui.kind]
  <2>1. calls' = calls \cup {c} /\ ui' = ui /\ c.op = d.op /\ d.op = "delete"
    BY <1>17, ReportsCall DEF Reporting!onConfirm, Reporting!Send
  <2> HIDE DEF c, d
  <2> QED BY <1>0, <2>1, ReportsStep
<1>13. CASE Reporting!LoadSaved
  <2> PICK c \in calls : /\ c.op = "save"
                         /\ Reporting!Shown([ui EXCEPT !.sel = c.report, !.ai = IF c.closed THEN @ ELSE Nil], (calls \ {c}) \cup {Reporting!load(c.kind)})
    BY <1>13, Zenon DEF Reporting!LoadSaved
  <2> DEFINE u == [ui EXCEPT !.sel = c.report, !.ai = IF c.closed THEN @ ELSE Nil]
             C == (calls \ {c}) \cup {Reporting!load(c.kind)}
  <2>1. Fields(u, ReportsFields) /\ u.ai \in {ui.ai, Nil} /\ u.busy = ui.busy
    BY <1>0 DEF Fields, ReportsFields
  <2>2. Sent(C, {"ops"}) <=> Sent(calls, {"ops"})
    BY ReportsLoad DEF Sent
  <2>3. u.ai = Nil \/ Streaming(u.ai, C)
    <3> HIDE DEF u, C
    <3> QED BY <2>1, <2>2 DEF ReportsInv, Streaming
  <2>4. Reporting!Shown(u, C) /\ \A d \in calls : d.op \in {"open", "generate", "listed"} => d \in C
    OBVIOUS
  <2> HIDE DEF u, C
  <2> QED BY <1>0, <2>1, <2>3, <2>4, ReportsMoved
<1>14. CASE Reporting!setDel
  <2>1. calls' = calls /\ \E b : ui' = [ui EXCEPT !.del = b]
    BY <1>14, Zenon DEF Reporting!setDel
  <2>2. Fields(ui', ReportsFields) /\ ui'.ai = ui.ai /\ ui'.busy = ui.busy
    BY <1>0, <2>1 DEF Fields, ReportsFields
  <2> QED BY <2>1, <2>2, ReportsStep
<1>15. CASE Reporting!LoadDeleted
  <2> PICK c \in calls : /\ c.op = "delete"
                         /\ Reporting!Shown([ui EXCEPT !.sel = Nil], {[d EXCEPT !.closed = d.op = "save"] : d \in calls \ {c}} \cup {Reporting!load(c.kind)})
    BY <1>15, Zenon DEF Reporting!LoadDeleted, Reporting!Removed
  <2> DEFINE u == [ui EXCEPT !.sel = Nil]
             C == {[d EXCEPT !.closed = d.op = "save"] : d \in calls \ {c}} \cup {Reporting!load(c.kind)}
  <2>1. Fields(u, ReportsFields) /\ u.ai = ui.ai /\ u.sel = Nil /\ u.busy = ui.busy
    BY <1>0 DEF Fields, ReportsFields
  <2>2. \A d \in calls : d.op # "delete" => \E e \in C : e.op = d.op
    <3> TAKE d \in calls
    <3> HAVE d.op # "delete"
    <3>1. \A b : [d EXCEPT !.closed = b].op = d.op
      OBVIOUS
    <3>2. [d EXCEPT !.closed = d.op = "save"].op = d.op
      BY <3>1, Zenon
    <3>3. [d EXCEPT !.closed = d.op = "save"] \in C
      OBVIOUS
    <3> QED BY <3>2, <3>3
  <2>3. Reporting!Shown(u, C)
    OBVIOUS
  <2>4. \A d \in calls : d.op \in {"open", "generate", "listed"} => \E e \in C : e.op = d.op
    BY <2>2
  <2> HIDE DEF u, C
  <2> QED BY <1>0, <2>1, <2>3, <2>4, ReportsMoved
<1>16. CASE Reporting!LoadFailed
  <2> PICK c \in calls : /\ c.op \notin {"ops", "listed"} /\ calls' = calls \ {c}
                         /\ ui' = IF c.op \in {"open", "generate"} THEN [ui EXCEPT !.busy = ""] ELSE ui
    BY <1>16 DEF Reporting!LoadFailed, Reporting!Got
  <2>1. CASE c.op \in {"open", "generate"}
    <3>1. ui' = [ui EXCEPT !.busy = ""]
      BY <2>1
    <3>2. Fields(ui', ReportsFields) /\ ui'.ai = ui.ai /\ ui'.busy = ""
      BY <1>0, <3>1 DEF Fields, ReportsFields
    <3> QED BY <3>2, ReportsStep
  <2>2. CASE c.op \notin {"open", "generate"}
    BY <1>0, <2>2, ReportsStep
  <2> QED BY <2>1, <2>2
<1> QED BY <1>1, <1>2, <1>3, <1>4, <1>5, <1>6, <1>7, <1>8, <1>9, <1>10, <1>11, <1>12, <1>13, <1>14, <1>15, <1>16, <1>17 DEF Reporting!LoadNext

-----------------------------------------------------------------------------
(* AiChat *)

ChatFields == {"loaded", "known", "provider", "model", "context", "messages", "busy", "draft"}
ChatWorld == {"configured", "default", "pref", "context", "kept", "turns"}
MessageFields == {"role", "about", "by", "error"}
Messages == [role : {"user", "assistant"}, about : SUBSET Nat, by : Providers \cup {Nil}, error : BOOLEAN]

\* A conversation: questions, each with its answer below it.
Answers(a, q) == a.role = "assistant" /\ a.about \subseteq q.about /\ a.by \in {Nil, q.by}
Conversation(s) ==
  /\ s \in Seq(Messages)
  /\ Len(s) > 0 => s[1].role = "user"
  /\ \A i \in 1..Len(s) : s[i].role = "user" => i < Len(s) /\ Answers(s[i + 1], s[i])
  /\ \A i \in 1..Len(s) : s[i].role = "assistant" /\ i < Len(s) => s[i + 1].role = "user"

\* One answer is awaited at a time, to the last question.
ChatRequests ==
  /\ \A c, d \in calls : c.op = "chat" /\ d.op = "chat" => c = d
  /\ \A c \in calls : c.op = "chat" => /\ ui.busy = TRUE /\ Len(ui.messages) >= 2 /\ c.n \in Nat /\ c.by \in Providers
                                       /\ ui.messages[Len(ui.messages) - 1] = Chat!Question(c.n, c.by)
  /\ ui.busy => Sent(calls, {"chat"})

ChatInv ==
  /\ Fields(ui, ChatFields) /\ Fields(world, ChatWorld) /\ world.turns \in Nat
  /\ ui.known \subseteq Providers /\ world.configured \subseteq Providers
  /\ Conversation(ui.messages) /\ Conversation(world.kept) /\ ChatRequests

\* A question is of the user, about itself.
LEMMA ChatQuestion ==
  ASSUME NEW n \in Nat, NEW p \in Providers
  PROVE  LET q == Chat!Question(n, p) IN q \in Messages /\ q.role = "user" /\ q.about = {n} /\ q.by = p
BY DEF Chat!Question, Messages

\* An answer that has not begun is about nothing.
LEMMA ChatEmpty ==
  LET a == Chat!Empty IN a \in Messages /\ a.role = "assistant" /\ a.about = {} /\ a.by = Nil
BY DEF Chat!Empty, Messages

\* A conversation is a sequence of questions and answers.
LEMMA ConversationSeq ==
  ASSUME NEW s, Conversation(s)
  PROVE  /\ s \in Seq(Messages) /\ Len(s) \in Nat /\ DOMAIN s = 1..Len(s)
         /\ \A i \in 1..Len(s) : s[i] \in Messages /\ (s[i].role = "user" \/ s[i].role = "assistant")
<1>1. s \in Seq(Messages)
  BY DEF Conversation
<1>2. Len(s) \in Nat /\ DOMAIN s = 1..Len(s) /\ \A i \in 1..Len(s) : s[i] \in Messages
  BY <1>1
<1>3. \A m \in Messages : m.role = "user" \/ m.role = "assistant"
  BY DEF Messages
<1> QED BY <1>1, <1>2, <1>3

\* A question and its answer follow a conversation.
LEMMA Asked ==
  ASSUME NEW s, Conversation(s), NEW q \in Messages, NEW a \in Messages, q.role = "user", Answers(a, q)
  PROVE  /\ Conversation(s \o <<q, a>>) /\ Len(s \o <<q, a>>) = Len(s) + 2 /\ Len(s) \in Nat
         /\ (s \o <<q, a>>)[Len(s) + 1] = q
<1> DEFINE t == s \o <<q, a>>
<1>1. t \in Seq(Messages) /\ Len(t) = Len(s) + 2 /\ Len(s) \in Nat
  BY DEF Conversation
<1>2. /\ \A i \in 1..Len(s) : t[i] = s[i]
      /\ t[Len(s) + 1] = q /\ t[Len(s) + 2] = a
  BY DEF Conversation
<1>3. Len(t) > 0 => t[1].role = "user"
  BY <1>1, <1>2 DEF Conversation
<1>4. ASSUME NEW i \in 1..Len(t), t[i].role = "user" PROVE i < Len(t) /\ Answers(t[i + 1], t[i])
  <2>1. CASE i \in 1..Len(s)
    <3>1. i < Len(s) /\ Answers(s[i + 1], s[i])
      BY <1>2, <1>4, <2>1 DEF Conversation
    <3> QED BY <1>1, <1>2, <2>1, <3>1
  <2>2. CASE i = Len(s) + 1
    BY <1>1, <1>2, <2>2
  <2>3. CASE i = Len(s) + 2
    BY <1>1, <1>2, <1>4, <2>3 DEF Answers
  <2> QED BY <1>1, <2>1, <2>2, <2>3
<1>5. ASSUME NEW i \in 1..Len(t), t[i].role = "assistant", i < Len(t) PROVE t[i + 1].role = "user"
  <2>1. CASE i \in 1..Len(s) /\ i < Len(s)
    <3>1. s[i + 1].role = "user" /\ i + 1 \in 1..Len(s)
      BY <1>1, <1>2, <1>5, <2>1 DEF Conversation
    <3> QED BY <1>2, <3>1
  <2>2. CASE i = Len(s)
    BY <1>1, <1>2, <2>2
  <2>3. CASE i = Len(s) + 1
    BY <1>1, <1>2, <1>5, <2>3
  <2> QED BY <1>1, <1>5, <2>1, <2>2, <2>3
<1> QED BY <1>1, <1>2, <1>3, <1>4, <1>5 DEF Conversation

\* The last message, an answer, is changed.
LEMMA Answered ==
  ASSUME NEW s, Conversation(s), Len(s) >= 2, NEW a \in Messages, Answers(a, s[Len(s) - 1]), s[Len(s) - 1].role = "user"
  PROVE  LET t == [s EXCEPT ![Len(s)] = a]
         IN Conversation(t) /\ Len(t) = Len(s) /\ t[Len(s) - 1] = s[Len(s) - 1]
<1> DEFINE t == [s EXCEPT ![Len(s)] = a] n == Len(s)
<1>0. /\ s \in Seq(Messages) /\ n \in Nat /\ n >= 2 /\ DOMAIN s = 1..n /\ s[n - 1].role = "user"
      /\ \A i \in 1..n : s[i].role = "user" \/ s[i].role = "assistant"
  BY ConversationSeq
<1>1. t \in Seq(Messages)
  BY <1>0
<1>2. Len(t) = n
  BY <1>0, <1>1
<1>3. t[n] = a /\ \A i \in 1..n : i # n => t[i] = s[i]
  <2>1. n \in DOMAIN s
    BY <1>0
  <2>2. \A i \in DOMAIN s : t[i] = IF i = n THEN a ELSE s[i]
    OBVIOUS
  <2> QED BY <1>0, <2>1, <2>2
<1>9. /\ n > 0 => s[1].role = "user"
      /\ \A i \in 1..n : s[i].role = "user" => i < n /\ Answers(s[i + 1], s[i])
      /\ \A i \in 1..n : s[i].role = "assistant" /\ i < n => s[i + 1].role = "user"
  BY DEF Conversation
<1>a. a.role = "assistant"
  BY DEF Answers
<1> HIDE DEF t, n
<1>4. Len(t) > 0 => t[1].role = "user"
  BY <1>0, <1>2, <1>3, <1>9
<1>5. ASSUME NEW i \in 1..n, t[i].role = "user" PROVE i < n /\ Answers(t[i + 1], t[i])
  <2>1. i # n
    BY <1>3, <1>5, <1>a
  <2>2. i < n /\ Answers(s[i + 1], s[i]) /\ i + 1 \in 1..n
    BY <1>0, <1>3, <1>5, <2>1, <1>9
  <2>3. CASE i + 1 = n
    <3>1. i = n - 1
      BY <1>0, <2>3
    <3> QED BY <1>3, <2>1, <2>2, <2>3, <3>1 DEF n
  <2>4. CASE i + 1 # n
    BY <1>3, <2>1, <2>2, <2>4
  <2> QED BY <2>3, <2>4
<1>6. ASSUME NEW i \in 1..n, t[i].role = "assistant", i < n PROVE t[i + 1].role = "user"
  <2>1. i # n - 1 /\ i # n
    BY <1>0, <1>3, <1>6
  <2>2. s[i + 1].role = "user" /\ i + 1 \in 1..n /\ i + 1 # n
    BY <1>0, <1>3, <1>6, <2>1, <1>9
  <2> QED BY <1>3, <2>2
<1>7. Conversation(t)
  BY <1>1, <1>2, <1>4, <1>5, <1>6 DEF Conversation
<1>8. t[n - 1] = s[n - 1]
  BY <1>0, <1>3
<1> QED BY <1>2, <1>7, <1>8 DEF t, n

\* What is kept of a conversation begins with a question.
LEMMA Kept == ASSUME NEW s, Conversation(s) PROVE Conversation(Chat!Recent(s))
<1>0. /\ Len(s) \in Nat /\ s \in Seq(Messages)
      /\ \A i \in 1..Len(s) : s[i].role = "user" \/ s[i].role = "assistant"
  BY ConversationSeq
<1>1. CASE Len(s) > 2
  <2> DEFINE n == Len(s) t == SubSeq(s, n - 1, n)
  <2>1. t = Chat!Recent(s)
    BY <1>0, <1>1 DEF Chat!Recent, Chat!MaxKept
  <2>2. t \in Seq(Messages) /\ Len(t) = 2 /\ t[1] = s[n - 1] /\ t[2] = s[n]
    BY <1>0, <1>1
  <2>3. s[n].role = "assistant"
    BY <1>0, <1>1 DEF Conversation
  <2>4. s[n - 1].role = "user"
    <3>1. n - 1 \in 1..n /\ n - 1 < n /\ (n - 1) + 1 = n
      BY <1>0, <1>1
    <3>2. s[n - 1].role = "assistant" => s[(n - 1) + 1].role = "user"
      BY <3>1 DEF Conversation
    <3> QED BY <1>0, <2>3, <3>1, <3>2
  <2>5. Answers(s[n], s[n - 1])
    BY <1>0, <1>1, <2>4 DEF Conversation
  <2>6. Conversation(t)
    <3> HIDE DEF t
    <3> QED BY <2>2, <2>3, <2>4, <2>5 DEF Conversation
  <2> QED BY <2>1, <2>6
<1>2. CASE ~(Len(s) > 2)
  BY <1>2 DEF Chat!Recent, Chat!MaxKept
<1> QED BY <1>1, <1>2

\* An answer stands below its question.
LEMMA ConversationAnswers == ASSUME Conversation(ui.messages) PROVE Chat!AnswerOfQuestion
<1> SUFFICES ASSUME NEW i \in DOMAIN ui.messages, ui.messages[i].role = "assistant"
             PROVE  /\ i > 1 /\ ui.messages[i - 1].role = "user"
                    /\ ui.messages[i].about \subseteq ui.messages[i - 1].about
                    /\ ui.messages[i].by \in {Nil, ui.messages[i - 1].by}
  BY DEF Chat!AnswerOfQuestion
<1> DEFINE s == ui.messages
<1>0. Conversation(s)
  OBVIOUS
<1> HIDE DEF s
<1>1. /\ i \in 1..Len(s) /\ Len(s) \in Nat /\ s[i].role = "assistant"
      /\ \A j \in 1..Len(s) : s[j].role = "user" \/ s[j].role = "assistant"
  BY <1>0, ConversationSeq DEF s
<1>2. i > 1
  BY <1>0, <1>1 DEF Conversation
<1>3. i - 1 \in 1..Len(s) /\ i - 1 < Len(s) /\ (i - 1) + 1 = i
  BY <1>1, <1>2
<1>4. s[i - 1].role = "assistant" => s[(i - 1) + 1].role = "user"
  BY <1>0, <1>3 DEF Conversation
<1>5. s[i - 1].role = "user"
  BY <1>1, <1>3, <1>4
<1>6. Answers(s[(i - 1) + 1], s[i - 1])
  BY <1>0, <1>3, <1>5 DEF Conversation
<1> QED BY <1>2, <1>3, <1>5, <1>6 DEF Answers, s

\* A first question and its empty answer are a conversation.
LEMMA ChatFirst ==
  ASSUME NEW p \in Providers
  PROVE  Conversation(<<Chat!Question(0, p), [Chat!Empty EXCEPT !.about = {0}, !.by = p]>>)
<1> DEFINE q == Chat!Question(0, p) a == [Chat!Empty EXCEPT !.about = {0}, !.by = p]
<1>1. q \in Messages /\ q.role = "user" /\ q.about = {0} /\ q.by = p
  BY ChatQuestion
<1>2. Fields(a, MessageFields) /\ a.role = "assistant" /\ a.about = {0} /\ a.by = p /\ a.error = FALSE
  <2> DEFINE e == Chat!Empty
  <2>1. Fields(e, MessageFields) /\ e.role = "assistant" /\ e.error = FALSE
    BY DEF Chat!Empty, Fields, MessageFields
  <2> HIDE DEF e
  <2>2. a = [e EXCEPT !.about = {0}, !.by = p]
    BY DEF e
  <2> HIDE DEF a
  <2> QED BY <2>1, <2>2 DEF Fields, MessageFields
<1>3. a \in Messages
  <2> HIDE DEF a
  <2>1. a.role \in {"user", "assistant"} /\ a.about \in SUBSET Nat /\ a.by \in Providers \cup {Nil} /\ a.error \in BOOLEAN
    <3>1. {0} \in SUBSET Nat /\ FALSE \in BOOLEAN
      OBVIOUS
    <3>2. a.role \in {"user", "assistant"}
      BY <1>2, Zenon
    <3> QED BY <1>2, <3>1, <3>2
  <2> QED BY <1>2, <2>1 DEF Messages, Fields, MessageFields
<1> HIDE DEF q, a
<1>4. Conversation(<<>>)
  BY DEF Conversation
<1>5. Conversation(<<>> \o <<q, a>>)
  BY <1>1, <1>2, <1>3, <1>4, Asked DEF Answers
<1>6. <<>> \o <<q, a>> = <<q, a>>
  BY <1>1, <1>3
<1> QED BY <1>5, <1>6 DEF q, a

\* A conversation kept, or none.
LEMMA ChatInit == ASSUME Chat!Init PROVE ChatInv
<1> PICK S, p, h :
      /\ S \subseteq Providers /\ p \in Providers
      /\ h \in {<<>>, <<Chat!Question(0, p), [Chat!Empty EXCEPT !.about = {0}, !.by = p]>>}
      /\ world = [configured |-> S, default |-> p, pref |-> Nil, context |-> TRUE, kept |-> h, turns |-> 0]
      /\ ui = Chat!Entered(h)
      /\ calls = {[op |-> "providers"]}
  BY DEF Chat!Init
<1>1. Conversation(<<>>)
  BY DEF Conversation
<1>2. Conversation(<<Chat!Question(0, p), [Chat!Empty EXCEPT !.about = {0}, !.by = p]>>)
  BY ChatFirst
<1>3. Conversation(h)
  BY <1>1, <1>2
<1>4. Fields(world, ChatWorld) /\ world.turns \in Nat /\ world.configured \subseteq Providers /\ world.kept = h
  BY DEF Fields, ChatWorld
<1>5. Fields(ui, ChatFields) /\ ui.known = {} /\ ui.messages = h /\ ui.busy = FALSE
  BY DEF Fields, ChatFields, Chat!Entered
<1>6. \A c \in calls : c.op = "providers"
  OBVIOUS
<1> QED BY <1>3, <1>4, <1>5, <1>6 DEF ChatInv, ChatRequests

\* The conversation and what is kept of it stay, and so do its requests.
LEMMA ChatKept ==
  ASSUME ChatInv, Fields(ui', ChatFields), ui'.messages = ui.messages, ui'.busy = ui.busy, ui'.known \subseteq Providers,
         Fields(world', ChatWorld), world'.turns \in Nat, world'.kept = world.kept, world'.configured \subseteq Providers,
         \A c \in calls' : c \in calls \/ c.op # "chat", \A c \in calls : c.op = "chat" => c \in calls'
  PROVE  ChatInv'
BY DEF ChatInv, ChatRequests, Sent

\* Whatever is asked, streamed, stopped or opened again, an answer is that of the question above it.
LEMMA ChatNext == ASSUME ChatInv, Chat!Next PROVE ChatInv'
<1>0. /\ Fields(ui, ChatFields) /\ Fields(world, ChatWorld) /\ world.turns \in Nat
      /\ ui.known \subseteq Providers /\ world.configured \subseteq Providers
  BY DEF ChatInv
<1>1. CASE Chat!loadProviders
  <2> PICK c, p :
        /\ c \in calls
        /\ c.op = "providers" /\ calls' = calls \ {c} /\ world' = world
        /\ ui' = [ui EXCEPT !.loaded = TRUE, !.known = world.configured, !.provider = p, !.model = p, !.context = world.context]
    BY <1>1 DEF Chat!loadProviders, Chat!Got
  <2>1. Fields(ui', ChatFields) /\ ui'.messages = ui.messages /\ ui'.busy = ui.busy /\ ui'.known = world.configured
    BY <1>0 DEF Fields, ChatFields
  <2> QED BY <1>0, <2>1, ChatKept
<1>2. CASE Chat!changeProvider \/ Chat!SetModel \/ Chat!SetContext \/ Chat!AiSettings \/ Chat!SetKey \/ Chat!CloseSettings
  <2>1. calls' = calls
    BY <1>2 DEF Chat!changeProvider, Chat!SetModel, Chat!SetContext, Chat!AiSettings, Chat!SetKey, Chat!CloseSettings, Chat!Show
  <2>2. \E p, m, x, d : \/ ui' = [ui EXCEPT !.provider = p, !.model = m] \/ ui' = [ui EXCEPT !.model = m]
                         \/ ui' = [ui EXCEPT !.context = x] \/ ui' = [ui EXCEPT !.draft = d]
    BY <1>2, Zenon
    DEF Chat!changeProvider, Chat!SetModel, Chat!SetContext, Chat!AiSettings, Chat!SetKey, Chat!CloseSettings, Chat!Show
  <2>3. Fields(ui', ChatFields) /\ ui'.messages = ui.messages /\ ui'.busy = ui.busy /\ ui'.known = ui.known
    <3> PICK p, m, x, d : \/ ui' = [ui EXCEPT !.provider = p, !.model = m] \/ ui' = [ui EXCEPT !.model = m]
                          \/ ui' = [ui EXCEPT !.context = x] \/ ui' = [ui EXCEPT !.draft = d]
      BY <2>2
    <3> QED BY <1>0 DEF Fields, ChatFields
  <2>4. \E p, x : \/ world' = world \/ world' = [world EXCEPT !.turns = @ + 1]
                 \/ world' = [world EXCEPT !.turns = @ + 1, !.pref = p, !.context = x]
    BY <1>2, Zenon
    DEF Chat!changeProvider, Chat!SetModel, Chat!SetContext, Chat!AiSettings, Chat!SetKey, Chat!CloseSettings, Chat!Show, Chat!Turn
  <2>5. Fields(world', ChatWorld) /\ world'.turns \in Nat /\ world'.kept = world.kept /\ world'.configured = world.configured
    <3> PICK p, x : \/ world' = world \/ world' = [world EXCEPT !.turns = @ + 1]
                    \/ world' = [world EXCEPT !.turns = @ + 1, !.pref = p, !.context = x]
      BY <2>4
    <3>1. CASE world' = world
      BY <1>0, <3>1
    <3>2. CASE world' = [world EXCEPT !.turns = @ + 1]
      BY <1>0, <3>2 DEF Fields, ChatWorld
    <3>3. CASE world' = [world EXCEPT !.turns = @ + 1, !.pref = p, !.context = x]
      <4> DEFINE n == world.turns + 1
      <4>1. n \in Nat /\ world' = [world EXCEPT !.turns = n, !.pref = p, !.context = x]
        BY <1>0, <3>3
      <4> HIDE DEF n
      <4> QED BY ONLY <1>0, <4>1 DEF Fields, ChatWorld
    <3> QED BY <3>1, <3>2, <3>3
  <2> QED BY <1>0, <2>1, <2>3, <2>5, ChatKept
<1>3. CASE Chat!saveAll
  <2>1. world' = world /\ (ui' = ui \/ ui' = [ui EXCEPT !.draft = Nil])
    BY <1>3 DEF Chat!saveAll
  <2>2. calls' = calls \/ calls' = calls \cup {[op |-> "save", keys |-> ui.draft]}
    BY <1>3 DEF Chat!saveAll, Chat!Send
  <2>3. Fields(ui', ChatFields) /\ ui'.messages = ui.messages /\ ui'.busy = ui.busy /\ ui'.known = ui.known
    BY <1>0, <2>1 DEF Fields, ChatFields
  <2>4. [op |-> "save", keys |-> ui.draft].op = "save"
    OBVIOUS
  <2> QED BY <1>0, <2>1, <2>2, <2>3, <2>4, ChatKept
<1>4. CASE Chat!onSaved
  <2> PICK c, S :
        /\ c \in calls
        /\ c.op = "save" /\ calls' = (calls \ {c}) \cup {[op |-> "providers"]}
        /\ world' = [world EXCEPT !.configured = S] /\ S \subseteq Providers
        /\ ui' = [ui EXCEPT !.draft = Nil]
    BY <1>4 DEF Chat!onSaved
  <2>1. Fields(ui', ChatFields) /\ ui'.messages = ui.messages /\ ui'.busy = ui.busy /\ ui'.known = ui.known
    BY <1>0 DEF Fields, ChatFields
  <2>2. Fields(world', ChatWorld) /\ world'.turns = world.turns /\ world'.kept = world.kept /\ world'.configured = S
    BY <1>0 DEF Fields, ChatWorld
  <2>3. [op |-> "providers"].op = "providers"
    OBVIOUS
  <2> QED BY <1>0, <2>1, <2>2, <2>3, ChatKept
<1>5. CASE Chat!Failed
  <2>1. \E c \in calls : c.op # "chat" /\ calls' = calls \ {c}
    BY <1>5 DEF Chat!Failed, Chat!Got
  <2>2. world' = world /\ (ui' = ui \/ ui' = [ui EXCEPT !.loaded = TRUE])
    BY <1>5 DEF Chat!Failed
  <2>3. Fields(ui', ChatFields) /\ ui'.messages = ui.messages /\ ui'.busy = ui.busy /\ ui'.known = ui.known
    BY <1>0, <2>2 DEF Fields, ChatFields
  <2> QED BY <1>0, <2>1, <2>2, <2>3, ChatKept
<1>6. CASE Chat!send
  <2> DEFINE n == world.turns + 1 p == ui.provider q == Chat!Question(n, p) a == Chat!Empty c == [op |-> "chat", n |-> n, by |-> p]
             s == ui.messages t == s \o <<q, a>>
  <2>1. /\ ~ui.busy /\ p \in Providers /\ world' = [world EXCEPT !.turns = n]
        /\ calls' = calls \cup {c} /\ ui' = [ui EXCEPT !.messages = t, !.busy = TRUE]
    BY <1>0, <1>6 DEF Chat!send, Chat!MayAsk, Chat!Turn, Chat!Send
  <2>2. n \in Nat /\ c.op = "chat" /\ c.n = n /\ c.by = p
    BY <1>0
  <2>3. Fields(ui', ChatFields) /\ ui'.messages = t /\ ui'.busy = TRUE /\ ui'.known = ui.known
    BY <1>0, <2>1 DEF Fields, ChatFields
  <2>4. Fields(world', ChatWorld) /\ world'.turns = n /\ world'.kept = world.kept /\ world'.configured = world.configured
    BY <1>0, <2>1 DEF Fields, ChatWorld
  <2>5. q \in Messages /\ q.role = "user" /\ a \in Messages /\ Answers(a, q)
    BY <2>1, <2>2, ChatQuestion, ChatEmpty DEF Answers
  <2>6. Conversation(s)
    BY DEF ChatInv
  <2> HIDE DEF n, p, q, a, c, s
  <2>7. Conversation(t) /\ Len(t) = Len(s) + 2 /\ Len(s) \in Nat /\ t[Len(s) + 1] = q
    BY <2>5, <2>6, Asked
  <2>8. \A d \in calls : d.op # "chat"
    BY <2>1 DEF ChatInv, ChatRequests
  <2> HIDE DEF t
  <2>9. Len(t) - 1 = Len(s) + 1 /\ Len(t) >= 2
    BY <2>7
  <2>10. ChatRequests'
    <3>1. Sent(calls', {"chat"})
      BY <2>1, <2>2 DEF Sent
    <3>2. \A d \in calls' : d.op = "chat" => d = c
      BY <2>1, <2>8
    <3>3. q = Chat!Question(c.n, c.by)
      BY <2>2 DEF q
    <3> QED BY <2>1, <2>2, <2>3, <2>7, <2>9, <3>1, <3>2, <3>3 DEF ChatRequests
  <2> QED BY <1>0, <2>2, <2>3, <2>4, <2>7, <2>10 DEF ChatInv
<1>7. CASE Chat!Delta \/ Chat!Ended
  <2>1. PICK c \in calls : /\ c.op = "chat"
                           /\ \/ /\ calls' = calls /\ world' = world
                                 /\ ui' = Chat!patchLast([Chat!Last EXCEPT !.about = @ \cup {c.n}])
                              \/ /\ calls' = calls \ {c}
                                 /\ \E u \in {Chat!patchLast([Chat!Last EXCEPT !.by = c.by]),
                                              Chat!patchLast([Chat!Last EXCEPT !.error = TRUE]),
                                              Chat!patchLast([Chat!Last EXCEPT !.error = TRUE, !.about = {}]),
                                              ui} : Chat!Said([u EXCEPT !.busy = FALSE], world)
    BY <1>7 DEF Chat!Delta, Chat!Ended, Chat!Got
  <2> DEFINE s == ui.messages k == Len(s) a == s[k] q == s[k - 1]
  <2>2. /\ k >= 2 /\ k \in Nat /\ c.n \in Nat /\ c.by \in Providers /\ q = Chat!Question(c.n, c.by) /\ Conversation(s)
        /\ \A d \in calls : d.op = "chat" => d = c
    BY <2>1, ConversationSeq DEF ChatInv, ChatRequests
  <2>3. q \in Messages /\ q.role = "user" /\ q.about = {c.n} /\ q.by = c.by
    BY <2>2, ChatQuestion
  <2>4. a \in Messages /\ Answers(a, q)
    <3> HIDE DEF s
    <3>1. k - 1 \in 1..k /\ (k - 1) + 1 = k /\ k \in 1..k
      BY <2>2
    <3> QED BY <2>2, <2>3, <3>1, ConversationSeq DEF Conversation
  <2> DEFINE Good(b) == b \in Messages /\ Answers(b, q)
  <2>5. /\ Good([a EXCEPT !.about = @ \cup {c.n}]) /\ Good([a EXCEPT !.by = c.by])
        /\ Good([a EXCEPT !.error = TRUE]) /\ Good([a EXCEPT !.error = TRUE, !.about = {}])
    <3> HIDE DEF a, q
    <3>1. a.about \subseteq {c.n} /\ a.role = "assistant" /\ a.by \in {Nil, c.by}
      BY <2>3, <2>4 DEF Answers
    <3> QED BY <2>2, <2>3, <2>4, <3>1 DEF Answers, Messages
  <2> DEFINE Shown(m) == Conversation(m) /\ Len(m) = k /\ m[k - 1] = q
  <2>6. \A b : Good(b) => Shown([s EXCEPT ![k] = b])
    <3> SUFFICES ASSUME NEW b, Good(b) PROVE Shown([s EXCEPT ![k] = b])
      OBVIOUS
    <3> HIDE DEF s
    <3> QED BY <2>2, <2>3, Answered
  <2>7. Shown(s)
    BY <2>2
  <2>8. CASE calls' = calls /\ world' = world /\ ui' = Chat!patchLast([Chat!Last EXCEPT !.about = @ \cup {c.n}])
    <3> DEFINE m == [s EXCEPT ![k] = [a EXCEPT !.about = @ \cup {c.n}]]
    <3>1. ui' = [ui EXCEPT !.messages = m]
      BY <2>8 DEF Chat!patchLast, Chat!Last
    <3>2. Shown(m)
      BY <2>5, <2>6
    <3> HIDE DEF m
    <3>3. Fields(ui', ChatFields) /\ ui'.messages = m /\ ui'.busy = ui.busy /\ ui'.known = ui.known
      BY <1>0, <3>1 DEF Fields, ChatFields
    <3>4. ChatRequests'
      BY <2>2, <2>8, <3>2, <3>3 DEF ChatInv, ChatRequests
    <3> QED BY <1>0, <2>8, <3>2, <3>3, <3>4 DEF ChatInv
  <2>9. CASE calls' = calls \ {c} /\ \E u \in {Chat!patchLast([Chat!Last EXCEPT !.by = c.by]),
                                              Chat!patchLast([Chat!Last EXCEPT !.error = TRUE]),
                                              Chat!patchLast([Chat!Last EXCEPT !.error = TRUE, !.about = {}]),
                                              ui} : Chat!Said([u EXCEPT !.busy = FALSE], world)
    <3> PICK m : Shown(m) /\ Chat!Said([[ui EXCEPT !.messages = m] EXCEPT !.busy = FALSE], world)
      <4> DEFINE m1 == [s EXCEPT ![k] = [a EXCEPT !.by = c.by]]
                 m2 == [s EXCEPT ![k] = [a EXCEPT !.error = TRUE]]
                 m3 == [s EXCEPT ![k] = [a EXCEPT !.error = TRUE, !.about = {}]]
      <4>1. /\ Chat!patchLast([Chat!Last EXCEPT !.by = c.by]) = [ui EXCEPT !.messages = m1]
            /\ Chat!patchLast([Chat!Last EXCEPT !.error = TRUE]) = [ui EXCEPT !.messages = m2]
            /\ Chat!patchLast([Chat!Last EXCEPT !.error = TRUE, !.about = {}]) = [ui EXCEPT !.messages = m3]
        BY DEF Chat!patchLast, Chat!Last
      <4>2. ui = [ui EXCEPT !.messages = s]
        BY <1>0 DEF Fields, ChatFields
      <4>3. Shown(m1) /\ Shown(m2) /\ Shown(m3)
        BY <2>5, <2>6
      <4> HIDE DEF m1, m2, m3, s, Shown
      <4>4. PICK m : Shown(m) /\ \E u : u = [ui EXCEPT !.messages = m] /\ Chat!Said([u EXCEPT !.busy = FALSE], world)
        BY <2>7, <2>9, <4>1, <4>2, <4>3
      <4> QED BY <4>4
    <3>1. ui' = [[ui EXCEPT !.messages = m] EXCEPT !.busy = FALSE]
      BY DEF Chat!Said
    <3>2. Fields(ui', ChatFields) /\ ui'.messages = m /\ ui'.busy = FALSE /\ ui'.known = ui.known
      BY <1>0, <3>1 DEF Fields, ChatFields
    <3>3. world' = world \/ world' = [world EXCEPT !.kept = Chat!Recent(m)]
      BY <1>0, <3>1, <3>2 DEF Chat!Said
    <3>4. Conversation(Chat!Recent(m))
      BY Kept
    <3>5. /\ Fields(world', ChatWorld) /\ world'.turns = world.turns /\ world'.configured = world.configured
          /\ Conversation(world'.kept)
      BY <1>0, <3>3, <3>4 DEF Fields, ChatWorld, ChatInv
    <3>6. ChatRequests'
      BY <2>2, <2>9, <3>2 DEF ChatRequests
    <3> QED BY <1>0, <3>2, <3>5, <3>6 DEF ChatInv
  <2> QED BY <2>1, <2>8, <2>9
<1>8. CASE Chat!NewChat
  <2>1. ~ui.busy /\ ui' = [ui EXCEPT !.messages = <<>>] /\ calls' = calls
        /\ (world' = world \/ world' = [world EXCEPT !.kept = Chat!Recent([ui EXCEPT !.messages = <<>>].messages)])
    BY <1>8 DEF Chat!NewChat, Chat!Said
  <2>2. Fields(ui', ChatFields) /\ ui'.messages = <<>> /\ ui'.busy = ui.busy /\ ui'.known = ui.known
    BY <1>0, <2>1 DEF Fields, ChatFields
  <2>3. Conversation(<<>>)
    BY DEF Conversation
  <2>4. [ui EXCEPT !.messages = <<>>].messages = <<>>
    BY <1>0 DEF Fields, ChatFields
  <2>5. Conversation(Chat!Recent(<<>>))
    BY <2>3, Kept
  <2>6. /\ Fields(world', ChatWorld) /\ world'.turns = world.turns /\ world'.configured = world.configured
        /\ Conversation(world'.kept)
    BY <1>0, <2>1, <2>4, <2>5 DEF Fields, ChatWorld, ChatInv
  <2>7. ChatRequests'
    BY <2>1, <2>2 DEF ChatInv, ChatRequests
  <2> QED BY <1>0, <2>2, <2>3, <2>6, <2>7 DEF ChatInv
<1>9. CASE Chat!Visit
  <2>1. ui' = Chat!Entered(world.kept) /\ calls' = {[op |-> "providers"]} /\ world' = [world EXCEPT !.turns = @ + 1]
    BY <1>9 DEF Chat!Visit
  <2>2. Fields(ui', ChatFields) /\ ui'.known = {} /\ ui'.messages = world.kept /\ ui'.busy = FALSE
    BY <2>1 DEF Fields, ChatFields, Chat!Entered
  <2>3. /\ Fields(world', ChatWorld) /\ world'.turns \in Nat /\ world'.configured = world.configured /\ world'.kept = world.kept
    BY <1>0, <2>1 DEF Fields, ChatWorld
  <2>4. \A c \in calls' : c.op = "providers"
    BY <2>1
  <2> QED BY <1>0, <2>2, <2>3, <2>4 DEF ChatInv, ChatRequests
<1> QED BY <1>1, <1>2, <1>3, <1>4, <1>5, <1>6, <1>7, <1>8, <1>9 DEF Chat!Next

-----------------------------------------------------------------------------
(* LoadPage *)

LoadFields == {"tab", "focus", "ov", "ent", "point", "param", "data", "busy", "items", "sel", "part", "note", "act"}
LoadWorld == {"turns", "news", "due", "notes"}

\* The answers on their way are those of the choice; a note goes to the anomaly it was typed for.
LoadRequests ==
  /\ \A c \in calls : c.op = "entities" => c.key = ui.ent.level
  /\ \A c \in calls : c.op = "part" => c \in Load!Part(ui)
  /\ \A c \in calls : c.op = "save" => c.key.of = c.key.note
LoadShown ==
  /\ ui.items # Nil => ui.items = ui.ent.level \/ Load!List(ui) \subseteq calls
  /\ ui.part # Nil => {ui.part} = {c.key : c \in Load!Part(ui)}
  /\ ui.busy \in BOOLEAN /\ (ui.busy => Sent(calls, {"query"}))
  /\ ui.tab = "anomalies" => ~ui.busy /\ (ui.sel # Nil => ui.note = ui.sel)

LoadInv ==
  /\ Fields(ui, LoadFields) /\ Fields(world, LoadWorld) /\ world.notes = [a \in Anomalies |-> a]
  /\ LoadRequests /\ LoadShown

\* A request has the kind and the key it was made with.
LEMMA LoadCall == \A op, key : LET c == Load!Call(op, key)
                               IN c.op = op /\ c.key = key
BY DEF Load!Call

\* What the requests of the page ask for.
LEMMA LoadAsks ==
  ASSUME NEW u
  PROVE  /\ \A c \in Load!Query(u) : c.op = "query"
         /\ \A c \in Load!List(u) : c.op = "entities" /\ c.key = u.ent.level
         /\ \A c \in Load!Part(u) : c.op = "part"
BY LoadCall DEF Load!Query, Load!List, Load!Part

\* A question asked again is one of the same kind.
LEMMA LoadAgain ==
  ASSUME NEW u
  PROVE  \A c \in {[d EXCEPT !.again = TRUE] : d \in Load!Query(u)} : c.op = "query"
<1> TAKE c \in {[d EXCEPT !.again = TRUE] : d \in Load!Query(u)}
<1>1. PICK d \in Load!Query(u) : c = [d EXCEPT !.again = TRUE]
  OBVIOUS
<1>2. d.op = "query"
  BY LoadAsks
<1>3. c.op = d.op
  BY <1>1
<1> QED BY <1>2, <1>3

\* A save knows no longer what it was for, but its note is the one typed.
LEMMA LoadLeft ==
  ASSUME NEW c, NEW u
  PROVE  /\ Load!Left(c, u).op = c.op /\ Load!Left(c, u).key = c.key
         /\ c.op # "save" => Load!Left(c, u) = c
<1>1. \A x : [c EXCEPT !.from = x].op = c.op /\ [c EXCEPT !.from = x].key = c.key
  OBVIOUS
<1> QED BY <1>1 DEF Load!Left

\* The page is drawn: what is asked for is of what is chosen, and what is shown too.
LEMMA LoadDrawn ==
  ASSUME NEW u, NEW C, NEW reload, Load!Drawn(u, C, reload), Fields(u, LoadFields),
         u.busy \in BOOLEAN,
         u.tab # ui.tab => ~u.busy,
         u.busy => Sent(C, {"query"}),
         u.part = Nil \/ (u.part = ui.part /\ u.tab = ui.tab),
         ui.part # Nil => {ui.part} = {c.key : c \in Load!Part(ui)},
         u.tab = ui.tab => u.items = Nil \/ u.items = u.ent.level \/ Load!List(u) \subseteq C \/ u.ent.level # ui.ent.level,
         u.tab = "anomalies" => ~u.busy /\ (u.sel # Nil => u.note = u.sel),
         \A c \in C : c.op = "save" => c.key.of = c.key.note
  PROVE  Fields(ui', LoadFields) /\ LoadRequests' /\ LoadShown'
<1> DEFINE moved == u.tab # ui.tab
           query == moved \/ reload \/ Load!Wanted(u) # Load!Wanted(ui)
           list == moved \/ u.ent.level # ui.ent.level
           data == IF query /\ Load!Unpicked(u) THEN Nil ELSE u.data
           busy == u.busy \/ (query /\ u.tab # "anomalies" /\ Load!Query(u) # {})
           items == IF list /\ Load!List(u) = {} THEN Nil ELSE u.items
           v == [u EXCEPT !.data = data, !.busy = busy, !.items = items]
           part == moved \/ Load!Part(v) # Load!Part(ui)
           twice == IF moved /\ u.tab = "analysis" /\ u.focus # Nil THEN {[c EXCEPT !.again = TRUE] : c \in Load!Query(u)} ELSE {}
           kept == {Load!Left(c, v) : c \in {d \in C : Load!Awaited(d, v)}}
           asked == kept \cup twice \cup (IF query THEN Load!Query(v) ELSE {}) \cup (IF list THEN Load!List(v) ELSE {})
                    \cup (IF part THEN Load!Part(v) ELSE {})
           shown == IF part THEN Nil ELSE v.part
<1>1. ui' = [v EXCEPT !.part = shown] /\ calls' = asked
  BY DEF Load!Drawn
<1>2. \A c \in twice : c.op = "query"
  BY LoadAgain
<1>3. busy \in BOOLEAN
  OBVIOUS
<1> HIDE DEF twice
<1>4. /\ Fields(v, LoadFields) /\ v.tab = u.tab /\ v.ent = u.ent /\ v.point = u.point /\ v.param = u.param /\ v.sel = u.sel
      /\ v.note = u.note /\ v.part = u.part /\ v.data = data /\ v.busy = busy /\ v.items = items
  <2> HIDE DEF data, busy, items
  <2> QED BY <1>3 DEF Fields, LoadFields
<1>5. Load!Query(v) = Load!Query(u) /\ Load!List(v) = Load!List(u)
  BY <1>4 DEF Load!Query, Load!List, Load!Wanted, Load!Unpicked
<1>6. \A c \in kept : \E d \in C : c = Load!Left(d, v) /\ Load!Awaited(d, v)
  OBVIOUS
<1>7. \A d \in C : Load!Awaited(d, v) => Load!Left(d, v) \in kept
  OBVIOUS
<1>8. busy => u.busy \/ (query /\ u.tab # "anomalies" /\ Load!Query(u) # {})
  OBVIOUS
<1> HIDE DEF v, kept
<1>9. /\ Fields(ui', LoadFields) /\ ui'.tab = v.tab /\ ui'.ent = v.ent /\ ui'.point = v.point /\ ui'.param = v.param /\ ui'.sel = v.sel
      /\ ui'.note = v.note /\ ui'.data = v.data /\ ui'.busy = v.busy /\ ui'.items = v.items /\ ui'.part = shown
  <2> HIDE DEF shown
  <2> QED BY <1>1, <1>4 DEF Fields, LoadFields
<1>10. Load!Part(ui') = Load!Part(v) /\ Load!List(ui') = Load!List(v)
  BY <1>9 DEF Load!Part, Load!List
<1>11. LoadRequests'
  <2>1. ASSUME NEW c \in kept
        PROVE  /\ c.op = "entities" => c.key = v.ent.level
               /\ c.op = "part" => c \in Load!Part(v)
               /\ c.op = "save" => c.key.of = c.key.note
    <3> PICK d \in C : c = Load!Left(d, v) /\ Load!Awaited(d, v)
      BY <1>6
    <3>1. c.op = d.op /\ c.key = d.key /\ (d.op # "save" => c = d)
      BY LoadLeft
    <3> QED BY <3>1 DEF Load!Awaited
  <2>2. ASSUME NEW c \in calls', c \notin kept
        PROVE  /\ c.op = "entities" => c.key = v.ent.level
               /\ c.op = "part" => c \in Load!Part(v)
               /\ c.op # "save"
    <3>1. c \in twice \/ c \in Load!Query(v) \/ c \in Load!List(v) \/ c \in Load!Part(v)
      BY <1>1, <2>2
    <3> QED BY <1>2, <3>1, LoadAsks
  <2>3. \A c \in calls' : c \in kept \/ c \notin kept
    OBVIOUS
  <2> QED BY <1>9, <1>10, <2>1, <2>2, <2>3 DEF LoadRequests
<1>12. ui'.items # Nil => ui'.items = ui'.ent.level \/ Load!List(ui') \subseteq calls'
  <2>1. CASE list
    BY <1>1, <1>4, <1>5, <1>9, <1>10, <2>1
  <2>2. CASE ~list
    <3>1. items = u.items /\ u.tab = ui.tab /\ (u.items = Nil \/ u.items = u.ent.level \/ Load!List(u) \subseteq C)
      BY <2>2
    <3>2. ASSUME Load!List(u) \subseteq C PROVE Load!List(v) \subseteq kept
      <4> SUFFICES ASSUME NEW c \in Load!List(v) PROVE c \in kept
        OBVIOUS
      <4>1. c \in C /\ c.op = "entities" /\ c.key = v.ent.level
        BY <1>5, <3>2, LoadAsks
      <4>2. Load!Awaited(c, v) /\ Load!Left(c, v) = c
        BY <1>4, <3>1, <4>1, LoadLeft DEF Load!Awaited
      <4> QED BY <1>7, <4>1, <4>2
    <3> QED BY <1>1, <1>4, <1>9, <1>10, <3>1, <3>2
  <2> QED BY <2>1, <2>2
<1>13. ui'.part # Nil => {ui'.part} = {c.key : c \in Load!Part(ui')}
  <2>1. CASE part
    BY <1>9, <2>1
  <2>2. CASE ~part
    <3>1. shown = u.part /\ Load!Part(v) = Load!Part(ui)
      BY <1>4, <2>2
    <3> HIDE DEF shown, part
    <3> QED BY <1>9, <1>10, <3>1
  <2> QED BY <2>1, <2>2
<1>14. ui'.busy => Sent(calls', {"query"})
  <2> SUFFICES ASSUME busy PROVE Sent(calls', {"query"})
    BY <1>4, <1>9
  <2>1. CASE u.busy
    <3>1. PICK d \in C : d.op = "query"
      BY <2>1 DEF Sent
    <3>2. Load!Awaited(d, v) /\ Load!Left(d, v) = d
      BY <1>4, <2>1, <3>1, LoadLeft DEF Load!Awaited
    <3>3. d \in calls'
      BY <1>1, <1>7, <3>2
    <3> QED BY <3>1, <3>3 DEF Sent
  <2>2. CASE query /\ Load!Query(u) # {}
    <3>1. PICK d : d \in Load!Query(v)
      BY <1>5, <2>2
    <3>2. d.op = "query" /\ d \in calls'
      BY <1>1, <2>2, <3>1, LoadAsks
    <3> QED BY <3>2 DEF Sent
  <2> QED BY <1>8, <2>1, <2>2
<1>15. ui'.tab = "anomalies" => ~ui'.busy /\ (ui'.sel # Nil => ui'.note = ui'.sel)
  BY <1>4, <1>8, <1>9
<1>16. ui'.busy \in BOOLEAN
  BY <1>3, <1>4, <1>9
<1> QED BY <1>16, <1>9, <1>11, <1>12, <1>13, <1>14, <1>15 DEF LoadShown

\* The page is drawn with the tab it had.
LEMMA LoadRedrawn ==
  ASSUME LoadInv, NEW u, NEW C, NEW reload, Load!Drawn(u, C, reload), Fields(u, LoadFields),
         u.tab = ui.tab, u.part = ui.part,
         u.busy = ui.busy \/ u.busy = FALSE, u.busy => Sent(C, {"query"}),
         u.items = Nil \/ (u.items = ui.items /\ \A c \in calls : c.op = "entities" => c \in C),
         u.tab = "anomalies" => (u.sel # Nil => u.note = u.sel),
         \A c \in C : c \in calls \/ c.op # "save",
         Fields(world', LoadWorld), world'.notes = [a \in Anomalies |-> a]
  PROVE  LoadInv'
<1>1. u.busy \in BOOLEAN /\ (u.tab = "anomalies" => ~u.busy)
  BY DEF LoadInv, LoadShown
<1>2. ui.part # Nil => {ui.part} = {c.key : c \in Load!Part(ui)}
  BY DEF LoadInv, LoadShown
<1>3. u.items = Nil \/ u.items = u.ent.level \/ Load!List(u) \subseteq C \/ u.ent.level # ui.ent.level
  <2> SUFFICES ASSUME u.items # Nil, u.ent.level = ui.ent.level, u.items # u.ent.level PROVE Load!List(u) \subseteq C
    OBVIOUS
  <2>1. Load!List(u) = Load!List(ui)
    BY DEF Load!List
  <2>2. Load!List(ui) \subseteq calls
    BY DEF LoadInv, LoadShown
  <2> QED BY <2>1, <2>2, LoadAsks
<1>4. \A c \in C : c.op = "save" => c.key.of = c.key.note
  BY DEF LoadInv, LoadRequests
<1>5. Fields(ui', LoadFields) /\ LoadRequests' /\ LoadShown'
  BY <1>1, <1>2, <1>3, <1>4, LoadDrawn
<1> QED BY <1>5 DEF LoadInv

\* A tab is opened with nothing read.
LEMMA LoadMounted ==
  \A tab, focus, ov :
    LET u == Load!Mounted(tab, focus, ov)
    IN Fields(u, LoadFields) /\ u.tab = tab /\ u.busy = FALSE /\ u.items = Nil /\ u.part = Nil /\ u.sel = Nil
<1> TAKE tab, focus, ov
<1> DEFINE f == IF tab = "analysis" /\ focus # Nil THEN focus
                ELSE [ent |-> IF tab = "gd" THEN [level |-> "feeder", id |-> Nil] ELSE Load!System, point |-> FALSE]
           Shows(ent, point) == [tab |-> tab, focus |-> focus, ov |-> ov, ent |-> ent, point |-> point, param |-> 1, data |-> Nil, busy |-> FALSE,
                                 items |-> Nil, sel |-> Nil, part |-> Nil, note |-> Nil, act |-> Nil]
           u == Load!Mounted(tab, focus, ov)
<1>1. ASSUME NEW ent, NEW point
      PROVE  /\ Fields(Shows(ent, point), LoadFields) /\ Shows(ent, point).tab = tab /\ Shows(ent, point).busy = FALSE
             /\ Shows(ent, point).items = Nil /\ Shows(ent, point).part = Nil /\ Shows(ent, point).sel = Nil
  BY DEF Fields, LoadFields
<1>2. u = Shows(f.ent, f.point)
  BY DEF Load!Mounted
<1> HIDE DEF f, Shows, u
<1>3. Fields(u, LoadFields) /\ u.tab = tab /\ u.busy = FALSE /\ u.items = Nil /\ u.part = Nil /\ u.sel = Nil
  BY <1>1, <1>2
<1> QED BY <1>3 DEF u

\* The page is opened on a tab.
LEMMA LoadInit == ASSUME Load!Init PROVE LoadInv
<1>0. Fields(world, LoadWorld) /\ world.notes = [a \in Anomalies |-> a]
  BY DEF Load!Init, Fields, LoadWorld
<1>1. PICK t, o : ui = LET u == Load!Mounted(t, Nil, o) IN [u EXCEPT !.busy = t # "anomalies" /\ Load!Query(u) # {}]
  BY Zenon DEF Load!Init
<1> DEFINE u == Load!Mounted(t, Nil, o) b == t # "anomalies" /\ Load!Query(u) # {}
<1>2. Fields(u, LoadFields) /\ u.tab = t /\ u.items = Nil /\ u.part = Nil /\ u.sel = Nil
  BY LoadMounted
<1>3. ui = [u EXCEPT !.busy = b] /\ b \in BOOLEAN
  BY <1>1
<1> HIDE DEF u, b
<1>4. /\ Fields(ui, LoadFields) /\ ui.tab = t /\ ui.items = Nil /\ ui.part = Nil /\ ui.sel = Nil /\ ui.busy = b
      /\ ui.ent = u.ent /\ ui.point = u.point /\ ui.param = u.param
  BY <1>2, <1>3 DEF Fields, LoadFields
<1>5. Load!Query(ui) = Load!Query(u)
  BY <1>2, <1>4 DEF Load!Query, Load!Wanted, Load!Unpicked
<1>6. /\ calls = {Load!Call("overview", Nil)} \cup Load!Query(ui) \cup Load!List(ui)
      /\ Load!Call("overview", Nil).op = "overview"
  BY LoadCall DEF Load!Init
<1>7. LoadRequests
  BY <1>6, LoadAsks DEF LoadRequests
<1>8. ui.busy => Sent(calls, {"query"})
  <2> SUFFICES ASSUME b PROVE Sent(calls, {"query"})
    BY <1>4
  <2>1. PICK d : d \in Load!Query(ui)
    BY <1>5 DEF b
  <2>2. d.op = "query" /\ d \in calls
    BY <1>6, <2>1, LoadAsks
  <2> QED BY <2>2 DEF Sent
<1>9. ui.tab = "anomalies" => ~ui.busy
  BY <1>4 DEF b
<1> QED BY <1>0, <1>3, <1>4, <1>7, <1>8, <1>9 DEF LoadInv, LoadShown

\* Nothing of the choice changes, and requests come or go that are not awaited for what is shown.
LEMMA LoadKept ==
  ASSUME LoadInv, Fields(ui', LoadFields), ui'.tab = ui.tab, ui'.ent = ui.ent, ui'.param = ui.param, ui'.data = ui.data,
         ui'.busy = ui.busy, ui'.sel = ui.sel, ui'.note = ui.note,
         ui'.items = ui.ent.level \/ (ui'.items = ui.items /\ \A c \in calls : c.op = "entities" => c \in calls'),
         ui'.part = ui.part \/ {ui'.part} = {c.key : c \in Load!Part(ui)},
         \A c \in calls : c.op = "query" => c \in calls',
         \A c \in calls' : c \in calls \/ c.op \notin {"entities", "part", "save"} \/ (c.op = "save" /\ c.key.of = c.key.note),
         Fields(world', LoadWorld), world'.notes = [a \in Anomalies |-> a]
  PROVE  LoadInv'
<1>1. Load!Part(ui') = Load!Part(ui) /\ Load!List(ui') = Load!List(ui)
  BY DEF Load!Part, Load!List
<1>2. LoadRequests'
  BY <1>1 DEF LoadInv, LoadRequests
<1>3. ui'.items # Nil => ui'.items = ui'.ent.level \/ Load!List(ui') \subseteq calls'
  BY <1>1, LoadAsks DEF LoadInv, LoadShown
<1>4. ui'.part # Nil => {ui'.part} = {c.key : c \in Load!Part(ui')}
  BY <1>1 DEF LoadInv, LoadShown
<1>5. ui'.busy \in BOOLEAN /\ (ui'.busy => Sent(calls', {"query"}))
  BY DEF LoadInv, LoadShown, Sent
<1>6. ui'.tab = "anomalies" => ~ui'.busy /\ (ui'.sel # Nil => ui'.note = ui'.sel)
  BY DEF LoadInv, LoadShown
<1> QED BY <1>2, <1>3, <1>4, <1>5, <1>6 DEF LoadInv, LoadShown

\* Whatever is chosen or answered, the parts shown are of the choice.
LEMMA LoadNext == ASSUME LoadInv, Load!Next PROVE LoadInv'
<1>0. /\ Fields(ui, LoadFields) /\ Fields(world, LoadWorld) /\ world.notes = [a \in Anomalies |-> a]
      /\ ui.part # Nil => {ui.part} = {c.key : c \in Load!Part(ui)}
      /\ \A c \in calls : c.op = "save" => c.key.of = c.key.note
      /\ ui.busy => Sent(calls, {"query"})
      /\ ui.tab = "anomalies" => (ui.sel # Nil => ui.note = ui.sel)
  BY DEF LoadInv, LoadShown, LoadRequests
<1>t. ASSUME Load!Turn PROVE Fields(world', LoadWorld) /\ world'.notes = world.notes
  BY <1>0, <1>t DEF Load!Turn, Fields, LoadWorld
<1>1. CASE Load!OverviewLoaded
  <2> PICK c \in calls : c.op = "overview" /\ calls' = calls \ {c} /\ ui' = [ui EXCEPT !.ov = TRUE] /\ world' = world
    BY <1>1 DEF Load!OverviewLoaded, Load!Got
  <2>1. /\ Fields(ui', LoadFields) /\ ui'.tab = ui.tab /\ ui'.ent = ui.ent /\ ui'.param = ui.param /\ ui'.data = ui.data
        /\ ui'.busy = ui.busy /\ ui'.sel = ui.sel /\ ui'.note = ui.note /\ ui'.items = ui.items /\ ui'.part = ui.part
    BY <1>0 DEF Fields, LoadFields
  <2> QED BY <1>0, <2>1, LoadKept
<1>2. CASE Load!setTab \/ Load!openAnalysis
  <2>1. PICK t, f, o : Load!Turn /\ Load!Drawn(Load!Mounted(t, f, o), calls, FALSE)
    BY <1>2, Zenon DEF Load!setTab, Load!openAnalysis
  <2> DEFINE u == Load!Mounted(t, f, o)
  <2>2. Fields(u, LoadFields) /\ u.tab = t /\ u.busy = FALSE /\ u.items = Nil /\ u.part = Nil /\ u.sel = Nil
    BY LoadMounted
  <2>3. Load!Drawn(u, calls, FALSE)
    BY <2>1
  <2> HIDE DEF u
  <2>4. Fields(ui', LoadFields) /\ LoadRequests' /\ LoadShown'
    BY <1>0, <2>2, <2>3, LoadDrawn
  <2> QED BY <1>0, <1>t, <2>1, <2>4 DEF LoadInv
<1>3. CASE Load!Poll
  <2>1. ui' = ui /\ world' = world /\ calls' = calls \cup {Load!Call("overview", Nil)}
    BY <1>3 DEF Load!Poll, Load!Send
  <2>2. Load!Call("overview", Nil).op = "overview"
    BY LoadCall
  <2> QED BY <1>0, <2>1, <2>2, LoadKept
<1>4. CASE Load!Notified
  <2>1. ui' = ui /\ calls' = calls /\ world' = [world EXCEPT !.news = @ + 1, !.due = TRUE]
    BY <1>4 DEF Load!Notified
  <2>2. Fields(world', LoadWorld) /\ world'.notes = world.notes
    BY <1>0, <2>1 DEF Fields, LoadWorld
  <2> QED BY <1>0, <2>1, <2>2, LoadKept
<1>5. CASE Load!Refresh
  <2>1. world' = [world EXCEPT !.due = FALSE] /\ Load!Drawn(ui, calls \cup {Load!Call("overview", Nil)}, ui.tab \in {"analysis", "anomalies"})
    BY <1>5 DEF Load!Refresh
  <2>2. Fields(world', LoadWorld) /\ world'.notes = world.notes
    BY <1>0, <2>1 DEF Fields, LoadWorld
  <2>3. Load!Call("overview", Nil).op = "overview"
    BY LoadCall
  <2> DEFINE C == calls \cup {Load!Call("overview", Nil)} r == ui.tab \in {"analysis", "anomalies"}
  <2>4. /\ ui.busy => Sent(C, {"query"})
        /\ \A c \in C : c \in calls \/ c.op # "save"
        /\ \A c \in calls : c \in C
    BY <1>0, <2>3 DEF Sent
  <2>5. Load!Drawn(ui, C, r)
    BY <2>1
  <2> HIDE DEF C, r
  <2> QED BY <1>0, <2>2, <2>4, <2>5, LoadRedrawn
<1>6. CASE Load!Pick
  <2> PICK e, s : /\ ui.tab \in Load!Picking /\ Load!Turn
                  /\ Load!Drawn([ui EXCEPT !.ent = e, !.point = FALSE, !.sel = s], calls, ui.tab \in {"analysis", "losses"})
    BY <1>6, Zenon DEF Load!Pick
  <2> DEFINE u == [ui EXCEPT !.ent = e, !.point = FALSE, !.sel = s] r == ui.tab \in {"analysis", "losses"}
  <2>1. Fields(u, LoadFields) /\ u.tab = ui.tab /\ u.part = ui.part /\ u.busy = ui.busy /\ u.items = ui.items
    BY <1>0 DEF Fields, LoadFields
  <2>2. u.tab # "anomalies"
    BY <2>1 DEF Load!Picking
  <2>3. Load!Drawn(u, calls, r)
    OBVIOUS
  <2> HIDE DEF u, r
  <2> QED BY <1>0, <1>t, <2>1, <2>2, <2>3, LoadRedrawn
<1>7. CASE Load!Listed
  <2> PICK c \in calls : c.op = "entities" /\ calls' = calls \ {c} /\ ui' = [ui EXCEPT !.items = c.key] /\ world' = world
    BY <1>7 DEF Load!Listed, Load!Got
  <2>1. /\ Fields(ui', LoadFields) /\ ui'.tab = ui.tab /\ ui'.ent = ui.ent /\ ui'.param = ui.param /\ ui'.data = ui.data
        /\ ui'.busy = ui.busy /\ ui'.sel = ui.sel /\ ui'.note = ui.note /\ ui'.items = c.key /\ ui'.part = ui.part
    BY <1>0 DEF Fields, LoadFields
  <2>2. c.key = ui.ent.level
    BY DEF LoadInv, LoadRequests
  <2> QED BY <1>0, <2>1, <2>2, LoadKept
<1>8. CASE Load!SetParam
  <2> PICK p : Load!Turn /\ Load!Drawn([ui EXCEPT !.param = p], calls, FALSE)
    BY <1>8, Zenon DEF Load!SetParam
  <2> DEFINE u == [ui EXCEPT !.param = p] r == FALSE
  <2>1. /\ Fields(u, LoadFields) /\ u.tab = ui.tab /\ u.part = ui.part /\ u.busy = ui.busy /\ u.items = ui.items
        /\ u.sel = ui.sel /\ u.note = ui.note
    BY <1>0 DEF Fields, LoadFields
  <2>3. Load!Drawn(u, calls, r)
    OBVIOUS
  <2> HIDE DEF u, r
  <2> QED BY <1>0, <1>t, <2>1, <2>3, LoadRedrawn
<1>9. CASE Load!Loaded
  <2> PICK c \in calls : c.op = "query" /\ world' = world /\ Load!Drawn([ui EXCEPT !.data = c.key, !.busy = FALSE], calls \ {c}, FALSE)
    BY <1>9 DEF Load!Loaded
  <2> DEFINE u == [ui EXCEPT !.data = c.key, !.busy = FALSE] C == calls \ {c} r == FALSE
  <2>1. /\ Fields(u, LoadFields) /\ u.tab = ui.tab /\ u.part = ui.part /\ u.busy = FALSE /\ u.items = ui.items
        /\ u.sel = ui.sel /\ u.note = ui.note
    BY <1>0 DEF Fields, LoadFields
  <2>2. (\A d \in C : d \in calls) /\ \A d \in calls : d.op = "entities" => d \in C
    OBVIOUS
  <2>3. Load!Drawn(u, C, r)
    OBVIOUS
  <2> HIDE DEF u, C, r
  <2> QED BY <1>0, <2>1, <2>2, <2>3, LoadRedrawn
<1>10. CASE Load!Failed
  <2> PICK c, u :
        /\ c \in calls
        /\ world' = world /\ Load!Drawn(u, calls \ {c}, FALSE)
        /\ \/ c.op = "query" /\ u = [ui EXCEPT !.data = Nil, !.busy = FALSE]
           \/ c.op = "entities" /\ u = [ui EXCEPT !.items = Nil]
           \/ c.op = "save" /\ u = [ui EXCEPT !.act = Nil]
           \/ (c.op = "query" => ui.tab = "anomalies") /\ c.op # "entities" /\ u = ui
    <3>1. PICK c \in calls :
            /\ world' = world
            /\ Load!Drawn(CASE c.op = "query" /\ ui.tab # "anomalies" -> [ui EXCEPT !.data = Nil, !.busy = FALSE]
                            [] c.op = "entities" -> [ui EXCEPT !.items = Nil]
                            [] c.op = "save" /\ c.from = "shown" -> [ui EXCEPT !.act = Nil]
                            [] OTHER -> ui, calls \ {c}, FALSE)
      BY <1>10 DEF Load!Failed
    <3> DEFINE u == CASE c.op = "query" /\ ui.tab # "anomalies" -> [ui EXCEPT !.data = Nil, !.busy = FALSE]
                      [] c.op = "entities" -> [ui EXCEPT !.items = Nil]
                      [] c.op = "save" /\ c.from = "shown" -> [ui EXCEPT !.act = Nil]
                      [] OTHER -> ui
    <3>2. \/ c.op = "query" /\ u = [ui EXCEPT !.data = Nil, !.busy = FALSE]
          \/ c.op = "entities" /\ u = [ui EXCEPT !.items = Nil]
          \/ c.op = "save" /\ u = [ui EXCEPT !.act = Nil]
          \/ (c.op = "query" => ui.tab = "anomalies") /\ c.op # "entities" /\ u = ui
      OBVIOUS
    <3>3. world' = world /\ Load!Drawn(u, calls \ {c}, FALSE)
      BY <3>1
    <3> HIDE DEF u
    <3> QED BY <3>2, <3>3, Zenon
  <2> DEFINE C == calls \ {c} r == FALSE
  <2>1. /\ Fields(u, LoadFields) /\ u.tab = ui.tab /\ u.part = ui.part /\ u.sel = ui.sel /\ u.note = ui.note
        /\ u.busy = ui.busy \/ u.busy = FALSE
        /\ u.items = Nil \/ (u.items = ui.items /\ c.op # "entities")
    BY <1>0 DEF Fields, LoadFields
  <2>2. (\A d \in C : d \in calls) /\ \A d \in calls : d # c => d \in C
    OBVIOUS
  <2>3. u.busy => Sent(C, {"query"})
    <3>1. c.op = "query" => ~u.busy
      BY <1>0 DEF LoadInv, LoadShown, Fields, LoadFields
    <3> QED BY <1>0, <2>1, <2>2, <3>1 DEF Sent
  <2>4. Load!Drawn(u, C, r)
    OBVIOUS
  <2> HIDE DEF C, r
  <2> QED BY <1>0, <2>1, <2>2, <2>3, <2>4, LoadRedrawn
<1>11. CASE Load!PartLoaded
  <2> PICK c \in calls : c.op = "part" /\ calls' = calls \ {c} /\ ui' = [ui EXCEPT !.part = c.key] /\ world' = world
    BY <1>11 DEF Load!PartLoaded, Load!Got
  <2>1. /\ Fields(ui', LoadFields) /\ ui'.tab = ui.tab /\ ui'.ent = ui.ent /\ ui'.param = ui.param /\ ui'.data = ui.data
        /\ ui'.busy = ui.busy /\ ui'.sel = ui.sel /\ ui'.note = ui.note /\ ui'.items = ui.items /\ ui'.part = c.key
    BY <1>0 DEF Fields, LoadFields
  <2>2. c \in Load!Part(ui)
    BY DEF LoadInv, LoadRequests
  <2>3. \A d \in Load!Part(ui) : d = c
    BY <2>2 DEF Load!Part
  <2>4. {c.key} = {d.key : d \in Load!Part(ui)}
    BY <2>2, <2>3
  <2> QED BY <1>0, <2>1, <2>4, LoadKept
<1>12. CASE Load!SelectFeeder
  <2> PICK i : ui.tab = "losses" /\ Load!Turn /\ Load!Drawn([ui EXCEPT !.sel = i], calls, FALSE)
    BY <1>12, Zenon DEF Load!SelectFeeder
  <2> DEFINE u == [ui EXCEPT !.sel = i] r == FALSE
  <2>1. Fields(u, LoadFields) /\ u.tab = ui.tab /\ u.part = ui.part /\ u.busy = ui.busy /\ u.items = ui.items
    BY <1>0 DEF Fields, LoadFields
  <2>3. Load!Drawn(u, calls, r)
    OBVIOUS
  <2> HIDE DEF u, r
  <2> QED BY <1>0, <1>t, <2>1, <2>3, LoadRedrawn
<1>13. CASE Load!Open
  <2> PICK a : Load!Turn /\ Load!Drawn([ui EXCEPT !.sel = a, !.note = a], calls, FALSE)
    BY <1>13, Zenon DEF Load!Open, Load!NoteFor
  <2> DEFINE u == [ui EXCEPT !.sel = a, !.note = a] r == FALSE
  <2>1. /\ Fields(u, LoadFields) /\ u.tab = ui.tab /\ u.part = ui.part /\ u.busy = ui.busy /\ u.items = ui.items
        /\ u.sel = a /\ u.note = a
    BY <1>0 DEF Fields, LoadFields
  <2>3. Load!Drawn(u, calls, r)
    OBVIOUS
  <2> HIDE DEF u, r
  <2> QED BY <1>0, <1>t, <2>1, <2>3, LoadRedrawn
<1>c. LET u == Load!Closed(ui) IN
        /\ Fields(u, LoadFields) /\ u.tab = ui.tab /\ u.part = ui.part /\ u.busy = ui.busy /\ u.items = ui.items /\ u.sel = Nil
  BY <1>0 DEF Fields, LoadFields, Load!Closed
<1>14. CASE Load!onClose
  <2> DEFINE u == Load!Closed(ui) r == FALSE
  <2>1. world' = world /\ Load!Drawn(u, calls, r)
    BY <1>14 DEF Load!onClose
  <2>2. Fields(u, LoadFields) /\ u.tab = ui.tab /\ u.part = ui.part /\ u.busy = ui.busy /\ u.items = ui.items /\ u.sel = Nil
    BY <1>c
  <2> HIDE DEF u, r
  <2> QED BY <1>0, <2>1, <2>2, LoadRedrawn
<1>15. CASE Load!save
  <2> PICK s, x : /\ ui.tab = "anomalies" /\ ui.sel # Nil /\ Load!Turn /\ ui' = [ui EXCEPT !.act = s]
                  /\ x = [of |-> ui.sel, status |-> s, note |-> ui.note, then |-> Load!Wanted(ui)]
                  /\ calls' = calls \cup {Load!Call("save", x)}
    BY <1>15 DEF Load!save, Load!Send
  <2>1. /\ Fields(ui', LoadFields) /\ ui'.tab = ui.tab /\ ui'.ent = ui.ent /\ ui'.param = ui.param /\ ui'.data = ui.data
        /\ ui'.busy = ui.busy /\ ui'.sel = ui.sel /\ ui'.note = ui.note /\ ui'.items = ui.items /\ ui'.part = ui.part
    BY <1>0 DEF Fields, LoadFields
  <2>2. Load!Call("save", x).op = "save" /\ Load!Call("save", x).key = x /\ x.of = x.note
    BY <1>0, LoadCall
  <2>3. \A c \in calls' : c \in calls \/ (c.op = "save" /\ c.key.of = c.key.note)
    BY <2>2
  <2> QED BY <1>0, <1>t, <2>1, <2>3, LoadKept
<1>16. CASE Load!Saved
  <2> PICK c \in calls :
        /\ c.op = "save" /\ world' = [world EXCEPT !.notes[c.key.of] = c.key.note]
        /\ IF c.from = "gone" THEN Load!Got(c) /\ ui' = ui
           ELSE Load!Drawn(Load!Closed(ui), (calls \ {c}) \cup {Load!Call("query", c.key.then)}, FALSE)
    BY <1>16 DEF Load!Saved
  <2>1. Fields(world', LoadWorld) /\ world'.notes = [a \in Anomalies |-> a]
    <3> DEFINE f == world.notes g == [f EXCEPT ![c.key.of] = c.key.note]
    <3>1. c.key.of = c.key.note
      BY <1>0
    <3>2. g = [a \in Anomalies |-> a]
      BY <1>0, <3>1
    <3>3. world' = [world EXCEPT !.notes = g]
      OBVIOUS
    <3> HIDE DEF g
    <3> QED BY <1>0, <3>2, <3>3 DEF Fields, LoadWorld
  <2>2. CASE c.from = "gone"
    <3>1. calls' = calls \ {c} /\ ui' = ui
      BY <2>2 DEF Load!Got
    <3> QED BY <1>0, <2>1, <3>1, LoadKept
  <2>3. CASE c.from # "gone"
    <3> DEFINE u == Load!Closed(ui) r == FALSE C == (calls \ {c}) \cup {Load!Call("query", c.key.then)}
    <3>1. Load!Drawn(u, C, r)
      BY <2>3
    <3>2. Fields(u, LoadFields) /\ u.tab = ui.tab /\ u.part = ui.part /\ u.busy = ui.busy /\ u.items = ui.items /\ u.sel = Nil
      BY <1>c
    <3>3. Load!Call("query", c.key.then).op = "query"
      BY LoadCall
    <3>4. /\ Sent(C, {"query"})
          /\ \A d \in C : d \in calls \/ d.op # "save"
          /\ \A d \in calls : d.op = "entities" => d \in C
      BY <3>3 DEF Sent
    <3> HIDE DEF u, r, C
    <3> QED BY <1>0, <2>1, <3>1, <3>2, <3>4, LoadRedrawn
  <2> QED BY <2>2, <2>3
<1> QED BY <1>1, <1>2, <1>3, <1>4, <1>5, <1>6, <1>7, <1>8, <1>9, <1>10, <1>11, <1>12, <1>13, <1>14, <1>15, <1>16 DEF Load!Next
====
