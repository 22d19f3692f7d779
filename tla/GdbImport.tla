---- MODULE GdbImport ----
(***************************************************************************)
(* Importing a geodatabase: the page                                       *)
(* (src/frontend/components/admin/GdbImport.tsx) and the one job the       *)
(* server keeps (src/backend/internal/gdbimport/gdbimport.go).  A job      *)
(* compares, waits for a review, and is applied or cancelled; those two    *)
(* requests do not say which job they mean.  The page reads the status     *)
(* only while it shows a job that runs.  Other administrators work on the  *)
(* same job.  What the comparison finds is left out.                       *)
(***************************************************************************)
EXTENDS Screen

CONSTANTS
  MaxJobs,   \* bound: imports
  MaxOthers, \* bound: commands of other administrators
  MaxFaults  \* bound: answers lost, stages failed

Jobs == 1..MaxJobs
Busy == {"running", "review"}

Call(op) == [op |-> op, job |-> 0, reply |-> "sent", got |-> Nil]
NoPanel == [confirm |-> FALSE, busy |-> ""]

Init ==
  /\ ui = [job |-> Nil, progress |-> FALSE, del |-> Nil, busy |-> "", panel |-> NoPanel]
  /\ calls = {Call("status")}
  /\ world = [job |-> Nil, db |-> <<>>, work |-> {}, approved |-> {}, applied |-> {}, blind |-> FALSE, others |-> 0, faults |-> 0]

----------------------------------------------------------------------------
(* The server: the job in memory, its row in the table, and the goroutines *)

InReview(w) == w.job # Nil /\ w.job.status = "review"
ServerBusy(w) == w.job # Nil /\ w.job.status \in Busy

\* A new job takes the place of the last; its row is written next.
Start(w) ==
  LET id == Len(w.db) + 1
  IN [w EXCEPT !.job = [id |-> id, status |-> "running"],
               !.db = Append(@, "running"),
               !.work = @ \cup {[id |-> id, stage |-> "compare"]}]

\* mutant: A job that still compares can be applied.
Apply_AnyTime(w) ==
  IF w.job = Nil THEN w
  ELSE [w EXCEPT !.job.status = "running",
                 !.work = @ \cup {[id |-> w.job.id, stage |-> "apply"]},
                 !.approved = IF w.job.status = "review" THEN @ \cup {w.job.id} ELSE @]

\* Whatever job waits for a review is applied.
Apply(w) ==
  IF ~InReview(w) THEN w
  ELSE [w EXCEPT !.job.status = "running",
                 !.work = @ \cup {[id |-> w.job.id, stage |-> "apply"]},
                 !.approved = @ \cup {w.job.id}]

\* finish: what the job in memory becomes, whichever job that is by now.
Finish(w, id, status) ==
  [w EXCEPT !.job.status = status, !.db[id] = status]

\* The comparison ends in a review, or fails.
Compared ==
  \E g \in world.work :
    /\ g.stage = "compare"
    /\ world' = [Finish(world, g.id, "review") EXCEPT !.work = @ \ {g}]
    /\ UNCHANGED <<ui, calls>>

\* One transaction changes the network; what follows may still fail.
Applied ==
  \E g \in world.work :
    /\ g.stage = "apply"
    /\ world' = [world EXCEPT !.applied = @ \cup {g.id}, !.work = (@ \ {g}) \cup {[g EXCEPT !.stage = "finish"]}]
    /\ UNCHANGED <<ui, calls>>

\* The row becomes the latest of its batch.
ApplyDone ==
  \E g \in world.work :
    /\ g.stage = "finish"
    /\ world' = [Finish(world, g.id, "done") EXCEPT !.work = @ \ {g}]
    /\ UNCHANGED <<ui, calls>>

StageFailed ==
  /\ world.faults < MaxFaults
  /\ \E g \in world.work :
       world' = [Finish(world, g.id, "failed") EXCEPT !.work = @ \ {g}, !.faults = @ + 1]
  /\ UNCHANGED <<ui, calls>>

\* The server starts anew: no job, the rows of those that ran are closed, and a request
\* it was serving fails.
Restart ==
  /\ world.faults < MaxFaults
  /\ world' = [world EXCEPT !.job = Nil, !.work = {}, !.faults = @ + 1,
                 !.db = [i \in DOMAIN @ |-> IF @[i] \in Busy THEN "failed" ELSE @[i]]]
  /\ calls' = {IF c.reply = "checked" THEN [c EXCEPT !.reply = "refused"] ELSE c : c \in calls}
  /\ UNCHANGED ui

----------------------------------------------------------------------------
(* The page: what it shows and lets the user do *)

Running == ui.job # Nil /\ ui.job.status = "running"
Reviewing == ui.job # Nil /\ ui.job.status = "review"
NoDialog == ui.del = Nil /\ ~(Reviewing /\ ui.panel.confirm)

\* A ZIP file and its tag are chosen.
Upload == NoDialog /\ ~Running /\ ~Reviewing /\ ~ui.progress

start ==
  /\ Upload /\ Send(Call("start"))
  /\ ui' = [ui EXCEPT !.progress = TRUE] /\ UNCHANGED world

\* The history may be out of date: a batch that was applied once has a button.
Rows == IF Running \/ Reviewing THEN {} ELSE world.applied

askDelete(i) ==
  /\ NoDialog /\ i \in Rows /\ ui.busy = ""
  /\ Send([Call("ask") EXCEPT !.job = i])
  /\ ui' = [ui EXCEPT !.busy = "ask"] /\ UNCHANGED world

DeleteDialog ==
  \/ /\ ui.del # Nil /\ ui.busy # "del"
     /\ Send([Call("delete") EXCEPT !.job = ui.del])
     /\ ui' = [ui EXCEPT !.busy = "del"] /\ UNCHANGED world
  \/ ui.del # Nil /\ Show([ui EXCEPT !.del = Nil])

\* The panel of the review; its policies for conflicts and deletions are left out.
Decision ==
  /\ Reviewing /\ NoDialog
  /\ \/ ui.panel.busy = "" /\ Show([ui EXCEPT !.panel.confirm = TRUE])
     \/ /\ ui.panel.busy = "" /\ Send([Call("cancel") EXCEPT !.job = ui.job.id])
        /\ ui' = [ui EXCEPT !.panel.busy = "cancel"] /\ UNCHANGED world

ConfirmApply ==
  /\ Reviewing /\ ui.panel.confirm
  /\ \/ /\ ui.panel.busy # "apply"
        /\ Send([Call("apply") EXCEPT !.job = ui.job.id])
        /\ ui' = [ui EXCEPT !.panel.busy = "apply"] /\ UNCHANGED world
     \/ Show([ui EXCEPT !.panel.confirm = FALSE])

\* Every two seconds while the job shown runs.
poll == Running /\ Send(Call("status")) /\ UNCHANGED <<ui, world>>

----------------------------------------------------------------------------
(* Requests at the server *)

Answer(c, got) == calls' = (calls \ {c}) \cup {[c EXCEPT !.reply = "ok", !.got = got]}
Refuse(c) == calls' = (calls \ {c}) \cup {[c EXCEPT !.reply = "refused"]}

Serve ==
  \E c \in calls :
    /\ c.reply = "sent" /\ UNCHANGED ui
    /\ \/ c.op = "status" /\ Answer(c, world.job) /\ UNCHANGED world
       \/ /\ c.op = "start"
          /\ IF ServerBusy(world) \/ Len(world.db) = MaxJobs THEN Refuse(c) /\ UNCHANGED world
             ELSE world' = Start(world) /\ Answer(c, Start(world).job)
       \/ /\ c.op = "apply"
          /\ IF ~InReview(world) THEN Refuse(c) /\ UNCHANGED world
             ELSE /\ world' = [Apply(world) EXCEPT !.blind = @ \/ world.job.id # c.job]
                  /\ Answer(c, Apply(world).job)
       \/ /\ c.op = "ask"
          /\ IF ServerBusy(world) THEN Refuse(c) ELSE Answer(c, 0)
          /\ UNCHANGED world
       \/ /\ c.op = "delete"
          /\ IF ServerBusy(world) THEN Refuse(c) /\ UNCHANGED world
             ELSE Answer(c, 0) /\ world' = [world EXCEPT !.db[c.job] = "deleted"]
       \* The lock is given back between the check and what follows it.
       \/ /\ c.op = "cancel"
          /\ IF InReview(world)
             THEN calls' = (calls \ {c}) \cup {[c EXCEPT !.reply = "checked"]}
             ELSE Refuse(c)
          /\ UNCHANGED world

\* The second half of a cancellation.
Cancel ==
  \E c \in calls :
    /\ c.reply = "checked" /\ world.job # Nil
    /\ world' = Finish(world, world.job.id, "cancelled")
    /\ Answer(c, world'.job)
    /\ UNCHANGED ui

\* Another administrator, with a page that is up to date.
OtherAdministrator ==
  /\ world.others < MaxOthers
  /\ LET w == [world EXCEPT !.others = @ + 1]
     IN \/ ~ServerBusy(world) /\ Len(world.db) < MaxJobs /\ world' = Start(w)
        \/ ServerBusy(world) /\ world' = Apply(w)
        \/ InReview(world) /\ world' = Finish(w, world.job.id, "cancelled")
  /\ UNCHANGED <<ui, calls>>

----------------------------------------------------------------------------
(* Answers *)

\* A panel that shows no job under review goes away with what was chosen in it.
SetJob(u, j) ==
  [u EXCEPT !.job = j, !.panel = IF j # Nil /\ j.status = "review" THEN @ ELSE NoPanel]

AnswerOk ==
  \E c \in calls :
    /\ c.reply = "ok"
    /\ ui' = CASE c.op = "status" -> SetJob(ui, c.got)
               [] c.op = "start" -> [SetJob(ui, c.got) EXCEPT !.progress = FALSE]
               [] c.op = "ask" -> [ui EXCEPT !.del = c.job, !.busy = ""]
               [] c.op = "delete" -> [ui EXCEPT !.del = Nil, !.busy = ""]
               [] OTHER -> SetJob([ui EXCEPT !.panel.busy = "", !.panel.confirm = @ /\ c.op # "apply"], c.got)
    /\ Got(c) /\ UNCHANGED world

\* Refused or lost: the buttons are free again.  The page goes on showing its job.
AnswerFailed ==
  \E c \in calls :
    /\ c.reply = "refused" \/ world.faults < MaxFaults
    /\ world' = IF c.reply = "refused" THEN world ELSE [world EXCEPT !.faults = @ + 1]
    /\ ui' = CASE c.op = "start" -> [ui EXCEPT !.progress = FALSE]
               [] c.op \in {"ask", "delete"} -> [ui EXCEPT !.busy = ""]
               [] c.op \in {"apply", "cancel"} -> [ui EXCEPT !.panel.busy = ""]
               [] OTHER -> ui
    /\ Got(c)

Next ==
  \/ start \/ (\E i \in Jobs : askDelete(i)) \/ DeleteDialog \/ Decision \/ ConfirmApply \/ poll
  \/ Compared \/ Applied \/ ApplyDone \/ StageFailed \/ Restart
  \/ Serve \/ Cancel \/ OtherAdministrator \/ AnswerOk \/ AnswerFailed

Spec == Init /\ [][Next]_vars

----------------------------------------------------------------------------
(* Properties *)

\* The network changes only for a job that was compared and then approved, although
\* jobs replace one another and requests do not name theirs.
AppliedAfterReview == world.applied \subseteq world.approved

\* The dialog (GdbImport.tsx, apply_title): "Apply GDB changes {tag}?"  The job it
\* names is the one applied.
AppliedAsReviewed == ~world.blind

\* gdbimport.go: "Cancel membatalkan pratinjau yang sedang ditinjau (jaringan tidak
\* berubah)": a job that is cancelled leaves the network as it was.
CancelledUnchanged == \A i \in world.applied : world.db[i] # "cancelled"
====
