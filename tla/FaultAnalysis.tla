---- MODULE FaultAnalysis ----
(***************************************************************************)
(* The tab that isolates a fault (src/frontend/components/ops/             *)
(* FlisrTab.tsx) and, in it, the box that locates one from relay currents  *)
(* (FaultLocate.tsx).  An outage, an element of the map and an estimated   *)
(* location all lead to the same analysis; its answer replaces what is     *)
(* shown, whatever was picked since.  Both draw the one overlay.           *)
(***************************************************************************)
EXTENDS Screen

CONSTANTS
  Outages,   \* active outages, by id
  CauseOf,   \* the device that tripped, by outage
  Sections,  \* sections a fault may be in, by outage
  Located    \* the line a current points to, by device

Devices == DOMAIN Located
Faults == (UNION {Sections[o] : o \in Outages}) \cup {Located[d] : d \in Devices} \cup Devices

Call(op, x) == [op |-> op, at |-> x, outage |-> Nil, params |-> Nil]

Init ==
  /\ ui = [picked |-> Nil, outage |-> Nil, sections |-> Nil, busy |-> FALSE, result |-> Nil, saving |-> FALSE,
           dev |-> Nil, params |-> Nil, locating |-> FALSE, found |-> Nil, overlay |-> Nil]
  /\ calls = {Call("defaults", Nil)}
  /\ world = [plan |-> Nil]

\* An element is chosen on the map.
Pick(x) == x # ui.picked /\ Show([ui EXCEPT !.picked = x])

----------------------------------------------------------------------------
(* The device whose currents are read *)

\* Another device: what was found is gone, and its parameters are asked for.
WithDevice(u, d) == [u EXCEPT !.dev = d, !.found = Nil]

UsePicked ==
  /\ ui.picked \in Devices /\ ui.picked # ui.dev
  /\ ui' = WithDevice(ui, ui.picked) /\ Send(Call("defaults", ui.picked))
  /\ UNCHANGED world

defaults ==
  \E c \in calls :
    /\ c.op = "defaults"
    /\ ui' = [ui EXCEPT !.params = c.at] /\ Got(c) /\ UNCHANGED world

\* Locate, with the parameters at hand, although they may be those of another device.
run ==
  /\ ui.dev # Nil
  /\ Send([Call("locate", ui.dev) EXCEPT !.params = ui.params])
  /\ ui' = [ui EXCEPT !.locating = TRUE] /\ UNCHANGED world

Found ==
  \E c \in calls :
    /\ c.op = "locate"
    /\ ui' = [ui EXCEPT !.found = Located[c.at], !.locating = FALSE, !.overlay = <<"located", c.at>>]
    /\ Got(c) /\ UNCHANGED world

----------------------------------------------------------------------------
(* Isolation and restoration *)

pickOutage(o) ==
  /\ LET u == [ui EXCEPT !.outage = o, !.result = Nil, !.overlay = Nil, !.sections = Nil]
         other == CauseOf[o] # Nil /\ (ui.outage = Nil \/ CauseOf[o] # CauseOf[ui.outage])
     IN /\ ui' = IF other THEN WithDevice(u, CauseOf[o]) ELSE u
        /\ SendAll({Call("sections", o)} \cup IF other THEN {Call("defaults", CauseOf[o])} ELSE {})
  /\ UNCHANGED world

SectionsAnswered ==
  \E c \in calls :
    /\ c.op = "sections"
    /\ ui' = [ui EXCEPT !.sections = c.at] /\ Got(c) /\ UNCHANGED world

\* From the element picked, a section of the outage, or the line located.
Candidates ==
  (IF ui.picked # Nil /\ ~ui.busy THEN {ui.picked} ELSE {})
  \cup (IF ui.sections # Nil /\ ui.outage # Nil /\ ~(ui.busy /\ ui.result = Nil) THEN Sections[ui.sections] ELSE {})
  \cup (IF ui.found # Nil THEN {ui.found} ELSE {})

analyze(f) ==
  /\ f \in Candidates
  /\ Send(Call("flisr", f)) /\ ui' = [ui EXCEPT !.busy = TRUE] /\ UNCHANGED world

\* mutant: The overlay of the last analysis stays.
Analyzed_KeepsOverlay ==
  \E c \in calls :
    /\ c.op = "flisr"
    /\ ui' = [ui EXCEPT !.result = c.at, !.busy = FALSE]
    /\ Got(c) /\ UNCHANGED world

Analyzed ==
  \E c \in calls :
    /\ c.op = "flisr"
    /\ ui' = [ui EXCEPT !.result = c.at, !.busy = FALSE, !.overlay = <<"isolated", c.at>>]
    /\ Got(c) /\ UNCHANGED world

\* The plan is for the outage picked now and the fault analysed last.
savePlan ==
  /\ ui.result # Nil /\ ~ui.saving
  /\ Send([Call("plan", ui.result) EXCEPT !.outage = ui.outage])
  /\ ui' = [ui EXCEPT !.saving = TRUE] /\ UNCHANGED world

PlanSaved ==
  \E c \in calls :
    /\ c.op = "plan"
    /\ world' = [world EXCEPT !.plan = <<c.outage, c.at>>]
    /\ ui' = [ui EXCEPT !.saving = FALSE] /\ Got(c)

\* A failure leaves what is shown and frees the button.
Failed ==
  \E c \in calls :
    /\ ui' = [ui EXCEPT !.busy = @ /\ c.op # "flisr", !.saving = @ /\ c.op # "plan",
                        !.locating = @ /\ c.op # "locate"]
    /\ Got(c) /\ UNCHANGED world

Next ==
  \/ \E x \in Devices : Pick(x)
  \/ UsePicked \/ defaults \/ run \/ Found
  \/ \E o \in Outages : pickOutage(o)
  \/ SectionsAnswered \/ Analyzed \/ savePlan \/ PlanSaved \/ Failed
  \/ \E f \in Faults : analyze(f)

Spec == Init /\ [][Next]_vars

----------------------------------------------------------------------------
(* Properties *)

\* An isolation drawn on the map is that of the analysis shown in the panel, in
\* whatever order outages are picked, analyses answered and faults located.
OverlayOfResult ==
  /\ ui.overlay # Nil => (ui.overlay[1] = "isolated" => ui.overlay[2] = ui.result)
  /\ ui.result # Nil => ui.overlay # Nil
====
