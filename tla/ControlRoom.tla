---- MODULE ControlRoom ----
(***************************************************************************)
(* The screens of a dispatcher, src/frontend/components/power and          *)
(* src/frontend/components/ops.  Each keeps its own state and requests;    *)
(* the behaviours of one screen do not depend on the others', except for   *)
(* the overlay and the tab bar, which PowerMonitor has.                    *)
(***************************************************************************)
EXTENDS Naturals, Sequences, TLC

CONSTANTS
  Pages,  \* the screens looked at
  Nil, MaxCalls, MaxFaults,
  Lists, OpsTabs, Drawings, MaxChanges, MaxMoves,        \* power
  Categories, CategoryOf, PageSize,                      \* soe
  Objects, IdOf, Lines, Switches, Ways,                  \* operate
  Plans, Picks, Actions, Initial, MaxSteps, MaxOthers,   \* plans
  Outages, CauseOf, Sections, Located,                   \* flisr
  Customers, Codes, Reports, MaxReports,                 \* reports
  Targets, MaxTurns, MaxSent                             \* ai

\* Nil is none of the values that it stands beside: an overlay, the key of a panel, what an analysis is about.
ASSUME NilAssumption ==
  /\ \A x \in (UNION {Sections[o] : o \in Outages}) \cup {Located[d] : d \in DOMAIN Located} \cup DOMAIN Located :
       Nil \notin {<<"isolated", x>>, <<"located", x>>}
  /\ \A t \in DOMAIN Targets : \A i \in Targets[t] \cup {Nil} : \A n \in 0..MaxSent :
       Nil \notin {<<t, i>>, <<<<t, i>>, n>>}

\* An analysis may be about an outage; only switches have ways, and a line is no switch; an outage is caused by a device, if known; events are
\* numbered from 1, and a page of the server has room for one.
ASSUME PagesAssumption ==
  /\ "outage" \in DOMAIN Targets /\ MaxSent \in Nat
  /\ DOMAIN Ways \subseteq Switches /\ Switches \subseteq Objects \ Lines
  /\ \A o \in Outages : CauseOf[o] \in DOMAIN Located \cup {Nil}
  /\ Len(CategoryOf) \in Nat /\ PageSize \in Nat \ {0}

VARIABLES
  page,  \* the screen
  ui, calls, world

vars == <<page, ui, calls, world>>

Power == INSTANCE PowerMonitor
Soe == INSTANCE SoeFeed
Oper == INSTANCE Operate
Switching == INSTANCE SwitchingPlans
Flisr == INSTANCE FaultAnalysis
Rep == INSTANCE ReportsTab
Ai == INSTANCE AiOps

Init ==
  /\ page \in Pages
  /\ \/ page = "power" /\ Power!Init
     \/ page = "soe" /\ Soe!Init
     \/ page = "operate" /\ Oper!Init
     \/ page = "plans" /\ Switching!Init
     \/ page = "flisr" /\ Flisr!Init
     \/ page = "reports" /\ Rep!Init
     \/ page = "ai" /\ Ai!Init

Next ==
  /\ UNCHANGED page
  /\ \/ page = "power" /\ Power!Next
     \/ page = "soe" /\ Soe!Next
     \/ page = "operate" /\ Oper!Next
     \/ page = "plans" /\ Switching!Next
     \/ page = "flisr" /\ Flisr!Next
     \/ page = "reports" /\ Rep!Next
     \/ page = "ai" /\ Ai!Next

Spec == Init /\ [][Next]_vars

\* The interval that polls runs for as long as the page is open; every request for
\* the summary or the configuration is answered or fails.
LiveSpec ==
  /\ Spec
  /\ WF_vars(page = "power" /\ Power!Poll /\ UNCHANGED page)
  /\ WF_vars(page = "power" /\ Power!loadSummary /\ UNCHANGED page)
  /\ WF_vars(page = "power" /\ Power!configLoaded /\ UNCHANGED page)

----------------------------------------------------------------------------
(* Properties *)

\* What is drawn over the map belongs to the operation tab shown, whichever tab's
\* analysis is ready last.
OverlayOfTab == page = "power" => Power!OverlayOfTab

\* The figures of the header end up at the state of the network, although the socket
\* may be down and answers come out of order.
SummaryCatchesUp == <>[](page = "power" => Power!SummaryCurrent)

\* No event is missing from the feed once the socket is up and nothing is on its
\* way, but for the losses SoeFeed names.
FeedComplete == page = "soe" => Soe!FeedComplete

\* What is sent or drawn belongs to what stands on the screen: a maneuver to the
\* element its dialog names, the steps saved to the plan shown, the report to the
\* customer whose code is in the form, the isolation on the map to the analysis in the
\* panel.  One slip of the code is left out of the claim: a maneuver confirmed for a
\* node that is no switch goes to the line with the same number, or the other way
\* round, when that is what is shown by then (OperateBox.tsx:55-65).
SentAsShown ==
  /\ page = "operate" => Oper!DialogNamesTarget
  /\ page = "plans" => Switching!DraftOfPlan
  /\ page = "reports" => Rep!CustomerOfCode
  /\ page = "flisr" => Flisr!OverlayOfResult

\* An analysis is about the target in the selectors, and starts by itself only for
\* a target another tab sent.
AnalysisAsked == page = "ai" => (Ai!AnswerOfTarget /\ Ai!AutoOnlyAsked)

\* The dialog of a step names what is operated (components/ops/i18n.ts).
ConfirmedStep == page = "plans" => Switching!ConfirmedStep

\* AiOpsPanel.tsx: "mulai otomatis sekali per target", once for each target.
StartsOnce == page = "ai" => Ai!StartsOnce

----------------------------------------------------------------------------
(* Values of the constants, for the runs *)

CONSTANTS p1, p2, s, node, l

Cat == <<"a", "b", "a">>

\* The node and the line have the same number.
SameNumber == (s :> 1) @@ (node :> 2) @@ (l :> 2)
ThreeWays == (s :> {"w1"})

Plan(status) == [status |-> status, steps |-> <<[action |-> "open", at |-> "x"]>>, done |-> 0]
Drafts == {(p1 :> Plan("approved")) @@ (p2 :> Nil)}
Cause == ("o1" :> "d1") @@ ("o2" :> Nil)
Secs == ("o1" :> {"s1"}) @@ ("o2" :> {"s2"})
Loc == ("d1" :> "l1")

\* Only the screen of the plans holds plans, and it treats the two alike; the liveness
\* property is about another screen, whose states the exchange leaves as they are.
BothPlans == Permutations({p1, p2})

About == ("outage" :> {"o1", "o2"}) @@ ("plan" :> {"p1"}) @@ ("shift" :> {})
====
