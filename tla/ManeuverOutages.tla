--------------------------- MODULE ManeuverOutages ---------------------------
(***************************************************************************)
(* execManeuver (backend/internal/api/power_handlers.go): the graph is     *)
(* changed first, then one statement after the other stores the position,  *)
(* the energized flags and the maneuver, and opens or closes outage        *)
(* records.  Nothing is in a transaction and nothing serialises two        *)
(* operators.                                                              *)
(*                                                                         *)
(* The network is abstracted to what supplies whom: customer section n is  *)
(* lit when all elements of one of its paths are closed.  EnergyGraph      *)
(* shows that the graph's flags are exactly that.                          *)
(***************************************************************************)
EXTENDS Integers, FiniteSets, Sequences

CONSTANTS
  Sections,      \* groups of customers that are always lit or dark together
  Elements,      \* what can be opened
  Lines,         \* the elements that are edges; the others are nodes
  Paths,         \* for every section the set of its supply paths, each a set of elements
  Upstream,      \* for every section its normal path towards the source, nearest element first
  Operators,
  MaxManeuvers, MaxFaults, MaxCrashes,   \* bounds
  NoOne

ASSUME NetworkAssumption ==
  /\ IsFiniteSet(Sections) /\ Lines \subseteq Elements /\ NoOne \notin Elements
  /\ Paths \in [Sections -> SUBSET SUBSET Elements]
  /\ Upstream \in [Sections -> Seq(Elements)]
ASSUME BoundsAssumption == MaxManeuvers \in Nat /\ MaxFaults \in Nat /\ MaxCrashes \in Nat

VARIABLES
  open,         \* elements open in the graph
  dbOpen,       \* gis_nodes.status, gis_edges.status
  dbLit,        \* the energized columns, as the sections that are lit
  outages,      \* the outages table, a sequence of records; the position is the id
  pc, order,    \* what each operator does next, and the maneuver it runs
  diff,         \* sections the operator's maneuver switched
  info,         \* the position it read back from the graph
  touched,      \* ids of ActiveOutagesTouching
  closed,       \* ids of the outages it has closed and not yet looked at for a continuation
  maneuvers, faults, crashes,
  failed,       \* history: a statement failed since the last restart, or in it
  interrupted   \* history: some maneuver did not run to its end

stored == <<dbOpen, dbLit, outages>>
locals == <<order, diff, info, touched, closed>>
counts == <<maneuvers, faults, crashes>>
history == <<failed, interrupted>>
vars == <<open, stored, pc, locals, counts, history>>

Supplied(x) == {n \in Sections : \E p \in Paths[n] : p \cap x = {}}
Lit == Supplied(open)
Dark == Sections \ Lit
Active == {i \in DOMAIN outages : outages[i].active}
Affected(i) == outages[i].nodes
Goto(o, l) == pc' = [pc EXCEPT ![o] = l]
Opening(o) == order[o].open

(***************************************************************************)
(* Graph.Maneuver under the graph's lock.  The position may be the one     *)
(* already held: the difference is then empty and the rest runs all the    *)
(* same.                                                                   *)
(***************************************************************************)
Maneuver(o, e, opening) ==
  /\ pc[o] = "idle" /\ maneuvers < MaxManeuvers
  /\ open' = IF opening THEN open \cup {e} ELSE open \ {e}
  /\ order' = [order EXCEPT ![o] = [elem |-> e, open |-> opening]]
  /\ diff' = [diff EXCEPT ![o] = IF opening THEN Lit \ Supplied(open') ELSE Supplied(open') \ Lit]
  /\ maneuvers' = maneuvers + 1
  /\ Goto(o, "info")
  /\ UNCHANGED <<stored, info, touched, closed, faults, crashes, history>>

\* NodeInfo is read from the graph again; for a line the order itself is stored.
ReadBack(o) ==
  /\ pc[o] = "info" /\ Goto(o, "store")
  /\ info' = [info EXCEPT ![o] = IF order[o].elem \in Lines THEN Opening(o) ELSE order[o].elem \in open]
  /\ UNCHANGED <<open, stored, order, diff, touched, closed, counts, history>>

\* SetSwitchState, SetEdgeState.
StorePosition(o) ==
  /\ pc[o] = "store" /\ Goto(o, "energize")
  /\ dbOpen' = IF info[o] THEN dbOpen \cup {order[o].elem} ELSE dbOpen \ {order[o].elem}
  /\ UNCHANGED <<open, dbLit, outages, locals, counts, history>>

\* ApplyEnergized, then InsertManeuver.
StoreEnergized(o) ==
  /\ pc[o] = "energize"
  /\ dbLit' = IF Opening(o) THEN dbLit \ diff[o] ELSE dbLit \cup diff[o]
  /\ Goto(o, "record")
  /\ UNCHANGED <<open, dbOpen, outages, locals, counts, history>>

\* mutant: an opening that switched nothing off goes on to its outage record
RecordManeuver_Always(o) ==
  /\ pc[o] = "record"
  /\ Goto(o, IF Opening(o) THEN "outage" ELSE "closeOwn")
  /\ UNCHANGED <<open, stored, locals, counts, history>>

RecordManeuver(o) ==
  /\ pc[o] = "record"
  /\ Goto(o, IF ~Opening(o) THEN "closeOwn" ELSE IF diff[o] # {} THEN "outage" ELSE "idle")
  /\ UNCHANGED <<open, stored, locals, counts, history>>

NewOutage(e, nodes, parent) == [cause |-> e, nodes |-> nodes, parent |-> parent, active |-> TRUE]

OpenOutage(o) ==
  /\ pc[o] = "outage" /\ Goto(o, "idle")
  /\ outages' = Append(outages, NewOutage(order[o].elem, diff[o], NoOne))
  /\ UNCHANGED <<open, dbOpen, dbLit, locals, counts, history>>

(***************************************************************************)
(* Closing: the outages this element caused, those that hold a section     *)
(* that came on, and for each of them what is still dark.                  *)
(***************************************************************************)
End(ids) == outages' = [i \in DOMAIN outages |->
                          IF i \in ids THEN [outages[i] EXCEPT !.active = FALSE] ELSE outages[i]]

\* mutant: closing ends the outages of the element itself and no others
CloseOutages_Only(o) ==
  /\ pc[o] = "closeOwn" /\ Goto(o, "continue")
  /\ LET own == {i \in Active : outages[i].cause = order[o].elem}
     IN  End(own) /\ closed' = [closed EXCEPT ![o] = own]
  /\ UNCHANGED <<open, dbOpen, dbLit, order, diff, info, touched, counts, history>>

CloseOutages(o) ==
  /\ pc[o] = "closeOwn" /\ Goto(o, "touch")
  /\ LET own == {i \in Active : outages[i].cause = order[o].elem}
     IN  End(own) /\ closed' = [closed EXCEPT ![o] = own]
  /\ UNCHANGED <<open, dbOpen, dbLit, order, diff, info, touched, counts, history>>

ActiveOutagesTouching(o) ==
  /\ pc[o] = "touch" /\ Goto(o, "closeOther")
  /\ touched' = [touched EXCEPT ![o] = {i \in Active : Affected(i) \cap diff[o] # {}}]
  /\ UNCHANGED <<open, stored, order, diff, info, closed, counts, history>>

\* mutant: the outages of other elements it ends get no continuation
CloseOutageIDs_NoList(o) ==
  /\ pc[o] = "closeOther" /\ Goto(o, "continue")
  /\ End(touched[o] \cap Active)
  /\ touched' = [touched EXCEPT ![o] = {}]
  /\ UNCHANGED <<open, dbOpen, dbLit, order, diff, info, closed, counts, history>>

CloseOutageIDs(o) ==
  /\ pc[o] = "closeOther" /\ Goto(o, "continue")
  /\ LET more == touched[o] \cap Active
     IN  End(more) /\ closed' = [closed EXCEPT ![o] = @ \cup more]
  /\ touched' = [touched EXCEPT ![o] = {}]
  /\ UNCHANGED <<open, dbOpen, dbLit, order, diff, info, counts, history>>

\* StillOffByIsolator: the nearest open node on the normal path; open lines are not looked for.
\* (Its cache may answer with the next open node up for what hangs below a dark open switch; sections hold no switches.)
OpenNodes(n) == {i \in DOMAIN Upstream[n] : Upstream[n][i] \in open \ Lines}
Isolator(n) == IF OpenNodes(n) = {} THEN NoOne
               ELSE Upstream[n][CHOOSE i \in OpenNodes(n) : \A j \in OpenNodes(n) : i <= j]

\* mutant: a continuation takes every dark section behind its isolator, not those of the outage that ended
OpenContinuations_All(o) ==
  /\ pc[o] = "continue" /\ closed[o] # {}
  /\ \E i \in closed[o] :
       LET isos == {Isolator(n) : n \in Affected(i) \ Lit} \ {NoOne}
       IN  /\ \E q \in [1 .. Cardinality(isos) -> isos] :
                /\ \A a, b \in DOMAIN q : q[a] = q[b] => a = b
                /\ outages' = outages \o [k \in DOMAIN q |->
                                            NewOutage(q[k], {n \in Dark : Isolator(n) = q[k]}, i)]
           /\ closed' = [closed EXCEPT ![o] = @ \ {i}]
  /\ UNCHANGED <<open, dbOpen, dbLit, pc, order, diff, info, touched, counts, history>>

\* openContinuations, one closed outage per step: a new record for every isolator of what is still dark.
OpenContinuations(o) ==
  /\ pc[o] = "continue" /\ closed[o] # {}
  /\ \E i \in closed[o] :
       LET off  == Affected(i) \ Lit
           isos == {Isolator(n) : n \in off} \ {NoOne}
       IN  /\ \E q \in [1 .. Cardinality(isos) -> isos] :
                /\ \A a, b \in DOMAIN q : q[a] = q[b] => a = b   \* Go ranges over the groups in any order
                /\ outages' = outages \o [k \in DOMAIN q |->
                                            NewOutage(q[k], {n \in off : Isolator(n) = q[k]}, i)]
           /\ closed' = [closed EXCEPT ![o] = @ \ {i}]
  /\ UNCHANGED <<open, dbOpen, dbLit, pc, order, diff, info, touched, counts, history>>

Finish(o) ==
  /\ pc[o] = "continue" /\ closed[o] = {} /\ Goto(o, "idle")
  /\ UNCHANGED <<open, stored, locals, counts, history>>

(***************************************************************************)
(* A statement fails: execManeuver returns with the graph already changed, *)
(* except in the closing part, whose errors are ignored.  Of the flags,    *)
(* stored in several statements, some may have got their value.            *)
(***************************************************************************)
StatementFails(o) ==
  /\ faults < MaxFaults /\ faults' = faults + 1
  /\ \/ pc[o] \in {"store", "energize", "record", "outage"} /\ Goto(o, "idle") /\ UNCHANGED closed
     \/ pc[o] = "closeOwn" /\ Goto(o, "touch") /\ closed' = [closed EXCEPT ![o] = {}]
     \/ pc[o] \in {"touch", "closeOther"} /\ Goto(o, "continue") /\ UNCHANGED closed
     \/ /\ pc[o] = "continue" /\ UNCHANGED pc
        /\ \E i \in closed[o] : closed' = [closed EXCEPT ![o] = @ \ {i}]
  /\ \E some \in SUBSET (IF pc[o] = "energize" THEN diff[o] ELSE {}) :
       dbLit' = IF Opening(o) THEN dbLit \ some ELSE dbLit \cup some
  /\ touched' = [touched EXCEPT ![o] = {}]
  /\ failed' = TRUE /\ interrupted' = TRUE
  /\ UNCHANGED <<open, dbOpen, outages, order, diff, info, maneuvers, crashes>>

\* mutant: the flags are not stored again after a restart
Restart_NoHook ==
  /\ crashes < MaxCrashes /\ crashes' = crashes + 1
  /\ open' = dbOpen
  /\ pc' = [o \in Operators |-> "idle"]
  /\ touched' = [o \in Operators |-> {}] /\ closed' = [o \in Operators |-> {}]
  /\ failed' = FALSE
  /\ interrupted' = (interrupted \/ \E o \in Operators : pc[o] # "idle")
  /\ UNCHANGED <<dbOpen, dbLit, outages, order, diff, info, maneuvers, faults>>

\* The server restarts: Graph.Load takes the stored positions, and the hook of RebuildDistances stores the flags.
\* An error of the hook is only logged: the server serves with the flags as they were, or some of them changed.
\* (If Load itself fails the graph stays empty and refuses every maneuver, as if the server had not come up.)
Restart ==
  /\ crashes < MaxCrashes /\ crashes' = crashes + 1
  /\ open' = dbOpen
  /\ \/ dbLit' = Supplied(dbOpen) /\ failed' = FALSE /\ UNCHANGED faults
     \/ /\ faults < MaxFaults /\ faults' = faults + 1 /\ failed' = TRUE
        /\ \E some \in SUBSET Sections : dbLit' = (dbLit \ some) \cup (Supplied(dbOpen) \cap some)
  /\ pc' = [o \in Operators |-> "idle"]
  /\ touched' = [o \in Operators |-> {}] /\ closed' = [o \in Operators |-> {}]
  /\ interrupted' = (interrupted \/ \E o \in Operators : pc[o] # "idle")
  /\ UNCHANGED <<dbOpen, outages, order, diff, info, maneuvers>>

Init ==
  /\ open \in SUBSET (Elements \ Lines) /\ Supplied(open) = Sections   \* ties open, everyone supplied
  /\ dbOpen = open /\ dbLit = Sections /\ outages = <<>>
  /\ pc = [o \in Operators |-> "idle"]
  /\ order = [o \in Operators |-> [elem |-> NoOne, open |-> FALSE]]
  /\ diff = [o \in Operators |-> {}] /\ info = [o \in Operators |-> FALSE]
  /\ touched = [o \in Operators |-> {}] /\ closed = [o \in Operators |-> {}]
  /\ maneuvers = 0 /\ faults = 0 /\ crashes = 0
  /\ failed = FALSE /\ interrupted = FALSE

Next ==
  \/ \E o \in Operators :
       \/ \E e \in Elements, opening \in BOOLEAN : Maneuver(o, e, opening)
       \/ ReadBack(o) \/ StorePosition(o) \/ StoreEnergized(o) \/ RecordManeuver(o)
       \/ OpenOutage(o)
       \/ CloseOutages(o) \/ ActiveOutagesTouching(o) \/ CloseOutageIDs(o)
       \/ OpenContinuations(o) \/ Finish(o)
       \/ StatementFails(o)
  \/ Restart

Spec == Init /\ [][Next]_vars
-----------------------------------------------------------------------------
(***************************************************************************)
(* Properties.                                                             *)
(***************************************************************************)
AtRest == \A o \in Operators : pc[o] = "idle"

Outage == [cause : Elements, nodes : (SUBSET Sections) \ {{}}, parent : {NoOne} \cup Nat, active : BOOLEAN]

\* Every variable has its type; an outage is about at least one section, and its parent is an earlier one.
TypeOK ==
  /\ open \subseteq Elements /\ dbOpen \subseteq Elements /\ dbLit \subseteq Sections
  /\ outages \in Seq(Outage) /\ \A i \in DOMAIN outages : outages[i].parent \in {NoOne} \cup 1 .. (i - 1)
  /\ pc \in [Operators -> {"idle", "info", "store", "energize", "record", "outage",
                           "closeOwn", "touch", "closeOther", "continue"}]
  /\ order \in [Operators -> [elem : Elements \cup {NoOne}, open : BOOLEAN]]
  /\ diff \in [Operators -> SUBSET Sections] /\ info \in [Operators -> BOOLEAN]
  /\ touched \in [Operators -> SUBSET DOMAIN outages] /\ closed \in [Operators -> SUBSET DOMAIN outages]

\* When no maneuver is under way, each dark customer is in exactly one active outage: continuations cover what
\* a partial restoration leaves dark, and nobody's outage is counted twice.
DarkCoveredOnce ==
  AtRest /\ ~interrupted => \A n \in Dark : Cardinality({i \in Active : n \in Affected(i)}) = 1

\* When no maneuver is under way, an active outage holds dark customers only: restoration by another path
\* ends it too.
ActiveOutagesDark == AtRest /\ ~interrupted => \A i \in Active : Affected(i) \subseteq Dark

\* When no maneuver is under way and no statement failed since the last restart, or in it, the stored positions and
\* flags are those of the graph, again after a restart in the middle of a maneuver.  (A statement that failed does
\* leave them apart until the next restart: execManeuver changes the graph first and undoes nothing.)
StoredInSync == AtRest /\ ~failed => dbOpen = open /\ dbLit = Lit

\* A continuation is opened only for an outage that has ended, whose customers it takes over: SAIFI counts
\* the parent alone.
ContinuationAfterParent ==
  \A i \in DOMAIN outages :
    LET p == outages[i].parent
    IN  p # NoOne => ~outages[p].active /\ Affected(i) \subseteq Affected(p)

\* The README: "Manuver close pada alat yang sama menutup kejadian dan mencatat pemulihan": with no maneuver
\* under way and none interrupted, an element that is closed has no active outage of its own.
CloseEndsOutage ==
  AtRest /\ ~interrupted => \A i \in Active : outages[i].cause \in open

\* The comment of openContinuations: "setelah kejadian padam ditutup, pelanggan yang masih padam ... dicatat
\* sebagai kejadian lanjutan": with no maneuver under way, every dark customer is in an active outage.
DarkCovered == AtRest /\ ~interrupted => Dark \subseteq UNION {Affected(i) : i \in Active}

-----------------------------------------------------------------------------
(* Values of the constants, for the runs *)

\* A feeder of two sections with a tie at its end:
\* source - head - n1 - mid - n2 - tie - other source.
FeederPaths == [n \in Sections |-> IF n = "n1" THEN {{"head"}, {"tie", "mid"}} ELSE {{"head", "mid"}, {"tie"}}]
FeederUpstream == [n \in Sections |-> IF n = "n1" THEN <<"head">> ELSE <<"mid", "head">>]
=============================================================================
