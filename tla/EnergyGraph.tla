---------------------------- MODULE EnergyGraph ----------------------------
(***************************************************************************)
(* The in-memory network graph of backend/internal/gis/graph.go: positions *)
(* of switches, cut objects and cut lines, the hop distance of every       *)
(* supplied node from its nearest closed source, and the energized flags   *)
(* that are persisted and drawn on the map.                                *)
(*                                                                         *)
(* A maneuver updates the distances incrementally: opening re-seeds the    *)
(* cone below the opened element, closing relaxes from it.  An edit        *)
(* (Refresh) only marks the distances dirty; a full breadth-first pass     *)
(* follows later.  Every action here is one critical section of Graph.mu;  *)
(* GraphConcurrency interleaves those sections.                            *)
(***************************************************************************)
EXTENDS Integers, FiniteSets, SequencesExt

CONSTANTS
  Nodes, Edges,
  Sources,      \* component_types.is_source
  Switches,     \* component_types.is_switch
  MultiWay,     \* switches whose type has three ways or more
  Topologies,   \* the networks an edit may produce: functions from a set of edges to pairs of nodes
  NormalOpen,   \* switches whose normal position is open (flagNormalOpen)
  NormalWays    \* ways whose normal position is open: pairs <<node, edge>>

ASSUME NodesAssumption == /\ IsFiniteSet(Nodes)
                          /\ Sources \subseteq Nodes
                          /\ MultiWay \subseteq Switches
                          /\ Switches \subseteq Nodes
                          /\ Sources \cap Switches = {}
ASSUME TopologyAssumption ==
  /\ \A t \in Topologies : DOMAIN t \subseteq Edges /\ \A e \in DOMAIN t : t[e] \in Nodes \X Nodes
  /\ NormalOpen \subseteq Switches /\ NormalWays \subseteq MultiWay \X Edges

VARIABLES
  ends,        \* Graph.edges: the two ends of every edge present
  nodeOpen,    \* nodes with flagOpen
  edgeOpen,    \* edges with open
  openWays,    \* Graph.openWays as pairs <<node, edge>>
  dist,        \* Graph.dist: a function on the supplied nodes
  distDirty,
  nodeOn, edgeOn   \* flagEnergized of the nodes, energized of the edges

vars == <<ends, nodeOpen, edgeOpen, openWays, dist, distDirty, nodeOn, edgeOn>>
positions == <<nodeOpen, edgeOpen, openWays>>

Present == DOMAIN ends
Other(e, n) == IF ends[e][1] = n THEN ends[e][2] ELSE ends[e][1]
Adj(n) == {e \in Present : n \in {ends[e][1], ends[e][2]}}
Rounds == 0 .. Cardinality(Nodes)   \* no shortest path is longer

(***************************************************************************)
(* What conducts, as a function of a set of positions.                     *)
(***************************************************************************)
Passable(e, eo, ways) == e \notin eo /\ \A i \in 1..2 : <<ends[e][i], e>> \notin ways
Blocked(n, open) == n \in open /\ n \notin Switches

\* The neighbours that node n feeds: it is closed, the edge passes, the neighbour is not a cut object.
Fed(n, open, eo, ways) ==
  IF n \in open THEN {}
  ELSE {m \in {Other(e, n) : e \in {x \in Adj(n) : Passable(x, eo, ways)}} : ~Blocked(m, open)}

\* bfsLocked, level by level from the closed sources: what the nodes at distance k - 1 feed is at distance k.
Spread(d, k, open, eo, ways) ==
  LET new == UNION {Fed(n, open, eo, ways) : n \in {m \in DOMAIN d : d[m] = k - 1}}
  IN  [n \in DOMAIN d \cup new |-> IF n \in DOMAIN d THEN d[n] ELSE k]
Levels(open, eo, ways) ==
  LET level[k \in Rounds] ==
        IF k = 0 THEN [n \in Sources \ open |-> 0] ELSE Spread(level[k - 1], k, open, eo, ways)
  IN  level
Bfs(open, eo, ways) == Levels(open, eo, ways)[Cardinality(Nodes)]

EdgesOn(d, eo) == {e \in Present \ eo : ends[e][1] \in DOMAIN d /\ ends[e][2] \in DOMAIN d}

(***************************************************************************)
(* Opening: reseedConeLocked.  The cone is what may hang below the roots   *)
(* in steps of +1; its distances are dropped and settled again from the    *)
(* supplied neighbours outside it.                                         *)
(***************************************************************************)
\* mutant: the region is the roots alone
Cone_Shallow(roots, d, open, eo, ways) == roots

\* What hangs below node n of the cone: a root is always looked below, another open node is not.
Hanging(n, roots, d, open, eo, ways) ==
  IF n \in DOMAIN d /\ (n \in roots \/ n \notin open)
  THEN {m \in {Other(e, n) : e \in {x \in Adj(n) : Passable(x, eo, ways)}} : m \in DOMAIN d /\ d[m] = d[n] + 1}
  ELSE {}
Cones(roots, d, open, eo, ways) ==
  LET grow[k \in Rounds] == IF k = 0 THEN roots
                            ELSE grow[k - 1] \cup UNION {Hanging(n, roots, d, open, eo, ways) : n \in grow[k - 1]}
  IN  grow
Cone(roots, d, open, eo, ways) == Cones(roots, d, open, eo, ways)[Cardinality(Nodes)]

\* A node of the cone gets distance k when a node at distance k - 1 feeds it.
Settle(s, k, cone, open, eo, ways) ==
  LET new == {n \in cone \ DOMAIN s : \E x \in DOMAIN s : s[x] = k - 1 /\ n \in Fed(x, open, eo, ways)}
  IN  [n \in DOMAIN s \cup new |-> IF n \in DOMAIN s THEN s[n] ELSE k]
Reseeds(cone, d, open, eo, ways) ==
  LET settle[k \in Rounds] ==
        IF k = 0 THEN [n \in DOMAIN d \ cone |-> d[n]] ELSE Settle(settle[k - 1], k, cone, open, eo, ways)
  IN  settle
Reseed(cone, d, open, eo, ways) == Reseeds(cone, d, open, eo, ways)[Cardinality(Nodes)]

(***************************************************************************)
(* Closing: relaxFromLocked.  A seed without a distance takes the best one *)
(* its neighbours offer; shorter distances then spread from the seeds.     *)
(***************************************************************************)
LabelSeed(d, s, open, eo, ways) ==
  LET offers == {d[x] + 1 : x \in {y \in DOMAIN d : s \in Fed(y, open, eo, ways)}}
                  \cup (IF s \in Sources \ open THEN {0} ELSE {})
  IN  IF s \in DOMAIN d \/ Blocked(s, open) \/ offers = {} THEN d
      ELSE [n \in DOMAIN d \cup {s} |-> IF n = s THEN Min(offers) ELSE d[n]]

Labels(seeds, d, open, eo, ways) ==
  LET label[i \in 0 .. Len(seeds)] ==
        IF i = 0 THEN d ELSE LabelSeed(label[i - 1], seeds[i], open, eo, ways)
  IN  label

\* The nodes at distance k - 1 that are in the heap, the seeds and what has changed, shorten what they feed to k.
Shorten(r, k, seeds, d, open, eo, ways) ==
  LET inHeap(n) == n \in Range(seeds) \/ n \notin DOMAIN d \/ r[n] # d[n]
      front     == {n \in DOMAIN r : r[n] = k - 1 /\ inHeap(n)}
      better    == {m \in UNION {Fed(n, open, eo, ways) : n \in front} : m \notin DOMAIN r \/ r[m] > k}
  IN  [n \in DOMAIN r \cup better |-> IF n \in better THEN k ELSE r[n]]
Relaxations(seeds, d, open, eo, ways) ==
  LET relaxed[k \in Rounds] ==
        IF k = 0 THEN Labels(seeds, d, open, eo, ways)[Len(seeds)]
        ELSE Shorten(relaxed[k - 1], k, seeds, d, open, eo, ways)
  IN  relaxed
Relax(seeds, d, open, eo, ways) == Relaxations(seeds, d, open, eo, ways)[Cardinality(Nodes)]

Moved(d, e) == {n \in DOMAIN d \cup DOMAIN e :
                  ~(n \in DOMAIN d /\ n \in DOMAIN e /\ d[n] = e[n])}

(***************************************************************************)
(* applyEnergyLocked: only the touched nodes and the edges at them are     *)
(* brought in line with the new distances.                                 *)
(***************************************************************************)
\* mutant: the lines at a touched node keep their flag
ApplyEnergy_NodesOnly(touched, d, eo) ==
  nodeOn' = (nodeOn \ touched) \cup (touched \cap DOMAIN d) /\ UNCHANGED edgeOn
\* mutant: a touched node is only ever switched off
ApplyEnergy_NeverOn(touched, d, eo) ==
  LET near == UNION {Adj(n) : n \in touched}
  IN  /\ nodeOn' = nodeOn \ touched
      /\ edgeOn' = (edgeOn \ near) \cup (near \cap EdgesOn(d, eo))

ApplyEnergy(touched, d, eo) ==
  LET near == UNION {Adj(n) : n \in touched}
  IN  /\ nodeOn' = (nodeOn \ touched) \cup (touched \cap DOMAIN d)
      /\ edgeOn' = (edgeOn \ near) \cup (near \cap EdgesOn(d, eo))

\* rebuild: full pass, every flag compared.
RebuildWith(open, eo, ways) ==
  /\ dist' = Bfs(open, eo, ways)
  /\ nodeOn' = DOMAIN dist'
  /\ edgeOn' = EdgesOn(dist', eo)
  /\ distDirty' = FALSE

\* The common tail of Maneuver: positions become open/eo/ways; a dirty graph is rebuilt.
Move(opening, roots, seeds, open, eo, ways) ==
  /\ nodeOpen' = open /\ edgeOpen' = eo /\ openWays' = ways
  /\ UNCHANGED ends
  /\ IF distDirty THEN RebuildWith(open, eo, ways)
     ELSE /\ LET cone == Cone(roots, dist, open, eo, ways)
             IN  /\ dist' = IF opening THEN Reseed(cone, dist, open, eo, ways)
                                       ELSE Relax(seeds, dist, open, eo, ways)
                 /\ ApplyEnergy(Range(seeds) \cup (IF opening THEN cone ELSE Moved(dist, dist')),
                                dist', eo)
          /\ UNCHANGED distDirty

(***************************************************************************)
(* Maneuver: the roots are found from the OLD distances and positions.     *)
(***************************************************************************)
Below(u, v) == u \in DOMAIN dist /\ v \in DOMAIN dist /\ dist[v] = dist[u] + 1 /\ u \notin nodeOpen

LineRoots(e) ==
  IF ~Passable(e, edgeOpen, openWays) THEN {}
  ELSE {v \in {ends[e][1], ends[e][2]} : Below(Other(e, v), v)}

\* mutant: a cut object is treated like a switch, only what hangs below it goes off
NodeRoots_BelowOnly(n) ==
  IF n \notin DOMAIN dist THEN {}
  ELSE {m \in {Other(e, n) : e \in {x \in Adj(n) : Passable(x, edgeOpen, openWays)}} :
          m \in DOMAIN dist /\ dist[m] = dist[n] + 1}

NodeRoots(n) ==
  IF n \notin DOMAIN dist THEN {}
  ELSE IF n \notin Switches THEN {n}
  ELSE {m \in {Other(e, n) : e \in {x \in Adj(n) : Passable(x, edgeOpen, openWays)}} :
          m \in DOMAIN dist /\ dist[m] = dist[n] + 1}

OpenLine(e) ==
  /\ e \in Present \ edgeOpen
  /\ Move(TRUE, LineRoots(e), ends[e], nodeOpen, edgeOpen \cup {e}, openWays)

CloseLine(e) ==
  /\ e \in Present \cap edgeOpen
  /\ Move(FALSE, {}, ends[e], nodeOpen, edgeOpen \ {e}, openWays)

\* mutant: the object is not checked to be a switch with ways
OpenWay_AnyNode(n, e) ==
  /\ e \in Adj(n) /\ <<n, e>> \notin openWays
  /\ Move(TRUE, LineRoots(e), <<n, Other(e, n)>>, nodeOpen, edgeOpen, openWays \cup {<<n, e>>})

OpenWay(n, e) ==
  /\ n \in MultiWay /\ e \in Adj(n) /\ <<n, e>> \notin openWays
  /\ Move(TRUE, LineRoots(e), <<n, Other(e, n)>>, nodeOpen, edgeOpen, openWays \cup {<<n, e>>})

CloseWay(n, e) ==
  /\ n \in MultiWay /\ e \in Adj(n) /\ <<n, e>> \in openWays
  /\ Move(FALSE, {}, <<n, Other(e, n)>>, nodeOpen, edgeOpen, openWays \ {<<n, e>>})

OpenNode(n) ==
  /\ n \in Nodes \ nodeOpen
  /\ Move(TRUE, NodeRoots(n), <<n>>, nodeOpen \cup {n}, edgeOpen, openWays)

CloseNode(n) ==
  /\ n \in nodeOpen
  /\ Move(FALSE, {}, <<n>>, nodeOpen \ {n}, edgeOpen, openWays)

(***************************************************************************)
(* Refresh after an edit, and the debounced full pass that follows it.     *)
(***************************************************************************)
Refresh(t) ==
  /\ t # ends
  /\ ends' = t
  /\ edgeOpen' = edgeOpen \cap DOMAIN t
  \* a row that is new in the table carries the column default, TRUE
  /\ edgeOn' = (edgeOn \cap DOMAIN t) \cup (DOMAIN t \ Present)
  /\ distDirty' = TRUE
  /\ UNCHANGED <<nodeOpen, openWays, dist, nodeOn>>

RebuildDistances ==
  /\ distDirty
  /\ RebuildWith(nodeOpen, edgeOpen, openWays)
  /\ UNCHANGED <<ends, positions>>

Init ==
  /\ ends \in Topologies
  /\ nodeOpen = NormalOpen /\ edgeOpen = {} /\ openWays = {w \in NormalWays : w[2] \in Adj(w[1])}
  /\ distDirty = FALSE
  /\ dist = Bfs(nodeOpen, edgeOpen, openWays)
  /\ nodeOn = DOMAIN dist /\ edgeOn = EdgesOn(dist, edgeOpen)

Next ==
  \/ \E e \in Edges : OpenLine(e)
  \/ \E e \in Edges : CloseLine(e)
  \/ \E n \in Nodes, e \in Edges : OpenWay(n, e)
  \/ \E n \in Nodes, e \in Edges : CloseWay(n, e)
  \/ \E n \in Nodes : OpenNode(n)
  \/ \E n \in Nodes : CloseNode(n)
  \/ \E t \in Topologies : Refresh(t)
  \/ RebuildDistances

Spec == Init /\ [][Next]_vars

-----------------------------------------------------------------------------
\* mutant: the open ways are not compared
SwitchesAtNormal_NodesOnly == nodeOpen \cap Switches = NormalOpen
\* switchesAtNormalLocked, and the shortcut computeGroups and normalDistLocked take with it.
SwitchesAtNormal == nodeOpen \cap Switches = NormalOpen /\ openWays = NormalWays
NormalDist == IF ~distDirty /\ SwitchesAtNormal THEN dist
              ELSE Bfs(NormalOpen, edgeOpen, NormalWays)

(***************************************************************************)
(* Properties.                                                             *)
(***************************************************************************)
\* Every variable of the graph has its type.
TypeOK ==
  /\ ends \in Topologies
  /\ nodeOpen \subseteq Nodes /\ edgeOpen \subseteq Edges /\ openWays \subseteq MultiWay \X Edges
  /\ DOMAIN dist \subseteq Nodes /\ \A n \in DOMAIN dist : dist[n] \in Nat
  /\ distDirty \in BOOLEAN /\ nodeOn \subseteq Nodes /\ edgeOn \subseteq Edges

\* After any sequence of maneuvers and rebuilds the incrementally maintained distances are those of a full
\* breadth-first pass: the cone and the relaxation recompute all that changed.
DistExact == ~distDirty => dist = Bfs(nodeOpen, edgeOpen, openWays)

\* A node is flagged energized exactly when a chain of conducting elements joins it to a closed source: it
\* belongs to every set that holds the closed sources and is closed under feeding.
Supplied(n) == \A S \in SUBSET Nodes :
  /\ Sources \ nodeOpen \subseteq S
  /\ \A m \in S : Fed(m, nodeOpen, edgeOpen, openWays) \subseteq S
  => n \in S
EnergizedIffSupplied == ~distDirty => nodeOn = {n \in Nodes : Supplied(n)}

\* A line is flagged energized exactly when it is closed and both its ends are supplied, even though a
\* maneuver only visits the lines at the nodes it touched.
LinesFollowEnds == ~distDirty => edgeOn = EdgesOn(dist, edgeOpen)

\* execManeuver reports only what went off when it opens and only what came on when it closes; on clean
\* distances nothing else can change, so the outage record is complete.
OneDirection ==
  [][ ~distDirty /\ ~distDirty' =>
        /\ (nodeOpen \subseteq nodeOpen' /\ edgeOpen \subseteq edgeOpen' /\ openWays \subseteq openWays'
              => nodeOn' \subseteq nodeOn)
        /\ (nodeOpen' \subseteq nodeOpen /\ edgeOpen' \subseteq edgeOpen /\ openWays' \subseteq openWays
              => nodeOn \subseteq nodeOn') ]_vars

\* computeGroups reuses the current distances when every switch is at its normal position; they are the
\* normal-position distances as long as no object that is not a switch is cut.
NormalDistWithoutCuts ==
  nodeOpen \subseteq Switches => NormalDist = Bfs(NormalOpen, edgeOpen, NormalWays)

\* The same without the proviso, as the comments state it ("bila semua switch pada posisi normal, jarak saat
\* ini = jarak posisi normal", graph.go): a cut substation or customer breaks it.
NormalDistExact == NormalDist = Bfs(NormalOpen, edgeOpen, NormalWays)
-----------------------------------------------------------------------------
(***************************************************************************)
(* Values of the constants, for the run.                                   *)
(***************************************************************************)
\* Two sources that meet at the three-way switch w: s1 - k - w - cust with a tie from s2 to w, and a second
\* line between k and cust that closes a loop.
Ring ==
  "e1" :> <<"s1", "k">> @@ "e2" :> <<"k", "w">> @@ "e3" :> <<"w", "cust">> @@ "e4" :> <<"s2", "w">> @@ "e5" :> <<"k", "cust">>
\* The same after an edit removed the loop line and moved the tie to the customer.
Radial ==
  "e1" :> <<"s1", "k">> @@ "e2" :> <<"k", "w">> @@ "e3" :> <<"w", "cust">> @@ "e4" :> <<"s2", "cust">>
RingAndRadial == {Ring, Radial}
TieOpen == {<<"w", "e3">>}
=============================================================================
