----------------------- MODULE GraphConcurrency_proofs -----------------------
(***************************************************************************)
(* Proofs about GraphConcurrency, for any number of goroutines, objects    *)
(* and retries.                                                            *)
(***************************************************************************)
EXTENDS GraphConcurrency, TLAPS

(***************************************************************************)
(* The typing invariant is inductive: each action keeps it.                *)
(***************************************************************************)

\* rebuild's two sections keep the types: a thread that commits carries a map.
LEMMA TypeRebuild == ASSUME TypeOK, NEW t \in Threads, Bfs(t) \/ Retry(t) \/ Commit(t) PROVE TypeOK'
<1> USE SetsAssumption, BoundsAssumption, NoneAssumption
        DEF TypeOK, Labels, network, caches, timers, tables, Goto, Note
<1>1. CASE Bfs(t) 
  <2>1. Here \in Networks BY DEF Here, Networks
  <2> QED BY <1>1, <2>1 DEF Bfs
<1>2. CASE Retry(t) BY <1>2 DEF Retry
<1>3. CASE Commit(t) BY <1>3 DEF Commit, Excused
<1> QED BY <1>1, <1>2, <1>3

\* A maneuver and the storing of the position it read back.
LEMMA TypeManeuver ==
  ASSUME TypeOK, NEW t \in Threads,
         \/ \E s \in Switches : Maneuver(t, s) \/ ManeuverAgain(t, s)
         \/ Info(t) \/ Store(t)
  PROVE  TypeOK'
<1> USE SetsAssumption, NoneAssumption
        DEF TypeOK, Labels, network, caches, timers, tables, Goto
<1>1. ASSUME NEW s \in Switches, Maneuver(t, s) PROVE TypeOK'
  <2>1. off' \subseteq Switches BY <1>1 DEF Maneuver, MovedIn, Here
  <2>2. MovedIn(dist, s) \in Networks
    <3> DEFINE o == IF s \in dist.off THEN dist.off \ {s} ELSE dist.off \cup {s}
    <3>1. dist \in Networks /\ o \in SUBSET Switches BY DEF Networks
    <3> HIDE DEF o
    <3>2. [dist EXCEPT !.off = o] \in Networks BY ONLY <3>1 DEF Networks
    <3>3. MovedIn(dist, s) = [dist EXCEPT !.off = o] BY ONLY Zenon DEF MovedIn, o
    <3> QED BY ONLY <3>2, <3>3, Zenon
  <2>3. CASE distDirty
    <3>1. /\ pc' = [pc EXCEPT ![t] = "bfs"] /\ target' = [target EXCEPT ![t] = s]
          /\ after' = [after EXCEPT ![t] = "info"] /\ attempt' = [attempt EXCEPT ![t] = 0]
          /\ gen' = gen + 1
          /\ UNCHANGED <<caches, held, ver, loads, timers, tables, seen, rows>>
      BY <1>1, <2>3 DEF Maneuver
    <3> QED BY <2>1, <3>1
  <2>4. CASE ~distDirty
    <3>1. dist' \in Networks /\ dist' # None BY <1>1, <2>2, <2>4 DEF Maneuver
    <3>2. held' = [u \in Threads |-> IF u \in alias THEN dist' ELSE held[u]]
      BY <1>1, <2>4 DEF Maneuver
    <3>3. held' \in [Threads -> Networks \cup {None}] BY <3>1, <3>2
    <3>4. \A u \in Threads : held[u] # None => held'[u] # None BY <3>1, <3>2
    <3>5. ndist' \in Networks \cup {None} BY <1>1, <2>4, <3>1 DEF Maneuver
    <3> QED BY <1>1, <2>1, <2>4, <3>1, <3>3, <3>4, <3>5 DEF Maneuver
  <2> QED BY <2>3, <2>4
<1>2. ASSUME NEW s \in Switches, ManeuverAgain(t, s) PROVE TypeOK' BY <1>2 DEF ManeuverAgain
<1>3. CASE Info(t)
  <2>1. Here \in Networks BY DEF Here, Networks
  <2> QED BY <1>3, <2>1 DEF Info
<1>4. CASE Store(t)
  <2>1. rows[t].off \subseteq Switches BY <1>4 DEF Store, Networks
  <2> QED BY <1>4, <2>1 DEF Store
<1> QED BY <1>1, <1>2, <1>3, <1>4

\* An edit, the refresh that follows it, and the two timers it arms.
LEMMA TypeRefresh ==
  ASSUME TypeOK, NEW t \in Threads,
         \/ \E o \in Objects : Edit(t, o)
         \/ RefreshRead(t) \/ RefreshInstall(t) \/ ScheduleRebuild(t) \/ FireRebuild(t) \/ FireGroups(t)
  PROVE  TypeOK'
<1> USE SetsAssumption, NoneAssumption
        DEF TypeOK, Labels, network, caches, timers, tables, locals, Goto
<1>1. ASSUME NEW o \in Objects, Edit(t, o) PROVE TypeOK' BY <1>1 DEF Edit
<1>2. CASE RefreshRead(t)
  <2>1. [ver |-> dbVer, off |-> dbOff] \in Networks BY DEF Networks
  <2> QED BY <1>2, <2>1 DEF RefreshRead
<1>3. CASE RefreshInstall(t)
  <2>1. rows[t].off \subseteq Switches /\ rows[t].ver \in [Objects -> Nat]
    BY <1>3 DEF RefreshInstall, Networks
  <2>2. ver' \in [Objects -> Nat] BY <1>3, <2>1 DEF RefreshInstall
  <2> QED BY <1>3, <2>1, <2>2 DEF RefreshInstall
<1>4. CASE ScheduleRebuild(t) BY <1>4 DEF ScheduleRebuild
<1>5. CASE FireRebuild(t) BY <1>5 DEF FireRebuild
<1>6. CASE FireGroups(t) BY <1>6 DEF FireGroups
<1> QED BY <1>1, <1>2, <1>3, <1>4, <1>5, <1>6

\* The passes that fill ndist, and a reload.
LEMMA TypeGroups ==
  ASSUME TypeOK, NEW t \in Threads,
         Group(t) \/ Regroup(t) \/ LoadRead(t) \/ LoadInstall(t) \/ SldStart(t) \/ SldBuild(t) \/ SldStore(t)
  PROVE  TypeOK'
<1> USE SetsAssumption, NoneAssumption
        DEF TypeOK, Labels, network, caches, timers, tables, Goto, Note
<1>1. Normal \in Networks BY DEF Normal, Networks
<1>2. CASE Group(t)
  <2>1. held'[t] \in Networks /\ held' = [held EXCEPT ![t] = held'[t]]
    BY <1>1, <1>2 DEF Group
  <2> QED BY <1>2, <2>1 DEF Group
<1>3. CASE Regroup(t) BY <1>3 DEF Regroup, Overtaken
<1>4. CASE LoadRead(t)
  <2>1. [ver |-> dbVer, off |-> dbOff] \in Networks BY DEF Networks
  <2> QED BY <1>4, <2>1 DEF LoadRead
<1>5. CASE LoadInstall(t)
  <2>1. rows[t].off \subseteq Switches /\ rows[t].ver \in [Objects -> Nat]
    BY <1>5 DEF LoadInstall, Networks
  <2> QED BY <1>5, <2>1 DEF LoadInstall
<1>6. CASE SldStart(t) BY <1>6 DEF SldStart
<1>7. CASE SldBuild(t)
  <2>1. CASE ndist # None \/ (~distDirty /\ off = {})
    BY <1>7, <2>1 DEF SldBuild
  <2>2. CASE ~(ndist # None \/ (~distDirty /\ off = {}))
    <3>1. held' \in [Threads -> Networks \cup {None}] /\ held'[t] # None /\ \A u \in Threads \ {t} : held'[u] = held[u]
      BY <1>1, <1>7, <2>2 DEF SldBuild
    <3> QED BY <1>7, <2>2, <3>1 DEF SldBuild
  <2> QED BY <2>1, <2>2
<1>8. CASE SldStore(t)
  <2>1. CASE ndist = None /\ seen[t].gen = gen BY <1>8, <2>1 DEF SldStore, Overtaken
  <2>2. CASE ~(ndist = None /\ seen[t].gen = gen) BY <1>8, <2>2 DEF SldStore
  <2> QED BY <2>1, <2>2
<1> QED BY <1>2, <1>3, <1>4, <1>5, <1>6, <1>7, <1>8

\* Every reachable state is well typed (TypeOK), whatever the goroutines do.
THEOREM TypeCorrect == Spec => []TypeOK
<1>1. Init => TypeOK
  <2> SUFFICES ASSUME Init PROVE TypeOK OBVIOUS
  <2>1. Here \in Networks /\ [o \in Objects |-> 0] \in [Objects -> Nat] BY DEF Init, Here, Networks
  <2> QED BY <2>1 DEF Init, TypeOK, Labels
<1>2. TypeOK /\ [Next]_vars => TypeOK'
  <2> SUFFICES ASSUME TypeOK, [Next]_vars PROVE TypeOK' OBVIOUS
  <2>1. CASE UNCHANGED vars
    BY <2>1 DEF TypeOK, vars, network, caches, timers, tables, locals
  <2>2. ASSUME NEW t \in Threads, Request(t) \/ Step(t) PROVE TypeOK'
    BY <2>2, TypeRebuild, TypeManeuver, TypeRefresh, TypeGroups DEF Request, Step
  <2> QED BY <2>1, <2>2 DEF Next
<1> QED BY <1>1, <1>2, PTL DEF Spec

-----------------------------------------------------------------------------
(***************************************************************************)
(* The maps are right for the network as it stands.  DistCurrent and       *)
(* NormalCurrent are not inductive: what a thread carries between its read *)
(* section and its write section must be right too, unless the thread was  *)
(* overtaken, and a generation once noted is never ahead of the graph.     *)
(***************************************************************************)
Noted == \A t \in Threads : seen[t].gen <= gen /\ seen[t].loads <= loads
Carried(t) ==
  ~Overtaken(t) =>
    /\ pc[t] = "commit" => held[t] = Here
    /\ pc[t] = "regroup" /\ ~seen[t].stale => held[t] = Normal
    /\ pc[t] = "sldStore" => held[t] = Normal
Private == "ndist" \notin alias
Fresh == /\ Noted /\ Private
         /\ \A t \in Threads : Carried(t)
         /\ DistCurrent /\ NormalCurrent

\* Whenever gen or loads grows, every thread has been overtaken.
LEMMA AllOvertaken ==
  ASSUME TypeOK, Noted, UNCHANGED seen,
         \/ gen' = gen + 1 /\ loads' = loads
         \/ gen' = gen /\ loads' = loads + 1
  PROVE  Noted' /\ \A u \in Threads : Overtaken(u)'
BY DEF TypeOK, Noted, Overtaken

\* The steps that change the network: whoever carries a map has been overtaken.
LEMMA FreshChange ==
  ASSUME TypeOK, Fresh, NEW t \in Threads,
         (\E s \in Switches : Maneuver(t, s)) \/ RefreshInstall(t) \/ LoadInstall(t)
  PROVE  Fresh'
<1>1. ASSUME NEW s \in Switches, Maneuver(t, s) PROVE Fresh'
  <2>1. Noted' /\ \A u \in Threads : Overtaken(u)' BY <1>1, AllOvertaken DEF Maneuver, Fresh
  <2>2. ver' = ver /\ ndist' = ndist /\ nstale' = nstale /\ Private'
    BY <1>1 DEF Maneuver, Fresh, Private, caches
  <2>3. NormalCurrent' BY <2>2 DEF Fresh, NormalCurrent, Normal
  <2>4. DistCurrent'
    <3>1. CASE distDirty BY <1>1, <3>1 DEF Maneuver, DistCurrent, caches
    <3>2. CASE ~distDirty /\ ~stale
      <4>1. dist = Here /\ dist' = MovedIn(Here, s) /\ off' = MovedIn(Here, s).off
        BY <1>1, <3>2 DEF Maneuver, Fresh, DistCurrent
      <4>2. MovedIn(Here, s) = [ver |-> ver, off |-> MovedIn(Here, s).off] BY DEF MovedIn, Here
      <4> QED BY <2>2, <4>1, <4>2 DEF DistCurrent, Here
    <3>3. CASE ~distDirty /\ stale BY <1>1, <3>3 DEF Maneuver, DistCurrent
    <3> QED BY <3>1, <3>2, <3>3
  <2> QED BY <2>1, <2>2, <2>3, <2>4 DEF Fresh, Carried
<1>2. CASE RefreshInstall(t)
  <2>1. Noted' /\ \A u \in Threads : Overtaken(u)' BY <1>2, AllOvertaken DEF RefreshInstall, Fresh
  <2>2. distDirty' = TRUE /\ ndist' = None /\ Private'
    BY <1>2 DEF RefreshInstall, Fresh, Private
  <2> QED BY <2>1, <2>2 DEF Fresh, Carried, DistCurrent, NormalCurrent
<1>3. CASE LoadInstall(t)
  <2>1. Noted' /\ \A u \in Threads : Overtaken(u)' BY <1>3, AllOvertaken DEF LoadInstall, Fresh
  <2>2. distDirty' = TRUE /\ ndist' = None /\ Private'
    BY <1>3 DEF LoadInstall, Fresh, Private
  <2> QED BY <2>1, <2>2 DEF Fresh, Carried, DistCurrent, NormalCurrent
<1> QED BY <1>1, <1>2, <1>3

\* The passes: they read the network as it stands, and store what they carry.
LEMMA FreshPass ==
  ASSUME TypeOK, Fresh, NEW t \in Threads,
         \/ Bfs(t) \/ Retry(t) \/ Commit(t) \/ Group(t) \/ Regroup(t)
         \/ SldStart(t) \/ SldBuild(t) \/ SldStore(t)
  PROVE  Fresh'
<1> USE DEF TypeOK, Fresh, Noted, Private, network, caches, Goto
<1>1. CASE Bfs(t)
  <2>1. DistCurrent' /\ NormalCurrent' BY <1>1 DEF Bfs, DistCurrent, NormalCurrent, Here, Normal
  <2>2. Noted' /\ Private' BY <1>1 DEF Bfs, Note
  <2>3. \A u \in Threads : Carried(u)'
    BY <1>1 DEF Bfs, Note, Carried, Overtaken, Here, Normal
  <2> QED BY <2>1, <2>2, <2>3
<1>2. CASE Retry(t)
  <2>1. DistCurrent' /\ NormalCurrent' BY <1>2 DEF Retry, DistCurrent, NormalCurrent, Here, Normal
  <2>2. Noted' /\ Private' BY <1>2 DEF Retry
  <2>3. \A u \in Threads : Carried(u)'
    BY <1>2 DEF Retry, Carried, Overtaken, Here, Normal
  <2> QED BY <2>1, <2>2, <2>3
<1>3. CASE Commit(t)
  <2>1. DistCurrent' BY <1>3 DEF Commit, Carried, DistCurrent, Overtaken, Excused, Here
  <2>2. NormalCurrent' BY <1>3 DEF Commit, NormalCurrent, Normal
  <2>3. Noted' /\ Private' BY <1>3 DEF Commit
  <2>4. \A u \in Threads : Carried(u)'
    BY <1>3 DEF Commit, Carried, Overtaken, Here, Normal
  <2> QED BY <2>1, <2>2, <2>3, <2>4
<1>4. CASE Group(t)
  <2>1. DistCurrent' /\ NormalCurrent' BY <1>4 DEF Group, DistCurrent, NormalCurrent, Here, Normal
  <2>2. Noted' /\ Private' BY <1>4, HolderAssumption DEF Group, Note
  <2>3. Carried(t)'
    <3>1. ~stale => held'[t] = Normal BY <1>4 DEF Group, DistCurrent, Here, Normal
    <3>2. seen'[t].stale = stale /\ pc'[t] = "regroup" BY <1>4 DEF Group, Note
    <3>3. Normal' = Normal BY <1>4 DEF Group, Normal
    <3> QED BY <3>1, <3>2, <3>3 DEF Carried
  <2>4. ASSUME NEW u \in Threads \ {t} PROVE Carried(u)'
    <3>1. held'[u] = held[u] /\ seen'[u] = seen[u] /\ pc'[u] = pc[u] BY <1>4 DEF Group, Note
    <3> QED BY <1>4, <3>1 DEF Group, Carried, Overtaken, Here, Normal
  <2> QED BY <2>1, <2>2, <2>3, <2>4
<1>5. CASE Regroup(t)
  <2>1. DistCurrent' BY <1>5 DEF Regroup, DistCurrent, Here
  <2>2. NormalCurrent' BY <1>5 DEF Regroup, Carried, Overtaken, NormalCurrent, Normal
  <2>3. Noted' /\ Private' BY <1>5 DEF Regroup
  <2>4. \A u \in Threads : Carried(u)'
    BY <1>5 DEF Regroup, Carried, Overtaken, Here, Normal
  <2> QED BY <2>1, <2>2, <2>3, <2>4
<1>6. CASE SldStart(t)
  <2>1. DistCurrent' /\ NormalCurrent' BY <1>6 DEF SldStart, DistCurrent, NormalCurrent, Here, Normal
  <2>2. Noted' /\ Private' BY <1>6 DEF SldStart, Note
  <2>3. \A u \in Threads : Carried(u)'
    BY <1>6 DEF SldStart, Note, Carried, Overtaken, Here, Normal
  <2> QED BY <2>1, <2>2, <2>3
<1>7. CASE SldBuild(t)
  <2>1. DistCurrent' /\ NormalCurrent' BY <1>7 DEF SldBuild, DistCurrent, NormalCurrent, Here, Normal
  <2>2. Noted' /\ Private' BY <1>7 DEF SldBuild
  <2>3. Carried(t)' BY <1>7 DEF SldBuild, Carried, Normal
  <2>4. ASSUME NEW u \in Threads \ {t} PROVE Carried(u)'
    <3>1. held'[u] = held[u] /\ seen'[u] = seen[u] /\ pc'[u] = pc[u] BY <1>7 DEF SldBuild
    <3> QED BY <1>7, <3>1 DEF SldBuild, Carried, Overtaken, Here, Normal
  <2> QED BY <2>1, <2>2, <2>3, <2>4
<1>8. CASE SldStore(t)
  <2>1. DistCurrent' BY <1>8 DEF SldStore, DistCurrent, Here
  <2>2. NormalCurrent' BY <1>8 DEF SldStore, Carried, Overtaken, NormalCurrent, Normal
  <2>3. Noted' /\ Private' BY <1>8 DEF SldStore
  <2>4. \A u \in Threads : Carried(u)'
    BY <1>8 DEF SldStore, Carried, Overtaken, Here, Normal
  <2> QED BY <2>1, <2>2, <2>3, <2>4
<1> QED BY <1>1, <1>2, <1>3, <1>4, <1>5, <1>6, <1>7, <1>8

\* The other steps touch neither the network nor its maps, nor what a thread carries.
LEMMA FreshOther ==
  ASSUME TypeOK, Fresh, NEW t \in Threads,
         \/ \E s \in Switches : ManeuverAgain(t, s)
         \/ Info(t) \/ Store(t)
         \/ \E o \in Objects : Edit(t, o)
         \/ RefreshRead(t) \/ ScheduleRebuild(t) \/ FireRebuild(t) \/ FireGroups(t) \/ LoadRead(t)
  PROVE  Fresh'
<1>1. /\ UNCHANGED <<network, caches, seen, held>>
      /\ \E l \in Labels \ {"commit", "regroup", "sldStore"} : pc' = [pc EXCEPT ![t] = l]
  BY DEF ManeuverAgain, Info, Store, Edit, RefreshRead, ScheduleRebuild, FireRebuild, FireGroups,
         LoadRead, Goto, Labels, locals
<1>2. DistCurrent' /\ NormalCurrent' /\ Noted' /\ Private'
  BY <1>1 DEF Fresh, DistCurrent, NormalCurrent, Noted, Private, Here, Normal, network, caches
<1>3. \A u \in Threads : Carried(u)'
  BY <1>1 DEF TypeOK, Fresh, Carried, Overtaken, Here, Normal, network, caches
<1> QED BY <1>2, <1>3 DEF Fresh

\* The strengthened invariant holds in every reachable state.
THEOREM Freshness == Spec => []Fresh
<1>1. Init => Fresh
  BY DEF Init, Fresh, Noted, Private, Carried, DistCurrent, NormalCurrent, Here, Normal
<1>2. TypeOK /\ Fresh /\ [Next]_vars => Fresh'
  <2> SUFFICES ASSUME TypeOK, Fresh, [Next]_vars PROVE Fresh' OBVIOUS
  <2>1. CASE UNCHANGED vars
    BY <2>1 DEF Fresh, Noted, Private, Carried, Overtaken, DistCurrent, NormalCurrent, Here, Normal,
                vars, network, caches, timers, tables, locals
  <2>2. ASSUME NEW t \in Threads, Request(t) \/ Step(t) PROVE Fresh'
    BY <2>2, FreshChange, FreshPass, FreshOther DEF Request, Step
  <2> QED BY <2>1, <2>2 DEF Next
<1> QED BY <1>1, <1>2, TypeCorrect, PTL DEF Spec

\* Clean distances are those of the network as it stands, for any number of goroutines and any number of
\* retries, unless rebuild ran out of attempts or a reload overtook it.
THEOREM DistancesCurrent == Spec => []DistCurrent
<1>1. Fresh => DistCurrent BY DEF Fresh
<1> QED BY <1>1, Freshness, PTL

\* The cached normal-position distances are right unless the regroup that stored them was overtaken.
THEOREM NormalDistancesCurrent == Spec => []NormalCurrent
<1>1. Fresh => NormalCurrent BY DEF Fresh
<1> QED BY <1>1, Freshness, PTL

\* No maneuver ever alters the cached normal-position distances: the copy of computeGroups is enough.
THEOREM ManeuverLeavesNormal == Spec => ManeuverKeepsNormal
<1>1. Fresh /\ [Next]_vars => [\A t \in Threads, s \in Switches : Maneuver(t, s) => UNCHANGED ndist]_vars
  BY DEF Fresh, Private, Maneuver, caches
<1> QED BY <1>1, Freshness, PTL DEF Spec, ManeuverKeepsNormal
=============================================================================
