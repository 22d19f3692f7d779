-------------------------- MODULE GraphConcurrency --------------------------
(***************************************************************************)
(* The critical sections of gis.Graph (backend/internal/gis/graph.go) and  *)
(* the goroutines that interleave them: maneuvers, refreshes after an      *)
(* edit, full reloads, the debounced passes of scheduleRebuild, and the    *)
(* SLD builder that caches the normal-position distances.                  *)
(*                                                                         *)
(* Distances are abstracted to the network they were computed for: a pair  *)
(* of the installed version of every object and the set of switches off    *)
(* their normal position.  A maneuver on clean distances moves exactly its *)
(* own switch in that pair, in place (EnergyGraph shows that the pass is   *)
(* exact); a breadth-first pass makes a new pair.  Go maps are references: *)
(* "alias" names the holders whose map IS Graph.dist.                      *)
(***************************************************************************)
EXTENDS Integers, FiniteSets
LOCAL INSTANCE TLC

CONSTANTS
  Objects,      \* nodes and edges an edit may change
  Switches,     \* those that a maneuver moves
  Handlers,     \* request goroutines
  Timers,       \* goroutines the two timers may have running
  Retries,      \* repetitions rebuild allows itself: 3 in the code
  Work,         \* the requests that occur, out of the four kinds below
  MaxGen, MaxVer, MaxLoads,   \* bounds: gen when a maneuver starts, versions of one object, reloads
  None

Kinds == {"maneuver", "edit", "load", "sld"}
Threads == Handlers \cup Timers

ASSUME SetsAssumption == Switches \subseteq Objects /\ Work \subseteq Kinds /\ Handlers \cap Timers = {}
ASSUME HolderAssumption == "ndist" \notin Threads
ASSUME BoundsAssumption == Retries \in Nat /\ MaxGen \in Nat /\ MaxVer \in Nat /\ MaxLoads \in Nat
Networks == [ver : [Objects -> Nat], off : SUBSET Switches]
ASSUME NoneAssumption == None \notin Networks

VARIABLES
  ver, off,           \* Graph.nodes/edges: version of every object; switches off their normal position
  gen, loads,         \* Graph.gen; number of Load installs (history)
  dist, distDirty,    \* Graph.dist as the network it is right for, and its flag
  ndist,              \* Graph.ndist likewise, None when nil
  groups,             \* the network the feeder membership of the nodes was computed for
  alias,              \* threads whose map object is Graph.dist, and "ndist" if Graph.ndist is it
  rebuildDue, groupDue,        \* the two timers
  dbVer, dbOff,       \* the tables gis_nodes and gis_edges
  pc, after,          \* what each thread does next, and after a rebuild
  target,             \* the object of the thread's request
  attempt, seen,      \* rebuild's attempt; gen, and the history, as the thread last noted them
  held,               \* the map a thread carries from a read section to its write section
  rows,               \* rows a thread read from the tables
  stale, nstale       \* history: the last commit of dist (ndist) got past the check though overtaken

network == <<ver, off, gen, loads>>
caches  == <<dist, distDirty, ndist, groups, alias, stale, nstale>>
timers  == <<rebuildDue, groupDue>>
tables  == <<dbVer, dbOff>>
locals  == <<after, target, attempt, seen, held, rows>>
vars    == <<network, caches, timers, tables, pc, locals>>

Here   == [ver |-> ver, off |-> off]
Normal == [ver |-> ver, off |-> {}]
MovedIn(m, s) == [m EXCEPT !.off = IF s \in m.off THEN m.off \ {s} ELSE m.off \cup {s}]
Goto(t, l) == pc' = [pc EXCEPT ![t] = l]
Note(t) == seen' = [seen EXCEPT ![t] = [gen |-> gen, loads |-> loads, stale |-> stale]]
Overtaken(t) == seen[t].gen # gen \/ seen[t].loads # loads
\* The two ways in which an outdated result is known to get past the generation check.
Excused(t) == seen[t].loads # loads \/ (seen[t].gen # gen /\ attempt[t] >= Retries)
Idle(t, kind) == t \in Handlers /\ kind \in Work /\ pc[t] = "idle"

(***************************************************************************)
(* rebuild: a pass under the read lock, the commit under the write lock.   *)
(***************************************************************************)
Bfs(t) ==
  /\ pc[t] = "bfs" /\ Goto(t, "commit") /\ Note(t)
  /\ held' = [held EXCEPT ![t] = Here]
  /\ UNCHANGED <<network, caches, timers, tables, after, target, attempt, rows>>

\* mutant: the retry reuses a result instead of computing it again
Retry_Again(t) ==
  /\ pc[t] = "commit" /\ seen[t].gen # gen /\ attempt[t] < Retries
  /\ attempt' = [attempt EXCEPT ![t] = @ + 1]
  /\ held' = [held EXCEPT ![t] = None]
  /\ UNCHANGED <<network, caches, timers, tables, pc, after, target, seen, rows>>

Retry(t) ==
  /\ pc[t] = "commit" /\ seen[t].gen # gen /\ attempt[t] < Retries
  /\ attempt' = [attempt EXCEPT ![t] = @ + 1]
  /\ held' = [held EXCEPT ![t] = None]
  /\ Goto(t, "bfs")
  /\ UNCHANGED <<network, caches, timers, tables, after, target, seen, rows>>

\* mutant: the generation is not compared
Commit_Unchecked(t) ==
  /\ pc[t] = "commit"
  /\ dist' = held[t] /\ distDirty' = FALSE
  /\ stale' = Excused(t)
  /\ alias' = {}
  /\ held' = [held EXCEPT ![t] = None]
  /\ Goto(t, after[t])
  /\ UNCHANGED <<network, ndist, groups, nstale, timers, tables, after, target, attempt, seen, rows>>

Commit(t) ==
  /\ pc[t] = "commit" /\ (seen[t].gen = gen \/ attempt[t] >= Retries)
  /\ dist' = held[t] /\ distDirty' = FALSE
  /\ stale' = Excused(t)
  /\ alias' = {}   \* earlier holders keep the map object that was replaced
  /\ held' = [held EXCEPT ![t] = None]
  /\ Goto(t, after[t])
  /\ UNCHANGED <<network, ndist, groups, nstale, timers, tables, after, target, attempt, seen, rows>>

(***************************************************************************)
(* Graph.Maneuver, then the position is read back and stored               *)
(* (execManeuver).  A maneuver to the position already held changes        *)
(* nothing in the graph and still stores it.                               *)
(***************************************************************************)
Maneuver(t, s) ==
  /\ Idle(t, "maneuver") /\ gen < MaxGen
  /\ off' = MovedIn(Here, s).off
  /\ gen' = gen + 1
  /\ target' = [target EXCEPT ![t] = s]
  /\ IF distDirty
     THEN /\ Goto(t, "bfs")
          /\ after' = [after EXCEPT ![t] = "info"] /\ attempt' = [attempt EXCEPT ![t] = 0]
          /\ UNCHANGED <<caches, held>>
     ELSE /\ Goto(t, "info")
          /\ dist' = MovedIn(dist, s)
          /\ held' = [u \in Threads |-> IF u \in alias THEN dist' ELSE held[u]]
          /\ ndist' = IF "ndist" \in alias THEN dist' ELSE ndist
          /\ UNCHANGED <<distDirty, groups, alias, stale, nstale, after, attempt>>
  /\ UNCHANGED <<ver, loads, timers, tables, seen, rows>>

ManeuverAgain(t, s) ==
  /\ Idle(t, "maneuver")
  /\ target' = [target EXCEPT ![t] = s] /\ Goto(t, "info")
  /\ UNCHANGED <<network, caches, timers, tables, after, attempt, seen, held, rows>>

Info(t) ==
  /\ pc[t] = "info" /\ Goto(t, "store")
  /\ rows' = [rows EXCEPT ![t] = Here]
  /\ UNCHANGED <<network, caches, timers, tables, after, target, attempt, seen, held>>

Store(t) ==
  /\ pc[t] = "store" /\ Goto(t, "idle")
  /\ dbOff' = (dbOff \ {target[t]}) \cup (rows[t].off \cap {target[t]})
  /\ rows' = [rows EXCEPT ![t] = None]
  /\ UNCHANGED <<network, caches, timers, dbVer, after, target, attempt, seen, held>>

(***************************************************************************)
(* An edit commits to the tables, then afterEdit calls Graph.Refresh: the  *)
(* rows are read before the lock is taken.                                 *)
(***************************************************************************)
Edit(t, o) ==
  /\ Idle(t, "edit") /\ dbVer[o] < MaxVer
  /\ dbVer' = [dbVer EXCEPT ![o] = @ + 1]
  /\ target' = [target EXCEPT ![t] = o] /\ Goto(t, "read")
  /\ UNCHANGED <<network, caches, timers, dbOff, after, attempt, seen, held, rows>>

RefreshRead(t) ==
  /\ pc[t] = "read" /\ Goto(t, "install")
  /\ rows' = [rows EXCEPT ![t] = [ver |-> dbVer, off |-> dbOff]]
  /\ UNCHANGED <<network, caches, timers, tables, after, target, attempt, seen, held>>

RefreshInstall(t) ==
  /\ pc[t] = "install" /\ Goto(t, "schedule")
  /\ ver' = [ver EXCEPT ![target[t]] = rows[t].ver[target[t]]]
  /\ off' = (off \ {target[t]}) \cup (rows[t].off \cap {target[t]})
  /\ gen' = gen + 1
  /\ distDirty' = TRUE /\ ndist' = None /\ alias' = alias \ {"ndist"}
  /\ rows' = [rows EXCEPT ![t] = None]
  /\ UNCHANGED <<loads, dist, groups, stale, nstale, timers, tables, after, target, attempt, seen, held>>

\* mutant: the edit arms the group timer only
ScheduleRebuild_GroupsOnly(t) ==
  /\ pc[t] = "schedule" /\ Goto(t, "idle")
  /\ groupDue' = TRUE
  /\ UNCHANGED <<network, caches, rebuildDue, tables, locals>>

ScheduleRebuild(t) ==
  /\ pc[t] = "schedule" /\ Goto(t, "idle")
  /\ rebuildDue' = TRUE /\ groupDue' = TRUE
  /\ UNCHANGED <<network, caches, tables, locals>>

(***************************************************************************)
(* The timers: AfterFunc runs the pass on a goroutine of its own, and      *)
(* Timer.Stop does not stop one that has started.                          *)
(***************************************************************************)
FireRebuild(t) ==
  /\ t \in Timers /\ pc[t] = "idle" /\ rebuildDue
  /\ rebuildDue' = FALSE /\ Goto(t, "bfs")
  /\ after' = [after EXCEPT ![t] = "idle"] /\ attempt' = [attempt EXCEPT ![t] = 0]
  /\ UNCHANGED <<network, caches, groupDue, tables, target, seen, held, rows>>

FireGroups(t) ==
  /\ t \in Timers /\ pc[t] = "idle" /\ groupDue
  /\ groupDue' = FALSE /\ Goto(t, "group")
  /\ UNCHANGED <<network, caches, rebuildDue, tables, locals>>

(***************************************************************************)
(* computeGroups: distances and assignment under the read lock, installed  *)
(* under the write lock; Graph.dist itself is copied before it is kept.    *)
(***************************************************************************)
Group(t) ==
  /\ pc[t] = "group" /\ Goto(t, "regroup") /\ Note(t)
  /\ IF ~distDirty /\ off = {}
     THEN held' = [held EXCEPT ![t] = dist] /\ alias' = alias \cup {t}
     ELSE held' = [held EXCEPT ![t] = Normal] /\ alias' = alias
  /\ rows' = [rows EXCEPT ![t] = held'[t]]
  /\ UNCHANGED <<network, dist, distDirty, ndist, groups, stale, nstale, timers, tables, after, target, attempt>>

\* mutant: Graph.dist itself is kept, not a copy
Regroup_NoCopy(t) ==
  /\ pc[t] = "regroup" /\ Goto(t, "idle")
  /\ ndist' = held[t] /\ groups' = rows[t]
  /\ nstale' = (Overtaken(t) \/ seen[t].stale)
  /\ alias' = (alias \ {t, "ndist"}) \cup (IF t \in alias THEN {"ndist"} ELSE {})
  /\ held' = [held EXCEPT ![t] = None] /\ rows' = [rows EXCEPT ![t] = None]
  /\ UNCHANGED <<network, dist, distDirty, stale, timers, tables, after, target, attempt, seen>>

Regroup(t) ==
  /\ pc[t] = "regroup" /\ Goto(t, "idle")
  /\ ndist' = held[t] /\ groups' = rows[t]
  /\ nstale' = (Overtaken(t) \/ seen[t].stale)
  /\ alias' = alias \ {t, "ndist"}
  /\ held' = [held EXCEPT ![t] = None] /\ rows' = [rows EXCEPT ![t] = None]
  /\ UNCHANGED <<network, dist, distDirty, stale, timers, tables, after, target, attempt, seen>>

(***************************************************************************)
(* Load: rows first, installed under the lock without touching gen; then   *)
(* the distances and the groups on the same goroutine.                     *)
(***************************************************************************)
LoadRead(t) ==
  /\ Idle(t, "load") /\ loads < MaxLoads /\ Goto(t, "loaded")
  /\ rows' = [rows EXCEPT ![t] = [ver |-> dbVer, off |-> dbOff]]
  /\ UNCHANGED <<network, caches, timers, tables, after, target, attempt, seen, held>>

\* mutant: the reload ends with the distances
LoadInstall_NoGroups(t) ==
  /\ pc[t] = "loaded" /\ loads < MaxLoads /\ Goto(t, "bfs")
  /\ ver' = rows[t].ver /\ off' = rows[t].off
  /\ loads' = loads + 1
  /\ distDirty' = TRUE /\ ndist' = None /\ alias' = alias \ {"ndist"}
  /\ after' = [after EXCEPT ![t] = "idle"] /\ attempt' = [attempt EXCEPT ![t] = 0]
  /\ rows' = [rows EXCEPT ![t] = None]
  /\ UNCHANGED <<gen, dist, groups, stale, nstale, timers, tables, target, seen, held>>

LoadInstall(t) ==
  /\ pc[t] = "loaded" /\ loads < MaxLoads /\ Goto(t, "bfs")
  /\ ver' = rows[t].ver /\ off' = rows[t].off
  /\ loads' = loads + 1
  /\ distDirty' = TRUE /\ ndist' = None /\ alias' = alias \ {"ndist"}
  /\ after' = [after EXCEPT ![t] = "group"] /\ attempt' = [attempt EXCEPT ![t] = 0]
  /\ rows' = [rows EXCEPT ![t] = None]
  /\ UNCHANGED <<gen, dist, groups, stale, nstale, timers, tables, target, seen, held>>

(***************************************************************************)
(* SLD.Build: the generation, the normal distances in a second read        *)
(* section, and the cache filled only if it is empty and gen unchanged.    *)
(***************************************************************************)
SldStart(t) ==
  /\ Idle(t, "sld") /\ Goto(t, "sld") /\ Note(t)
  /\ UNCHANGED <<network, caches, timers, tables, after, target, attempt, held, rows>>

SldBuild(t) ==
  /\ pc[t] = "sld"
  /\ IF ndist # None \/ (~distDirty /\ off = {})
     THEN Goto(t, "idle") /\ UNCHANGED held
     ELSE Goto(t, "sldStore") /\ held' = [held EXCEPT ![t] = Normal]
  /\ UNCHANGED <<network, caches, timers, tables, after, target, attempt, seen, rows>>

\* mutant: the cache is filled whatever happened meanwhile
SldStore_Unchecked(t) ==
  /\ pc[t] = "sldStore" /\ Goto(t, "idle")
  /\ IF ndist = None
     THEN ndist' = held[t] /\ nstale' = (seen[t].loads # loads)
     ELSE UNCHANGED <<ndist, nstale>>
  /\ held' = [held EXCEPT ![t] = None]
  /\ UNCHANGED <<network, dist, distDirty, groups, alias, stale, timers, tables, after, target, attempt, seen, rows>>

SldStore(t) ==
  /\ pc[t] = "sldStore" /\ Goto(t, "idle")
  /\ IF ndist = None /\ seen[t].gen = gen
     THEN ndist' = held[t] /\ nstale' = (seen[t].loads # loads)
     ELSE UNCHANGED <<ndist, nstale>>
  /\ held' = [held EXCEPT ![t] = None]
  /\ UNCHANGED <<network, dist, distDirty, groups, alias, stale, timers, tables, after, target, attempt, seen, rows>>

Init ==
  /\ ver = [o \in Objects |-> 0] /\ dbVer = ver
  /\ off = {} /\ dbOff = {}
  /\ gen = 0 /\ loads = 0
  /\ dist = Here /\ ndist = Here /\ groups = Here /\ distDirty = FALSE
  /\ alias = {} /\ rebuildDue = FALSE /\ groupDue = FALSE
  /\ pc = [t \in Threads |-> "idle"] /\ after = [t \in Threads |-> "idle"]
  /\ target = [t \in Threads |-> None]
  /\ attempt = [t \in Threads |-> 0]
  /\ seen = [t \in Threads |-> [gen |-> 0, loads |-> 0, stale |-> FALSE]]
  /\ held = [t \in Threads |-> None] /\ rows = [t \in Threads |-> None]
  /\ stale = FALSE /\ nstale = FALSE

\* A request, and the steps of a goroutine that is already under way or due.
Request(t) ==
  \/ \E s \in Switches : Maneuver(t, s) \/ ManeuverAgain(t, s)
  \/ \E o \in Objects : Edit(t, o)
  \/ LoadRead(t) \/ SldStart(t)
Step(t) ==
  \/ Bfs(t) \/ Retry(t) \/ Commit(t)
  \/ Info(t) \/ Store(t)
  \/ RefreshRead(t) \/ RefreshInstall(t) \/ ScheduleRebuild(t)
  \/ FireRebuild(t) \/ FireGroups(t) \/ Group(t) \/ Regroup(t)
  \/ LoadInstall(t)
  \/ SldBuild(t) \/ SldStore(t)

Next == \E t \in Threads : Request(t) \/ Step(t)

Spec == Init /\ [][Next]_vars
\* The Go scheduler runs every goroutine that can run, and armed timers fire.
FairSpec == Spec /\ \A t \in Threads : WF_vars(Step(t))
-----------------------------------------------------------------------------
(***************************************************************************)
(* Properties.                                                             *)
(***************************************************************************)
Labels == {"idle", "bfs", "commit", "info", "store", "read", "install", "schedule",
           "group", "regroup", "loaded", "sld", "sldStore"}

\* Every variable of the model has its type, and a thread carries a map or rows exactly where it uses them.
TypeOK ==
  /\ ver \in [Objects -> Nat] /\ off \subseteq Switches /\ gen \in Nat /\ loads \in Nat
  /\ dist \in Networks /\ distDirty \in BOOLEAN
  /\ ndist \in Networks \cup {None} /\ groups \in Networks /\ alias \subseteq Threads \cup {"ndist"}
  /\ rebuildDue \in BOOLEAN /\ groupDue \in BOOLEAN /\ stale \in BOOLEAN /\ nstale \in BOOLEAN
  /\ dbVer \in [Objects -> Nat] /\ dbOff \subseteq Switches
  /\ pc \in [Threads -> Labels] /\ after \in [Threads -> {"idle", "info", "group"}]
  /\ target \in [Threads -> Objects \cup {None}] /\ attempt \in [Threads -> Nat]
  /\ seen \in [Threads -> [gen : Nat, loads : Nat, stale : BOOLEAN]]
  /\ held \in [Threads -> Networks \cup {None}] /\ rows \in [Threads -> Networks \cup {None}]
  /\ \A t \in Threads :
       /\ pc[t] \in {"commit", "regroup", "sldStore"} => held[t] # None
       /\ pc[t] \in {"store", "install", "loaded", "regroup"} => rows[t] # None
       /\ pc[t] \in {"info", "store", "read", "install"} \/ (pc[t] \in {"bfs", "commit"} /\ after[t] = "info")
            => target[t] \in Objects

\* Clean distances are those of the network as it stands, whatever was interleaved with the pass that made
\* them, unless rebuild ran out of attempts or a reload overtook it: the generation check of rebuild.
DistCurrent == ~distDirty /\ ~stale => dist = Here

\* What the comment of rebuild promises with no proviso: "perhitungan diulang agar hasil lama tidak menimpa
\* status yang lebih baru" (graph.go).  The attempt that follows the last retry commits whatever it has.
OldNeverOverwrites == ~distDirty => dist = Here

\* The cached normal-position distances are those of the present topology with every switch at its normal
\* position, unless the graph changed between the two sections of the regroup that stored them.
NormalCurrent == ndist # None /\ ~nstale => ndist = Normal

\* What the comment on Graph.ndist says: "jarak posisi normal (tidak berubah oleh manuver ...)".  The alias of
\* Graph.dist that computeGroups carries between its two sections is changed by a maneuver.
NormalUntouched == ndist # None => ndist.off = {}

\* Once stored, the normal-position distances are not altered by any maneuver: sameMap makes a copy.
ManeuverKeepsNormal == [][\A t \in Threads, s \in Switches : Maneuver(t, s) => UNCHANGED ndist]_vars

\* distDirty never stays: trace waits for it, and maneuvers fall back to full passes until it is clear.
DirtyClears == distDirty ~> ~distDirty

\* After an edit or a reload the groups are computed again.
Regrouped == ndist = None ~> ndist # None
-----------------------------------------------------------------------------
\* Threads and switches are interchangeable.
Symmetric == Permutations(Handlers) \cup Permutations(Timers) \cup Permutations(Switches)
=============================================================================
