------------------------------ MODULE Changesets ------------------------------
(***************************************************************************)
(* Packages of proposed edits (backend/internal/gis/changes.go): draft,    *)
(* submitted, approved or rejected, and released into the live network,    *)
(* where the operations are replayed one by one.                           *)
(*                                                                         *)
(* A handler first reads what it needs (status, owner, object, locks) and  *)
(* then writes with statements of its own; no transaction spans the two.   *)
(* The reads at the start of a handler are one step here and the write is  *)
(* another, so any other request may come between.  Only the release       *)
(* repeats its check in the statement that writes.                         *)
(***************************************************************************)
EXTENDS Integers, Sequences, TLC

CONSTANTS
  Objects,       \* nodes and edges of the live network
  Near,          \* for every object those that an edit of it may rewrite or delete too: lines at a node, junctions of a line
  LiveOps,       \* operations proposed for live objects
  Packages,
  Author,        \* gis_changesets.created_by
  Users, AllowSelf,   \* who may review; gis.approval_allow_self
  Sessions,      \* requests that can be under way at once
  MaxItems, MaxTouches, MaxRequests, MaxInterrupts,   \* bounds
  None

Ops == {"create", "update", "split", "merge", "delete"}

ASSUME ObjectsAssumption == Near \in [Objects -> SUBSET Objects] /\ None \notin Objects
ASSUME LiveOpsAssumption == LiveOps \subseteq Ops \ {"create"}
ASSUME PeopleAssumption == Author \in [Packages -> Users] /\ AllowSelf \in BOOLEAN
ASSUME BoundsAssumption == {MaxItems, MaxTouches, MaxRequests, MaxInterrupts} \subseteq Nat

VARIABLES
  status,        \* gis_changesets.status
  items,         \* gis_change_items; the position is the id, a deleted row stays as "removed"
  exists, ver,   \* the live objects, and what updated_at tells apart
  job,           \* what each session does next, with its request and what it has read
  touches, requests, interrupts,
  approvals, releases,   \* history: approvals written, releases that got past the guard
  overwritten,   \* history: a status was written over another than the one checked
  stale          \* history: an item was applied although its release could have seen that the object had changed

network == <<exists, ver>>
counts  == <<touches, requests, interrupts>>
history == <<approvals, releases, overwritten, stale>>
vars    == <<status, items, network, job, counts, history>>

Open == {"draft", "submitted", "approved", "rejected"}
Editable(p) == status[p] \in {"draft", "rejected"}
Rows(p) == {i \in DOMAIN items : items[i].cs = p /\ items[i].state # "removed"}
Pending(p) == {i \in Rows(p) : items[i].state = "pending"}

Idle == [step |-> "idle"]
At(s, step) == job[s].step = step
Goto(s, j) == job' = [job EXCEPT ![s] = j]
\* A request comes in and its checks pass: nothing is written yet.
Begin(s, j) ==
  /\ At(s, "idle") /\ requests < MaxRequests /\ requests' = requests + 1
  /\ Goto(s, j)
  /\ UNCHANGED <<status, items, network, touches, interrupts, history>>

\* Changes.Create, also by the first edit when no package is given.
Create(p) ==
  /\ status[p] = "none"
  /\ status' = [status EXCEPT ![p] = "draft"]
  /\ UNCHANGED <<items, network, job, counts, history>>

(***************************************************************************)
(* Propose, RemoveItem and Rebase: the author's requests on the items.     *)
(***************************************************************************)
\* mutant: a rejected package does not hold its objects
LockedBy_NotRejected(p, o) ==
  {q \in Packages \ {p} : status[q] \in Open \ {"rejected"} /\ \E i \in Pending(q) : items[i].target = o}

LockedBy(p, o) == {q \in Packages \ {p} : status[q] \in Open /\ \E i \in Pending(q) : items[i].target = o}

\* k is the latest pending proposal of the package for the object, or 0 if there is none.
Previous(p, o, k) == LET mine == {i \in Pending(p) : items[i].target = o}
                     IN  IF mine = {} THEN k = 0 ELSE k \in mine /\ \A i \in mine : i <= k

\* Later changes of a proposed new object touch its body alone; dropping it is RemoveItem.
ProposeNew(s, p) ==
  /\ Editable(p) /\ Len(items) < MaxItems
  /\ Begin(s, [step |-> "write", op |-> "create", cs |-> p, target |-> None, base |-> 0, prev |-> 0,
               approvals |-> approvals[p]])

Propose(s, p, op, o) ==
  /\ Editable(p) /\ Len(items) < MaxItems
  /\ o \in exists /\ LockedBy(p, o) = {}
  /\ \E prev \in {0} \cup DOMAIN items :
       /\ Previous(p, o, prev)
       /\ prev # 0 /\ items[prev].op = "delete" => op = "delete"
       /\ Begin(s, [step |-> "write", op |-> op, cs |-> p, target |-> o, base |-> ver[o], prev |-> prev,
                    approvals |-> approvals[p]])

\* The package was approved after the request of the session had read it.
Late(s) == approvals[job[s].cs] # job[s].approvals

\* An update is merged into the update proposed before, whose base it keeps.
MergeWrite(s) ==
  /\ At(s, "write") /\ job[s].prev # 0 /\ job[s].op = "update" /\ items[job[s].prev].op = "update"
  /\ Goto(s, Idle)
  /\ items' = [items EXCEPT ![job[s].prev].late = @ \/ Late(s)]
  /\ UNCHANGED <<status, network, counts, history>>

\* A deletion replaces what was proposed before: first that row goes, then its own is inserted.
Replace(s) ==
  /\ At(s, "write") /\ job[s].prev # 0 /\ job[s].op = "delete"
  /\ Goto(s, [job[s] EXCEPT !.prev = 0])
  /\ items' = [items EXCEPT ![job[s].prev].state = "removed"]
  /\ UNCHANGED <<status, network, counts, history>>

Write(s) ==
  /\ At(s, "write") /\ Goto(s, Idle)
  /\ LET j == job[s]
     IN  /\ j.prev # 0 => j.op # "delete" /\ ~(j.op = "update" /\ items[j.prev].op = "update")
         /\ items' = Append(items, [cs |-> j.cs, op |-> j.op, target |-> j.target, base |-> j.base, state |-> "pending",
              late |-> Late(s), clash |-> j.target # None /\ LockedBy(j.cs, j.target) # {}, runs |-> 0])
  /\ UNCHANGED <<status, network, counts, history>>

RemoveItem(s, i) ==
  /\ items[i].state # "removed" /\ Editable(items[i].cs)
  /\ Begin(s, [step |-> "discard", cs |-> items[i].cs, item |-> i])

Discard(s) ==
  /\ At(s, "discard") /\ Goto(s, Idle)
  /\ items' = [items EXCEPT ![job[s].item].state = "removed"]
  /\ UNCHANGED <<status, network, counts, history>>

Rebase(s, i) ==
  /\ items[i].state # "removed" /\ Editable(items[i].cs) /\ items[i].target \in exists
  /\ Begin(s, [step |-> "resync", cs |-> items[i].cs, item |-> i, base |-> ver[items[i].target],
               approvals |-> approvals[items[i].cs]])

\* The row becomes pending again, whatever it was.
Resync(s) ==
  /\ At(s, "resync") /\ Goto(s, Idle)
  /\ LET i == job[s].item
     IN  items' = IF items[i].state = "removed" THEN items
                  ELSE [items EXCEPT ![i].base = job[s].base, ![i].state = "pending",
                                     ![i].late = @ \/ Late(s)]
  /\ UNCHANGED <<status, network, counts, history>>

(***************************************************************************)
(* Submit, Review and Cancel: the status is checked, then overwritten.     *)
(***************************************************************************)
Permits(p, to) ==
  CASE to = "submitted" -> Editable(p) /\ Rows(p) # {}
    [] to = "approved"  -> status[p] = "submitted" /\ \E u \in Users : AllowSelf \/ u # Author[p]
    [] to = "rejected"  -> status[p] \in {"submitted", "approved"}
    [] to = "cancelled" -> Editable(p)

Decide(s, p, to) ==
  /\ Permits(p, to)
  /\ Begin(s, [step |-> "decide", to |-> to, cs |-> p, seen |-> status[p]])

SetStatus(s) ==
  /\ At(s, "decide") /\ Goto(s, Idle)
  /\ LET p == job[s].cs
     IN  /\ status' = [status EXCEPT ![p] = job[s].to]
         /\ approvals' = [approvals EXCEPT ![p] = @ + (IF job[s].to = "approved" THEN 1 ELSE 0)]
         /\ overwritten' = [overwritten EXCEPT ![p] = @ \/ status[p] # job[s].seen]
  /\ UNCHANGED <<items, network, counts, releases, stale>>

(***************************************************************************)
(* Release: conflicts, the guarded statement, then the items in order.     *)
(***************************************************************************)
\* mutant: only objects that are gone count as conflicts
Conflicts_GoneOnly(p) == {i \in Pending(p) : items[i].target # None /\ items[i].target \notin exists}

Conflicts(p) == {i \in Pending(p) :
  /\ items[i].target # None
  /\ items[i].target \notin exists \/ ver[items[i].target] # items[i].base}

Release(s, p) ==
  /\ status[p] = "approved" /\ Conflicts(p) = {}
  /\ Begin(s, [step |-> "guard", cs |-> p, snap |-> ver])

\* mutant: the session goes on though no item is left
Replay_Always(s, rows) ==
  Goto(s, [step |-> "apply", cs |-> job[s].cs, snap |-> job[s].snap, todo |-> rows])

\* The session goes on to the rows that are left, in the order of their ids.
Replay(s, rows) ==
  Goto(s, IF rows = {} THEN Idle
          ELSE [step |-> "apply", cs |-> job[s].cs, snap |-> job[s].snap, todo |-> rows])

First(i, rows) == i \in rows /\ \A k \in rows : i <= k

\* mutant: the statement does not repeat the check of the status
Guard_Unchecked(s) ==
  /\ At(s, "guard")
  /\ LET p == job[s].cs
     IN  /\ status' = [status EXCEPT ![p] = "released"]
         /\ releases' = [releases EXCEPT ![p] = @ + 1]
         /\ Replay(s, Pending(p))
  /\ UNCHANGED <<items, network, counts, approvals, overwritten, stale>>

Guard(s) ==
  /\ At(s, "guard")
  /\ LET p == job[s].cs
     IN  IF status[p] = "approved"
         THEN /\ status' = [status EXCEPT ![p] = "released"]
              /\ releases' = [releases EXCEPT ![p] = @ + 1]
              /\ Replay(s, Pending(p))
         ELSE Goto(s, Idle) /\ UNCHANGED <<status, releases>>
  /\ UNCHANGED <<items, network, counts, approvals, overwritten, stale>>

\* The editor's transaction for one operation, as far as the live objects are concerned: a new or moved line
\* splits lines it ends on, a moved or deleted node takes its lines along, a junction without lines goes, a split
\* at an end of the line does nothing, and a merge leaves one of the two lines.
Edit(op, o) ==
  LET near == IF op = "create" THEN exists ELSE Near[o] \cap exists
  IN  \E wrote, gone \in SUBSET (near \cup {o}) :
        /\ CASE op = "create" -> gone = {} /\ wrote \subseteq near
             [] op = "update" -> o \in wrote \ gone
             [] op = "split"  -> gone = {} /\ wrote \subseteq {o}
             [] op = "merge"  -> \E a, b \in near : a # b /\ wrote = {a} /\ gone = {b, o}
             [] op = "delete" -> o \in gone /\ wrote = {}
        /\ exists' = exists \ gone
        /\ ver' = [x \in Objects |-> IF x \in wrote THEN ver[x] + 1 ELSE ver[x]]

\* The editor may refuse: the object is gone, or the operation does not fit the network any more.
Apply(s) ==
  /\ At(s, "apply")
  /\ LET j == job[s]
         marked(r) == Goto(s, [step |-> "mark", cs |-> j.cs, snap |-> j.snap, todo |-> j.todo, result |-> r])
     IN  \/ \E i \in DOMAIN items :
              LET it == items[i]
              IN  /\ First(i, j.todo)
                  /\ it.target = None \/ it.target \in exists
                  /\ Edit(it.op, it.target)
                  /\ items' = [items EXCEPT ![i].runs = @ + 1]
                  /\ stale' = (stale \/ (it.target # None /\ ~it.late /\ it.base < j.snap[it.target]))
                  /\ marked("applied")
         \/ marked("failed") /\ UNCHANGED <<network, items, stale>>
  /\ UNCHANGED <<status, counts, approvals, releases, overwritten>>

Mark(s) ==
  /\ At(s, "mark")
  /\ \E i \in DOMAIN items :
       /\ First(i, job[s].todo)
       /\ items' = IF items[i].state = "removed" THEN items ELSE [items EXCEPT ![i].state = job[s].result]
       /\ Replay(s, job[s].todo \ {i})
  /\ UNCHANGED <<status, network, counts, history>>

(***************************************************************************)
(* Around it: a maneuver or an administrator changes an object, and a      *)
(* request ends early, because the client left (the statements run under   *)
(* the request's context) or because the server stops.                     *)
(***************************************************************************)
Touch(o) ==
  /\ o \in exists /\ touches < MaxTouches /\ touches' = touches + 1
  /\ ver' = [ver EXCEPT ![o] = @ + 1]
  /\ UNCHANGED <<status, items, exists, job, requests, interrupts, history>>

Interrupt(s) ==
  /\ ~At(s, "idle") /\ interrupts < MaxInterrupts /\ interrupts' = interrupts + 1
  /\ Goto(s, Idle)
  /\ UNCHANGED <<status, items, network, touches, requests, history>>

Init ==
  /\ status = [p \in Packages |-> "none"] /\ items = <<>>
  /\ exists = Objects /\ ver = [o \in Objects |-> 0]
  /\ job = [s \in Sessions |-> Idle]
  /\ touches = 0 /\ requests = 0 /\ interrupts = 0
  /\ approvals = [p \in Packages |-> 0] /\ releases = [p \in Packages |-> 0]
  /\ overwritten = [p \in Packages |-> FALSE] /\ stale = FALSE

Next ==
  \/ \E p \in Packages : Create(p)
  \/ \E s \in Sessions :
       \/ \E p \in Packages :
            \/ ProposeNew(s, p)
            \/ \E op \in LiveOps, o \in Objects : Propose(s, p, op, o)
            \/ \E to \in {"submitted", "approved", "rejected", "cancelled"} : Decide(s, p, to)
            \/ Release(s, p)
       \/ \E i \in DOMAIN items : RemoveItem(s, i) \/ Rebase(s, i)
       \/ MergeWrite(s) \/ Replace(s) \/ Write(s) \/ Discard(s) \/ Resync(s) \/ SetStatus(s)
       \/ Guard(s) \/ Apply(s) \/ Mark(s)
       \/ Interrupt(s)
  \/ \E o \in Objects : Touch(o)

Spec == Init /\ [][Next]_vars
-----------------------------------------------------------------------------
(***************************************************************************)
(* Properties.                                                             *)
(***************************************************************************)
Jobs == [step : {"idle"}]
   \cup [step : {"write"}, op : Ops, cs : Packages, target : Objects \cup {None}, base : Nat,
          prev : {0} \cup DOMAIN items, approvals : Nat]
   \cup [step : {"discard"}, cs : Packages, item : DOMAIN items]
   \cup [step : {"resync"}, cs : Packages, item : DOMAIN items, base : Nat, approvals : Nat]
   \cup [step : {"decide"}, to : Open \cup {"cancelled"}, cs : Packages, seen : Open]
   \cup [step : {"guard"}, cs : Packages, snap : [Objects -> Nat]]
   \cup [step : {"apply"}, cs : Packages, snap : [Objects -> Nat], todo : (SUBSET DOMAIN items) \ {{}}]
   \cup [step : {"mark"}, cs : Packages, snap : [Objects -> Nat], todo : (SUBSET DOMAIN items) \ {{}},
          result : {"applied", "failed"}]

Item == [cs : Packages, op : Ops, target : Objects \cup {None}, base : Nat,
         state : {"pending", "applied", "failed", "removed"}, late : BOOLEAN, clash : BOOLEAN, runs : Nat]

\* Every variable has its type; a target is named exactly when the operation has one, what an item was
\* proposed on is never newer than the object, and a release that replays has an item left.
TypeOK ==
  /\ status \in [Packages -> Open \cup {"none", "released", "cancelled"}]
  /\ exists \subseteq Objects /\ ver \in [Objects -> Nat]
  /\ items \in Seq(Item)
  /\ \A i \in DOMAIN items :
       IF items[i].op = "create" THEN items[i].target = None
       ELSE items[i].target \in Objects /\ items[i].base <= ver[items[i].target]
  /\ job \in [Sessions -> Jobs]
  /\ approvals \in [Packages -> Nat] /\ releases \in [Packages -> Nat]
  /\ overwritten \in [Packages -> BOOLEAN] /\ stale \in BOOLEAN

\* Every release uses up an approval of its own: two managers, or one after the other, never replay a package
\* for one approval, whatever status other requests write meanwhile.
ReleaseUsesApproval == \A p \in Packages : releases[p] <= approvals[p]

\* An operation reaches the live network at most once, even when a release is broken off between the edit and
\* its mark, as long as no request wrote a status over one it had not seen.
AppliedOnce == \A i \in DOMAIN items : ~overwritten[items[i].cs] => items[i].runs <= 1

\* Nothing is applied to an object that had changed since it was proposed when the release looked for
\* conflicts, items apart whose request had read the package before it was approved and wrote after.
NoStaleApply == ~stale

\* Two open packages hold a proposal for the same object only if the two were written past each other's lock
\* check, or a status was overwritten: rejecting, resubmitting and resyncing never give a lock away.
LockHeld ==
  \A i, j \in DOMAIN items :
    /\ items[i].cs # items[j].cs /\ items[i].target = items[j].target /\ items[i].target # None
    /\ items[i].state = "pending" /\ items[j].state = "pending"
    /\ status[items[i].cs] \in Open /\ status[items[j].cs] \in Open
    => \/ items[i].clash \/ items[j].clash
       \/ overwritten[items[i].cs] \/ overwritten[items[j].cs]

\* The comment at the top of changes.go: "Saat rilis, operasi diputar ulang berurutan": a released package that
\* nobody is replaying has no operation waiting.
ReleasedIsReplayed ==
  \A p \in Packages :
    status[p] = "released" /\ ~overwritten[p] /\ (\A s \in Sessions : ~At(s, "apply") /\ ~At(s, "mark"))
      => \A i \in Pending(p) : items[i].late

-----------------------------------------------------------------------------
(* Values of the constants, for the runs *)

\* Packages of one author, whose lines stand alone; requests and packages are interchangeable.
NoNear == [o \in Objects |-> {}]
OneAuthor == [p \in Packages |-> "author"]
Symmetric == Permutations(Sessions) \cup Permutations(Packages)
=============================================================================
