-------------------------- MODULE Changesets_proofs --------------------------
(***************************************************************************)
(* Proofs, for any number of packages, requests, objects and items: types, *)
(* the release that uses up its approval, and what a package and its items *)
(* keep while requests write past one another (IInv).                      *)
(***************************************************************************)
EXTENDS Changesets, TLAPS

Count(f) == f \in [Packages -> Nat]

\* An approved package has an approval that no release has used yet.
Unspent == \A p \in Packages : releases[p] + (IF status[p] = "approved" THEN 1 ELSE 0) <= approvals[p]

Ledger == Count(approvals) /\ Count(releases) /\ DOMAIN status = Packages /\ Unspent

\* Counting up at one place, a package or not, leaves counters.
LEMMA Counting ==
  ASSUME NEW f, Count(f), NEW q, NEW k \in Nat
  PROVE  Count([f EXCEPT ![q] = @ + k])
<1>1. CASE q \in Packages
  BY <1>1 DEF Count
<1>2. CASE q \notin Packages
  <2>1. [f EXCEPT ![q] = @ + k] = f
    BY <1>2 DEF Count
  <2> QED BY <2>1
<1> QED BY <1>1, <1>2

\* Requests are read, items are written and the network is edited without touching a status or the counters.
LEMMA Elsewhere ==
  ASSUME Ledger, UNCHANGED <<status, approvals, releases>>
  PROVE  Ledger'
BY DEF Ledger, Unspent, Count

\* A new package has neither approvals nor releases.
LEMMA CreateKeepsLedger == ASSUME Ledger, NEW q \in Packages, Create(q) PROVE Ledger'
<1>1. status[q] = "none" /\ UNCHANGED <<approvals, releases>> /\ DOMAIN status' = Packages
  BY DEF Create, Ledger, history
<1>2. \A p \in Packages : status'[p] = "approved" => status[p] = "approved"
  BY DEF Create, Ledger
<1> QED BY <1>1, <1>2 DEF Ledger, Unspent, Count

\* A decision that approves adds the approval with it; any other takes the status away from "approved".
LEMMA SetStatusKeepsLedger == ASSUME Ledger, NEW s \in Sessions, SetStatus(s) PROVE Ledger'
<1> DEFINE q == job[s].cs
           to == job[s].to
<1>1. /\ status' = [status EXCEPT ![q] = to] /\ UNCHANGED releases
      /\ approvals' = [approvals EXCEPT ![q] = @ + (IF to = "approved" THEN 1 ELSE 0)]
  BY DEF SetStatus
<1>2. Count(approvals') /\ Count(releases') /\ DOMAIN status' = Packages
  <2>1. Count(approvals')
    BY <1>1, Counting DEF Ledger
  <2>2. Count(releases') /\ DOMAIN status' = Packages
    BY <1>1 DEF Ledger
  <2> QED BY <2>1, <2>2
<1>3. ASSUME NEW p \in Packages
      PROVE  releases'[p] + (IF status'[p] = "approved" THEN 1 ELSE 0) <= approvals'[p]
  <2>1. CASE p = q
    BY <1>1, <2>1 DEF Ledger, Unspent, Count
  <2>2. CASE p # q
    BY <1>1, <2>2 DEF Ledger, Unspent, Count
  <2> QED BY <2>1, <2>2
<1> QED BY <1>2, <1>3 DEF Ledger, Unspent

\* The guarded statement finds the package approved and takes that status away as it releases.
LEMMA GuardKeepsLedger == ASSUME Ledger, NEW s \in Sessions, Guard(s) PROVE Ledger'
<1> DEFINE q == job[s].cs
<1>1. CASE status[q] = "approved"
  <2>1. /\ status' = [status EXCEPT ![q] = "released"] /\ UNCHANGED approvals
        /\ releases' = [releases EXCEPT ![q] = @ + 1]
    BY <1>1 DEF Guard
  <2>2. Count(approvals') /\ Count(releases') /\ DOMAIN status' = Packages
    <3>1. Count(releases')
      BY <2>1, Counting DEF Ledger
    <3>2. Count(approvals') /\ DOMAIN status' = Packages
      BY <2>1 DEF Ledger
    <3> QED BY <3>1, <3>2
  <2>3. ASSUME NEW p \in Packages
        PROVE  releases'[p] + (IF status'[p] = "approved" THEN 1 ELSE 0) <= approvals'[p]
    <3>1. CASE p = q
      BY <1>1, <2>1, <3>1 DEF Ledger, Unspent, Count
    <3>2. CASE p # q
      BY <2>1, <3>2 DEF Ledger, Unspent, Count
    <3> QED BY <3>1, <3>2
  <2> QED BY <2>2, <2>3 DEF Ledger, Unspent
<1>2. CASE status[q] # "approved"
  BY <1>2, Elsewhere DEF Guard
<1> QED BY <1>1, <1>2

\* Every release of a package uses up an approval of its own, whatever other requests write between its checks and
\* its statement (Release, Review, Submit and Cancel in changes.go).
THEOREM ApprovalSpent == Spec => []ReleaseUsesApproval
<1>1. Init => Ledger
  BY DEF Init, Ledger, Unspent, Count
<1>2. Ledger /\ [Next]_vars => Ledger'
  <2> SUFFICES ASSUME Ledger, [Next]_vars PROVE Ledger'
    OBVIOUS
  <2>1. CASE \E p \in Packages : Create(p)
    BY <2>1, CreateKeepsLedger
  <2>2. CASE \E s \in Sessions : SetStatus(s)
    BY <2>2, SetStatusKeepsLedger
  <2>3. CASE \E s \in Sessions : Guard(s)
    BY <2>3, GuardKeepsLedger
  <2>4. CASE \E s \in Sessions : \E p \in Packages :
               \/ ProposeNew(s, p) \/ Release(s, p)
               \/ \E op \in LiveOps, o \in Objects : Propose(s, p, op, o)
               \/ \E to \in {"submitted", "approved", "rejected", "cancelled"} : Decide(s, p, to)
    <3>1. \A s \in Sessions : \A j : Begin(s, j) => UNCHANGED <<status, approvals, releases>>
      BY DEF Begin, history
    <3>2. UNCHANGED <<status, approvals, releases>>
      BY <2>4, <3>1 DEF ProposeNew, Release, Propose, Decide
    <3> QED BY <3>2, Elsewhere
  <2>5. CASE \E s \in Sessions : \E i \in DOMAIN items : RemoveItem(s, i) \/ Rebase(s, i)
    BY <2>5, Elsewhere DEF RemoveItem, Rebase, Begin, history
  <2>6. CASE \E s \in Sessions : MergeWrite(s) \/ Replace(s) \/ Write(s) \/ Discard(s) \/ Resync(s)
    BY <2>6, Elsewhere DEF MergeWrite, Replace, Write, Discard, Resync, history
  <2>7. CASE \E s \in Sessions : Apply(s) \/ Mark(s) \/ Interrupt(s)
    BY <2>7, Elsewhere DEF Apply, Mark, Interrupt, history
  <2>8. CASE \E o \in Objects : Touch(o)
    BY <2>8, Elsewhere DEF Touch, history
  <2>9. CASE UNCHANGED vars
    BY <2>9, Elsewhere DEF vars, history
  <2> QED
    BY <2>1, <2>2, <2>3, <2>4, <2>5, <2>6, <2>7, <2>8, <2>9 DEF Next
<1>3. Ledger => ReleaseUsesApproval
  BY DEF Ledger, Unspent, Count, ReleaseUsesApproval
<1> QED BY <1>1, <1>2, <1>3, PTL DEF Spec

-----------------------------------------------------------------------------
(***************************************************************************)
(* Single application, fresh application and locks.                        *)
(***************************************************************************)
\* What session s has under way: a request at all, one that will write a proposal or a new base, a release, and
\* a release that got past its guard.
Busy(s)    == ~At(s, "idle")
Carries(s) == job[s].step \in {"write", "resync"}
Releasing(s) == job[s].step \in {"guard", "apply", "mark"}
Replaying(s) == job[s].step \in {"apply", "mark"}
Target(s)  == IF At(s, "write") THEN job[s].target ELSE items[job[s].item].target

\* What a request has read.
Read(s) ==
  /\ Busy(s) => status[job[s].cs] # "none"
  /\ At(s, "write") => (job[s].target = None <=> job[s].op = "create")
  /\ job[s].step \in {"discard", "resync"} => items[job[s].item].cs = job[s].cs
  /\ Carries(s) => /\ job[s].approvals <= approvals[job[s].cs]
                   /\ status[job[s].cs] = "approved" => job[s].approvals < approvals[job[s].cs]
                   /\ Target(s) # None => Target(s) \in Objects /\ job[s].base <= ver[Target(s)]
  /\ Releasing(s) => \A o \in Objects : job[s].snap[o] <= ver[o]
  /\ Replaying(s) => \A i \in job[s].todo : items[i].cs = job[s].cs

\* The items the release of session s has still to replay.
Due(s) == IF At(s, "guard") THEN Pending(job[s].cs) ELSE job[s].todo

\* What a release finds is what it looked at, or newer.
Fresh(s) ==
  Releasing(s) =>
    /\ \A i \in Due(s) : items[i].target # None /\ ~items[i].late => job[s].snap[items[i].target] <= items[i].base
    /\ \A w \in Sessions : Carries(w) /\ job[w].cs = job[s].cs /\ Target(w) # None
         => job[w].approvals < approvals[job[w].cs] \/ job[s].snap[Target(w)] <= job[w].base

Settled(p) == status[p] = "released" \/ overwritten[p]

\* A package that nobody overwrote is replayed by one session, once.
Once ==
  /\ \A i \in DOMAIN items : ~overwritten[items[i].cs] =>
       items[i].runs <= 1 /\ (status[items[i].cs] # "released" => items[i].runs = 0)
  /\ \A s \in Sessions : Replaying(s) => Settled(job[s].cs)
  /\ \A s, t \in Sessions : Replaying(s) /\ Replaying(t) /\ job[s].cs = job[t].cs /\ ~overwritten[job[s].cs] => s = t
  /\ \A s \in Sessions : Replaying(s) /\ ~overwritten[job[s].cs] =>
       \A i \in job[s].todo : items[i].runs = 0 \/ (At(s, "mark") /\ First(i, job[s].todo))

Locks ==
  /\ \A i \in DOMAIN items : status[items[i].cs] # "none"
  /\ \A i \in DOMAIN items : items[i].state \in {"applied", "failed"} => Settled(items[i].cs)
  /\ LockHeld

Reads == \A s \in Sessions : Read(s)
Snaps == \A s \in Sessions : Fresh(s)
IInv == TypeOK /\ Reads /\ Snaps /\ Once /\ Locks /\ ~stale
-----------------------------------------------------------------------------
(* What the steps have in common *)

\* A session's next step is a record of the kind its name says.
LEMMA JobOf ==
  ASSUME TypeOK, NEW s \in Sessions
  PROVE  /\ job[s] \in Jobs
         /\ Busy(s) => job[s].cs \in Packages
         /\ At(s, "write") => /\ job[s].op \in Ops /\ job[s].target \in Objects \cup {None} /\ job[s].base \in Nat
                              /\ job[s].prev \in {0} \cup DOMAIN items /\ job[s].approvals \in Nat
         /\ At(s, "discard") => job[s].item \in DOMAIN items
         /\ At(s, "resync") => job[s].item \in DOMAIN items /\ job[s].base \in Nat /\ job[s].approvals \in Nat
         /\ At(s, "decide") => job[s].to \in Open \cup {"cancelled"} /\ job[s].seen \in Open
         /\ Releasing(s) => job[s].snap \in [Objects -> Nat]
         /\ Replaying(s) => job[s].todo \in (SUBSET DOMAIN items) \ {{}}
         /\ At(s, "mark") => job[s].result \in {"applied", "failed"}
BY DEF TypeOK, Jobs, Busy, At, Releasing, Replaying

\* The fields of an item.
LEMMA ItemOf ==
  ASSUME TypeOK, NEW i \in DOMAIN items
  PROVE  /\ i \in Nat /\ items[i] \in Item
         /\ items[i].cs \in Packages /\ items[i].op \in Ops /\ items[i].target \in Objects \cup {None}
         /\ items[i].base \in Nat /\ items[i].late \in BOOLEAN /\ items[i].clash \in BOOLEAN /\ items[i].runs \in Nat
         /\ items[i].state \in {"pending", "applied", "failed", "removed"}
<1>1. items \in Seq(Item)
  BY DEF TypeOK
<1>2. i \in Nat /\ items[i] \in Item
  BY <1>1
<1> QED BY <1>2 DEF Item

\* One session goes on, the others stay where they are.
LEMMA Goes ==
  ASSUME TypeOK, NEW s \in Sessions, NEW j, Goto(s, j)
  PROVE  job'[s] = j /\ (\A t \in Sessions \ {s} : job'[t] = job[t]) /\ DOMAIN job' = Sessions
BY DEF TypeOK, Goto

\* A session that goes on has a next step of the right type, also when a row has been added.
LEMMA JobsStay ==
  ASSUME TypeOK, NEW s \in Sessions, NEW j, Goto(s, j), DOMAIN items \subseteq DOMAIN items', j \in Jobs'
  PROVE  job' \in [Sessions -> Jobs']
<1>1. Jobs \subseteq Jobs'
  BY DEF Jobs
<1> QED BY <1>1 DEF TypeOK, Goto

\* Nothing to do is a next step, too.
LEMMA IdleJob == Idle \in Jobs /\ Idle.step = "idle"
BY DEF Idle, Jobs

-----------------------------------------------------------------------------
(* Requests come in: nothing is written but what the session has read. *)

\* A request that comes in keeps the invariant if what it has read is right and as new as what releases under
\* way have seen.
LEMMA BeginKeeps ==
  ASSUME IInv, NEW s \in Sessions, NEW j \in Jobs, Begin(s, j), j.step \notin {"apply", "mark"},
         Read(s)', Fresh(s)',
         \A t \in Sessions \ {s} : Releasing(t) /\ job[t].cs = j.cs /\ Carries(s)' /\ Target(s)' # None
            => job[t].snap[Target(s)'] <= j.base
  PROVE  IInv'
<1>1. job'[s] = j /\ (\A t \in Sessions \ {s} : job'[t] = job[t]) /\ At(s, "idle")
  BY Goes DEF Begin, IInv
<1>2. UNCHANGED <<status, items, exists, ver, approvals, releases, overwritten, stale>>
  BY DEF Begin, network, history
<1>3. TypeOK'
  <2>1. job' \in [Sessions -> Jobs']
    BY <1>2, JobsStay DEF Begin, IInv, Jobs
  <2> QED BY <1>2, <2>1 DEF IInv, TypeOK
<1>4. ASSUME NEW t \in Sessions PROVE Read(t)'
  BY <1>1, <1>2 DEF IInv, Reads, Read, Busy, At, Carries, Target, Releasing, Replaying
<1>5. ASSUME NEW t \in Sessions PROVE Fresh(t)'
  <2>1. CASE t # s
    BY <1>1, <1>2, <2>1 DEF IInv, Snaps, Fresh, Releasing, Carries, Target, Due, At, Pending, Rows
  <2> QED BY <2>1
<1>6. Once'
  BY <1>1, <1>2 DEF IInv, Once, Replaying, Settled, At
<1>7. Locks'
  BY <1>2 DEF IInv, Locks, LockHeld, Settled
<1> QED BY <1>2, <1>3, <1>4, <1>5, <1>6, <1>7 DEF IInv, Reads, Snaps

\* A proposal of a new object has no live object to be right about.
LEMMA ProposeNewKeeps == ASSUME IInv, NEW s \in Sessions, NEW p \in Packages, ProposeNew(s, p) PROVE IInv'
<1> DEFINE j == [step |-> "write", op |-> "create", cs |-> p, target |-> None, base |-> 0, prev |-> 0,
                 approvals |-> approvals[p]]
<1>1. Begin(s, j) /\ Editable(p)
  BY DEF ProposeNew
<1>2. approvals[p] \in Nat /\ j \in Jobs
  BY DEF IInv, TypeOK, Jobs, Ops
<1>3. job'[s] = j /\ UNCHANGED <<status, approvals>>
  BY <1>1, Goes DEF Begin, IInv, history
<1>4. Read(s)'
  BY <1>1, <1>2, <1>3 DEF Read, Busy, At, Carries, Target, Releasing, Replaying, Editable
<1>5. Fresh(s)' /\ Target(s)' = None
  BY <1>3 DEF Fresh, Releasing, Target, At
<1> QED BY <1>1, <1>2, <1>4, <1>5, BeginKeeps

\* The base that a proposal reads is the version of the object, which no release under way has seen a later one of.
LEMMA ProposeKeeps ==
  ASSUME IInv, NEW s \in Sessions, NEW p \in Packages, NEW op \in LiveOps, NEW o \in Objects, Propose(s, p, op, o)
  PROVE  IInv'
<1>1. PICK prev \in {0} \cup DOMAIN items :
        Begin(s, [step |-> "write", op |-> op, cs |-> p, target |-> o, base |-> ver[o], prev |-> prev,
                  approvals |-> approvals[p]])
  BY DEF Propose
<1> DEFINE j == [step |-> "write", op |-> op, cs |-> p, target |-> o, base |-> ver[o], prev |-> prev,
                 approvals |-> approvals[p]]
<1>2. approvals[p] \in Nat /\ ver[o] \in Nat /\ j \in Jobs /\ o # None /\ op # "create" /\ Editable(p)
  BY ObjectsAssumption, LiveOpsAssumption DEF IInv, TypeOK, Jobs, Ops, Propose
<1>3. job'[s] = j /\ UNCHANGED <<status, approvals, ver>>
  BY <1>1, Goes DEF Begin, IInv, history, network
<1>4. Read(s)'
  BY <1>2, <1>3 DEF Read, Busy, At, Carries, Target, Releasing, Replaying, Editable
<1>5. Fresh(s)' /\ Target(s)' = o
  BY <1>3 DEF Fresh, Releasing, Target, At
<1>6. \A t \in Sessions \ {s} : Releasing(t) => job[t].snap[o] <= ver[o]
  BY DEF IInv, Reads, Read
<1> QED BY <1>1, <1>2, <1>4, <1>5, <1>6, BeginKeeps

\* Dropping an item only notes it.
LEMMA RemoveItemKeeps == ASSUME IInv, NEW s \in Sessions, NEW i \in DOMAIN items, RemoveItem(s, i) PROVE IInv'
<1> DEFINE j == [step |-> "discard", cs |-> items[i].cs, item |-> i]
<1>1. Begin(s, j) /\ Editable(j.cs)
  BY DEF RemoveItem
<1>2. j \in Jobs
  BY ItemOf DEF IInv, Jobs
<1>3. job'[s] = j /\ UNCHANGED <<status, items>>
  BY <1>1, Goes DEF Begin, IInv
<1>4. Read(s)' /\ Fresh(s)' /\ ~Carries(s)'
  BY <1>1, <1>3 DEF Read, Fresh, Busy, At, Carries, Target, Releasing, Replaying, Editable
<1> QED BY <1>1, <1>2, <1>4, BeginKeeps

\* A rebase reads the present version, as a proposal does.
LEMMA RebaseKeeps == ASSUME IInv, NEW s \in Sessions, NEW i \in DOMAIN items, Rebase(s, i) PROVE IInv'
<1> DEFINE o == items[i].target
           j == [step |-> "resync", cs |-> items[i].cs, item |-> i, base |-> ver[o], approvals |-> approvals[items[i].cs]]
<1>1. Begin(s, j) /\ Editable(j.cs) /\ o \in Objects
  BY DEF Rebase, IInv, TypeOK
<1>2. j.cs \in Packages /\ j.item \in DOMAIN items
  BY ItemOf DEF IInv
<1>7. approvals[j.cs] \in Nat /\ ver[o] \in Nat
  BY <1>1, <1>2 DEF IInv, TypeOK
<1>8. j \in Jobs
  BY <1>2, <1>7 DEF Jobs
<1>3. job'[s] = j /\ UNCHANGED <<status, items, approvals, ver>>
  BY <1>1, Goes DEF Begin, IInv, history, network
<1>4. Read(s)'
  BY <1>1, <1>2, <1>3, <1>7 DEF Read, Busy, At, Carries, Target, Releasing, Replaying, Editable
<1>5. Fresh(s)' /\ Target(s)' = o
  BY <1>3 DEF Fresh, Releasing, Target, At
<1>6. \A t \in Sessions \ {s} : Releasing(t) => job[t].snap[o] <= ver[o]
  BY <1>1 DEF IInv, Reads, Read
<1> QED BY <1>1, <1>2, <1>8, <1>4, <1>5, <1>6, BeginKeeps

\* A decision notes the status it has found, which is one of an open package.
LEMMA DecideKeeps ==
  ASSUME IInv, NEW s \in Sessions, NEW p \in Packages, NEW to \in {"submitted", "approved", "rejected", "cancelled"},
         Decide(s, p, to)
  PROVE  IInv'
<1> DEFINE j == [step |-> "decide", to |-> to, cs |-> p, seen |-> status[p]]
<1>1. Begin(s, j) /\ status[p] \in Open
  BY DEF Decide, Permits, Editable, Open
<1>2. j \in Jobs
  BY <1>1 DEF IInv, TypeOK, Jobs, Open
<1>3. job'[s] = j /\ UNCHANGED status
  BY <1>1, Goes DEF Begin, IInv
<1>4. Read(s)' /\ Fresh(s)' /\ ~Carries(s)'
  BY <1>1, <1>3 DEF Read, Fresh, Busy, At, Carries, Target, Releasing, Replaying, Open
<1> QED BY <1>1, <1>2, <1>4, BeginKeeps

\* A release that found no conflict has seen every waiting item on its base; whoever may still add one read an
\* older approval.
LEMMA ReleaseKeeps == ASSUME IInv, NEW s \in Sessions, NEW p \in Packages, Release(s, p) PROVE IInv'
<1> DEFINE j == [step |-> "guard", cs |-> p, snap |-> ver]
<1>1. Begin(s, j) /\ status[p] = "approved" /\ Conflicts(p) = {}
  BY DEF Release
<1>2. j \in Jobs
  BY <1>1 DEF IInv, TypeOK, Jobs
<1>3. /\ job'[s] = j /\ (\A t \in Sessions \ {s} : job'[t] = job[t]) /\ At(s, "idle")
      /\ UNCHANGED <<status, items, ver, approvals>>
  BY <1>1, Goes DEF Begin, IInv, history, network
<1>4. Read(s)' /\ ~Carries(s)'
  BY <1>1, <1>3 DEF Read, Busy, At, Carries, Target, Releasing, Replaying, IInv, TypeOK
<1>5. \A i \in Pending(p) : items[i].target # None => ver[items[i].target] = items[i].base
  BY <1>1 DEF Conflicts
<1>6. \A i \in Due(s)' : items'[i].target # None => job'[s].snap[items'[i].target] <= items'[i].base
  <2>1. Due(s)' = Pending(p)
    BY <1>3 DEF Due, At, Pending, Rows
  <2>2. \A i \in Pending(p) : items[i].target \in Objects \cup {None} /\ items[i].base \in Nat
    BY ItemOf DEF Pending, Rows, IInv
  <2> QED BY <1>3, <1>5, <2>1, <2>2 DEF IInv, TypeOK
<1>7. \A w \in Sessions : Carries(w)' /\ job'[w].cs = p => job'[w].approvals < approvals[p]
  BY <1>1, <1>3, <1>4 DEF Carries, IInv, Reads, Read
<1>8. Fresh(s)'
  BY <1>3, <1>6, <1>7 DEF Fresh
<1> QED BY <1>1, <1>2, <1>4, <1>8, BeginKeeps

-----------------------------------------------------------------------------
(* A session goes on with what it has read. *)

\* One row is changed.
LEMMA ItemSet ==
  ASSUME TypeOK, NEW i \in DOMAIN items, NEW x \in Item, items' = [items EXCEPT ![i] = x]
  PROVE  /\ items' \in Seq(Item) /\ DOMAIN items' = DOMAIN items /\ Len(items') = Len(items)
         /\ items'[i] = x /\ \A k \in DOMAIN items \ {i} : items'[k] = items[k]
<1>1. items \in Seq(Item)
  BY DEF TypeOK
<1> QED BY <1>1

\* What the three ways of changing a row leave as it was.
LEMMA ItemLate ==
  ASSUME NEW it \in Item, NEW l \in BOOLEAN
  PROVE  LET x == [it EXCEPT !.late = l]
         IN  /\ x \in Item /\ x.cs = it.cs /\ x.op = it.op /\ x.target = it.target /\ x.base = it.base
             /\ x.state = it.state /\ x.late = l /\ x.clash = it.clash /\ x.runs = it.runs
BY DEF Item

LEMMA ItemState ==
  ASSUME NEW it \in Item, NEW st \in {"pending", "applied", "failed", "removed"}
  PROVE  LET x == [it EXCEPT !.state = st]
         IN  /\ x \in Item /\ x.cs = it.cs /\ x.op = it.op /\ x.target = it.target /\ x.base = it.base
             /\ x.state = st /\ x.late = it.late /\ x.clash = it.clash /\ x.runs = it.runs
BY DEF Item

LEMMA ItemRuns ==
  ASSUME NEW it \in Item
  PROVE  LET x == [it EXCEPT !.runs = @ + 1]
         IN  /\ x \in Item /\ x.cs = it.cs /\ x.op = it.op /\ x.target = it.target /\ x.base = it.base
             /\ x.state = it.state /\ x.late = it.late /\ x.clash = it.clash /\ x.runs = it.runs + 1
BY DEF Item

\* No item, and no request, is of a package that does not exist yet.
LEMMA CreateKeeps == ASSUME IInv, NEW p \in Packages, Create(p) PROVE IInv'
<1>1. /\ status[p] = "none" /\ status' = [status EXCEPT ![p] = "draft"]
      /\ UNCHANGED <<items, exists, ver, job, approvals, releases, overwritten, stale>>
  BY DEF Create, network, history
<1>2. TypeOK'
  BY <1>1 DEF IInv, TypeOK, Open, Jobs
<1>3. ASSUME NEW s \in Sessions PROVE Read(s)' /\ Fresh(s)'
  BY <1>1, JobOf DEF IInv, Reads, Read, Snaps, Fresh, Busy, At, Carries, Target, Releasing, Replaying, Due,
     Pending, Rows, TypeOK
<1>4. Once'
  BY <1>1, ItemOf, JobOf DEF IInv, Once, Replaying, Busy, Settled, At, TypeOK, Locks, First
<1>5. Locks'
  BY <1>1, ItemOf DEF IInv, Locks, LockHeld, Settled, TypeOK
<1> QED BY <1>1, <1>2, <1>3, <1>4, <1>5 DEF IInv, Reads, Snaps

\* A maneuver makes an object newer than everything read of it.
LEMMA TouchKeeps == ASSUME IInv, NEW o \in Objects, Touch(o) PROVE IInv'
<1>1. ver' = [ver EXCEPT ![o] = @ + 1] /\ UNCHANGED <<status, items, exists, job, approvals, releases, overwritten, stale>>
  BY DEF Touch, history
<1>2. ver' \in [Objects -> Nat] /\ \A x \in Objects : ver[x] <= ver'[x]
  BY <1>1 DEF IInv, TypeOK
<1>3. TypeOK'
  <2>1. Jobs' = Jobs
    BY <1>1 DEF Jobs
  <2> QED BY <1>1, <1>2, <2>1, ItemOf DEF IInv, TypeOK
<1>4. ASSUME NEW s \in Sessions PROVE Read(s)' /\ Fresh(s)'
  BY <1>1, <1>2, JobOf, SMTT(20) DEF IInv, Reads, Read, Snaps, Fresh, Busy, At, Carries, Target, Releasing, Replaying, Due,
     Pending, Rows, TypeOK
<1>5. Once' /\ Locks'
  BY <1>1 DEF IInv, Once, Replaying, Busy, Settled, At, Locks, LockHeld
<1> QED BY <1>1, <1>3, <1>4, <1>5 DEF IInv, Reads, Snaps

\* A request that ends early leaves what it has written.
LEMMA InterruptKeeps == ASSUME IInv, NEW s \in Sessions, Interrupt(s) PROVE IInv'
<1>1. /\ job'[s] = Idle /\ (\A t \in Sessions \ {s} : job'[t] = job[t]) 
      /\ UNCHANGED <<status, items, exists, ver, approvals, releases, overwritten, stale>>
  BY Goes DEF Interrupt, network, history, IInv
<1>2. TypeOK'
  <2>1. job' \in [Sessions -> Jobs']
    BY <1>1, JobsStay, IdleJob DEF Interrupt, IInv, Jobs
  <2> QED BY <1>1, <2>1 DEF IInv, TypeOK
<1>3. ASSUME NEW t \in Sessions PROVE Read(t)' /\ Fresh(t)'
  BY <1>1, IdleJob, JobOf DEF IInv, Reads, Read, Snaps, Fresh, Busy, At, Carries, Target, Releasing, Replaying,
     Due, Pending, Rows
<1>4. Once' /\ Locks'
  BY <1>1, IdleJob DEF IInv, Once, Replaying, Busy, Settled, At, Locks, LockHeld
<1> QED BY <1>1, <1>2, <1>3, <1>4 DEF IInv, Reads, Snaps

\* A session that takes no step keeps what it has read.
LEMMA ReadStays ==
  ASSUME IInv, NEW t \in Sessions, job'[t] = job[t], UNCHANGED <<status, approvals>>,
         ver' \in [Objects -> Nat], \A o \in Objects : ver[o] <= ver'[o],
         \A k \in DOMAIN items : items'[k].cs = items[k].cs /\ items'[k].target = items[k].target
  PROVE  Read(t)' /\ (Carries(t)' => Carries(t) /\ Target(t)' = Target(t))
<1>1. Carries(t)' => Carries(t) /\ Target(t)' = Target(t)
  BY JobOf DEF Carries, Target, At, IInv
<1>2. Carries(t) /\ Target(t) # None => job[t].base \in Nat /\ Target(t) \in Objects
  BY JobOf DEF Carries, At, IInv, Reads, Read
<1>3. Read(t) /\ (Busy(t) => job[t].cs \in Packages)
  BY JobOf DEF IInv, Reads
<1>4. Busy(t)' => status'[job'[t].cs] # "none"
  BY <1>3 DEF Read, Busy, At
<1>5. At(t, "write")' => (job'[t].target = None <=> job'[t].op = "create")
  BY <1>3 DEF Read, At
<1>6. job'[t].step \in {"discard", "resync"} => items'[job'[t].item].cs = job'[t].cs
  BY <1>3, JobOf DEF Read, At, IInv
<1>7. Carries(t)' => /\ job'[t].approvals <= approvals'[job'[t].cs]
                     /\ status'[job'[t].cs] = "approved" => job'[t].approvals < approvals'[job'[t].cs]
                     /\ Target(t)' # None => Target(t)' \in Objects /\ job'[t].base <= ver'[Target(t)']
  BY <1>1, <1>2, <1>3 DEF Read, IInv, TypeOK
<1>8. Releasing(t)' => \A o \in Objects : job'[t].snap[o] <= ver'[o]
  BY <1>3, JobOf DEF Read, Releasing, IInv, TypeOK
<1>9. Replaying(t)' => \A i \in job'[t].todo : items'[i].cs = job'[t].cs
  BY <1>3, JobOf DEF Read, Replaying, IInv
<1> QED BY <1>1, <1>4, <1>5, <1>6, <1>7, <1>8, <1>9 DEF Read

\* A session goes on after a step that changes rows but neither adds one nor proposes anew.
LEMMA RowsKeep ==
  ASSUME IInv, NEW s \in Sessions, NEW j \in Jobs, Goto(s, j),
         UNCHANGED <<status, approvals, releases, overwritten>>, ~stale', stale' \in BOOLEAN,
         exists' \subseteq Objects, ver' \in [Objects -> Nat], \A o \in Objects : ver[o] <= ver'[o],
         items' \in Seq(Item), DOMAIN items' = DOMAIN items,
         \A k \in DOMAIN items :
           /\ items'[k].cs = items[k].cs /\ items'[k].op = items[k].op /\ items'[k].target = items[k].target
           /\ items'[k].base = items[k].base /\ items'[k].clash = items[k].clash /\ (items[k].late => items'[k].late)
           /\ items'[k].state = "pending" => items[k].state = "pending"
           /\ items'[k].state \in {"applied", "failed"} => items[k].state = items'[k].state \/ Settled(items[k].cs),
         Carries(s)' => /\ Carries(s) /\ job'[s].cs = job[s].cs /\ Target(s)' = Target(s)
                        /\ job'[s].approvals = job[s].approvals /\ job'[s].base = job[s].base,
         Read(s)', Fresh(s)', Once'
  PROVE  IInv'
<1>1. job'[s] = j /\ \A t \in Sessions \ {s} : job'[t] = job[t]
  BY Goes DEF IInv
<1>2. TypeOK'
  <2>1. job' \in [Sessions -> Jobs']
    BY JobsStay DEF IInv, Jobs
  <2>2. \A k \in DOMAIN items' : IF items'[k].op = "create" THEN items'[k].target = None
          ELSE items'[k].target \in Objects /\ items'[k].base <= ver'[items'[k].target]
    <3>1. TAKE k \in DOMAIN items'
    <3>2. items[k].base \in Nat /\ items[k].target \in Objects \cup {None}
      BY ItemOf DEF IInv
    <3>3. items[k].op # "create" => ver[items[k].target] \in Nat /\ ver'[items[k].target] \in Nat
      BY DEF IInv, TypeOK
    <3> QED BY <3>2, <3>3 DEF IInv, TypeOK
  <2> QED BY <2>1, <2>2 DEF IInv, TypeOK
<1>3. ASSUME NEW t \in Sessions \ {s} PROVE Read(t)' /\ (Carries(t)' => Carries(t) /\ Target(t)' = Target(t))
  BY <1>1, ReadStays
<1>5. ASSUME NEW t \in Sessions \ {s} PROVE Fresh(t)'
  <2>1. \A p : Pending(p)' \subseteq Pending(p)
    BY ItemOf DEF Pending, Rows, IInv
  <2>2. Due(t)' \subseteq Due(t)
    BY <1>1, <2>1 DEF Due, At
  <2>3. Releasing(t) => Due(t) \subseteq DOMAIN items
    BY JobOf DEF Due, Pending, Rows, At, Releasing, Replaying, IInv
  <2>4. \A w \in Sessions : Carries(w)' =>
          /\ Carries(w) /\ Target(w)' = Target(w) /\ job'[w].cs = job[w].cs
          /\ job'[w].approvals = job[w].approvals /\ job'[w].base = job[w].base
    BY <1>1, <1>3
  <2> QED BY <1>1, <2>2, <2>3, <2>4, SMTT(20) DEF IInv, Snaps, Fresh, Releasing, At
<1>6. Locks'
  BY DEF IInv, Locks, LockHeld, Settled
<1> QED BY <1>2, <1>3, <1>5, <1>6 DEF IInv, Reads, Snaps

\* A step in which no session replays anew and no row is run.
LEMMA OnceKeeps ==
  ASSUME IInv, UNCHANGED <<status, overwritten>>, \A t \in Sessions : Replaying(t)' => job'[t] = job[t],
         DOMAIN items \subseteq DOMAIN items',
         \A k \in DOMAIN items : items'[k].cs = items[k].cs /\ items'[k].runs = items[k].runs,
         \A k \in DOMAIN items' \ DOMAIN items : items'[k].runs = 0
  PROVE  Once'
<1>1. \A t \in Sessions : Replaying(t)' => Replaying(t) /\ job[t].todo \subseteq DOMAIN items
  BY JobOf DEF Replaying, IInv
<1>2. \A k \in DOMAIN items' : ~overwritten'[items'[k].cs] =>
        items'[k].runs <= 1 /\ (status'[items'[k].cs] # "released" => items'[k].runs = 0)
  BY DEF IInv, Once
<1>3. \A t \in Sessions : Replaying(t)' => Settled(job[t].cs)'
  BY <1>1 DEF IInv, Once, Settled
<1>4. \A t, u \in Sessions :
        Replaying(t)' /\ Replaying(u)' /\ job'[t].cs = job'[u].cs /\ ~overwritten'[job'[t].cs] => t = u
  BY <1>1 DEF IInv, Once
<1>5. \A t \in Sessions : Replaying(t)' /\ ~overwritten'[job'[t].cs] =>
        \A i \in job'[t].todo : items'[i].runs = 0 \/ (At(t, "mark")' /\ First(i, job'[t].todo))
  BY <1>1 DEF IInv, Once, At
<1> QED BY <1>2, <1>3, <1>4, <1>5 DEF Once, First

\* The update merged into the one before keeps its base, and its row may only become late.
LEMMA MergeWriteKeeps == ASSUME IInv, NEW s \in Sessions, MergeWrite(s) PROVE IInv'
<1> DEFINE i == job[s].prev
           x == [items[i] EXCEPT !.late = items[i].late \/ Late(s)]
<1>1. /\ Goto(s, Idle) /\ Idle \in Jobs /\ job'[s] = Idle /\ \A t \in Sessions \ {s} : job'[t] = job[t]
      /\ UNCHANGED <<status, exists, ver, approvals, releases, overwritten, stale>>
  BY Goes, IdleJob DEF MergeWrite, network, history, IInv
<1>2. i \in DOMAIN items /\ items[i] \in Item /\ (items[i].late \/ Late(s)) \in BOOLEAN
  BY JobOf, ItemOf DEF MergeWrite, IInv
<1>3. /\ x \in Item /\ x.cs = items[i].cs /\ x.op = items[i].op /\ x.target = items[i].target
      /\ x.base = items[i].base /\ x.state = items[i].state /\ x.clash = items[i].clash
      /\ x.runs = items[i].runs /\ (items[i].late => x.late)
  BY <1>2, ItemLate
<1>4. items' = [items EXCEPT ![i] = x]
  BY <1>2 DEF MergeWrite
<1>5. /\ items' \in Seq(Item) /\ DOMAIN items' = DOMAIN items
      /\ items'[i] = x /\ \A k \in DOMAIN items \ {i} : items'[k] = items[k]
  BY <1>2, <1>3, <1>4, ItemSet DEF IInv
<1>6. Read(s)' /\ Fresh(s)' /\ ~Carries(s)' /\ ~Replaying(s)'
  BY <1>1, IdleJob DEF Read, Fresh, Busy, At, Carries, Releasing, Replaying
<1>7. Once'
  <2>1. \A k \in DOMAIN items : items'[k].cs = items[k].cs /\ items'[k].runs = items[k].runs
    BY <1>3, <1>5
  <2> QED BY <1>1, <1>5, <1>6, <2>1, OnceKeeps
<1>8. ~stale' /\ stale' \in BOOLEAN /\ exists' \subseteq Objects
      /\ ver' \in [Objects -> Nat] /\ \A o \in Objects : ver[o] <= ver'[o]
  BY <1>1 DEF IInv, TypeOK
<1> HIDE DEF x, i
<1> QED BY <1>1, <1>3, <1>5, <1>6, <1>7, <1>8, RowsKeep

\* The first statement of a replacing deletion takes a row away and leaves the session with its insert.
LEMMA ReplaceKeeps == ASSUME IInv, NEW s \in Sessions, Replace(s) PROVE IInv'
<1> DEFINE i == job[s].prev
           x == [items[i] EXCEPT !.state = "removed"]
           j == [job[s] EXCEPT !.prev = 0]
<1>1. Goto(s, j) /\ At(s, "write") /\ UNCHANGED <<status, exists, ver, approvals, releases, overwritten, stale>>
  BY DEF Replace, network, history
<1>2. job'[s] = j /\ \A t \in Sessions \ {s} : job'[t] = job[t]
  BY <1>1, Goes DEF IInv
<1>3. /\ j \in Jobs /\ j.step = "write" /\ j.op = job[s].op /\ j.cs = job[s].cs /\ j.target = job[s].target
      /\ j.base = job[s].base /\ j.approvals = job[s].approvals
  BY <1>1, JobOf DEF At, Jobs, IInv
<1>4. i \in DOMAIN items /\ items[i] \in Item
  BY <1>1, JobOf, ItemOf DEF Replace, IInv
<1>5. /\ x \in Item /\ x.cs = items[i].cs /\ x.op = items[i].op /\ x.target = items[i].target
      /\ x.base = items[i].base /\ x.state = "removed" /\ x.clash = items[i].clash
      /\ x.runs = items[i].runs /\ x.late = items[i].late
  BY <1>4, ItemState
<1>6. items' = [items EXCEPT ![i] = x]
  BY DEF Replace
<1>7. /\ items' \in Seq(Item) /\ DOMAIN items' = DOMAIN items
      /\ items'[i] = x /\ \A k \in DOMAIN items \ {i} : items'[k] = items[k]
  BY <1>4, <1>5, <1>6, ItemSet DEF IInv
<1>8. Fresh(s)' /\ ~Replaying(s)' /\ Target(s)' = Target(s) /\ Carries(s)
  BY <1>1, <1>2, <1>3 DEF Fresh, At, Carries, Releasing, Replaying, Target
<1>9. Read(s)'
  BY <1>1, <1>2, <1>3, <1>8 DEF Read, At, Busy, Carries, Releasing, Replaying, IInv, Reads
<1>10. Once'
  <2>1. \A k \in DOMAIN items : items'[k].cs = items[k].cs /\ items'[k].runs = items[k].runs
    BY <1>5, <1>7
  <2> QED BY <1>1, <1>2, <1>7, <1>8, <2>1, OnceKeeps
<1>11. ~stale' /\ stale' \in BOOLEAN /\ exists' \subseteq Objects
      /\ ver' \in [Objects -> Nat] /\ \A o \in Objects : ver[o] <= ver'[o]
  BY <1>1 DEF IInv, TypeOK
<1> HIDE DEF x, i, j
<1> QED BY <1>1, <1>2, <1>3, <1>5, <1>7, <1>8, <1>9, <1>10, <1>11, RowsKeep

\* A row that is removed is neither pending nor run again.
LEMMA DiscardKeeps == ASSUME IInv, NEW s \in Sessions, Discard(s) PROVE IInv'
<1> DEFINE i == job[s].item
           x == [items[i] EXCEPT !.state = "removed"]
<1>1. /\ Goto(s, Idle) /\ Idle \in Jobs /\ job'[s] = Idle /\ \A t \in Sessions \ {s} : job'[t] = job[t]
      /\ UNCHANGED <<status, exists, ver, approvals, releases, overwritten, stale>>
  BY Goes, IdleJob DEF Discard, network, history, IInv
<1>2. i \in DOMAIN items /\ items[i] \in Item
  BY JobOf, ItemOf DEF Discard, IInv
<1>3. /\ x \in Item /\ x.cs = items[i].cs /\ x.op = items[i].op /\ x.target = items[i].target
      /\ x.base = items[i].base /\ x.state = "removed" /\ x.clash = items[i].clash
      /\ x.runs = items[i].runs /\ x.late = items[i].late
  BY <1>2, ItemState
<1>4. items' = [items EXCEPT ![i] = x]
  BY DEF Discard
<1>5. /\ items' \in Seq(Item) /\ DOMAIN items' = DOMAIN items
      /\ items'[i] = x /\ \A k \in DOMAIN items \ {i} : items'[k] = items[k]
  BY <1>2, <1>3, <1>4, ItemSet DEF IInv
<1>6. Read(s)' /\ Fresh(s)' /\ ~Carries(s)' /\ ~Replaying(s)'
  BY <1>1, IdleJob DEF Read, Fresh, Busy, At, Carries, Releasing, Replaying
<1>7. Once'
  <2>1. \A k \in DOMAIN items : items'[k].cs = items[k].cs /\ items'[k].runs = items[k].runs
    BY <1>3, <1>5
  <2> QED BY <1>1, <1>5, <1>6, <2>1, OnceKeeps
<1>8. ~stale' /\ stale' \in BOOLEAN /\ exists' \subseteq Objects
      /\ ver' \in [Objects -> Nat] /\ \A o \in Objects : ver[o] <= ver'[o]
  BY <1>1 DEF IInv, TypeOK
<1> HIDE DEF x, i
<1> QED BY <1>1, <1>3, <1>5, <1>6, <1>7, <1>8, RowsKeep

\* A new row is late, or no older than what a release of its package has seen; if another package holds the
\* object it is marked.
LEMMA WriteKeeps == ASSUME IInv, NEW s \in Sessions, Write(s) PROVE IInv'
<1> DEFINE j == job[s]
           n == [cs |-> j.cs, op |-> j.op, target |-> j.target, base |-> j.base, state |-> "pending",
                 late |-> Late(s), clash |-> j.target # None /\ LockedBy(j.cs, j.target) # {}, runs |-> 0]
           new == Len(items) + 1
<1>1. /\ Goto(s, Idle) /\ job'[s] = Idle /\ (\A t \in Sessions \ {s} : job'[t] = job[t]) /\ At(s, "write")
      /\ UNCHANGED <<status, exists, ver, approvals, releases, overwritten, stale>>
  BY Goes DEF Write, network, history, IInv
<1>2. /\ j.op \in Ops /\ j.target \in Objects \cup {None} /\ j.base \in Nat /\ j.cs \in Packages
      /\ (j.target = None <=> j.op = "create") /\ (j.target # None => j.base <= ver[j.target])
      /\ j.approvals \in Nat /\ Read(s)
  BY <1>1, JobOf DEF IInv, Reads, Read, At, Busy, Carries, Target
<1>3. n \in Item /\ items \in Seq(Item)
  BY <1>2 DEF Item, Late, IInv, TypeOK
<1>4. items' = Append(items, n)
  BY DEF Write
<1>5. /\ items' \in Seq(Item) /\ DOMAIN items' = DOMAIN items \cup {new} /\ items'[new] = n /\ new \notin DOMAIN items
      /\ \A k \in DOMAIN items : items'[k] = items[k]
  BY <1>3, <1>4
<1>6. n.cs = j.cs /\ n.op = j.op /\ n.target = j.target /\ n.base = j.base /\ n.state = "pending" /\ n.late = Late(s)
      /\ n.clash = (j.target # None /\ LockedBy(j.cs, j.target) # {}) /\ n.runs = 0
  OBVIOUS
<1> HIDE DEF n, new
<1>7. TypeOK'
  <2>1. job' \in [Sessions -> Jobs']
    BY <1>1, <1>5, JobsStay, IdleJob DEF IInv, Jobs
  <2>2. \A k \in DOMAIN items' : IF items'[k].op = "create" THEN items'[k].target = None
          ELSE items'[k].target \in Objects /\ items'[k].base <= ver'[items'[k].target]
    BY <1>1, <1>2, <1>5, <1>6 DEF IInv, TypeOK
  <2> QED BY <1>1, <1>5, <2>1, <2>2 DEF IInv, TypeOK
<1>8. ver' \in [Objects -> Nat] /\ \A o \in Objects : ver[o] <= ver'[o]
  BY <1>1 DEF IInv, TypeOK
<1>9. ~Carries(s)' /\ ~Busy(s)' /\ ~Replaying(s)' /\ ~Releasing(s)' /\ Read(s)' /\ Fresh(s)'
  BY <1>1, IdleJob DEF Read, Fresh, Busy, At, Carries, Releasing, Replaying
<1>10. ASSUME NEW t \in Sessions \ {s} PROVE Read(t)' /\ (Carries(t)' => Carries(t) /\ Target(t)' = Target(t))
  BY <1>1, <1>5, <1>8, ReadStays
<1>11. ASSUME NEW t \in Sessions \ {s} PROVE Fresh(t)'
  <2>1. ASSUME Releasing(t), NEW i \in Due(t)', items'[i].target # None, ~items'[i].late
        PROVE  job[t].snap[items'[i].target] <= items'[i].base
    <3>1. job'[t] = job[t] /\ Fresh(t)
      BY <1>1 DEF IInv, Snaps
    <3>2. CASE i = new
      <4>1. At(t, "guard") /\ job[t].cs = j.cs
        BY <1>5, <1>6, <2>1, <3>1, <3>2, JobOf DEF Due, At, Pending, Rows, Releasing, Replaying, IInv
      <4>2. Carries(s) /\ Target(s) = j.target
        BY <1>1 DEF Carries, Target, At
      <4>3. ~(job[s].approvals < approvals[job[s].cs])
        <5>1. ~Late(s)
          BY <1>5, <1>6, <2>1, <3>2
        <5>2. approvals[j.cs] \in Nat
          BY <1>2 DEF IInv, TypeOK
        <5> QED BY <1>2, <5>1, <5>2 DEF Late
      <4> QED BY <1>5, <1>6, <2>1, <3>1, <3>2, <4>1, <4>2, <4>3 DEF Fresh
    <3>3. CASE i # new
      <4>1. Due(t)' \subseteq Due(t) \cup {new}
        BY <1>5, <3>1 DEF Due, At, Pending, Rows
      <4>2. i \in Due(t) /\ i \in DOMAIN items
        BY <2>1, <3>3, <4>1, JobOf DEF Due, At, Pending, Rows, Releasing, Replaying, IInv
      <4> QED BY <1>5, <2>1, <3>1, <4>2 DEF Fresh
    <3> QED BY <3>2, <3>3
  <2>2. ASSUME Releasing(t), NEW w \in Sessions, Carries(w)', job'[w].cs = job[t].cs, Target(w)' # None
        PROVE  job'[w].approvals < approvals[job'[w].cs] \/ job[t].snap[Target(w)'] <= job'[w].base
    <3>1. w # s
      BY <1>9, <2>2
    <3>2. Carries(w) /\ Target(w)' = Target(w) /\ job'[w] = job[w]
      BY <1>1, <1>10, <2>2, <3>1
    <3> QED BY <2>2, <3>2 DEF IInv, Snaps, Fresh
  <2> QED BY <1>1, <2>1, <2>2 DEF Fresh, Releasing, At
<1>12. Once'
  BY <1>1, <1>5, <1>6, <1>9, OnceKeeps
<1>13. Locks'
  <2>1. status[j.cs] # "none"
    BY <1>1, <1>2 DEF Read, Busy, At
  <2>2. ASSUME NEW k \in DOMAIN items'
        PROVE  /\ status[items'[k].cs] # "none"
               /\ items'[k].state \in {"applied", "failed"} => Settled(items'[k].cs)
    BY <1>5, <1>6, <2>1 DEF IInv, Locks
  <2>3. ASSUME NEW k \in DOMAIN items, items[k].cs # n.cs, items[k].target = n.target, n.target # None,
               items[k].state = "pending", status[items[k].cs] \in Open
        PROVE  n.clash
    <3>1. items[k].cs \in Packages
      BY ItemOf DEF IInv
    <3> QED BY <1>6, <2>3, <3>1 DEF LockedBy, Pending, Rows
  <2>4. LockHeld'
    BY <1>1, <1>5, <2>3 DEF IInv, Locks, LockHeld
  <2> QED BY <1>1, <2>2, <2>4 DEF Locks, Settled
<1> QED BY <1>1, <1>7, <1>9, <1>10, <1>11, <1>12, <1>13 DEF IInv, Reads, Snaps

\* A row set to pending again had been pending, or its package is released or was overwritten; its new base is
\* late or new enough.
LEMMA ResyncKeeps == ASSUME IInv, NEW s \in Sessions, Resync(s) PROVE IInv'
<1> DEFINE i == job[s].item
           x == [items[i] EXCEPT !.base = job[s].base, !.state = "pending", !.late = items[i].late \/ Late(s)]
<1>1. /\ Goto(s, Idle) /\ Idle \in Jobs /\ job'[s] = Idle /\ (\A t \in Sessions \ {s} : job'[t] = job[t]) /\ At(s, "resync")
      /\ UNCHANGED <<status, exists, ver, approvals, releases, overwritten, stale>>
  BY Goes, IdleJob DEF Resync, network, history, IInv
<1>2. i \in DOMAIN items /\ items[i] \in Item /\ job[s].base \in Nat /\ job[s].approvals \in Nat /\ job[s].cs \in Packages
  BY <1>1, JobOf, ItemOf DEF IInv, Busy, At
<1>3. items[i].cs = job[s].cs /\ Carries(s) /\ Target(s) = items[i].target /\ Read(s)
  BY <1>1 DEF IInv, Reads, Read, Carries, Target, At
<1>4. ~stale' /\ stale' \in BOOLEAN /\ exists' \subseteq Objects
      /\ ver' \in [Objects -> Nat] /\ \A o \in Objects : ver[o] <= ver'[o]
  BY <1>1 DEF IInv, TypeOK
<1>5. Read(s)' /\ Fresh(s)' /\ ~Carries(s)' /\ ~Replaying(s)'
  BY <1>1, IdleJob DEF Read, Fresh, Busy, At, Carries, Releasing, Replaying
<1>6. CASE items[i].state = "removed"
  <2>1. items' = items
    BY <1>6 DEF Resync
  <2>2. Once'
    BY <1>1, <1>5, <2>1, OnceKeeps
  <2> QED BY <1>1, <1>4, <1>5, <2>1, <2>2, RowsKeep DEF IInv, TypeOK
<1>7. CASE items[i].state # "removed"
  <2>1. x \in Item /\ x.cs = items[i].cs /\ x.op = items[i].op /\ x.target = items[i].target /\ x.base = job[s].base
        /\ x.state = "pending" /\ x.clash = items[i].clash /\ x.runs = items[i].runs /\ x.late = (items[i].late \/ Late(s))
    <3>1. items[i].late \in BOOLEAN /\ Late(s) \in BOOLEAN
      BY <1>2, ItemOf DEF IInv, Late
    <3> QED BY <1>2, <3>1 DEF Item
  <2>2. items' = [items EXCEPT ![i] = x]
    BY <1>7 DEF Resync
  <2>3. /\ items' \in Seq(Item) /\ DOMAIN items' = DOMAIN items
        /\ items'[i] = x /\ \A k \in DOMAIN items \ {i} : items'[k] = items[k]
    BY <1>2, <2>1, <2>2, ItemSet DEF IInv
  <2> HIDE DEF x
  <2>4. \A k \in DOMAIN items :
           /\ items'[k].cs = items[k].cs /\ items'[k].op = items[k].op /\ items'[k].target = items[k].target
           /\ items'[k].clash = items[k].clash /\ items'[k].runs = items[k].runs
    BY <2>1, <2>3
  <2>5. TypeOK'
    <3>1. job' \in [Sessions -> Jobs']
      BY <1>1, <2>3, JobsStay DEF IInv, Jobs
    <3>2. \A k \in DOMAIN items' : IF items'[k].op = "create" THEN items'[k].target = None
            ELSE items'[k].target \in Objects /\ items'[k].base <= ver'[items'[k].target]
      <4>1. items[i].op # "create" => items[i].target \in Objects /\ items[i].target # None
        BY <1>2, ObjectsAssumption DEF IInv, TypeOK
      <4>2. items[i].op # "create" => job[s].base <= ver[items[i].target]
        BY <1>3, <4>1 DEF Read
      <4>3. \A k \in DOMAIN items \ {i} : IF items[k].op = "create" THEN items[k].target = None
              ELSE items[k].target \in Objects /\ items[k].base <= ver[items[k].target]
        BY DEF IInv, TypeOK
      <4>4. items[i].op = "create" => items[i].target = None
        BY <1>2 DEF IInv, TypeOK
      <4> QED BY <1>1, <2>1, <2>3, <4>1, <4>2, <4>3, <4>4
    <3> QED BY <1>1, <1>4, <2>3, <3>1, <3>2 DEF IInv, TypeOK
  <2>6. ASSUME NEW t \in Sessions \ {s} PROVE Read(t)' /\ (Carries(t)' => Carries(t) /\ Target(t)' = Target(t))
    BY <1>1, <1>4, <2>4, ReadStays
  <2>7. ASSUME NEW t \in Sessions \ {s} PROVE Fresh(t)'
    <3>1. job'[t] = job[t] /\ Fresh(t) /\ (At(t, "guard") => job[t].cs \in Packages)
      BY <1>1, JobOf DEF IInv, Snaps, At, Busy
    <3>2. ASSUME Releasing(t), NEW k \in Due(t)', items'[k].target # None, ~items'[k].late
          PROVE  job[t].snap[items'[k].target] <= items'[k].base
      <4>1. k \in DOMAIN items
        BY <2>3, <3>1, <3>2, JobOf DEF Due, At, Pending, Rows, Releasing, Replaying, IInv
      <4>2. items[k].cs = job[t].cs
        <5>1. CASE At(t, "guard")
          BY <2>4, <3>1, <3>2, <4>1, <5>1 DEF Due, At, Pending, Rows
        <5>2. CASE Replaying(t)
          BY <3>1, <3>2, <5>2 DEF Due, At, Replaying, IInv, Reads, Read
        <5> QED BY <3>2, <5>1, <5>2 DEF Releasing, Replaying, At
      <4>3. CASE k = i
        <5>1. job[t].snap[Target(s)] <= job[s].base \/ job[s].approvals < approvals[job[s].cs]
          BY <1>3, <2>4, <3>1, <3>2, <4>1, <4>2, <4>3 DEF Fresh
        <5>2. ~Late(s)
          BY <2>1, <2>3, <3>2, <4>3
        <5>3. approvals[job[s].cs] \in Nat
          BY <1>2 DEF IInv, TypeOK
        <5> QED BY <1>2, <1>3, <2>1, <2>3, <4>3, <5>1, <5>2, <5>3 DEF Late
      <4>4. CASE k # i
        <5>1. k \in Due(t)
          BY <2>3, <2>4, <3>1, <3>2, <4>1, <4>4 DEF Due, At, Pending, Rows
        <5> QED BY <2>3, <3>1, <3>2, <4>1, <4>4, <5>1 DEF Fresh
      <4> QED BY <4>3, <4>4
    <3>3. ASSUME Releasing(t), NEW w \in Sessions, Carries(w)', job'[w].cs = job[t].cs, Target(w)' # None
          PROVE  job'[w].approvals < approvals[job'[w].cs] \/ job[t].snap[Target(w)'] <= job'[w].base
      <4>1. w # s
        BY <1>5, <3>3
      <4>2. Carries(w) /\ Target(w)' = Target(w) /\ job'[w] = job[w]
        BY <1>1, <2>6, <3>3, <4>1
      <4> QED BY <3>3, <4>2 DEF IInv, Snaps, Fresh
    <3> QED BY <1>1, <3>1, <3>2, <3>3 DEF Fresh, Releasing, At
  <2>8. Once'
    BY <1>1, <1>5, <2>3, <2>4, OnceKeeps
  <2>9. Locks'
    <3>1. \A k \in DOMAIN items : items'[k].state = "pending" /\ status[items[k].cs] \in Open
            => items[k].state = "pending" \/ overwritten[items[k].cs]
      <4>1. items[i].state \in {"pending", "applied", "failed"}
        BY <1>2, <1>7, ItemOf DEF IInv
      <4>2. items[i].state # "pending" => Settled(items[i].cs)
        BY <1>2, <4>1 DEF IInv, Locks
      <4> QED BY <2>3, <4>1, <4>2 DEF Settled, Open
    <3>2. \A k \in DOMAIN items : items'[k].state \in {"applied", "failed"} => items[k].state = items'[k].state
      BY <2>1, <2>3
    <3>3. LockHeld'
      BY <1>1, <2>3, <2>4, <3>1 DEF IInv, Locks, LockHeld
    <3> QED BY <1>1, <2>3, <2>4, <3>2, <3>3 DEF IInv, Locks, Settled
  <2> QED BY <1>1, <1>5, <2>5, <2>6, <2>7, <2>8, <2>9 DEF IInv, Reads, Snaps
<1> QED BY <1>6, <1>7

\* A decision over the status it had read never touches a released package; any other marks the package as
\* overwritten.
LEMMA SetStatusKeeps == ASSUME IInv, NEW s \in Sessions, SetStatus(s) PROVE IInv'
<1> DEFINE p == job[s].cs
           to == job[s].to
<1>1. /\ Goto(s, Idle) /\ job'[s] = Idle /\ (\A t \in Sessions \ {s} : job'[t] = job[t])
      /\ UNCHANGED <<items, exists, ver, releases, stale>> /\ At(s, "decide")
  BY Goes DEF SetStatus, network, IInv
<1>2. p \in Packages /\ to \in Open \cup {"cancelled"} /\ job[s].seen \in Open
  BY <1>1, JobOf DEF IInv, Busy, At
<1>3. status' = [status EXCEPT ![p] = to] /\ overwritten' = [overwritten EXCEPT ![p] = @ \/ status[p] # job[s].seen]
  BY DEF SetStatus
<1>4. approvals' = [approvals EXCEPT ![p] = @ + (IF to = "approved" THEN 1 ELSE 0)]
  BY DEF SetStatus
<1>5. /\ approvals' \in [Packages -> Nat] /\ \A q \in Packages : approvals[q] <= approvals'[q]
      /\ status'[p] = "approved" => approvals[p] < approvals'[p]
  <2>1. approvals \in [Packages -> Nat] /\ status \in [Packages -> Open \cup {"none", "released", "cancelled"}]
    BY DEF IInv, TypeOK
  <2> HIDE DEF p, to
  <2> QED BY <1>2, <1>3, <1>4, <2>1
<1>6. \A q \in Packages : /\ q # p => status'[q] = status[q] /\ overwritten'[q] = overwritten[q]
                          /\ ~overwritten'[q] => ~overwritten[q]
                          /\ ~overwritten'[p] => status[p] \in Open
                          /\ status'[p] \notin {"none", "released"}
  BY <1>2, <1>3 DEF IInv, TypeOK, Open
<1>7. TypeOK'
  <2>1. job' \in [Sessions -> Jobs']
    BY <1>1, JobsStay, IdleJob DEF IInv, Jobs
  <2>2. status' \in [Packages -> Open \cup {"none", "released", "cancelled"}] /\ overwritten' \in [Packages -> BOOLEAN]
    BY <1>2, <1>3 DEF IInv, TypeOK
  <2> QED BY <1>1, <1>5, <2>1, <2>2 DEF IInv, TypeOK
<1> HIDE DEF p, to
<1>8. ~Carries(s)' /\ ~Busy(s)' /\ ~Replaying(s)' /\ ~Releasing(s)' /\ Read(s)' /\ Fresh(s)'
  BY <1>1, IdleJob DEF Read, Fresh, Busy, At, Carries, Releasing, Replaying
<1>9. ASSUME NEW t \in Sessions \ {s} PROVE Read(t)'
  <2>1. job'[t] = job[t] /\ Read(t) /\ (Busy(t) => job[t].cs \in Packages)
    BY <1>1, JobOf DEF IInv, Reads
  <2>2. Busy(t)' => status'[job'[t].cs] # "none"
    BY <1>6, <2>1 DEF Read, Busy, At
  <2>3. Carries(t)' => /\ job'[t].approvals <= approvals'[job'[t].cs]
                       /\ status'[job'[t].cs] = "approved" => job'[t].approvals < approvals'[job'[t].cs]
    <3>1. Carries(t) => job[t].approvals \in Nat /\ job[t].cs \in Packages /\ approvals[job[t].cs] \in Nat
                        /\ approvals'[job[t].cs] \in Nat
      BY <1>5, JobOf DEF Carries, Busy, At, IInv, TypeOK
    <3>2. Carries(t)' => Carries(t)
      BY <2>1 DEF Carries
    <3> QED BY <1>5, <1>6, <2>1, <3>1, <3>2 DEF Read
  <2>4. Target(t)' = Target(t)
    BY <1>1, <2>1 DEF Target, At
  <2> QED BY <1>1, <2>1, <2>2, <2>3, <2>4 DEF Read, At, Carries, Releasing, Replaying
<1>10. ASSUME NEW t \in Sessions \ {s} PROVE Fresh(t)'
  <2>1. job'[t] = job[t] /\ Fresh(t) /\ Due(t)' = Due(t)
    BY <1>1 DEF IInv, Snaps, Due, At, Pending, Rows
  <2>2. \A w \in Sessions : Carries(w)' => /\ Carries(w) /\ Target(w)' = Target(w) /\ job'[w] = job[w]
                                           /\ job[w].approvals < approvals[job[w].cs] => job[w].approvals < approvals'[job[w].cs]
    <3>1. ASSUME NEW w \in Sessions, Carries(w)' PROVE w # s /\ Carries(w) /\ Target(w)' = Target(w) /\ job'[w] = job[w]
      BY <1>1, <1>8, <3>1 DEF Carries, Target, At
    <3>2. ASSUME NEW w \in Sessions, Carries(w)
          PROVE  job[w].approvals \in Nat /\ approvals[job[w].cs] \in Nat /\ approvals'[job[w].cs] \in Nat
                 /\ approvals[job[w].cs] <= approvals'[job[w].cs]
      BY <1>5, <3>2, JobOf DEF Carries, Busy, At, IInv, TypeOK
    <3> QED BY <3>1, <3>2
  <2> QED BY <1>1, <2>1, <2>2 DEF Fresh, Releasing
<1>11. Once'
  <2>1. ASSUME NEW k \in DOMAIN items, ~overwritten'[items[k].cs]
        PROVE  items[k].runs <= 1 /\ (status'[items[k].cs] # "released" => items[k].runs = 0)
    <3>1. items[k].cs \in Packages
      BY ItemOf DEF IInv
    <3> QED BY <1>6, <2>1, <3>1 DEF IInv, Once, Open
  <2>2. ASSUME NEW t \in Sessions, Replaying(t)'
        PROVE  Replaying(t) /\ job'[t] = job[t] /\ job[t].cs \in Packages
    BY <1>1, <1>8, <2>2, JobOf DEF Replaying, IInv, Busy, At
  <2>3. \A q \in Packages : Settled(q) => Settled(q)'
    BY <1>2, <1>3, <1>6 DEF Settled, Open, IInv, TypeOK
  <2>4. \A t \in Sessions : Replaying(t)' => Settled(job[t].cs)'
    BY <2>2, <2>3 DEF IInv, Once
  <2>5. \A t, u \in Sessions :
          Replaying(t)' /\ Replaying(u)' /\ job'[t].cs = job'[u].cs /\ ~overwritten'[job'[t].cs] => t = u
    BY <1>6, <2>2 DEF IInv, Once
  <2>6. \A t \in Sessions : Replaying(t)' /\ ~overwritten'[job'[t].cs] =>
          \A i \in job'[t].todo : items'[i].runs = 0 \/ (At(t, "mark")' /\ First(i, job'[t].todo))
    BY <1>1, <1>6, <2>2 DEF IInv, Once, At
  <2> QED BY <1>1, <2>1, <2>2, <2>4, <2>5, <2>6 DEF Once, First, Settled
<1>12. Locks'
  <2>1. \A k \in DOMAIN items : items[k].cs \in Packages
    BY ItemOf DEF IInv
  <2>2. \A q \in Packages : (Settled(q) => status'[q] = "released" \/ overwritten'[q])
                              /\ (status[q] # "none" => status'[q] # "none")
    BY <1>2, <1>3, <1>6 DEF Settled, Open, IInv, TypeOK
  <2>3. LockHeld'
    BY <1>1, <1>6, <2>1 DEF IInv, Locks, LockHeld
  <2> QED BY <1>1, <2>1, <2>2, <2>3 DEF IInv, Locks, Settled
<1> QED BY <1>1, <1>7, <1>8, <1>9, <1>10, <1>11, <1>12 DEF IInv, Reads, Snaps

\* What a release does next.
LEMMA ApplyJob ==
  ASSUME NEW p \in Packages, NEW snap \in [Objects -> Nat], NEW rows \in SUBSET DOMAIN items, rows # {}
  PROVE  [step |-> "apply", cs |-> p, snap |-> snap, todo |-> rows] \in Jobs
<1> DEFINE Todo == (SUBSET DOMAIN items) \ {{}}
<1>1. rows \in Todo
  OBVIOUS
<1>2. [step |-> "apply", cs |-> p, snap |-> snap, todo |-> rows]
        \in [step : {"apply"}, cs : Packages, snap : [Objects -> Nat], todo : Todo]
  <2> HIDE DEF Todo
  <2> QED BY <1>1
<1> QED BY <1>2 DEF Jobs

\* Only one release gets past the guard, and the items it finds have never been run.
LEMMA GuardKeeps == ASSUME IInv, NEW s \in Sessions, Guard(s) PROVE IInv'
<1> DEFINE p == job[s].cs
           rows == Pending(p)
           j == [step |-> "apply", cs |-> p, snap |-> job[s].snap, todo |-> rows]
<1>1. At(s, "guard") /\ UNCHANGED <<items, exists, ver, approvals, overwritten, stale>>
  BY DEF Guard, network
<1>2. p \in Packages /\ job[s].snap \in [Objects -> Nat] /\ rows \in SUBSET DOMAIN items /\ Read(s) /\ Fresh(s)
  BY <1>1, JobOf DEF IInv, Busy, At, Releasing, Reads, Snaps, Pending, Rows
<1>3. ~stale' /\ stale' \in BOOLEAN /\ exists' \subseteq Objects
      /\ ver' \in [Objects -> Nat] /\ \A o \in Objects : ver[o] <= ver'[o]
  BY <1>1 DEF IInv, TypeOK
<1>4. CASE status[p] # "approved"
  <2>1. Goto(s, Idle) /\ Idle \in Jobs /\ job'[s] = Idle /\ (\A t \in Sessions \ {s} : job'[t] = job[t])
        /\ UNCHANGED <<status, releases>>
    BY <1>4, Goes, IdleJob DEF Guard, IInv
  <2>2. Read(s)' /\ Fresh(s)' /\ ~Carries(s)' /\ ~Replaying(s)'
    BY <2>1, IdleJob DEF Read, Fresh, Busy, At, Carries, Releasing, Replaying
  <2>3. Once'
    BY <1>1, <2>1, <2>2, OnceKeeps
  <2> QED BY <1>1, <1>3, <2>1, <2>2, <2>3, RowsKeep DEF IInv, TypeOK
<1>5. CASE status[p] = "approved"
  <2>1. status' = [status EXCEPT ![p] = "released"] /\ releases' = [releases EXCEPT ![p] = @ + 1]
        /\ Goto(s, IF rows = {} THEN Idle ELSE j)
    BY <1>5 DEF Guard, Replay
  <2>2. /\ status'[p] = "released" /\ \A q \in Packages \ {p} : status'[q] = status[q]
        /\ status' \in [Packages -> Open \cup {"none", "released", "cancelled"}] /\ releases' \in [Packages -> Nat]
    BY <1>2, <2>1 DEF IInv, TypeOK
  <2>3. job'[s] = (IF rows = {} THEN Idle ELSE j) /\ \A t \in Sessions \ {s} : job'[t] = job[t]
    BY <2>1, Goes DEF IInv
  <2>4. TypeOK'
    <3>1. (IF rows = {} THEN Idle ELSE j) \in Jobs'
      <4>1. rows # {} => j \in Jobs
        <5> HIDE DEF rows, p
        <5> QED BY <1>2, ApplyJob
      <4>2. Jobs' = Jobs
        BY <1>1 DEF Jobs
      <4> QED BY <4>1, <4>2, IdleJob
    <3>2. job' \in [Sessions -> Jobs']
      BY <1>1, <2>1, <3>1, JobsStay DEF IInv
    <3> QED BY <1>1, <2>2, <3>2 DEF IInv, TypeOK
  <2> HIDE DEF p
  <2>5. /\ ~Carries(s)' /\ (rows = {} => ~Busy(s)' /\ ~Releasing(s)')
        /\ rows # {} => At(s, "apply")' /\ job'[s].cs = p /\ job'[s].snap = job[s].snap /\ job'[s].todo = rows
    BY <2>3, IdleJob DEF Busy, At, Carries, Releasing
  <2>6. \A k \in rows : items[k].cs = p
    BY DEF Pending, Rows
  <2>7. Read(s)'
    <3>1. Replaying(s)' => rows # {}
      BY <2>5 DEF Replaying, Busy, At, Releasing
    <3> HIDE DEF rows, j
    <3> QED BY <1>1, <1>2, <2>2, <2>5, <2>6, <3>1 DEF Read, Busy, At, Carries, Releasing, Replaying, p
  <2>8. ASSUME NEW t \in Sessions \ {s} PROVE Read(t)'
    <3>1. job'[t] = job[t] /\ Read(t) /\ (Busy(t) => job[t].cs \in Packages)
      BY <2>3, JobOf DEF IInv, Reads
    <3>2. Busy(t)' => status'[job'[t].cs] # "none"
      BY <2>2, <3>1 DEF Read, Busy, At
    <3>3. Carries(t)' /\ status'[job'[t].cs] = "approved" => job'[t].approvals < approvals'[job'[t].cs]
      BY <1>1, <2>2, <3>1 DEF Read, Carries, Busy, At
    <3>4. Target(t)' = Target(t)
      BY <1>1, <3>1 DEF Target, At
    <3> QED BY <1>1, <3>1, <3>2, <3>3, <3>4 DEF Read, At, Carries, Releasing, Replaying
  <2>9. \A w \in Sessions : Carries(w)' => Carries(w) /\ Target(w)' = Target(w) /\ job'[w] = job[w]
    BY <1>1, <2>3, <2>5 DEF Carries, Target, At
  <2>10. ASSUME NEW t \in Sessions \ {s} PROVE Fresh(t)'
    <3>1. job'[t] = job[t] /\ Fresh(t) /\ Due(t)' = Due(t)
      BY <1>1, <2>3 DEF IInv, Snaps, Due, At, Pending, Rows
    <3> QED BY <1>1, <2>9, <3>1 DEF Fresh, Releasing
  <2>11. Fresh(s)'
    <3>1. CASE rows = {}
      BY <2>5, <3>1 DEF Fresh
    <3>2. CASE rows # {}
      <4>1. Releasing(s) /\ Due(s) = rows /\ Due(s)' = rows
        BY <1>1, <2>5, <3>2 DEF Releasing, Due, At, p
      <4> HIDE DEF rows, j
      <4> QED BY <1>1, <1>2, <2>5, <2>9, <3>2, <4>1 DEF Fresh, p
    <3> QED BY <3>1, <3>2
  <2>12. Once'
    <3>1. \A k \in DOMAIN items : items[k].cs \in Packages
      BY ItemOf DEF IInv
    <3>2. ASSUME NEW t \in Sessions, Replaying(t)', t # s PROVE Replaying(t) /\ job'[t] = job[t] /\ job[t].cs \in Packages
      BY <2>3, <3>2, JobOf DEF Replaying, IInv, Busy, At
    <3>3. Replaying(s)' => At(s, "apply")' /\ job'[s].cs = p /\ job'[s].todo = rows
      BY <2>5 DEF Replaying, Releasing
    <3>4. \A t \in Sessions \ {s} : Replaying(t) /\ job[t].cs = p => overwritten[p]
      BY <1>5 DEF IInv, Once, Settled
    <3>5. \A k \in DOMAIN items : ~overwritten'[items'[k].cs] =>
            items'[k].runs <= 1 /\ (status'[items'[k].cs] # "released" => items'[k].runs = 0)
      BY <1>1, <2>2, <3>1 DEF IInv, Once
    <3>6. \A t \in Sessions : Replaying(t)' => Settled(job[t].cs)'
      BY <1>1, <2>2, <3>2, <3>3 DEF IInv, Once, Settled
    <3>7. \A t, u \in Sessions :
            Replaying(t)' /\ Replaying(u)' /\ job'[t].cs = job'[u].cs /\ ~overwritten'[job'[t].cs] => t = u
      BY <1>1, <3>2, <3>3, <3>4 DEF IInv, Once
    <3>8. \A t \in Sessions : Replaying(t)' /\ ~overwritten'[job'[t].cs] =>
            \A i \in job'[t].todo : items'[i].runs = 0 \/ (At(t, "mark")' /\ First(i, job'[t].todo))
      <4>1. ~overwritten[p] => \A i \in rows : items[i].runs = 0
        BY <1>2, <1>5, <2>6 DEF IInv, Once
      <4>2. ASSUME NEW t \in Sessions \ {s}, Replaying(t)', ~overwritten'[job'[t].cs], NEW i \in job'[t].todo
            PROVE  items'[i].runs = 0 \/ (At(t, "mark")' /\ First(i, job'[t].todo))
        BY <1>1, <3>2, <4>2 DEF IInv, Once, At
      <4> QED BY <1>1, <3>3, <4>1, <4>2
    <3> QED BY <1>1, <3>5, <3>6, <3>7, <3>8 DEF Once, First
  <2>13. Locks'
    <3>1. \A k \in DOMAIN items : items[k].cs \in Packages
      BY ItemOf DEF IInv
    <3>2. LockHeld'
      BY <1>1, <2>2, <3>1 DEF IInv, Locks, LockHeld, Open
    <3> QED BY <1>1, <2>2, <3>1, <3>2 DEF IInv, Locks, Settled
  <2> QED BY <1>1, <2>4, <2>7, <2>8, <2>10, <2>11, <2>12, <2>13 DEF IInv, Reads, Snaps
<1> QED BY <1>4, <1>5

\* An item that has been marked is not replayed again by this release, and no other release of the package is
\* under way.
LEMMA MarkKeeps == ASSUME IInv, NEW s \in Sessions, Mark(s) PROVE IInv'
<1> DEFINE p == job[s].cs
           todo == job[s].todo
<1>1. PICK i \in DOMAIN items :
        /\ First(i, todo) /\ Replay(s, todo \ {i})
        /\ items' = IF items[i].state = "removed" THEN items ELSE [items EXCEPT ![i].state = job[s].result]
  BY DEF Mark
<1> DEFINE x == [items[i] EXCEPT !.state = job[s].result]
           rows == todo \ {i}
           j == [step |-> "apply", cs |-> p, snap |-> job[s].snap, todo |-> rows]
<1>2. At(s, "mark") /\ UNCHANGED <<status, exists, ver, approvals, releases, overwritten, stale>>
  BY DEF Mark, network, history
<1>3. /\ p \in Packages /\ job[s].snap \in [Objects -> Nat] /\ todo \in SUBSET DOMAIN items
      /\ job[s].result \in {"applied", "failed"} /\ Read(s) /\ Fresh(s) /\ items[i] \in Item /\ i \in todo
  BY <1>1, <1>2, JobOf, ItemOf DEF IInv, Busy, At, Releasing, Replaying, Reads, Snaps, First
<1>4. Settled(p) /\ items[i].cs = p
  BY <1>2, <1>3 DEF IInv, Once, Replaying, At, Read
<1>5. x \in Item /\ x.cs = items[i].cs /\ x.op = items[i].op /\ x.target = items[i].target /\ x.base = items[i].base
      /\ x.state \in {"applied", "failed"} /\ x.late = items[i].late /\ x.clash = items[i].clash /\ x.runs = items[i].runs
  <2>1. items[i] \in Item /\ job[s].result \in {"applied", "failed"}
    BY <1>3
  <2> QED BY <2>1 DEF Item
<1>6. items' = items \/ items' = [items EXCEPT ![i] = x]
  BY <1>1
<1>7. items' \in Seq(Item) /\ DOMAIN items' = DOMAIN items /\ (items' = items \/ items'[i] = x)
      /\ \A k \in DOMAIN items \ {i} : items'[k] = items[k]
  BY <1>5, <1>6, ItemSet DEF IInv, TypeOK
<1> HIDE DEF x
<1>8. \A k \in DOMAIN items :
           /\ items'[k].cs = items[k].cs /\ items'[k].op = items[k].op /\ items'[k].target = items[k].target
           /\ items'[k].base = items[k].base /\ items'[k].clash = items[k].clash /\ items'[k].late = items[k].late
           /\ items'[k].runs = items[k].runs
           /\ items'[k].state = "pending" => items[k].state = "pending"
           /\ items'[k].state \in {"applied", "failed"} => items[k].state = items'[k].state \/ Settled(items[k].cs)
  BY <1>4, <1>5, <1>7
<1>9. Goto(s, IF rows = {} THEN Idle ELSE j) /\ (IF rows = {} THEN Idle ELSE j) \in Jobs
  <2>1. rows # {} => j \in Jobs
    <3>1. rows \in SUBSET DOMAIN items
      BY <1>3
    <3> HIDE DEF rows, p
    <3> QED BY <1>3, <3>1, ApplyJob
  <2> QED BY <1>1, <2>1, IdleJob DEF Replay
<1>10. job'[s] = (IF rows = {} THEN Idle ELSE j) /\ \A t \in Sessions \ {s} : job'[t] = job[t]
  BY <1>9, Goes DEF IInv
<1>11. /\ ~Carries(s)' /\ (rows = {} => ~Busy(s)' /\ ~Releasing(s)')
       /\ rows # {} => At(s, "apply")' /\ job'[s].cs = p /\ job'[s].snap = job[s].snap /\ job'[s].todo = rows
  BY <1>10, IdleJob DEF Busy, At, Carries, Releasing
<1>12. \A k \in rows : k \in DOMAIN items /\ items[k].cs = p
  BY <1>2, <1>3 DEF Read, Replaying, At
<1>13. Replaying(s)' => rows # {}
  BY <1>11 DEF Replaying, Releasing
<1>14. rows \subseteq todo /\ Due(s) = todo /\ Releasing(s)
  BY <1>2 DEF Due, At, Releasing
<1> HIDE DEF rows, j
<1>15. Read(s)'
  BY <1>2, <1>3, <1>8, <1>11, <1>12, <1>13 DEF Read, Busy, At, Carries, Releasing, Replaying
<1>16. ver' \in [Objects -> Nat] /\ (\A o \in Objects : ver[o] <= ver'[o]) /\ ~stale' /\ stale' \in BOOLEAN
       /\ exists' \subseteq Objects
  BY <1>2 DEF IInv, TypeOK
<1>17. \A w \in Sessions : Carries(w)' => Carries(w) /\ Target(w)' = Target(w) /\ job'[w] = job[w]
  BY <1>2, <1>8, <1>10, <1>11, <1>16, ReadStays DEF Carries
<1>18. Fresh(s)'
  <2>1. CASE rows = {}
    BY <1>11, <2>1 DEF Fresh
  <2>2. CASE rows # {}
    <3>1. Due(s)' = rows
      BY <1>11, <2>2 DEF Due, At
    <3> QED BY <1>2, <1>3, <1>8, <1>11, <1>12, <1>14, <1>17, <2>2, <3>1 DEF Fresh
  <2> QED BY <2>1, <2>2
<1>19. Once'
  <2>1. ASSUME NEW t \in Sessions \ {s}, Replaying(t)'
        PROVE  Replaying(t) /\ job'[t] = job[t] /\ job[t].cs \in Packages /\ job[t].todo \subseteq DOMAIN items
    BY <1>10, <2>1, JobOf DEF Replaying, IInv, Busy, At
  <2>2. Replaying(s)' => At(s, "apply")' /\ job'[s].cs = p /\ job'[s].todo = rows
    BY <1>11, <1>13
  <2>3. Replaying(s)
    BY <1>2 DEF Replaying, At
  <2>4. \A k \in DOMAIN items' : ~overwritten'[items'[k].cs] =>
          items'[k].runs <= 1 /\ (status'[items'[k].cs] # "released" => items'[k].runs = 0)
    BY <1>2, <1>7, <1>8 DEF IInv, Once
  <2>5. \A t \in Sessions : Replaying(t)' => Settled(job[t].cs)'
    BY <1>2, <2>1, <2>2, <2>3 DEF IInv, Once, Settled
  <2>6. \A t, u \in Sessions :
          Replaying(t)' /\ Replaying(u)' /\ job'[t].cs = job'[u].cs /\ ~overwritten'[job'[t].cs] => t = u
    BY <1>2, <2>1, <2>2, <2>3 DEF IInv, Once
  <2>7. ASSUME NEW t \in Sessions \ {s}, Replaying(t)', ~overwritten'[job'[t].cs], NEW k \in job'[t].todo
        PROVE  items'[k].runs = 0 \/ (At(t, "mark")' /\ First(k, job'[t].todo))
    BY <1>2, <1>8, <2>1, <2>7 DEF IInv, Once, At
  <2>8. ASSUME ~overwritten[p], NEW k \in rows PROVE items'[k].runs = 0
    <3>1. k # i /\ k \in todo /\ k \in Nat /\ i \in Nat
      BY <1>3, ItemOf DEF rows, IInv
    <3>2. ~First(k, todo)
      BY <1>1, <1>3, <3>1 DEF First
    <3> QED BY <1>8, <1>12, <2>3, <2>8, <3>1, <3>2 DEF IInv, Once
  <2> QED BY <1>2, <2>2, <2>4, <2>5, <2>6, <2>7, <2>8 DEF Once, First
<1> QED BY <1>2, <1>7, <1>8, <1>9, <1>11, <1>15, <1>16, <1>18, <1>19, RowsKeep

\* And after it has tried an operation.
LEMMA MarkJob ==
  ASSUME NEW p \in Packages, NEW snap \in [Objects -> Nat], NEW rows \in SUBSET DOMAIN items, rows # {},
         NEW r \in {"applied", "failed"}
  PROVE  [step |-> "mark", cs |-> p, snap |-> snap, todo |-> rows, result |-> r] \in Jobs
<1> DEFINE Todo == (SUBSET DOMAIN items) \ {{}}
<1>1. rows \in Todo
  OBVIOUS
<1>2. [step |-> "mark", cs |-> p, snap |-> snap, todo |-> rows, result |-> r]
        \in [step : {"mark"}, cs : Packages, snap : [Objects -> Nat], todo : Todo, result : {"applied", "failed"}]
  <2> HIDE DEF Todo
  <2> QED BY <1>1
<1> QED BY <1>2 DEF Jobs

\* Whatever an operation does to the live objects, none of them becomes older.
LEMMA EditGrows ==
  ASSUME TypeOK, NEW op, NEW o, Edit(op, o)
  PROVE  exists' \subseteq Objects /\ ver' \in [Objects -> Nat] /\ \A x \in Objects : ver[x] <= ver'[x]
<1>1. PICK wrote, gone : exists' = exists \ gone /\ ver' = [x \in Objects |-> IF x \in wrote THEN ver[x] + 1 ELSE ver[x]]
  BY DEF Edit
<1> QED BY <1>1 DEF TypeOK

\* The operation applied has not been run before, and its object is as old as the release saw it, or its item is late.
LEMMA ApplyKeeps == ASSUME IInv, NEW s \in Sessions, Apply(s) PROVE IInv'
<1> DEFINE p == job[s].cs
           todo == job[s].todo
           j(r) == [step |-> "mark", cs |-> p, snap |-> job[s].snap, todo |-> todo, result |-> r]
<1>1. At(s, "apply") /\ UNCHANGED <<status, approvals, releases, overwritten>>
  BY DEF Apply
<1>2. /\ p \in Packages /\ job[s].snap \in [Objects -> Nat] /\ todo \in SUBSET DOMAIN items /\ todo # {}
      /\ Read(s) /\ Fresh(s) /\ Replaying(s) /\ Releasing(s) /\ Due(s) = todo
  BY <1>1, JobOf DEF IInv, Busy, At, Releasing, Replaying, Reads, Snaps, Due
<1>3. Settled(p) /\ \A k \in todo : items[k].cs = p /\ (~overwritten[p] => items[k].runs = 0)
  BY <1>1, <1>2 DEF IInv, Once, Read, At
<1>4. PICK r \in {"applied", "failed"} : Goto(s, j(r))
  BY DEF Apply
<1>5. j(r) \in Jobs
  <2> HIDE DEF p, todo
  <2> QED BY <1>2, MarkJob
<1>6. job'[s] = j(r) /\ \A t \in Sessions \ {s} : job'[t] = job[t]
  BY <1>4, Goes DEF IInv
<1>7. At(s, "mark")' /\ job'[s].cs = p /\ job'[s].snap = job[s].snap /\ job'[s].todo = todo /\ ~Carries(s)'
      /\ Replaying(s)' /\ Releasing(s)' /\ Due(s)' = todo
  BY <1>6 DEF At, Carries, Replaying, Releasing, Due
<1> HIDE DEF p, todo, j
\* What the operation does to the rows and the objects is all that differs.
<1>8. ASSUME exists' \subseteq Objects, ver' \in [Objects -> Nat], \A o \in Objects : ver[o] <= ver'[o], ~stale', stale' \in BOOLEAN,
             items' \in Seq(Item), DOMAIN items' = DOMAIN items,
             \A k \in DOMAIN items :
               /\ items'[k].cs = items[k].cs /\ items'[k].op = items[k].op /\ items'[k].target = items[k].target
               /\ items'[k].base = items[k].base /\ items'[k].clash = items[k].clash /\ items'[k].late = items[k].late
               /\ items'[k].state = items[k].state
               /\ items'[k].runs = items[k].runs \/ (items'[k].runs = items[k].runs + 1 /\ First(k, todo))
      PROVE  IInv'
  <2>1. Read(s)'
    <3>1. \A o \in Objects : job[s].snap[o] \in Nat /\ ver[o] \in Nat /\ job[s].snap[o] <= ver[o]
      BY <1>2 DEF Read, IInv, TypeOK
    <3>2. status[p] # "none"
      BY <1>2 DEF Read, p, Busy, At, Replaying
    <3>3. \A o \in Objects : job[s].snap[o] <= ver'[o]
      BY <3>1, <1>8
    <3>4. \A k \in todo : items'[k].cs = p
      BY <1>2, <1>3, <1>8
    <3> QED BY <1>1, <1>7, <3>2, <3>3, <3>4 DEF Read, Busy, At, Releasing
  <2>2. \A w \in Sessions : Carries(w)' => Carries(w) /\ Target(w)' = Target(w) /\ job'[w] = job[w]
    BY <1>1, <1>6, <1>7, <1>8, ReadStays
  <2>3. Fresh(s)'
    <3>1. \A k \in todo : items'[k].target = items[k].target /\ items'[k].late = items[k].late /\ items'[k].base = items[k].base
      BY <1>2, <1>8
    <3>2. job'[s].cs = job[s].cs
      BY <1>7 DEF p
    <3> QED BY <1>1, <1>2, <1>7, <2>2, <3>1, <3>2 DEF Fresh
  <2>4. Once'
    <3>1. ASSUME NEW t \in Sessions \ {s}, Replaying(t)'
          PROVE  Replaying(t) /\ job'[t] = job[t] /\ job[t].cs \in Packages /\ job[t].todo \subseteq DOMAIN items
      BY <1>6, <3>1, JobOf DEF Replaying, IInv, Busy, At
    <3>2. \A k \in DOMAIN items' : ~overwritten'[items'[k].cs] =>
            items'[k].runs <= 1 /\ (status'[items'[k].cs] # "released" => items'[k].runs = 0)
      BY <1>1, <1>3, <1>8 DEF IInv, Once, First, Settled
    <3>3. \A t \in Sessions : Replaying(t)' => Settled(job[t].cs)'
      BY <1>1, <1>3, <1>7, <3>1 DEF IInv, Once, Settled
    <3>4. \A t, u \in Sessions :
            Replaying(t)' /\ Replaying(u)' /\ job'[t].cs = job'[u].cs /\ ~overwritten'[job'[t].cs] => t = u
      BY <1>1, <1>2, <1>7, <3>1 DEF IInv, Once, p
    <3>5. ASSUME NEW t \in Sessions \ {s}, Replaying(t)', ~overwritten'[job'[t].cs], NEW k \in job'[t].todo
          PROVE  items'[k].runs = 0 \/ (At(t, "mark")' /\ First(k, job'[t].todo))
      <4>1. job[t].cs # p
        BY <1>1, <1>2, <3>1, <3>5 DEF IInv, Once, p
      <4>2. items[k].cs = job[t].cs
        BY <3>1, <3>5 DEF IInv, Reads, Read
      <4>3. k \notin todo
        BY <1>3, <4>1, <4>2
      <4> QED BY <1>1, <1>8, <3>1, <3>5, <4>3 DEF IInv, Once, At, First
    <3>6. ~overwritten[p] => \A k \in todo : items'[k].runs = 0 \/ First(k, todo)
      BY <1>2, <1>3, <1>8
    <3> QED BY <1>1, <1>7, <3>2, <3>3, <3>4, <3>5, <3>6 DEF Once, First
  <2> QED BY <1>1, <1>4, <1>5, <1>7, <1>8, <2>1, <2>3, <2>4, RowsKeep
<1>9. CASE UNCHANGED <<network, items, stale>>
  BY <1>8, <1>9 DEF IInv, TypeOK, network
<1>10. CASE ~UNCHANGED <<network, items, stale>>
  <2>1. PICK i \in DOMAIN items :
          /\ First(i, todo) /\ Edit(items[i].op, items[i].target)
          /\ items' = [items EXCEPT ![i].runs = @ + 1]
          /\ stale' = (stale \/ (items[i].target # None /\ ~items[i].late /\ items[i].base < job[s].snap[items[i].target]))
    BY <1>10 DEF Apply, todo
  <2> DEFINE x == [items[i] EXCEPT !.runs = @ + 1]
  <2>2. items[i] \in Item /\ items[i].base \in Nat /\ items[i].target \in Objects \cup {None} /\ i \in todo
    BY <2>1, ItemOf DEF IInv, First
  <2>3. x \in Item /\ x.cs = items[i].cs /\ x.op = items[i].op /\ x.target = items[i].target /\ x.base = items[i].base
        /\ x.state = items[i].state /\ x.late = items[i].late /\ x.clash = items[i].clash /\ x.runs = items[i].runs + 1
    BY <2>2, ItemRuns
  <2>4. items' = [items EXCEPT ![i] = x]
    BY <2>1
  <2>5. items' \in Seq(Item) /\ DOMAIN items' = DOMAIN items /\ items'[i] = x
        /\ \A k \in DOMAIN items \ {i} : items'[k] = items[k]
    BY <2>3, <2>4, ItemSet DEF IInv
  <2>6. exists' \subseteq Objects /\ ver' \in [Objects -> Nat] /\ \A o \in Objects : ver[o] <= ver'[o]
    BY <2>1, EditGrows DEF IInv
  <2>7. ~stale' /\ stale' \in BOOLEAN
    <3>1. items[i].target # None /\ ~items[i].late => job[s].snap[items[i].target] <= items[i].base
      BY <1>2, <2>2 DEF Fresh
    <3>2. items[i].target # None => job[s].snap[items[i].target] \in Nat
      BY <1>2, <2>2
    <3>3. ~(items[i].target # None /\ ~items[i].late /\ items[i].base < job[s].snap[items[i].target])
      BY <2>2, <3>1, <3>2
    <3>4. stale = FALSE
      BY DEF IInv, TypeOK
    <3> QED BY <2>1, <3>3, <3>4
  <2> HIDE DEF x
  <2> QED BY <1>8, <2>1, <2>3, <2>5, <2>6, <2>7
<1> QED BY <1>9, <1>10

-----------------------------------------------------------------------------
\* Nothing has happened yet.
LEMMA InitIInv == Init => IInv
<1> SUFFICES ASSUME Init PROVE IInv
  OBVIOUS
<1>1. TypeOK
  <2>1. items \in Seq(Item) /\ DOMAIN items = {}
    BY DEF Init
  <2>2. job \in [Sessions -> Jobs]
    BY IdleJob DEF Init
  <2> QED BY <2>1, <2>2 DEF Init, TypeOK
<1>2. \A s \in Sessions : Read(s) /\ Fresh(s) /\ ~Replaying(s)
  BY IdleJob DEF Init, Read, Fresh, Busy, At, Carries, Releasing, Replaying
<1>3. Once /\ Locks /\ ~stale
  BY <1>2 DEF Init, Once, Locks, LockHeld
<1> QED BY <1>1, <1>2, <1>3 DEF IInv, Reads, Snaps

\* Every step keeps the invariant.
LEMMA NextIInv == IInv /\ [Next]_vars => IInv'
<1> SUFFICES ASSUME IInv, [Next]_vars PROVE IInv'
  OBVIOUS
<1>1. CASE UNCHANGED vars
  <2>1. UNCHANGED <<status, items, exists, ver, job, approvals, releases, overwritten, stale>>
    BY <1>1 DEF vars, network, history
  <2>2. TypeOK'
    BY <2>1 DEF IInv, TypeOK, Jobs
  <2>3. Reads' /\ Snaps'
    BY <2>1 DEF IInv, Reads, Read, Snaps, Fresh, Due, Busy, At, Carries, Releasing, Replaying, Target, Pending, Rows
  <2>4. Once' /\ Locks'
    BY <2>1 DEF IInv, Once, Locks, LockHeld, Replaying, Settled, At, First
  <2> QED BY <2>1, <2>2, <2>3, <2>4 DEF IInv
<1>2. CASE \E p \in Packages : Create(p)
  BY <1>2, CreateKeeps
<1>3. CASE \E o \in Objects : Touch(o)
  BY <1>3, TouchKeeps
<1>4. ASSUME NEW s \in Sessions, NEW p \in Packages,
             \/ ProposeNew(s, p) \/ (\E op \in LiveOps, o \in Objects : Propose(s, p, op, o)) \/ Release(s, p)
             \/ \E to \in {"submitted", "approved", "rejected", "cancelled"} : Decide(s, p, to)
      PROVE  IInv'
  BY <1>4, ProposeNewKeeps, ProposeKeeps, ReleaseKeeps, DecideKeeps
<1>5. ASSUME NEW s \in Sessions, NEW i \in DOMAIN items, RemoveItem(s, i) \/ Rebase(s, i) PROVE IInv'
  BY <1>5, RemoveItemKeeps, RebaseKeeps
<1>6. ASSUME NEW s \in Sessions,
             \/ MergeWrite(s) \/ Replace(s) \/ Write(s) \/ Discard(s) \/ Resync(s) \/ SetStatus(s)
             \/ Guard(s) \/ Apply(s) \/ Mark(s) \/ Interrupt(s)
      PROVE  IInv'
  BY <1>6, MergeWriteKeeps, ReplaceKeeps, WriteKeeps, DiscardKeeps, ResyncKeeps, SetStatusKeeps, GuardKeeps,
     ApplyKeeps, MarkKeeps, InterruptKeeps
<1> QED BY <1>1, <1>2, <1>3, <1>4, <1>5, <1>6 DEF Next

\* The inductive invariant holds throughout.
LEMMA Invariance == Spec => []IInv
<1> QED BY InitIInv, NextIInv, PTL DEF Spec

\* Every variable keeps its type: in particular requests name packages and items that exist, and no proposal was made
\* on a version the object has not had yet.
THEOREM TypeCorrect == Spec => []TypeOK
<1>1. IInv => TypeOK
  BY DEF IInv
<1> QED BY <1>1, Invariance, PTL

\* An operation is applied to the network at most once, through any number of releases, breaks and decisions, as long as
\* no status of its package was written over one that the request had not seen (Release in changes.go).
THEOREM AppliedAtMostOnce == Spec => []AppliedOnce
<1>1. IInv => AppliedOnce
  BY DEF IInv, Once, AppliedOnce
<1> QED BY <1>1, Invariance, PTL

\* No release applies an item to an object that had changed between the proposal and the look for conflicts, but for
\* items that an older request wrote after the approval (Conflicts and Release in changes.go).
THEOREM ConflictsSeen == Spec => []NoStaleApply
<1>1. IInv => NoStaleApply
  BY DEF IInv, NoStaleApply
<1> QED BY <1>1, Invariance, PTL

\* One open package holds a live object, unless the second proposal was written past the check of the first or a
\* status was overwritten (lockedBy in changes.go).
THEOREM LocksKept == Spec => []LockHeld
<1>1. IInv => LockHeld
  BY DEF IInv, Locks
<1> QED BY <1>1, Invariance, PTL
=============================================================================
