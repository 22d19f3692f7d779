---- MODULE ControlRoom_proofs ----
(***************************************************************************)
(* Proofs about the pages of the control room, for any number of elements, *)
(* plans, outages, events, requests on their way and bounds.               *)
(*                                                                         *)
(* A behaviour is one of one page, so the inductive invariant is one       *)
(* invariant per page, and the proof one lemma per page.                   *)
(***************************************************************************)
EXTENDS ControlRoom, SequenceTheorems, WellFoundedInduction, TLAPS

\* A record with the fields F.
Fields(r, F) == r = [f \in F |-> r[f]]

-----------------------------------------------------------------------------
(* Operate *)

OperateRequests == [op : {"select", "outage", "operate"}, at : Objects, action : {"", "open", "close"}, cat : BOOLEAN,
                    way : {t[2] : t \in Oper!Operable} \cup {Nil}, named : Oper!Operable \cup {Nil}]
Elements == Objects \cup {Nil}
Boxes == [cat : BOOLEAN, busy : BOOLEAN, confirm : Oper!Operable \cup {Nil}]
OperateUi == [selected : Elements, open : SUBSET Oper!Operable, outage : BOOLEAN, box : Boxes]
OperateWorlds == [open : SUBSET Oper!Operable, wrong : BOOLEAN]

\* The dialog over a category is that of the element shown, as far as the box can tell.
Named(u) == u.box.cat /\ u.box.confirm # Nil => u.selected \in Objects /\ Oper!Alike(u.box.confirm[1], u.selected)

\* A request to open that has a category says what it is sent for.
Says(c) ==
  c.action = "open" /\ c.cat => c.named \in Oper!Operable /\ c.named[2] = c.way /\ Oper!Alike(c.named[1], c.at)

OperateInv ==
  /\ ui \in OperateUi /\ Named(ui)
  /\ world \in OperateWorlds /\ ~world.wrong
  /\ calls \subseteq OperateRequests /\ \A c \in calls : Says(c)

-----------------------------------------------------------------------------
(* SwitchingPlans *)

PlansInv ==
  /\ Fields(ui, {"plan", "draft", "busy", "confirm"})
  /\ ui.draft # Nil => Fields(ui.draft, {"id", "steps"})
  /\ Switching!DraftOfPlan

-----------------------------------------------------------------------------
(* ReportsTab *)

FormFields == {"filter", "items", "overlay", "form", "code", "customer", "picked", "saving", "edit"}

\* The customer of the form, and of a report on its way, is the one whose code goes with it.
ReportsInv ==
  /\ Fields(ui, FormFields)
  /\ Fields(world, {"stored", "mixed", "news"})
  /\ ui.customer \in {Nil, ui.code}
  /\ \A c \in calls : c.id \in {Nil, c.code}
  /\ ~world.mixed

-----------------------------------------------------------------------------
(* FaultAnalysis *)

FlisrFields == {"picked", "outage", "sections", "busy", "result", "saving", "dev", "params", "locating", "found", "overlay"}

\* Devices and faults are what the page names, so that none of the overlays is Nil.
FlisrInv ==
  /\ Fields(ui, FlisrFields)
  /\ ui.picked \in Flisr!Devices \cup {Nil} /\ ui.dev \in Flisr!Devices \cup {Nil}
  /\ \A c \in calls : /\ c.op = "flisr" => c.at \in Flisr!Faults
                      /\ c.op = "locate" => c.at \in Flisr!Devices
  /\ Flisr!OverlayOfResult

-----------------------------------------------------------------------------
(* AiOps *)

AiFields == {"task", "id", "auto", "nonce", "visible", "prov", "panel"}
PanelFields == {"key", "turns", "busy", "started"}

\* What the selectors can be set to.
Selectors(u) ==
  /\ Fields(u, AiFields)
  /\ u.task \in DOMAIN Targets /\ Fields(u.id, DOMAIN Targets)
  /\ \A t \in DOMAIN Targets : u.id[t] \in Targets[t] \cup {Nil}
  /\ u.nonce \in 0..MaxSent

\* What may be written in a panel: nothing that is about another target.
TurnsOf(u) == Seq([role : {"user", "assistant", "error"}, about : {Nil, Ai!CurKey(u)}])

\* The panel is that of the selectors, and so is the stream on its way; what starts by itself was sent.
AiInv ==
  /\ Selectors(ui) /\ Fields(ui.panel, PanelFields) /\ Fields(world, {"provider", "sent", "wrong", "times"})
  /\ ui.panel.key = Ai!PanelKey(ui)
  /\ ui.panel.turns \in TurnsOf(ui)
  /\ ui.panel.key = Nil => ui.panel.turns = <<>> /\ calls = {}
  /\ \A c \in calls : c.op = "ops" /\ c.about = Ai!CurKey(ui)
  /\ ui.auto # Nil => ui.auto \in world.sent
  /\ ~world.wrong

-----------------------------------------------------------------------------
(* PowerMonitor *)

PageFields == {"page", "summary", "tab", "panel", "last", "filter", "shown", "overlays", "map", "drawn",
               "timers", "opsTimer", "stale"}

\* The overlay drawn is that of the tab shown.
Drawn(u) ==
  /\ Fields(u, PageFields)
  /\ Fields(u.overlays, OpsTabs)
  /\ u.drawn = IF u.map /\ u.tab \in OpsTabs THEN u.overlays[u.tab] ELSE Nil

PowerInv == Drawn(ui)

-----------------------------------------------------------------------------
(* SoeFeed *)

\* The events of a sequence.
In(q, e) == \E i \in 1..Len(q) : q[i] = e

Listed(e) == In(ui.items, e) \/ In(ui.buffer, e)

\* A resynchronisation on its way brings the event.
Asked(e) == \E c \in calls : c.op = "after" /\ c.arg < e /\ e <= c.from

\* The event is on the socket, or will be asked for when that is back.
Coming(e) == In(world.wire, e) \/ ~world.up \/ Asked(e)

SoeUis == [items : Seq(Nat), buffer : Seq(Nat), paused : BOOLEAN, filter : {"all"} \cup Categories,
           lastId : Nat, loading : BOOLEAN, more : BOOLEAN]
SoeWorlds == [last : Nat, up : BOOLEAN, wire : Seq(Nat), floor : Nat, missed : BOOLEAN, gap : Nat, faults : Nat]
SoeRequests == [op : {"load", "after", "more"}, filter : {"all"} \cup Categories, arg : Nat, from : Nat]

\* The socket carries the last events there are.
Socket ==
  /\ Len(world.wire) <= world.last
  /\ \A i \in 1..Len(world.wire) : world.wire[i] = world.last - Len(world.wire) + i
  /\ ~world.up => world.wire = <<>>

\* What is newer than all the panel knows is coming, but for what nobody asked for.
Known == \A e \in 1..world.last : ui.lastId < e /\ world.gap < e => Coming(e)

\* An event above the rows loaded is listed, or asked for, or newer than all the panel knows and coming.
Complete ==
  \A e \in 1..world.last :
    world.floor < e /\ Soe!matches(e, ui.filter) => Listed(e) \/ Asked(e) \/ (ui.lastId < e /\ Coming(e))

SoeInv ==
  /\ ui \in SoeUis /\ world \in SoeWorlds /\ calls \subseteq SoeRequests
  /\ world.last <= Len(CategoryOf) /\ ui.lastId <= world.last
  /\ \A c \in calls : c.from <= world.last /\ (c.op = "after" => c.arg <= ui.lastId)
  /\ Socket /\ Known
  /\ ~world.missed => Complete

-----------------------------------------------------------------------------
\* The inductive invariant: one for each page.
PagesInv ==
  /\ page = "operate" => OperateInv
  /\ page = "plans" => PlansInv
  /\ page = "reports" => ReportsInv
  /\ page = "flisr" => FlisrInv
  /\ page = "ai" => AiInv
  /\ page = "power" => PowerInv
  /\ page = "soe" => SoeInv

-----------------------------------------------------------------------------
(* Sequences that are filtered *)

\* A set of natural numbers that is not empty has a least member.
LEMMA Least ==
  ASSUME NEW S \in SUBSET Nat, S # {}
  PROVE  \E x \in S : \A y \in S : x <= y
<1>1. PICK x \in S : \A y \in S : ~ (<<y, x>> \in OpToRel(<, Nat))
  BY NatLessThanWellFounded, WFMin
<1>2. \A y \in S : ~(y < x)
  BY <1>1 DEF OpToRel
<1> QED BY <1>2

\* What holds at 0 and at k if it does at k - 1 holds everywhere.
LEMMA Steps ==
  ASSUME NEW N \in Nat, NEW T \in SUBSET (0 .. N), 0 \in T, \A k \in 1 .. N : k - 1 \in T => k \in T
  PROVE  T = 0 .. N
<1> SUFFICES ASSUME (0 .. N) \ T # {} PROVE FALSE
  OBVIOUS
<1>1. (0 .. N) \ T \in SUBSET Nat
  OBVIOUS
<1>2. PICK x \in (0 .. N) \ T : \A y \in (0 .. N) \ T : x <= y
  BY <1>1, Least
<1>3. x \in 1 .. N /\ x - 1 \in 0 .. N
  BY <1>2
<1>4. x - 1 \in T
  BY <1>2, <1>3
<1> QED BY <1>2, <1>3, <1>4

\* A function that gives the next value from the number of the step and the value before has its sequence of values.
Follows(g, N, x0, f) == g[0] = x0 /\ \A k \in 1 .. N : g[k] = f[<<k, g[k - 1]>>]
\* Such a sequence exists, for any length.
LEMMA Sequence ==
  ASSUME NEW N \in Nat, NEW S, NEW x0 \in S, NEW f \in [(1 .. N) \X S -> S]
  PROVE  \E g \in [0 .. N -> S] : Follows(g, N, x0, f)
<1> DEFINE Good(g, j) == g[0] = x0 /\ \A k \in 1 .. j : g[k] = f[<<k, g[k - 1]>>]
           T == {j \in 0 .. N : \E g \in [0 .. j -> S] : Good(g, j)}
<1>1. 0 \in T
  <2> DEFINE g == [k \in 0 .. 0 |-> x0]
  <2>1. g \in [0 .. 0 -> S] /\ g[0] = x0
    OBVIOUS
  <2> HIDE DEF g
  <2>2. Good(g, 0)
    BY <2>1
  <2> QED BY <2>1, <2>2
<1>2. ASSUME NEW j \in 1 .. N, j - 1 \in T PROVE j \in T
  <2>1. PICK g \in [0 .. (j - 1) -> S] : Good(g, j - 1)
    BY <1>2
  <2> DEFINE y == f[<<j, g[j - 1]>>]
             h == [k \in 0 .. j |-> IF k = j THEN y ELSE g[k]]
  <2>2. g[j - 1] \in S /\ y \in S
    OBVIOUS
  <2>3. h \in [0 .. j -> S]
    <3> HIDE DEF y
    <3> QED BY <2>2
  <2>4. h[0] = x0 /\ h[j] = y /\ \A k \in 0 .. (j - 1) : h[k] = g[k]
    BY <2>1
  <2>5. ASSUME NEW k \in 1 .. j PROVE h[k] = f[<<k, h[k - 1]>>]
    <3>1. CASE k = j
      <4>1. k - 1 \in 0 .. (j - 1)
        OBVIOUS
      <4>2. h[k - 1] = g[j - 1] /\ h[k] = y
        BY <2>4, <3>1, <4>1
      <4> HIDE DEF h
      <4> QED BY <3>1, <4>2
    <3>2. CASE k # j
      <4>1. k \in 1 .. (j - 1) /\ k \in 0 .. (j - 1) /\ k - 1 \in 0 .. (j - 1)
        BY <3>2
      <4> HIDE DEF h, y
      <4>2. g[k] = f[<<k, g[k - 1]>>]
        BY <2>1, <4>1
      <4> QED BY <2>4, <4>1, <4>2
    <3> QED BY <3>1, <3>2
  <2> HIDE DEF h, y
  <2>6. Good(h, j)
    BY <2>4, <2>5
  <2> QED BY <2>3, <2>6
<1>3. T \in SUBSET (0 .. N) /\ N \in T
  <2> HIDE DEF Good
  <2>1. T \in SUBSET (0 .. N)
    OBVIOUS
  <2>2. \A k \in 1 .. N : k - 1 \in T => k \in T
    BY <1>2
  <2> HIDE DEF T
  <2>3. T = 0 .. N
    BY <1>1, <2>1, <2>2, Steps
  <2> QED BY <2>1, <2>3
<1> QED BY <1>3 DEF Follows

\* Filtering, element by element.
Kept(g, s_, S) == g[0] = <<>> /\ \A n \in 1..Len(s_) : g[n] = IF s_[n] \in S THEN Append(g[n - 1], s_[n]) ELSE g[n - 1]

\* The fold that filters a sequence is a function of its length with these steps.
LEMMA OnlyKept ==
  ASSUME NEW T, NEW s_ \in Seq(T), NEW S
  PROVE  \E g \in [0..Len(s_) -> Seq(T)] : Kept(g, s_, S) /\ Soe!Only(s_, S) = g[Len(s_)]
<1> DEFINE N == Len(s_)
           f == [p \in (1..N) \X Seq(T) |-> IF s_[p[1]] \in S THEN Append(p[2], s_[p[1]]) ELSE p[2]]
           Def(g) == g = [n \in 0..N |-> IF n = 0 THEN <<>>
                                         ELSE IF s_[n] \in S THEN Append(g[n - 1], s_[n]) ELSE g[n - 1]]
<1>1. N \in Nat /\ \A n \in 1..N : s_[n] \in T
  BY LenProperties, ElementOfSeq
<1>2. f \in [(1..N) \X Seq(T) -> Seq(T)]
  BY <1>1
<1>3. \A n \in 1..N : \A q \in Seq(T) : f[<<n, q>>] = IF s_[n] \in S THEN Append(q, s_[n]) ELSE q
  OBVIOUS
<1>4. <<>> \in Seq(T)
  OBVIOUS
<1> HIDE DEF f
<1>5. PICK g \in [0..N -> Seq(T)] : Follows(g, N, <<>>, f)
  BY <1>1, <1>2, <1>4, Sequence
<1>6. ASSUME NEW n \in 1..N
      PROVE  g[n] = IF s_[n] \in S THEN Append(g[n - 1], s_[n]) ELSE g[n - 1]
  <2>1. n - 1 \in 0..N /\ g[n] = f[<<n, g[n - 1]>>]
    BY <1>1, <1>5 DEF Follows
  <2>2. g[n - 1] \in Seq(T)
    BY <2>1
  <2> QED BY <1>3, <2>1, <2>2
<1>7. g[0] = <<>>
  BY <1>5 DEF Follows
<1>8. Def(g)
  <2>1. ASSUME NEW n \in 0..N
        PROVE  g[n] = IF n = 0 THEN <<>> ELSE IF s_[n] \in S THEN Append(g[n - 1], s_[n]) ELSE g[n - 1]
    <3>1. CASE n = 0
      BY <1>7, <3>1
    <3>2. CASE n # 0
      <4>1. n \in 1..N
        BY <1>1, <3>2
      <4> HIDE DEF N
      <4> QED BY <1>6, <3>2, <4>1
    <3> QED BY <3>1, <3>2
  <2>2. g = [n \in 0..N |-> g[n]]
    OBVIOUS
  <2> HIDE DEF N
  <2> QED BY <2>1, <2>2, Zenon
<1> DEFINE h == CHOOSE h_ : Def(h_)
<1>9. Def(h)
  <2> HIDE DEF Def
  <2> QED BY <1>8
<1>10. Soe!Only(s_, S) = h[N]
  BY DEF Soe!Only
<1> HIDE DEF h
<1>11. h[0] = <<>> /\ \A n \in 1..N : h[n] = IF s_[n] \in S THEN Append(h[n - 1], s_[n]) ELSE h[n - 1]
  <2>1. ASSUME NEW n \in 0..N
        PROVE  h[n] = IF n = 0 THEN <<>> ELSE IF s_[n] \in S THEN Append(h[n - 1], s_[n]) ELSE h[n - 1]
    <3> HIDE DEF N
    <3> QED BY <1>9, Zenon
  <2>2. 0 \in 0..N /\ \A n \in 1..N : n \in 0..N /\ n # 0
    BY <1>1
  <2> HIDE DEF N
  <2> QED BY <2>1, <2>2
<1> DEFINE U == {n \in 0..N : h[n] = g[n]}
<1>12. U = 0..N
  <2>1. 0 \in U
    BY <1>1, <1>7, <1>11
  <2>2. ASSUME NEW n \in 1..N, n - 1 \in U PROVE n \in U
    BY <1>1, <1>6, <1>11, <2>2
  <2>3. U \in SUBSET (0..N)
    OBVIOUS
  <2> HIDE DEF U
  <2> QED BY <1>1, <2>1, <2>2, <2>3, Steps
<1>13. h[N] = g[N]
  BY <1>1, <1>12
<1> QED BY <1>5, <1>6, <1>7, <1>10, <1>13 DEF Kept

\* What is left of a sequence: its elements that are in the set.
LEMMA OnlyRange ==
  ASSUME NEW T, NEW s_ \in Seq(T), NEW S
  PROVE  Soe!Only(s_, S) \in Seq(T) /\ \A x : In(Soe!Only(s_, S), x) <=> x \in S /\ In(s_, x)
<1> DEFINE N == Len(s_)
<1>1. PICK g \in [0..N -> Seq(T)] : Kept(g, s_, S) /\ Soe!Only(s_, S) = g[N]
  BY OnlyKept
<1>2. N \in Nat /\ \A n \in 1..N : s_[n] \in T
  BY LenProperties, ElementOfSeq
<1> DEFINE Has(n) == \A x : (\E i \in 1..Len(g[n]) : g[n][i] = x) <=> x \in S /\ \E i \in 1..n : s_[i] = x
           U == {n \in 0..N : Has(n)}
<1>3. 0 \in U
  BY <1>1, <1>2 DEF Kept
<1>4. ASSUME NEW n \in 1..N, n - 1 \in U PROVE n \in U
  <2>1. n - 1 \in 0..N /\ g[n - 1] \in Seq(T) /\ g[n] = IF s_[n] \in S THEN Append(g[n - 1], s_[n]) ELSE g[n - 1]
    BY <1>1, <1>2 DEF Kept
  <2>2. Has(n - 1)
    BY <1>4
  <2> DEFINE p == g[n - 1]
             q == g[n]
  <2>3. CASE s_[n] \in S
    <3>1. q = Append(p, s_[n]) /\ Len(p) \in Nat /\ Len(q) = Len(p) + 1 /\ q[Len(q)] = s_[n]
          /\ \A i \in 1..Len(p) : q[i] = p[i]
      BY <1>2, <2>1, <2>3
    <3> HIDE DEF p, q
    <3>2. \A x : (\E i \in 1..Len(q) : q[i] = x) <=> (\E i \in 1..Len(p) : p[i] = x) \/ s_[n] = x
      BY <3>1
    <3>3. \A x : (\E i \in 1..n : s_[i] = x) <=> (\E i \in 1..(n - 1) : s_[i] = x) \/ s_[n] = x
      BY <1>2
    <3>4. Has(n)
      BY <2>2, <2>3, <3>2, <3>3 DEF p, q
    <3> QED BY <3>4
  <2>4. CASE s_[n] \notin S
    <3>1. q = p
      BY <2>1, <2>4
    <3>2. \A x : (\E i \in 1..n : s_[i] = x) <=> (\E i \in 1..(n - 1) : s_[i] = x) \/ s_[n] = x
      BY <1>2
    <3> HIDE DEF p, q
    <3>4. Has(n)
      BY <2>2, <2>4, <3>1, <3>2 DEF p, q
    <3> QED BY <3>4
  <2> QED BY <2>3, <2>4
<1>5. U \in SUBSET (0..N)
  OBVIOUS
<1>6. U = 0..N
  <2> HIDE DEF U
  <2> QED BY <1>2, <1>3, <1>4, <1>5, Steps
<1>7. N \in 0..N /\ Has(N)
  BY <1>2, <1>6
<1>8. \A x : In(g[N], x) <=> x \in S /\ In(s_, x)
  BY <1>7 DEF In
<1> HIDE DEF N
<1> QED BY <1>1, <1>7, <1>8

\* The elements of a sequence descend.
Descends(q) == \A i, j \in 1..Len(q) : i < j => q[i] > q[j]

\* A smaller element at the end leaves a sequence descending.
LEMMA AppendDescends ==
  ASSUME NEW p \in Seq(Nat), NEW x \in Nat, Descends(p), \A i \in 1..Len(p) : p[i] > x
  PROVE  Descends(Append(p, x))
<1>1. Len(p) \in Nat /\ Len(Append(p, x)) = Len(p) + 1
  OBVIOUS
<1>2. Append(p, x)[Len(p) + 1] = x /\ \A i \in 1..Len(p) : Append(p, x)[i] = p[i]
  OBVIOUS
<1> SUFFICES ASSUME NEW i \in 1..(Len(p) + 1), NEW j \in 1..(Len(p) + 1), i < j
             PROVE  Append(p, x)[i] > Append(p, x)[j]
  BY <1>1 DEF Descends
<1>3. i \in 1..Len(p) /\ (j \in 1..Len(p) \/ j = Len(p) + 1)
  BY <1>1
<1> QED BY <1>2, <1>3 DEF Descends

\* What is left of a descending sequence descends.
LEMMA OnlyDescends ==
  ASSUME NEW s_ \in Seq(Nat), NEW S, Descends(s_)
  PROVE  Descends(Soe!Only(s_, S))
<1> DEFINE N == Len(s_)
<1>1. PICK g \in [0..N -> Seq(Nat)] : Kept(g, s_, S) /\ Soe!Only(s_, S) = g[N]
  BY OnlyKept
<1>2. N \in Nat /\ \A n \in 1..N : s_[n] \in Nat
  BY LenProperties, ElementOfSeq
<1> DEFINE Sinks(n) == Descends(g[n]) /\ \A i \in 1..Len(g[n]) : \E k \in 1..n : g[n][i] = s_[k]
           U == {n \in 0..N : Sinks(n)}
<1>3. 0 \in U
  BY <1>1, <1>2 DEF Kept, Descends
<1>4. ASSUME NEW n \in 1..N, n - 1 \in U PROVE n \in U
  <2>1. n - 1 \in 0..N /\ g[n - 1] \in Seq(Nat) /\ g[n] = IF s_[n] \in S THEN Append(g[n - 1], s_[n]) ELSE g[n - 1]
    BY <1>1, <1>2 DEF Kept
  <2> DEFINE p == g[n - 1]
             q == g[n]
  <2>2. Descends(p) /\ \A i \in 1..Len(p) : \E k \in 1..(n - 1) : p[i] = s_[k]
    BY <1>4
  <2>3. CASE s_[n] \in S
    <3>1. q = Append(p, s_[n]) /\ Len(p) \in Nat /\ Len(q) = Len(p) + 1 /\ q[Len(q)] = s_[n]
          /\ \A i \in 1..Len(p) : q[i] = p[i]
      BY <1>2, <2>1, <2>3
    <3> HIDE DEF p, q
    <3>2. ASSUME NEW i \in 1..Len(p) PROVE p[i] > s_[n]
      <4>1. PICK k \in 1..(n - 1) : p[i] = s_[k]
        BY <2>2
      <4>2. k \in 1..Len(s_) /\ k < n /\ n \in 1..Len(s_)
        BY <1>2
      <4> QED BY <4>1, <4>2 DEF Descends
    <3>4. Descends(q)
      BY <1>2, <2>1, <2>2, <3>1, <3>2, AppendDescends DEF p, q
    <3>5. \A i \in 1..Len(q) : \E k \in 1..n : q[i] = s_[k]
      <4> SUFFICES ASSUME NEW i \in 1..Len(q) PROVE \E k \in 1..n : q[i] = s_[k]
        OBVIOUS
      <4>1. CASE i = Len(q)
        BY <3>1, <4>1
      <4>2. CASE i # Len(q)
        <5>1. i \in 1..Len(p)
          BY <3>1, <4>2
        <5>2. PICK k \in 1..(n - 1) : p[i] = s_[k]
          BY <2>2, <5>1
        <5> QED BY <3>1, <5>1, <5>2
      <4> QED BY <4>1, <4>2
    <3> QED BY <3>4, <3>5 DEF q
  <2>4. CASE s_[n] \notin S
    <3>1. q = p
      BY <2>1, <2>4
    <3>2. \A i \in 1..Len(p) : \E k \in 1..n : p[i] = s_[k]
      BY <2>2
    <3>3. Sinks(n)
      BY <2>2, <3>1, <3>2
    <3> HIDE DEF Sinks
    <3> QED BY <3>3
  <2> QED BY <2>3, <2>4
<1>5. U \in SUBSET (0..N)
  OBVIOUS
<1>6. U = 0..N
  <2> HIDE DEF U
  <2> QED BY <1>2, <1>3, <1>4, <1>5, Steps
<1>7. N \in 0..N /\ Sinks(N)
  BY <1>2, <1>6
<1> QED BY <1>1, <1>7

-----------------------------------------------------------------------------
(* SoeFeed: what its operators are *)

\* The elements of a sequence, and of two.
LEMMA InRange ==
  ASSUME NEW q \in Seq(Nat), NEW e
  PROVE  e \in Soe!Range(q) <=> In(q, e)
<1>1. DOMAIN q = 1..Len(q)
  BY LenProperties
<1> QED BY <1>1 DEF Soe!Range, In

\* The elements of two sequences put together.
LEMMA InBoth ==
  ASSUME NEW p \in Seq(Nat), NEW q \in Seq(Nat)
  PROVE  p \o q \in Seq(Nat) /\ \A e : In(p \o q, e) <=> In(p, e) \/ In(q, e)
<1>1. /\ p \o q \in Seq(Nat) /\ Len(p \o q) = Len(p) + Len(q) /\ Len(p) \in Nat /\ Len(q) \in Nat
      /\ \A i \in 1..Len(p) + Len(q) : (p \o q)[i] = IF i <= Len(p) THEN p[i] ELSE q[i - Len(p)]
  BY ConcatProperties, LenProperties
<1> SUFFICES ASSUME NEW e PROVE In(p \o q, e) <=> In(p, e) \/ In(q, e)
  BY <1>1
<1>2. ASSUME In(p \o q, e) PROVE In(p, e) \/ In(q, e)
  <2>1. PICK i \in 1..Len(p) + Len(q) : (p \o q)[i] = e
    BY <1>1, <1>2 DEF In
  <2>2. CASE i <= Len(p)
    <3>1. i \in 1..Len(p) /\ p[i] = e
      BY <1>1, <2>1, <2>2
    <3> QED BY <3>1 DEF In
  <2>3. CASE ~(i <= Len(p))
    <3>1. i - Len(p) \in 1..Len(q) /\ q[i - Len(p)] = e
      BY <1>1, <2>1, <2>3
    <3> QED BY <3>1 DEF In
  <2> QED BY <2>2, <2>3
<1>3. ASSUME In(p, e) PROVE In(p \o q, e)
  <2>1. PICK i \in 1..Len(p) : p[i] = e
    BY <1>3 DEF In
  <2>2. i \in 1..Len(p) + Len(q) /\ (p \o q)[i] = e
    BY <1>1, <2>1
  <2> QED BY <1>1, <2>2 DEF In
<1>4. ASSUME In(q, e) PROVE In(p \o q, e)
  <2>1. PICK i \in 1..Len(q) : q[i] = e
    BY <1>4 DEF In
  <2>2. i + Len(p) \in 1..Len(p) + Len(q) /\ ~(i + Len(p) <= Len(p)) /\ i + Len(p) - Len(p) = i
    BY <1>1
  <2>3. (p \o q)[i + Len(p)] = e
    BY <1>1, <2>1, <2>2
  <2> QED BY <1>1, <2>2, <2>3 DEF In
<1> QED BY <1>2, <1>3, <1>4

\* The greatest of some numbers.
LEMMA HighestIs ==
  ASSUME NEW B \in Nat, NEW S \in SUBSET (0..B), NEW n \in Nat
  PROVE  /\ Soe!Highest(S, n) \in S \cup {n}
         /\ \A x \in S \cup {n} : x <= Soe!Highest(S, n)
<1> DEFINE T == S \cup {n}
           D == {B + n - x : x \in T}
<1>1. T \subseteq 0..(B + n) /\ T # {}
  <2>1. ASSUME NEW x \in T PROVE x \in 0..(B + n)
    <3>1. x \in 0..B \/ x = n
      OBVIOUS
    <3> QED BY <3>1
  <2> QED BY <2>1
<1>2. D \in SUBSET Nat /\ D # {}
  BY <1>1
<1>3. PICK d \in D : \A y \in D : d <= y
  BY <1>2, Least
<1>4. PICK m \in T : d = B + n - m
  OBVIOUS
<1>5. \A x \in T : m >= x
  <2> SUFFICES ASSUME NEW x \in T PROVE m >= x
    OBVIOUS
  <2>1. d <= B + n - x
    BY <1>3
  <2> QED BY <1>1, <1>4, <2>1
<1> DEFINE h == CHOOSE h_ \in T : \A y \in T : h_ >= y
<1>6. h \in T /\ \A y \in T : h >= y
  BY <1>5
<1>7. Soe!Highest(S, n) = h
  BY DEF Soe!Highest, Soe!Max
<1> HIDE DEF h
<1>8. \A x \in T : x <= h
  BY <1>1, <1>6
<1> QED BY <1>6, <1>7, <1>8

\* Events of a set, the newest first.
LEMMA NewestIs ==
  ASSUME NEW S
  PROVE  /\ Soe!Newest(S) \in Seq(Nat)
         /\ \A e : In(Soe!Newest(S), e) <=> e \in S /\ e \in Soe!Events
         /\ Descends(Soe!Newest(S))
<1> DEFINE N == Len(CategoryOf)
           all == [i \in 1..N |-> N + 1 - i]
<1>1. N \in Nat
  BY PagesAssumption
<1> HIDE DEF N
<1>2. all \in Seq(Nat) /\ Len(all) = N
  BY <1>1
<1>3. Descends(all)
  BY <1>1, <1>2 DEF Descends
<1>4. \A e : (\E i \in 1..Len(all) : all[i] = e) <=> e \in 1..N
  <2>1. ASSUME NEW e, e \in 1..N PROVE \E i \in 1..N : all[i] = e
    <3>1. N + 1 - e \in 1..N /\ all[N + 1 - e] = e
      BY <1>1, <2>1
    <3> QED BY <3>1
  <2>2. \A i \in 1..N : all[i] \in 1..N
    BY <1>1
  <2> QED BY <1>2, <2>1, <2>2
<1>5. Soe!Newest(S) = Soe!Only(all, S)
  BY DEF Soe!Newest, N
<1> HIDE DEF all
<1>6. Soe!Newest(S) \in Seq(Nat) /\ Descends(Soe!Newest(S))
  BY <1>2, <1>3, <1>5, OnlyRange, OnlyDescends
<1>7. \A e : In(Soe!Newest(S), e) <=> e \in S /\ \E i \in 1..Len(all) : all[i] = e
  <2>1. \A e : In(Soe!Only(all, S), e) <=> e \in S /\ In(all, e)
    BY <1>2, OnlyRange
  <2> QED BY <1>5, <2>1 DEF In
<1> QED BY <1>4, <1>6, <1>7 DEF Soe!Events, N

\* A page: the first row is the newest event of the set; what is above the last, or all of it if nothing is left, is
\* in it.
LEMMA PageIs ==
  ASSUME NEW S \in SUBSET Soe!Events
  PROVE  LET rows == Soe!Page(S)
             floor == IF Len(Soe!Newest(S)) > Len(rows) THEN rows[Len(rows)] - 1 ELSE 0
         IN /\ rows \in Seq(Nat)
            /\ rows # <<>> => rows[1] \in S
            /\ rows = <<>> => S = {}
            /\ floor \in Nat
            /\ \A e \in S : floor < e => In(rows, e)
<1> DEFINE q == Soe!Newest(S)
           m == Soe!Min({Len(q), PageSize})
           rows == SubSeq(q, 1, m)
<1>1. q \in Seq(Nat) /\ (\A e : In(q, e) <=> e \in S) /\ Descends(q)
  BY NewestIs
<1>2. Soe!Page(S) = rows
  BY DEF Soe!Page
<1> HIDE DEF q
<1>3. Len(q) \in Nat /\ PageSize \in Nat \ {0} /\ \A i \in 1..Len(q) : q[i] \in Nat
  BY <1>1, PagesAssumption, LenProperties, ElementOfSeq
<1>4. m \in {Len(q), PageSize} /\ m <= Len(q) /\ m <= PageSize
  <2>1. \E x \in {Len(q), PageSize} : \A y \in {Len(q), PageSize} : x =< y
    BY <1>3
  <2>2. m = CHOOSE x \in {Len(q), PageSize} : \A y \in {Len(q), PageSize} : x =< y
    BY DEF Soe!Min
  <2> HIDE DEF m
  <2> QED BY <2>1, <2>2
<1> HIDE DEF m
<1>5. rows \in Seq(Nat) /\ Len(rows) = m /\ \A i \in 1..m : rows[i] = q[i]
  BY <1>1, <1>3, <1>4
<1> HIDE DEF rows
<1>6. \A i \in 1..Len(q) : q[i] \in S /\ q[i] \in 1..Len(CategoryOf)
  BY <1>1 DEF In, Soe!Events
<1>7. rows # <<>> => rows[1] \in S
  <2> SUFFICES ASSUME rows # <<>> PROVE rows[1] \in S
    OBVIOUS
  <2>1. 1 \in 1..m /\ 1 \in 1..Len(q)
    BY <1>3, <1>4, <1>5, EmptySeq
  <2> QED BY <1>5, <1>6, <2>1
<1>8. rows = <<>> => S = {}
  <2> SUFFICES ASSUME rows = <<>> PROVE S = {}
    OBVIOUS
  <2>1. Len(q) = 0
    BY <1>3, <1>4, <1>5
  <2> QED BY <1>1, <2>1 DEF In
<1> DEFINE floor == IF Len(q) > Len(rows) THEN rows[Len(rows)] - 1 ELSE 0
<1>9. Len(q) > m => m \in 1..Len(q) /\ rows[m] = q[m] /\ q[m] \in Nat \ {0}
  BY <1>3, <1>4, <1>5, <1>6, PagesAssumption
<1>10. floor \in Nat
  BY <1>3, <1>4, <1>5, <1>9
<1>11. ASSUME NEW e \in S, floor < e PROVE In(rows, e)
  <2>1. PICK i \in 1..Len(q) : q[i] = e
    BY <1>1 DEF In
  <2>2. i <= m
    <3>1. CASE Len(q) > m
      <4>1. q[m] <= e
        BY <1>3, <1>5, <1>9, <1>11, <2>1, <3>1
      <4>2. ~(m < i)
        BY <1>1, <1>3, <1>9, <2>1, <3>1, <4>1 DEF Descends
      <4> QED BY <1>3, <1>4, <4>2
    <3>2. CASE ~(Len(q) > m)
      BY <1>3, <1>4, <3>2
    <3> QED BY <3>1, <3>2
  <2>3. i \in 1..Len(rows) /\ rows[i] = e
    BY <1>3, <1>4, <1>5, <2>1, <2>2
  <2> QED BY <2>3 DEF In
<1> QED BY <1>2, <1>5, <1>7, <1>8, <1>10, <1>11 DEF q

-----------------------------------------------------------------------------
(* SoeFeed: what it lists *)

\* The feed: no row is loaded, and the first page is asked for.
LEMMA SoeInit ==
  ASSUME Soe!Init
  PROVE  SoeInv
<1>1. ui = [items |-> <<>>, buffer |-> <<>>, paused |-> FALSE, filter |-> "all",
            lastId |-> 0, loading |-> TRUE, more |-> TRUE]
  BY DEF Soe!Init, Soe!NoFilter
<1>2. PICK n \in {0} \cup Soe!Events :
        /\ world = [last |-> n, up |-> FALSE, wire |-> <<>>, floor |-> 0, missed |-> FALSE, gap |-> 0, faults |-> 0]
        /\ calls = {[op |-> "load", filter |-> "all", arg |-> 0, from |-> n]}
  BY DEF Soe!Init, Soe!NoFilter
<1>3. n \in Nat /\ n <= Len(CategoryOf)
  BY PagesAssumption DEF Soe!Events
<1>4. ui \in SoeUis
  BY <1>1 DEF SoeUis
<1>5. world \in SoeWorlds /\ world.last = n /\ world.wire = <<>> /\ ~world.up
  BY <1>2, <1>3 DEF SoeWorlds
<1>6. ASSUME NEW c \in calls PROVE c \in SoeRequests /\ c.from = n /\ c.op = "load"
  <2>1. c = [op |-> "load", filter |-> "all", arg |-> 0, from |-> n]
    BY <1>2
  <2> QED BY <1>3, <2>1 DEF SoeRequests
<1>7. \A e : Coming(e)
  BY <1>5 DEF Coming
<1>8. Socket
  BY <1>3, <1>5 DEF Socket
<1>9. ui.lastId = 0 /\ \A e \in 1..n : 0 < e
  BY <1>1, <1>3
<1>10. Known /\ Complete
  BY <1>5, <1>7, <1>9 DEF Known, Complete
<1> QED BY <1>3, <1>4, <1>5, <1>6, <1>8, <1>9, <1>10 DEF SoeInv

\* A step that leaves the socket, and asks for no other resynchronisation.
LEMMA SoeStep ==
  ASSUME SoeInv, ui' \in SoeUis, world' \in SoeWorlds, calls' \subseteq SoeRequests,
         world'.last = world.last, world'.up = world.up, world'.wire = world.wire,
         ui.lastId <= ui'.lastId, ui'.lastId <= world.last, world.gap <= world'.gap,
         \A c \in calls' \ calls : c.from <= world.last /\ c.op # "after",
         \A e \in 1..world.last : Asked(e) => Asked(e)' \/ e <= ui'.lastId \/ e <= world'.gap,
         ~world'.missed => Complete'
  PROVE  SoeInv'
<1>1. /\ ui \in SoeUis /\ world \in SoeWorlds /\ calls \subseteq SoeRequests
      /\ world.last <= Len(CategoryOf) /\ ui.lastId <= world.last
      /\ \A c \in calls : c.from <= world.last /\ (c.op = "after" => c.arg <= ui.lastId)
      /\ Socket /\ Known
  BY DEF SoeInv
<1>2. ui.lastId \in Nat /\ ui'.lastId \in Nat /\ world.last \in Nat /\ world.gap \in Nat /\ world'.gap \in Nat
  BY <1>1 DEF SoeUis, SoeWorlds
<1>3. ASSUME NEW c \in calls' PROVE c.from <= world.last /\ (c.op = "after" => c.arg <= ui'.lastId)
  <2>1. CASE c \in calls
    <3>1. c.arg \in Nat
      BY <1>1, <2>1 DEF SoeRequests
    <3> QED BY <1>1, <1>2, <2>1, <3>1
  <2>2. CASE c \notin calls
    BY <2>2
  <2> QED BY <2>1, <2>2
<1>4. Socket'
  BY <1>1 DEF Socket
<1>5. ASSUME NEW e \in 1..world.last, ui'.lastId < e, world'.gap < e PROVE Coming(e)'
  <2>1. Coming(e)
    BY <1>1, <1>2, <1>5 DEF Known
  <2>2. Asked(e) => Asked(e)'
    BY <1>2, <1>5
  <2> QED BY <2>1, <2>2 DEF Coming
<1>6. Known'
  BY <1>5 DEF Known
<1> QED BY <1>1, <1>3, <1>4, <1>6 DEF SoeInv

\* Rows that move, and requests that leave.
LEMMA StillComplete ==
  ASSUME ~world.missed => Complete, world' = world, ui'.filter = ui.filter, ui'.lastId = ui.lastId,
         \A e : Listed(e) => Listed(e)', \A e : Asked(e) => Asked(e)'
  PROVE  ~world'.missed => Complete'
<1> SUFFICES ASSUME ~world'.missed, NEW e \in 1..world.last, world.floor < e, Soe!matches(e, ui.filter)
             PROVE  Listed(e)' \/ Asked(e)' \/ (ui.lastId < e /\ Coming(e)')
  BY DEF Complete
<1>1. Listed(e) \/ Asked(e) \/ (ui.lastId < e /\ Coming(e))
  BY DEF Complete
<1> QED BY <1>1 DEF Coming

\* The rows after events came in.
LEMMA Ingested ==
  ASSUME ui \in SoeUis, NEW list \in SUBSET Soe!Events, NEW filter, Soe!ingest(list, filter)
  PROVE  /\ ui' \in SoeUis /\ ui'.filter = ui.filter
         /\ ui'.lastId \in list \cup {ui.lastId} /\ \A x \in list \cup {ui.lastId} : x <= ui'.lastId
         /\ \A e : Listed(e) => Listed(e)'
         /\ \A e \in list : Soe!matches(e, filter) => Listed(e)'
<1> DEFINE new == {e \in list : Soe!matches(e, filter)}
           h == Soe!Highest(list, ui.lastId)
           rest == Soe!Newest(new \ Soe!Range(ui.items))
<1>1. ui.items \in Seq(Nat) /\ ui.buffer \in Seq(Nat) /\ ui.lastId \in Nat
  BY DEF SoeUis
<1>2. list \subseteq 0..Len(CategoryOf) /\ Len(CategoryOf) \in Nat /\ list \subseteq Nat
  BY PagesAssumption DEF Soe!Events
<1>3. h \in list \cup {ui.lastId} /\ \A x \in list \cup {ui.lastId} : x <= h
  BY <1>1, <1>2, HighestIs
<1>4. h \in Nat
  BY <1>1, <1>2, <1>3
<1> HIDE DEF h
<1>5. Soe!Newest(new) \in Seq(Nat) /\ \A e : In(Soe!Newest(new), e) <=> e \in new /\ e \in Soe!Events
  BY NewestIs
<1>6. rest \in Seq(Nat) /\ \A e : In(rest, e) <=> e \in new \ Soe!Range(ui.items) /\ e \in Soe!Events
  BY NewestIs
<1>7. ui' = IF ui.paused
            THEN [[ui EXCEPT !.lastId = h] EXCEPT !.buffer = Soe!Newest(new) \o ui.buffer]
            ELSE [[ui EXCEPT !.lastId = h] EXCEPT !.items = rest \o ui.items]
  BY DEF Soe!ingest, h
<1> HIDE DEF rest, new
<1>8. CASE ui.paused
  <2> DEFINE b == Soe!Newest(new) \o ui.buffer
  <2>1. b \in Seq(Nat) /\ \A e : In(b, e) <=> In(Soe!Newest(new), e) \/ In(ui.buffer, e)
    BY <1>1, <1>5, InBoth
  <2>2. ui' = [ui EXCEPT !.lastId = h, !.buffer = b]
    BY <1>7, <1>8
  <2> HIDE DEF b
  <2>3. /\ ui' \in SoeUis /\ ui'.filter = ui.filter /\ ui'.lastId = h /\ ui'.buffer = b /\ ui'.items = ui.items
    BY <1>4, <2>1, <2>2 DEF SoeUis
  <2>4. \A e : Listed(e) => Listed(e)'
    BY <2>1, <2>3 DEF Listed
  <2>5. \A e \in list : Soe!matches(e, filter) => Listed(e)'
    BY <1>5, <2>1, <2>3 DEF Listed, new
  <2> QED BY <1>3, <2>3, <2>4, <2>5
<1>9. CASE ~ui.paused
  <2> DEFINE b == rest \o ui.items
  <2>1. b \in Seq(Nat) /\ \A e : In(b, e) <=> In(rest, e) \/ In(ui.items, e)
    BY <1>1, <1>6, InBoth
  <2>2. ui' = [ui EXCEPT !.lastId = h, !.items = b]
    BY <1>7, <1>9
  <2> HIDE DEF b
  <2>3. /\ ui' \in SoeUis /\ ui'.filter = ui.filter /\ ui'.lastId = h /\ ui'.items = b /\ ui'.buffer = ui.buffer
    BY <1>4, <2>1, <2>2 DEF SoeUis
  <2>4. \A e : Listed(e) => Listed(e)'
    BY <2>1, <2>3 DEF Listed
  <2>5. ASSUME NEW e \in list, Soe!matches(e, filter) PROVE Listed(e)'
    <3>1. e \in Soe!Range(ui.items) <=> In(ui.items, e)
      BY <1>1, InRange
    <3>2. e \in new
      BY <2>5 DEF new
    <3> QED BY <1>6, <2>1, <2>3, <3>1, <3>2 DEF Listed
  <2> QED BY <1>3, <2>3, <2>4, <2>5
<1> QED BY <1>8, <1>9

\* Whatever is recorded, lost, answered, paused or filtered, what the panel does not list is on its way.
LEMMA SoeNext ==
  ASSUME SoeInv, Soe!Next
  PROVE  SoeInv'
<1> DEFINE N == Len(CategoryOf)
           L == world.last
<1>1. /\ ui \in SoeUis /\ world \in SoeWorlds /\ calls \subseteq SoeRequests
      /\ L <= N /\ ui.lastId <= L
      /\ \A c \in calls : c.from <= L /\ (c.op = "after" => c.arg <= ui.lastId)
      /\ Socket /\ Known
      /\ ~world.missed => Complete
  BY DEF SoeInv
<1>2. /\ ui.lastId \in Nat /\ L \in Nat /\ N \in Nat /\ world.gap \in Nat /\ world.wire \in Seq(Nat)
      /\ ui.items \in Seq(Nat) /\ ui.buffer \in Seq(Nat)
      /\ \A c \in calls : c.arg \in Nat /\ c.from \in Nat
  BY <1>1, PagesAssumption DEF SoeUis, SoeWorlds, SoeRequests
<1> HIDE DEF N
<1>3. \A e : e \in 1..L => e \in Soe!Events /\ e \in Nat
  BY <1>1, <1>2 DEF Soe!Events, N
<1>4. \A S \in SUBSET Soe!Events : S \in SUBSET (0..N)
  BY <1>2 DEF Soe!Events, N
<1>5. CASE Soe!Record
  <2>1. /\ L + 1 \in Soe!Events /\ ui' = ui /\ calls' = calls
        /\ world' = [world EXCEPT !.last = L + 1, !.wire = IF world.up THEN Append(world.wire, L + 1) ELSE world.wire]
    BY <1>5 DEF Soe!Record
  <2> DEFINE w == IF world.up THEN Append(world.wire, L + 1) ELSE world.wire
  <2>2. w \in Seq(Nat)
    BY <1>2
  <2>3. world.up => Len(w) = Len(world.wire) + 1 /\ w[Len(world.wire) + 1] = L + 1
                    /\ \A i \in 1..Len(world.wire) : w[i] = world.wire[i]
    BY <1>2
  <2>4. ~world.up => w = world.wire
    OBVIOUS
  <2>5. world' = [world EXCEPT !.last = L + 1, !.wire = w]
    BY <2>1
  <2> HIDE DEF w
  <2>6. /\ world' \in SoeWorlds /\ world'.last = L + 1 /\ world'.wire = w /\ world'.up = world.up
        /\ world'.floor = world.floor /\ world'.missed = world.missed /\ world'.gap = world.gap
    <3>1. world \in SoeWorlds /\ L + 1 \in Nat
      BY <1>1, <1>2
    <3> HIDE DEF L
    <3>2. world' \in SoeWorlds
      BY <2>2, <2>5, <3>1 DEF SoeWorlds
    <3>3. /\ world'.last = L + 1 /\ world'.wire = w /\ world'.floor = world.floor /\ world'.gap = world.gap
      BY <2>5, <3>1 DEF SoeWorlds
    <3>4. world'.up = world.up /\ world'.missed = world.missed
      BY <2>5, <3>1 DEF SoeWorlds
    <3> QED BY <3>2, <3>3, <3>4
  <2>7. Len(world.wire) \in Nat
    BY <1>2
  <2>8. Socket'
    <3>1. Len(w) <= L + 1
      BY <1>1, <1>2, <2>3, <2>4, <2>7 DEF Socket
    <3>2. ASSUME NEW i \in 1..Len(w) PROVE w[i] = (L + 1) - Len(w) + i
      <4>1. CASE world.up
        <5>1. CASE i = Len(world.wire) + 1
          BY <1>2, <2>3, <2>7, <4>1, <5>1
        <5>2. CASE i # Len(world.wire) + 1
          <6>1. i \in 1..Len(world.wire)
            BY <2>3, <2>7, <4>1, <5>2
          <6>2. world.wire[i] = L - Len(world.wire) + i
            BY <1>1, <6>1 DEF Socket
          <6>3. w[i] = world.wire[i] /\ Len(w) = Len(world.wire) + 1
            BY <2>3, <4>1, <6>1
          <6> QED BY <1>2, <2>7, <6>2, <6>3
        <5> QED BY <5>1, <5>2
      <4>2. CASE ~world.up
        <5>1. Len(w) = 0
          BY <1>1, <2>4, <4>2 DEF Socket
        <5> QED BY <5>1
      <4> QED BY <4>1, <4>2
    <3>3. ~world.up => w = <<>>
      BY <1>1, <2>4 DEF Socket
    <3>4. Len(w) <= world'.last /\ \A i \in 1..Len(w) : w[i] = world'.last - Len(w) + i
      <4>1. world'.last = L + 1
        BY <2>6
      <4>2. Len(w) <= world'.last
        BY <3>1, <4>1
      <4>3. ASSUME NEW i \in 1..Len(w) PROVE w[i] = world'.last - Len(w) + i
        <5>1. w[i] = (L + 1) - Len(w) + i
          BY <3>2
        <5>2. world'.last = L + 1
          BY <4>1
        <5> HIDE DEF L
        <5> QED BY <5>1, <5>2
      <4> QED BY <4>2, <4>3
    <3> QED BY <2>6, <3>3, <3>4 DEF Socket
  <2>9. ASSUME NEW e, Coming(e) PROVE Coming(e)'
    <3>1. world.up /\ In(world.wire, e) => In(w, e)
      BY <2>3, <2>7 DEF In
    <3>2. Asked(e) => Asked(e)'
      BY <2>1 DEF Asked
    <3> QED BY <2>6, <2>9, <3>1, <3>2 DEF Coming
  <2>10. ASSUME NEW e, e = L + 1 PROVE Coming(e)'
    <3>1. world.up => In(w, e)
      BY <2>3, <2>7, <2>10 DEF In
    <3> QED BY <2>6, <3>1 DEF Coming
  <2>11. \A e \in 1..world'.last : e \in 1..L \/ e = L + 1
    BY <1>2, <2>6
  <2>12. Known'
    <3> SUFFICES ASSUME NEW e \in 1..world'.last, ui.lastId < e, world.gap < e PROVE Coming(e)'
      BY <2>1, <2>6 DEF Known
    <3>1. CASE e = L + 1
      BY <2>10, <3>1
    <3>2. CASE e # L + 1
      <4>1. Coming(e)
        BY <1>1, <2>11, <3>2 DEF Known
      <4> QED BY <2>9, <4>1
    <3> QED BY <3>1, <3>2
  <2>13. ASSUME ~world'.missed, NEW e \in 1..world'.last, world'.floor < e, Soe!matches(e, ui.filter)
         PROVE  Listed(e)' \/ Asked(e)' \/ (ui.lastId < e /\ Coming(e)')
    <3>1. CASE e = L + 1
      BY <1>1, <1>2, <2>10, <3>1
    <3>2. CASE e # L + 1
      <4>1. Listed(e) \/ Asked(e) \/ (ui.lastId < e /\ Coming(e))
        BY <1>1, <2>6, <2>11, <2>13, <3>2 DEF Complete
      <4>2. (Listed(e) => Listed(e)') /\ (Asked(e) => Asked(e)')
        BY <2>1 DEF Listed, Asked
      <4> QED BY <2>9, <4>1, <4>2
    <3> QED BY <3>1, <3>2
  <2>14. ~world'.missed => Complete'
    BY <2>1, <2>13 DEF Complete
  <2>15. L + 1 <= N
    BY <1>2, <2>1 DEF Soe!Events, N
  <2>16. ui'.lastId <= L + 1 /\ \A c \in calls' : c.from <= L + 1 /\ (c.op = "after" => c.arg <= ui'.lastId)
    BY <1>1, <1>2, <2>1
  <2> QED BY <1>1, <2>1, <2>6, <2>8, <2>12, <2>14, <2>15, <2>16 DEF SoeInv, N
<1>6. CASE Soe!onclose
  <2>1. /\ world' = [world EXCEPT !.up = FALSE, !.wire = <<>>, !.faults = world.faults + 1]
        /\ ui' = ui /\ calls' = calls
    BY <1>6 DEF Soe!onclose
  <2>2. /\ world' \in SoeWorlds /\ world'.last = L /\ world'.wire = <<>> /\ ~world'.up
        /\ world'.floor = world.floor /\ world'.missed = world.missed /\ world'.gap = world.gap
    <3>1. world.faults + 1 \in Nat /\ <<>> \in Seq(Nat)
      BY <1>1 DEF SoeWorlds
    <3>2. world' \in SoeWorlds
      BY <1>1, <2>1, <3>1 DEF SoeWorlds
    <3>3. /\ world'.last = L /\ world'.wire = <<>> /\ ~world'.up
          /\ world'.floor = world.floor /\ world'.gap = world.gap
      BY <1>1, <2>1 DEF SoeWorlds
    <3>4. world'.missed = world.missed
      BY <1>1, <2>1 DEF SoeWorlds
    <3> QED BY <3>2, <3>3, <3>4
  <2>3. \A e : Coming(e)'
    BY <2>2 DEF Coming
  <2>4. Socket'
    BY <1>2, <2>2 DEF Socket
  <2>5. Known'
    BY <2>3 DEF Known
  <2>6. (\A e : Listed(e) => Listed(e)') /\ (\A e : Asked(e) => Asked(e)')
    BY <2>1 DEF Listed, Asked
  <2>7. ASSUME ~world'.missed, NEW e \in 1..world'.last, world'.floor < e, Soe!matches(e, ui.filter)
        PROVE  Listed(e)' \/ Asked(e)' \/ (ui.lastId < e /\ Coming(e)')
    <3>1. Listed(e) \/ Asked(e) \/ (ui.lastId < e /\ Coming(e))
      BY <1>1, <2>2, <2>7 DEF Complete
    <3> QED BY <2>3, <2>6, <3>1
  <2>8. ~world'.missed => Complete'
    BY <2>1, <2>7 DEF Complete
  <2> QED BY <1>1, <2>1, <2>2, <2>4, <2>5, <2>8 DEF SoeInv, N
<1>7. CASE Soe!onopen
  <2> DEFINE r == [op |-> "after", filter |-> ui.filter, arg |-> ui.lastId, from |-> L]
             m == world.missed \/ ui.lastId = 0
             g == IF ui.lastId = 0 THEN L ELSE world.gap
  <2>1. /\ world' = [world EXCEPT !.up = TRUE, !.missed = m, !.gap = g]
        /\ ui' = ui /\ ~world.up
        /\ calls' = IF ui.lastId > 0 THEN calls \cup {r} ELSE calls
    BY <1>7 DEF Soe!onopen, Soe!Send, Soe!Request
  <2>2. m \in BOOLEAN /\ g \in Nat /\ (~m => ~world.missed /\ ui.lastId > 0)
    BY <1>1, <1>2 DEF SoeWorlds
  <2> HIDE DEF m
  <2>3. /\ world' \in SoeWorlds /\ world'.last = L /\ world'.wire = world.wire /\ world'.up
        /\ world'.floor = world.floor /\ world'.missed = m /\ world'.gap = g
    BY <1>1, <2>1, <2>2 DEF SoeWorlds
  <2>4. r \in SoeRequests /\ r.from <= L /\ r.arg <= ui.lastId
    BY <1>1, <1>2 DEF SoeRequests, SoeUis
  <2>5. Socket'
    BY <1>1, <2>1, <2>3 DEF Socket
  <2>6. \A e : Asked(e) => Asked(e)'
    BY <2>1 DEF Asked
  <2>7. ASSUME ui.lastId > 0, NEW e \in 1..L, ui.lastId < e PROVE Asked(e)'
    <3>1. r \in calls' /\ r.op = "after" /\ r.arg < e /\ e <= r.from
      BY <1>2, <2>1, <2>7
    <3> QED BY <3>1 DEF Asked
  <2>8. Known'
    <3> SUFFICES ASSUME NEW e \in 1..L, ui.lastId < e, g < e PROVE Coming(e)'
      BY <2>1, <2>3 DEF Known
    <3>1. ui.lastId > 0
      BY <1>2
    <3> QED BY <2>7, <3>1 DEF Coming
  <2>9. ASSUME ~m, NEW e \in 1..L, world.floor < e, Soe!matches(e, ui.filter)
        PROVE  Listed(e)' \/ Asked(e)' \/ (ui.lastId < e /\ Coming(e)')
    <3>1. Listed(e) \/ Asked(e) \/ ui.lastId < e
      BY <1>1, <2>2, <2>9 DEF Complete
    <3>2. Listed(e) => Listed(e)'
      BY <2>1 DEF Listed
    <3> QED BY <2>2, <2>6, <2>7, <2>9, <3>1, <3>2
  <2>10. ~world'.missed => Complete'
    BY <2>1, <2>3, <2>9 DEF Complete
  <2>11. calls' \subseteq SoeRequests /\ \A c \in calls' : c.from <= L /\ (c.op = "after" => c.arg <= ui.lastId)
    BY <1>1, <2>1, <2>4
  <2> QED BY <1>1, <2>1, <2>3, <2>5, <2>8, <2>10, <2>11 DEF SoeInv, N
<1>8. CASE Soe!onmessage
  <2> DEFINE h == Head(world.wire)
  <2>1. /\ world.wire # <<>> /\ world' = [world EXCEPT !.wire = Tail(world.wire)]
        /\ Soe!ingest({h}, ui.filter) /\ calls' = calls
    BY <1>8 DEF Soe!onmessage
  <2>2. /\ Tail(world.wire) \in Seq(Nat) /\ Len(Tail(world.wire)) = Len(world.wire) - 1
        /\ \A i \in 1..Len(Tail(world.wire)) : Tail(world.wire)[i] = world.wire[i + 1]
        /\ h = world.wire[1] /\ Len(world.wire) \in Nat \ {0}
    BY <1>2, <2>1, HeadTailProperties, EmptySeq
  <2>3. h = L - Len(world.wire) + 1 /\ h \in 1..L
    BY <1>1, <1>2, <2>2 DEF Socket
  <2>4. {h} \in SUBSET Soe!Events
    BY <1>3, <2>3
  <2> DEFINE t == Tail(world.wire)
  <2>5. /\ world' \in SoeWorlds /\ world'.last = L /\ world'.wire = t /\ world'.up = world.up
        /\ world'.floor = world.floor /\ world'.missed = world.missed /\ world'.gap = world.gap
    BY <1>1, <2>1, <2>2 DEF SoeWorlds
  <2> HIDE DEF h
  <2>6. /\ ui' \in SoeUis /\ ui'.filter = ui.filter
        /\ ui'.lastId \in {h} \cup {ui.lastId} /\ \A x \in {h} \cup {ui.lastId} : x <= ui'.lastId
        /\ \A e : Listed(e) => Listed(e)'
        /\ \A e \in {h} : Soe!matches(e, ui.filter) => Listed(e)'
    BY <1>1, <2>1, <2>4, Ingested
  <2>7. \A e : In(world.wire, e) => e = h \/ In(t, e)
    <3> SUFFICES ASSUME NEW e, In(world.wire, e), e # h PROVE In(t, e)
      OBVIOUS
    <3>1. PICK i \in 1..Len(world.wire) : world.wire[i] = e
      BY DEF In
    <3>2. i # 1
      BY <2>2, <3>1
    <3>3. i - 1 \in 1..Len(t) /\ t[i - 1] = e
      BY <2>2, <3>1, <3>2
    <3> QED BY <3>3 DEF In
  <2>8. \A e : In(world.wire, e) => h <= e
    <3> SUFFICES ASSUME NEW i \in 1..Len(world.wire) PROVE h <= world.wire[i]
      BY DEF In
    <3>1. world.wire[i] = L - Len(world.wire) + i
      BY <1>1 DEF Socket
    <3> QED BY <1>2, <2>2, <2>3, <3>1
  <2>9. \A e : Asked(e) => Asked(e)'
    BY <2>1 DEF Asked
  <2>10. ui'.lastId \in Nat /\ h \in Nat /\ ui.lastId <= ui'.lastId /\ h <= ui'.lastId /\ ui'.lastId <= L
    BY <1>1, <1>2, <2>3, <2>6 DEF SoeUis
  <2>11. ASSUME NEW e, e \in Nat, ui'.lastId < e, Coming(e) PROVE Coming(e)'
    <3>1. e # h
      BY <2>10, <2>11
    <3>2. In(world.wire, e) => In(t, e)
      BY <2>7, <3>1
    <3> QED BY <2>5, <2>9, <2>11, <3>2 DEF Coming
  <2>12. Known'
    <3> SUFFICES ASSUME NEW e \in 1..L, ui'.lastId < e, world.gap < e PROVE Coming(e)'
      BY <2>5 DEF Known
    <3>1. ui.lastId < e /\ e \in Nat
      BY <1>2, <2>10
    <3>2. Coming(e)
      BY <1>1, <3>1 DEF Known
    <3> QED BY <2>11, <3>1, <3>2
  <2>13. Socket'
    <3>1. Len(t) <= L
      BY <1>1, <1>2, <2>2 DEF Socket
    <3>2. ASSUME NEW i \in 1..Len(t) PROVE t[i] = L - Len(t) + i
      <4>1. i + 1 \in 1..Len(world.wire) /\ t[i] = world.wire[i + 1] /\ i \in Nat
        BY <2>2
      <4>2. world.wire[i + 1] = L - Len(world.wire) + (i + 1)
        BY <1>1, <4>1 DEF Socket
      <4>3. Len(world.wire) \in Nat /\ Len(t) = Len(world.wire) - 1 /\ i \in Nat /\ L \in Nat
        BY <1>2, <2>2
      <4> HIDE DEF L, t
      <4>4. L - Len(world.wire) + (i + 1) = L - Len(t) + i
        BY <4>3
      <4> QED BY <4>1, <4>2, <4>4
    <3>3. world.up
      BY <1>1, <2>1 DEF Socket
    <3> QED BY <2>5, <3>1, <3>2, <3>3 DEF Socket
  <2>14. ASSUME ~world.missed, NEW e \in 1..L, world.floor < e, Soe!matches(e, ui.filter)
         PROVE  Listed(e)' \/ Asked(e)' \/ (ui'.lastId < e /\ Coming(e)')
    <3>1. Listed(e) \/ Asked(e) \/ (ui.lastId < e /\ Coming(e))
      BY <1>1, <2>14 DEF Complete
    <3>2. CASE Listed(e) \/ Asked(e)
      BY <2>6, <2>9, <3>2
    <3>3. CASE ui.lastId < e /\ Coming(e)
      <4>1. CASE e = h
        BY <2>6, <2>14, <4>1
      <4>2. CASE ui'.lastId < e
        BY <1>3, <2>11, <3>3, <4>2
      <4>3. CASE e # h /\ ~(ui'.lastId < e)
        <5>1. ui'.lastId = h /\ e < h
          BY <1>2, <2>6, <2>10, <3>3, <4>3
        <5>2. ~In(world.wire, e)
          BY <2>8, <2>10, <5>1
        <5>3. world.up
          BY <1>1, <2>1 DEF Socket
        <5> QED BY <2>9, <3>3, <5>2, <5>3 DEF Coming
      <4> QED BY <4>1, <4>2, <4>3
    <3> QED BY <3>1, <3>2, <3>3
  <2>15. ~world'.missed => Complete'
    BY <2>5, <2>6, <2>14 DEF Complete
  <2>16. \A c \in calls' : c.from <= L /\ (c.op = "after" => c.arg <= ui'.lastId)
    BY <1>1, <1>2, <2>1, <2>10
  <2> QED BY <1>1, <2>1, <2>5, <2>6, <2>10, <2>12, <2>13, <2>15, <2>16 DEF SoeInv, N
<1>9. ASSUME NEW c \in calls, calls' = calls \ {c}
      PROVE  /\ calls' \subseteq SoeRequests /\ calls' \ calls = {}
             /\ \A e : Asked(e) => Asked(e)' \/ (c.op = "after" /\ c.arg < e /\ e <= c.from)
  <2>1. \A e : Asked(e) => Asked(e)' \/ (c.op = "after" /\ c.arg < e /\ e <= c.from)
    BY <1>9 DEF Asked
  <2> QED BY <1>1, <1>9, <2>1
<1>10. CASE Soe!Resynced
  <2>0. PICK c \in calls : \E k \in c.from..L :
          /\ c.op = "after" /\ calls' = calls \ {c}
          /\ Soe!ingest({e \in Soe!Events : c.arg < e /\ e <= k}, c.filter)
          /\ world' = IF c.filter = ui.filter THEN world ELSE [world EXCEPT !.missed = TRUE, !.gap = Soe!Highest({k}, @)]
    BY <1>10 DEF Soe!Resynced, Soe!Got
  <2>1. PICK k \in c.from..L :
          /\ c.op = "after" /\ calls' = calls \ {c}
          /\ Soe!ingest({e \in Soe!Events : c.arg < e /\ e <= k}, c.filter)
          /\ world' = IF c.filter = ui.filter THEN world
                      ELSE [world EXCEPT !.missed = TRUE, !.gap = Soe!Highest({k}, @)]
    BY <2>0
  <2> DEFINE list == {e \in Soe!Events : c.arg < e /\ e <= k}
  <2>2. k \in Nat /\ c.from <= k /\ k <= L /\ c.from \in Nat /\ c.arg \in Nat /\ c.arg <= ui.lastId
    BY <1>1, <1>2, <2>1
  <2>3. list \in SUBSET Soe!Events /\ \A e \in list : e \in Nat /\ c.arg < e /\ e <= k
    BY <1>2 DEF Soe!Events
  <2>4. \A e \in 1..L : c.arg < e /\ e <= k => e \in list
    BY <1>3
  <2>5. Soe!ingest(list, c.filter)
    BY <2>1
  <2> HIDE DEF list
  <2>6. /\ ui' \in SoeUis /\ ui'.filter = ui.filter
        /\ ui'.lastId \in list \cup {ui.lastId} /\ \A x \in list \cup {ui.lastId} : x <= ui'.lastId
        /\ \A e : Listed(e) => Listed(e)'
        /\ \A e \in list : Soe!matches(e, c.filter) => Listed(e)'
    BY <1>1, <2>3, <2>5, Ingested
  <2>7. ui'.lastId \in Nat /\ ui.lastId <= ui'.lastId /\ ui'.lastId <= L
    BY <1>1, <1>2, <2>2, <2>3, <2>6
  <2>8. /\ calls' \subseteq SoeRequests /\ calls' \ calls = {}
        /\ \A e : Asked(e) => Asked(e)' \/ (c.op = "after" /\ c.arg < e /\ e <= c.from)
    BY <1>9, <2>1
  <2>9. ASSUME NEW e \in 1..L, Asked(e) PROVE Asked(e)' \/ e \in list
    BY <1>2, <2>2, <2>4, <2>8, <2>9
  <2>10. Soe!Highest({k}, world.gap) \in {k, world.gap} /\ world.gap <= Soe!Highest({k}, world.gap)
    <3>1. {k} \in SUBSET (0..k)
      BY <2>2
    <3> QED BY <1>2, <2>2, <3>1, HighestIs
  <2>11. /\ world' \in SoeWorlds /\ world'.last = world.last /\ world'.up = world.up /\ world'.wire = world.wire
         /\ world.gap <= world'.gap
    <3>1. CASE c.filter = ui.filter
      BY <1>1, <1>2, <2>1, <3>1
    <3>2. CASE c.filter # ui.filter
      <4> DEFINE g == Soe!Highest({k}, world.gap)
      <4>1. world' = [world EXCEPT !.missed = TRUE, !.gap = g]
        BY <2>1, <3>2
      <4>2. g \in Nat
        BY <1>2, <2>2, <2>10
      <4> HIDE DEF g
      <4>3. /\ world' \in SoeWorlds /\ world'.last = world.last /\ world'.up = world.up /\ world'.wire = world.wire
            /\ world'.gap = g
        BY <1>1, <4>1, <4>2 DEF SoeWorlds
      <4> QED BY <2>10, <4>3 DEF g
    <3> QED BY <3>1, <3>2
  <2>12. ASSUME ~world'.missed PROVE Complete'
    <3>1. c.filter = ui.filter /\ world' = world
      <4>1. CASE c.filter # ui.filter
        <5>1. world'.missed
          BY <1>1, <2>1, <4>1 DEF SoeWorlds
        <5> QED BY <2>12, <5>1
      <4> QED BY <2>1, <4>1
    <3> SUFFICES ASSUME NEW e \in 1..L, world.floor < e, Soe!matches(e, ui.filter)
                 PROVE  Listed(e)' \/ Asked(e)' \/ (ui'.lastId < e /\ Coming(e)')
      BY <2>6, <3>1 DEF Complete
    <3>2. CASE e \in list
      BY <2>6, <3>1, <3>2
    <3>3. CASE e \notin list
      <4>1. Listed(e) \/ Asked(e) \/ (ui.lastId < e /\ Coming(e))
        BY <1>1, <2>12, <3>1 DEF Complete
      <4>2. CASE Listed(e) \/ Asked(e)
        BY <2>6, <2>9, <3>3, <4>2
      <4>3. CASE ui.lastId < e /\ Coming(e)
        <5>1. k < e
          BY <1>2, <1>3, <2>2, <2>4, <3>3, <4>3
        <5>2. ui'.lastId < e
          BY <1>3, <2>2, <2>3, <2>6, <4>3, <5>1
        <5>3. Coming(e)'
          BY <2>9, <3>1, <3>3, <4>3 DEF Coming
        <5> QED BY <5>2, <5>3
      <4> QED BY <4>1, <4>2, <4>3
    <3> QED BY <3>2, <3>3
  <2>13. \A e \in 1..world.last : Asked(e) => Asked(e)' \/ e <= ui'.lastId \/ e <= world'.gap
    BY <2>6, <2>9
  <2> QED BY <2>6, <2>7, <2>8, <2>11, <2>12, <2>13, SoeStep
<1>11. CASE Soe!Loaded
  <2>0. PICK c \in calls : c.op = "load" /\ calls' = calls \ {c} /\ \E k \in c.from..L :
          LET all == {e \in Soe!Events : e <= k /\ Soe!matches(e, c.filter)}
              rows == Soe!Page(all)
          IN /\ ui' = [ui EXCEPT !.items = rows, !.buffer = <<>>, !.loading = FALSE,
                                 !.more = Len(rows) = PageSize,
                                 !.lastId = IF rows = <<>> THEN @ ELSE Soe!Highest({rows[1]}, @)]
             /\ world' = [world EXCEPT
                  !.floor = IF Len(Soe!Newest(all)) > Len(rows) THEN rows[Len(rows)] - 1 ELSE 0,
                  !.missed = (\E e \in (k + 1)..Soe!Highest({world.gap}, ui.lastId) : Soe!matches(e, c.filter))
                             \/ c.filter # ui.filter]
    BY <1>11 DEF Soe!Loaded, Soe!Got
  <2> DEFINE all(k) == {e \in Soe!Events : e <= k /\ Soe!matches(e, c.filter)}
             rows(k) == Soe!Page(all(k))
             known(k) == IF rows(k) = <<>> THEN ui.lastId ELSE Soe!Highest({rows(k)[1]}, ui.lastId)
             floor(k) == IF Len(Soe!Newest(all(k))) > Len(rows(k)) THEN rows(k)[Len(rows(k))] - 1 ELSE 0
             missed(k) == (\E e \in (k + 1)..Soe!Highest({world.gap}, ui.lastId) : Soe!matches(e, c.filter))
                          \/ c.filter # ui.filter
             more(k) == Len(rows(k)) = PageSize
  <2>1. PICK k \in c.from..L :
          /\ ui' = [ui EXCEPT !.items = rows(k), !.buffer = <<>>, !.loading = FALSE, !.more = more(k), !.lastId = known(k)]
          /\ world' = [world EXCEPT !.floor = floor(k), !.missed = missed(k)]
    BY <2>0
  <2>2. k \in Nat /\ k <= L /\ c.op # "after"
    BY <1>2, <2>0
  <2>3. all(k) \in SUBSET Soe!Events /\ \A e \in all(k) : e \in Nat /\ e <= k
    BY <1>2 DEF Soe!Events
  <2>4. /\ rows(k) \in Seq(Nat) /\ (rows(k) # <<>> => rows(k)[1] \in all(k)) /\ (rows(k) = <<>> => all(k) = {})
        /\ floor(k) \in Nat /\ \A e \in all(k) : floor(k) < e => In(rows(k), e)
    <3> HIDE DEF all
    <3> QED BY <2>3, PageIs
  <2>5. \A e \in 1..L : e <= k /\ Soe!matches(e, c.filter) => e \in all(k)
    BY <1>3
  <2> HIDE DEF all, rows, floor
  <2>6. known(k) \in Nat /\ ui.lastId <= known(k) /\ known(k) <= L /\ \A e \in 1..L : k < e /\ ui.lastId < e => known(k) < e
    <3>1. CASE rows(k) = <<>>
      BY <1>1, <1>2, <3>1
    <3>2. CASE rows(k) # <<>>
      <4> DEFINE x == rows(k)[1]
      <4>1. x \in Nat /\ x <= k
        BY <2>3, <2>4, <3>2
      <4> HIDE DEF x
      <4>2. {x} \in SUBSET (0..x)
        BY <4>1
      <4>3. Soe!Highest({x}, ui.lastId) \in {x, ui.lastId} /\ ui.lastId <= Soe!Highest({x}, ui.lastId)
        BY <1>2, <4>1, <4>2, HighestIs
      <4>4. known(k) = Soe!Highest({x}, ui.lastId)
        BY <3>2 DEF x
      <4> DEFINE g == Soe!Highest({x}, ui.lastId)
      <4>5. g \in {x, ui.lastId} /\ ui.lastId <= g /\ known(k) = g
        BY <4>3, <4>4
      <4> HIDE DEF g, known
      <4>6. g \in Nat /\ g <= L
        BY <1>1, <1>2, <2>2, <4>1, <4>5
      <4>7. ASSUME NEW e \in 1..L, k < e, ui.lastId < e PROVE g < e
        BY <1>2, <2>2, <4>1, <4>5, <4>7
      <4> QED BY <4>5, <4>6, <4>7
    <3> QED BY <3>1, <3>2
  <2>7. ASSUME ~missed(k), NEW e \in 1..L, k < e, Soe!matches(e, ui.filter)
        PROVE  ui.lastId < e /\ world.gap < e
    <3> DEFINE h == Soe!Highest({world.gap}, ui.lastId)
    <3>1. {world.gap} \in SUBSET (0..world.gap)
      BY <1>2
    <3>2. h \in {world.gap, ui.lastId} /\ world.gap <= h /\ ui.lastId <= h
      BY <1>2, <3>1, HighestIs
    <3>3. e \notin (k + 1)..h
      BY <2>7
    <3> HIDE DEF h
    <3> QED BY <1>2, <2>2, <2>7, <3>2, <3>3
  <2>8. missed(k) \in BOOLEAN /\ more(k) \in BOOLEAN /\ (~missed(k) => c.filter = ui.filter)
    OBVIOUS
  <2> HIDE DEF known, missed, more
  <2>9. /\ ui' \in SoeUis /\ ui'.items = rows(k) /\ ui'.filter = ui.filter /\ ui'.lastId = known(k)
    <3>1. <<>> \in Seq(Nat)
      OBVIOUS
    <3> QED BY <1>1, <2>1, <2>4, <2>6, <2>8, <3>1 DEF SoeUis
  <2>10. /\ world' \in SoeWorlds /\ world'.last = world.last /\ world'.up = world.up /\ world'.wire = world.wire
         /\ world'.gap = world.gap /\ world'.floor = floor(k) /\ world'.missed = missed(k)
    <3>1. world' \in SoeWorlds
      BY <1>1, <2>1, <2>4, <2>8 DEF SoeWorlds
    <3>2. /\ world'.last = world.last /\ world'.up = world.up /\ world'.wire = world.wire /\ world'.gap = world.gap
      BY <1>1, <2>1 DEF SoeWorlds
    <3>3. world'.floor = floor(k) /\ world'.missed = missed(k)
      BY <1>1, <2>1 DEF SoeWorlds
    <3> QED BY <3>1, <3>2, <3>3
  <2>11. calls' \subseteq SoeRequests /\ calls' \ calls = {} /\ \A e : Asked(e) => Asked(e)'
    BY <1>9, <2>0, <2>2
  <2>12. ASSUME ~world'.missed, NEW e \in 1..L, floor(k) < e, Soe!matches(e, ui.filter)
         PROVE  Listed(e)' \/ (known(k) < e /\ Coming(e)')
    <3>1. ~missed(k) /\ c.filter = ui.filter
      BY <2>8, <2>10, <2>12
    <3>2. CASE e <= k
      <4>1. In(rows(k), e)
        BY <2>4, <2>5, <2>12, <3>1, <3>2
      <4> QED BY <2>9, <4>1 DEF Listed
    <3>3. CASE ~(e <= k)
      <4>1. k < e
        BY <1>2, <2>2, <3>3
      <4>2. ui.lastId < e /\ world.gap < e
        BY <2>7, <2>12, <3>1, <4>1
      <4>3. Coming(e)
        BY <1>1, <4>2 DEF Known
      <4>4. Coming(e)'
        BY <2>10, <2>11, <4>3 DEF Coming
      <4> QED BY <2>6, <4>1, <4>2, <4>4
    <3> QED BY <3>2, <3>3
  <2>13. ~world'.missed => Complete'
    BY <2>9, <2>10, <2>12 DEF Complete
  <2> QED BY <1>1, <1>2, <2>6, <2>9, <2>10, <2>11, <2>13, SoeStep
<1>12. CASE Soe!MoreLoaded
  <2>0. PICK c \in calls : c.op = "more" /\ calls' = calls \ {c} /\ \E k \in c.from..L :
          LET rows == Soe!Page({e \in Soe!Events : e <= k /\ e < c.arg /\ Soe!matches(e, c.filter)})
          IN ui' = [ui EXCEPT !.items = @ \o rows, !.loading = FALSE, !.more = Len(rows) = PageSize]
    BY <1>12 DEF Soe!MoreLoaded, Soe!Got
  <2>1. PICK k \in c.from..L :
          LET rows == Soe!Page({e \in Soe!Events : e <= k /\ e < c.arg /\ Soe!matches(e, c.filter)})
          IN ui' = [ui EXCEPT !.items = @ \o rows, !.loading = FALSE, !.more = Len(rows) = PageSize]
    BY <2>0
  <2> DEFINE S == {e \in Soe!Events : e <= k /\ e < c.arg /\ Soe!matches(e, c.filter)}
             items == ui.items \o Soe!Page(S)
             more == Len(Soe!Page(S)) = PageSize
  <2>2. Soe!Page(S) \in Seq(Nat)
    BY PageIs
  <2>3. items \in Seq(Nat) /\ (\A e : In(ui.items, e) => In(items, e)) /\ more \in BOOLEAN
    BY <1>2, <2>2, InBoth
  <2>4. ui' = [ui EXCEPT !.items = items, !.loading = FALSE, !.more = more] /\ world' = world
    BY <1>12, <2>1 DEF Soe!MoreLoaded
  <2> HIDE DEF items, more
  <2>5. /\ ui' \in SoeUis /\ ui'.items = items /\ ui'.buffer = ui.buffer /\ ui'.filter = ui.filter
        /\ ui'.lastId = ui.lastId
    BY <1>1, <2>3, <2>4 DEF SoeUis
  <2>6. \A e : Listed(e) => Listed(e)'
    BY <2>3, <2>5 DEF Listed
  <2>7. calls' \subseteq SoeRequests /\ calls' \ calls = {} /\ \A e : Asked(e) => Asked(e)'
    BY <1>9, <2>0
  <2>8. ~world'.missed => Complete'
    BY <1>1, <2>4, <2>5, <2>6, <2>7, StillComplete
  <2> QED BY <1>1, <1>2, <2>4, <2>5, <2>7, <2>8, SoeStep
<1>13. CASE Soe!Failed
  <2>1. PICK c \in calls :
          /\ calls' = calls \ {c}
          /\ world' = [world EXCEPT !.faults = @ + 1, !.missed = TRUE,
                                    !.gap = IF c.op = "after" THEN Soe!Highest({c.from}, @) ELSE @]
          /\ ui' = [ui EXCEPT !.loading = IF c.op = "after" THEN @ ELSE FALSE]
    BY <1>13 DEF Soe!Failed, Soe!Got
  <2>2. Soe!Highest({c.from}, world.gap) \in {c.from, world.gap}
        /\ world.gap <= Soe!Highest({c.from}, world.gap) /\ c.from <= Soe!Highest({c.from}, world.gap)
    <3>1. {c.from} \in SUBSET (0..c.from)
      BY <1>2
    <3> QED BY <1>2, <3>1, HighestIs
  <2> DEFINE g == IF c.op = "after" THEN Soe!Highest({c.from}, world.gap) ELSE world.gap
  <2>3. g \in Nat /\ world.gap <= g /\ (c.op = "after" => c.from <= g)
    BY <1>2, <2>2
  <2>4. world' = [world EXCEPT !.faults = world.faults + 1, !.missed = TRUE, !.gap = g]
    BY <2>1
  <2> HIDE DEF g
  <2>5. /\ world' \in SoeWorlds /\ world'.last = world.last /\ world'.up = world.up /\ world'.wire = world.wire
        /\ world'.gap = g /\ world'.missed
    <3>1. world.faults + 1 \in Nat
      BY <1>1 DEF SoeWorlds
    <3> QED BY <1>1, <2>3, <2>4, <3>1 DEF SoeWorlds
  <2>6. ui' \in SoeUis /\ ui'.lastId = ui.lastId
    BY <1>1, <2>1 DEF SoeUis
  <2>7. /\ calls' \subseteq SoeRequests /\ calls' \ calls = {}
        /\ \A e : Asked(e) => Asked(e)' \/ (c.op = "after" /\ c.arg < e /\ e <= c.from)
    BY <1>9, <2>1
  <2>8. ASSUME NEW e \in 1..L, Asked(e) PROVE Asked(e)' \/ e <= world'.gap
    BY <1>2, <1>3, <2>3, <2>5, <2>7, <2>8
  <2> QED BY <1>1, <1>2, <2>3, <2>5, <2>6, <2>7, <2>8, SoeStep
<1>14. ASSUME NEW c, c \in SoeRequests, c.op # "after", c.from = L, calls' = calls \cup {c}
       PROVE  /\ calls' \subseteq SoeRequests /\ (\A d \in calls' \ calls : d.from <= world.last /\ d.op # "after")
              /\ \A e : Asked(e) => Asked(e)'
  <2>1. \A e : Asked(e) => Asked(e)'
    BY <1>14 DEF Asked
  <2> QED BY <1>1, <1>2, <1>14, <2>1
<1>15. CASE \E f \in {"all"} \cup Categories : Soe!SetFilter(f)
  <2>1. PICK f \in {"all"} \cup Categories : Soe!SetFilter(f)
    BY <1>15
  <2> DEFINE c == [op |-> "load", filter |-> f, arg |-> 0, from |-> L]
  <2>2. calls' = calls \cup {c}
    BY <2>1 DEF Soe!SetFilter, Soe!Send, Soe!Request
  <2>3. c \in SoeRequests /\ c.op # "after" /\ c.from = L
    BY <1>2 DEF SoeRequests
  <2> HIDE DEF c
  <2>4. /\ calls' \subseteq SoeRequests /\ (\A d \in calls' \ calls : d.from <= world.last /\ d.op # "after")
        /\ \A e : Asked(e) => Asked(e)'
    BY <1>14, <2>2, <2>3
  <2>5. ui' \in SoeUis /\ ui'.lastId = ui.lastId
    BY <1>1, <2>1 DEF Soe!SetFilter, SoeUis
  <2>6. /\ world' \in SoeWorlds /\ world'.last = world.last /\ world'.up = world.up /\ world'.wire = world.wire
        /\ world'.gap = world.gap /\ world'.missed
    BY <1>1, <2>1 DEF Soe!SetFilter, SoeWorlds
  <2> QED BY <1>1, <1>2, <2>4, <2>5, <2>6, SoeStep
<1>16. CASE Soe!loadMore
  <2> DEFINE c == [op |-> "more", filter |-> ui.filter, arg |-> ui.items[Len(ui.items)], from |-> L]
  <2>1. /\ ui.items # <<>> /\ ui' = [ui EXCEPT !.loading = TRUE] /\ world' = world /\ calls' = calls \cup {c}
    BY <1>16 DEF Soe!loadMore, Soe!More, Soe!Send, Soe!Request
  <2>2. ui.items[Len(ui.items)] \in Nat
    BY <1>2, <2>1, EmptySeq, ElementOfSeq
  <2>3. c \in SoeRequests /\ c.op # "after" /\ c.from = L
    BY <1>1, <1>2, <2>2 DEF SoeRequests, SoeUis
  <2> HIDE DEF c
  <2>4. /\ calls' \subseteq SoeRequests /\ (\A d \in calls' \ calls : d.from <= world.last /\ d.op # "after")
        /\ \A e : Asked(e) => Asked(e)'
    BY <1>14, <2>1, <2>3
  <2>5. /\ ui' \in SoeUis /\ ui'.items = ui.items /\ ui'.buffer = ui.buffer /\ ui'.filter = ui.filter
        /\ ui'.lastId = ui.lastId
    BY <1>1, <2>1 DEF SoeUis
  <2>6. \A e : Listed(e) => Listed(e)'
    BY <2>5 DEF Listed
  <2>7. ~world'.missed => Complete'
    BY <1>1, <2>1, <2>4, <2>5, <2>6, StillComplete
  <2> QED BY <1>1, <1>2, <2>1, <2>4, <2>5, <2>7, SoeStep
<1>17. CASE Soe!Pause \/ Soe!resume
  <2>1. world' = world /\ calls' = calls
    BY <1>17 DEF Soe!Pause, Soe!resume, Soe!Show
  <2>2. /\ ui' \in SoeUis /\ ui'.filter = ui.filter /\ ui'.lastId = ui.lastId
        /\ \A e : Listed(e) => Listed(e)'
    <3>1. CASE Soe!Pause
      <4>1. ui' \in SoeUis /\ ui'.items = ui.items /\ ui'.buffer = ui.buffer /\ ui'.filter = ui.filter
            /\ ui'.lastId = ui.lastId
        BY <1>1, <3>1 DEF Soe!Pause, Soe!Show, SoeUis
      <4> QED BY <4>1 DEF Listed
    <3>2. CASE Soe!resume
      <4> DEFINE new == Soe!Range(ui.buffer) \ Soe!Range(ui.items)
                 held == Soe!Only(ui.buffer, new)
                 items == held \o ui.items
      <4>1. held \in Seq(Nat) /\ \A e : In(held, e) <=> e \in new /\ In(ui.buffer, e)
        <5> HIDE DEF new
        <5> QED BY <1>2, OnlyRange
      <4>2. \A e : (e \in Soe!Range(ui.buffer) <=> In(ui.buffer, e)) /\ (e \in Soe!Range(ui.items) <=> In(ui.items, e))
        BY <1>2, InRange
      <4>3. items \in Seq(Nat) /\ \A e : In(items, e) <=> In(held, e) \/ In(ui.items, e)
        BY <1>2, <4>1, InBoth
      <4>4. ui' = [ui EXCEPT !.items = items, !.buffer = <<>>, !.paused = FALSE]
        BY <3>2 DEF Soe!resume
      <4> HIDE DEF held, items
      <4>5. <<>> \in Seq(Nat)
        OBVIOUS
      <4>6. ui' \in SoeUis /\ ui'.items = items /\ ui'.filter = ui.filter /\ ui'.lastId = ui.lastId
        BY <1>1, <4>3, <4>4, <4>5 DEF SoeUis
      <4>7. \A e : Listed(e) => In(items, e)
        BY <4>1, <4>2, <4>3 DEF Listed
      <4>8. \A e : Listed(e) => Listed(e)'
        BY <4>6, <4>7 DEF Listed
      <4> QED BY <4>6, <4>8
    <3> QED BY <1>17, <3>1, <3>2
  <2>3. \A e : Asked(e) => Asked(e)'
    BY <2>1 DEF Asked
  <2>4. ~world'.missed => Complete'
    BY <1>1, <2>1, <2>2, <2>3, StillComplete
  <2> QED BY <1>1, <1>2, <2>1, <2>2, <2>3, <2>4, SoeStep
<1> QED BY <1>5, <1>6, <1>7, <1>8, <1>10, <1>11, <1>12, <1>13, <1>15, <1>16, <1>17 DEF Soe!Next, Soe!NoFilter

-----------------------------------------------------------------------------
(* Operate *)

\* What can be operated is an element, or a way of one.
LEMMA TargetShape ==
  ASSUME NEW t \in Oper!Operable
  PROVE  t = <<t[1], t[2]>> /\ t[1] \in Objects /\ t[2] \in Oper!WaysOf(t[1]) \cup {Nil}
<1>1. CASE \E o \in Objects : t = <<o, Nil>>
  BY <1>1
<1>2. CASE \E o \in DOMAIN Ways : \E w \in Ways[o] : t = <<o, w>>
  <2>1. PICK o \in DOMAIN Ways : \E w \in Ways[o] : t = <<o, w>>
    BY <1>2
  <2>2. o \in Objects \ Lines
    BY PagesAssumption
  <2> QED BY <2>1, <2>2 DEF Oper!WaysOf
<1> QED BY <1>1, <1>2 DEF Oper!Operable

\* What the box cannot tell apart are classes, and a line is only alike to what has no ways.
LEMMA AlikeClasses ==
  /\ \A o : Oper!Alike(o, o)
  /\ \A o, p : Oper!Alike(o, p) => Oper!Alike(p, o)
  /\ \A o, p, q : Oper!Alike(o, p) /\ Oper!Alike(p, q) => Oper!Alike(o, q)
  /\ \A o, p : Oper!Alike(o, p) /\ p \in Lines => Oper!WaysOf(o) = {}
<1>1. \A p \in Lines : Oper!WaysOf(p) = {}
  BY PagesAssumption DEF Oper!WaysOf
<1> QED BY <1>1 DEF Oper!Alike

\* The maneuvers: nothing is selected at first.
LEMMA OperateInit ==
  ASSUME Oper!Init
  PROVE  OperateInv
<1>1. ui = [selected |-> Nil, open |-> {}, box |-> [cat |-> FALSE, busy |-> FALSE, confirm |-> Nil], outage |-> FALSE]
  BY DEF Oper!Init, Oper!EmptyBox
<1>2. PICK S \in SUBSET {<<o, Nil>> : o \in Objects} : world = [open |-> S, wrong |-> FALSE]
  BY DEF Oper!Init
<1>3. S \subseteq Oper!Operable
  BY DEF Oper!Operable
<1>4. calls = {}
  BY DEF Oper!Init
<1>5. ui \in OperateUi
  BY <1>1 DEF OperateUi, Boxes, Elements
<1>6. world \in OperateWorlds /\ ~world.wrong
  BY <1>2, <1>3 DEF OperateWorlds
<1> QED BY <1>1, <1>4, <1>5, <1>6 DEF OperateInv, Named

\* Another element takes the place of the one shown.
LEMMA ShownOther ==
  ASSUME NEW o \in Elements, NEW open \in SUBSET Oper!Operable, ui \in OperateUi, Named(ui)
  PROVE  LET u == Oper!SetSelected(o, open) IN
         u \in OperateUi /\ Named(u) /\ u.selected = o
<1> USE DEF OperateUi, Boxes, Elements, Named
<1>1. CASE o = Nil
  BY <1>1 DEF Oper!SetSelected, Oper!EmptyBox
<1>2. CASE o # Nil
  <2> DEFINE keeps == ui.box.cat /\ Oper!KeepsCategory(o)
             box == [ui.box EXCEPT !.cat = keeps]
  <2>0. Oper!SetSelected(o, open) = [ui EXCEPT !.selected = o, !.open = {t \in open : t[1] = o},
                                               !.box = IF o = Nil THEN Oper!EmptyBox ELSE box]
    BY Zenon DEF Oper!SetSelected
  <2>2. keeps \in BOOLEAN
    OBVIOUS
  <2>3. keeps => Oper!Alike(o, ui.selected) /\ ui.box.cat
    BY DEF Oper!KeepsCategory
  <2> HIDE DEF keeps
  <2>4. box \in Boxes /\ box.confirm = ui.box.confirm /\ box.cat = keeps
    BY <2>2 DEF OperateUi, Boxes
  <2> HIDE DEF box
  <2>1. Oper!SetSelected(o, open) = [ui EXCEPT !.selected = o, !.open = {t \in open : t[1] = o}, !.box = box]
    BY <1>2, <2>0
  <2>5. box.cat /\ box.confirm # Nil => o \in Objects /\ Oper!Alike(box.confirm[1], o)
    BY <1>2, <2>3, <2>4, AlikeClasses DEF Named
  <2> QED BY <2>1, <2>4, <2>5
<1> QED BY <1>1, <1>2

\* What the server does to the network, and that it is what the dialog named.
LEMMA ServedAsNamed ==
  ASSUME NEW c \in OperateRequests, Says(c), world \in OperateWorlds, ~world.wrong
  PROVE  Oper!execManeuver(c) \in OperateWorlds /\ ~Oper!execManeuver(c).wrong
<1> DEFINE t == IF c.at \in Lines THEN <<c.at, Nil>> ELSE <<c.at, c.way>>
<1>1. ASSUME c.action = "open", c.cat PROVE Oper!AsNamed(c.named, t)
  <2>1. c.named \in Oper!Operable /\ c.named[2] = c.way /\ Oper!Alike(c.named[1], c.at)
    BY <1>1 DEF Says
  <2>2. c.at \in Lines => c.way = Nil
    BY <2>1, TargetShape, AlikeClasses
  <2>3. t[1] = c.at /\ t[2] = c.way
    BY <2>2
  <2> HIDE DEF t
  <2> QED BY <2>1, <2>3 DEF Oper!AsNamed
<1> HIDE DEF t
<1>2. CASE (c.action = "open" => c.cat) /\ t \in Oper!Operable
  <2> DEFINE wrong == world.wrong \/ (c.action = "open" /\ ~Oper!AsNamed(c.named, t))
             open == IF c.action = "open" THEN world.open \cup {t} ELSE world.open \ {t}
  <2>1. Oper!execManeuver(c) = [world EXCEPT !.open = open, !.wrong = wrong]
    BY <1>2, Zenon DEF Oper!execManeuver, t
  <2>2. wrong \in BOOLEAN /\ ~wrong
    BY <1>1, <1>2
  <2>3. open \in SUBSET Oper!Operable
    BY <1>2 DEF OperateWorlds
  <2> HIDE DEF wrong, open
  <2> QED BY <2>1, <2>2, <2>3 DEF OperateWorlds
<1>3. CASE ~((c.action = "open" => c.cat) /\ t \in Oper!Operable)
  <2>1. Oper!execManeuver(c) = world
    BY <1>3 DEF Oper!execManeuver, t
  <2> QED BY <2>1
<1> QED BY <1>2, <1>3

\* A dialog over a category stays that of the element shown, and so does what it sends.
LEMMA OperateNext ==
  ASSUME OperateInv, Oper!Next
  PROVE  OperateInv'
<1>0. /\ ui \in OperateUi /\ Named(ui) /\ world \in OperateWorlds /\ ~world.wrong
      /\ calls \subseteq OperateRequests /\ \A c \in calls : Says(c)
  BY DEF OperateInv
<1>1. ASSUME ui' \in OperateUi, Named(ui'), world' \in OperateWorlds, ~world'.wrong,
             calls' \subseteq OperateRequests, \A c \in calls' : Says(c)
      PROVE  OperateInv'
  BY <1>1 DEF OperateInv, Named, Says
<1>2. \A op \in {"select", "outage"}, o \in Objects :
        Oper!Call(op, o) \in OperateRequests /\ Says(Oper!Call(op, o))
  BY DEF Oper!Call, OperateRequests, Says
<1>3. CASE \E o \in Objects : Oper!select(o) \/ Oper!showOutage(o)
  <2>1. PICK o \in Objects, op \in {"select", "outage"} :
          calls' = calls \cup {Oper!Call(op, o)} /\ UNCHANGED <<ui, world>>
    BY <1>3 DEF Oper!select, Oper!showOutage, Oper!Send
  <2> QED BY <1>0, <1>1, <1>2, <2>1
<1>4. CASE Oper!Deselect
  <2>1. ui' = Oper!SetSelected(Nil, {}) /\ UNCHANGED <<calls, world>>
    BY <1>4 DEF Oper!Deselect, Oper!Show
  <2>2. ui' \in OperateUi /\ Named(ui')
    BY <1>0, <2>1, ShownOther DEF Elements
  <2> QED BY <1>0, <1>1, <2>1, <2>2
<1>5. CASE Oper!HideOutage \/ Oper!CancelDialog \/ \E b \in BOOLEAN : Oper!PickCategory(b)
  <2>1. UNCHANGED <<calls, world>>
    BY <1>5 DEF Oper!HideOutage, Oper!CancelDialog, Oper!PickCategory, Oper!OnlyBox, Oper!Show
  <2>2. ui' \in OperateUi /\ Named(ui')
    <3> USE <1>0 DEF OperateUi, Boxes, Elements, Named
    <3>1. CASE Oper!HideOutage
      BY <3>1 DEF Oper!HideOutage, Oper!Show
    <3>2. CASE Oper!CancelDialog
      <4>1. ui' = [ui EXCEPT !.box = [ui.box EXCEPT !.confirm = Nil]]
        BY <3>2 DEF Oper!CancelDialog, Oper!OnlyBox, Oper!Show
      <4> QED BY <4>1
    <3>3. CASE \E b \in BOOLEAN : Oper!PickCategory(b)
      <4>1. PICK b \in BOOLEAN : ui' = [ui EXCEPT !.box = [ui.box EXCEPT !.cat = b]] /\ ui.box.confirm = Nil
        BY <3>3 DEF Oper!PickCategory, Oper!OnlyBox, Oper!Show, Oper!Idle
      <4> QED BY <4>1
    <3> QED BY <1>5, <3>1, <3>2, <3>3
  <2> QED BY <1>0, <1>1, <2>1, <2>2
<1>6. CASE Oper!AskOpen
  <2>1. PICK t \in Oper!Operable : t[1] = ui.selected /\ ui' = [ui EXCEPT !.box = [ui.box EXCEPT !.confirm = t]]
    BY <1>6 DEF Oper!AskOpen, Oper!Shut, Oper!OnlyBox, Oper!Show
  <2>2. UNCHANGED <<calls, world>>
    BY <1>6 DEF Oper!AskOpen, Oper!OnlyBox, Oper!Show
  <2>3. ui.selected \in Objects
    BY <1>0, <1>6 DEF Oper!AskOpen, Oper!Idle, OperateUi, Elements
  <2>4. ui' \in OperateUi /\ Named(ui')
    BY <1>0, <2>1, <2>3, AlikeClasses DEF OperateUi, Boxes, Elements, Named
  <2> QED BY <1>0, <1>1, <2>2, <2>4
<1>7. ASSUME NEW action \in {"open", "close"}, NEW way, NEW named, ui.selected \in Objects,
             way \in {t[2] : t \in Oper!Operable} \cup {Nil}, named \in Oper!Operable \cup {Nil},
             action = "open" /\ ui.box.cat => /\ named \in Oper!Operable /\ named[2] = way
                                              /\ Oper!Alike(named[1], ui.selected),
             Oper!run(action, way, named)
      PROVE  OperateInv'
  <2>1. PICK cat \in BOOLEAN :
          /\ calls' = calls \cup {[Oper!Call("operate", ui.selected) EXCEPT !.action = action, !.way = way,
                                                                            !.named = named, !.cat = cat]}
          /\ cat => action = "open" /\ ui.box.cat
    <3> DEFINE b == action = "open" /\ ui.box.cat
    <3>1. calls' = calls \cup {[Oper!Call("operate", ui.selected) EXCEPT !.action = action, !.way = way,
                                                                         !.named = named, !.cat = b]}
      BY <1>7, Zenon DEF Oper!run, Oper!Send
    <3>2. b \in BOOLEAN
      OBVIOUS
    <3> QED BY <3>1, <3>2, Zenon
  <2>2. world' = world
    BY <1>7 DEF Oper!run
  <2> DEFINE c == [Oper!Call("operate", ui.selected) EXCEPT !.action = action, !.way = way, !.named = named, !.cat = cat]
  <2>6. c = [op |-> "operate", at |-> ui.selected, action |-> action, cat |-> cat, way |-> way, named |-> named]
    <3> DEFINE d == [op |-> "operate", at |-> ui.selected, action |-> "", cat |-> FALSE, way |-> Nil, named |-> Nil]
    <3>1. c = [d EXCEPT !.action = action, !.way = way, !.named = named, !.cat = cat]
      BY DEF Oper!Call
    <3>2. d.op = "operate" /\ d.at = ui.selected
      OBVIOUS
    <3>3. d = [f \in DOMAIN d |-> d[f]] /\ DOMAIN d = {"op", "at", "action", "cat", "way", "named"}
      OBVIOUS
    <3> HIDE DEF d, c
    <3> QED BY <3>1, <3>2, <3>3
  <2> HIDE DEF c
  <2>3. c \in OperateRequests
    BY <1>7, <2>6 DEF OperateRequests
  <2>4. Says(c)
    BY <1>7, <2>1, <2>6 DEF Says
  <2>5. ui' \in OperateUi /\ Named(ui')
    BY <1>0, <1>7 DEF Oper!run, OperateUi, Boxes, Elements, Named
  <2>7. calls' = calls \cup {c}
    BY <2>1 DEF c
  <2> QED BY <1>0, <1>1, <2>2, <2>3, <2>4, <2>5, <2>7
<1>8. CASE Oper!RunClose
  <2>1. PICK t \in Oper!Operable : t[1] = ui.selected /\ Oper!run("close", t[2], Nil)
    BY <1>8 DEF Oper!RunClose
  <2>2. ui.selected \in Objects
    BY <1>0, <1>8 DEF Oper!RunClose, Oper!Idle, OperateUi, Elements
  <2> QED BY <1>7, <2>1, <2>2
<1>9. CASE Oper!RunOpen
  <2> DEFINE t == ui.box.confirm
  <2>1. t \in Oper!Operable /\ ui.selected \in Objects /\ Oper!run("open", t[2], t)
    BY <1>0, <1>9 DEF Oper!RunOpen, OperateUi, Boxes, Elements
  <2>2. ui.box.cat => Oper!Alike(t[1], ui.selected)
    BY <1>0, <1>9 DEF Oper!RunOpen, Named
  <2>3. t[2] \in {x[2] : x \in Oper!Operable}
    BY <2>1
  <2> HIDE DEF t
  <2> QED BY <1>7, <2>1, <2>2, <2>3
<1>10. CASE Oper!SelectAnswered
  <2>1. PICK c \in calls : ui' = Oper!SetSelected(c.at, world.open) /\ calls' = calls \ {c} /\ world' = world
    BY <1>10 DEF Oper!SelectAnswered, Oper!Got
  <2>2. c.at \in Elements /\ world.open \in SUBSET Oper!Operable
    BY <1>0 DEF OperateRequests, OperateWorlds, Elements
  <2>3. ui' \in OperateUi /\ Named(ui')
    BY <1>0, <2>1, <2>2, ShownOther
  <2> QED BY <1>0, <1>1, <2>1, <2>3
<1>11. CASE Oper!OutageAnswered
  <2>1. PICK c \in calls : /\ ui' = [ui EXCEPT !.outage = TRUE] /\ world' = world
                           /\ calls' = (calls \ {c}) \cup {Oper!Call("select", c.at)}
    BY <1>11 DEF Oper!OutageAnswered
  <2>2. c.at \in Objects
    BY <1>0 DEF OperateRequests
  <2>3. ui' \in OperateUi /\ Named(ui')
    BY <1>0, <2>1 DEF OperateUi, Boxes, Elements, Named
  <2> QED BY <1>0, <1>1, <1>2, <2>1, <2>2, <2>3
<1>12. CASE Oper!operate
  <2>1. PICK c \in calls :
          /\ world' = Oper!execManeuver(c) /\ calls' = calls \ {c}
          /\ ui' = IF Oper!execManeuver(c) = world
                   THEN [ui EXCEPT !.box.busy = FALSE]
                   ELSE [Oper!SetSelected(c.at, Oper!execManeuver(c).open) EXCEPT !.box = Oper!EmptyBox]
    BY <1>12 DEF Oper!operate, Oper!Got
  <2>2. c \in OperateRequests /\ Says(c)
    BY <1>0
  <2>3. world' \in OperateWorlds /\ ~world'.wrong
    BY <1>0, <2>1, <2>2, ServedAsNamed
  <2>4. ui' \in OperateUi /\ Named(ui')
    <3>1. CASE ui' = [ui EXCEPT !.box.busy = FALSE]
      BY <1>0, <3>1 DEF OperateUi, Boxes, Elements, Named
    <3>2. CASE ui' = [Oper!SetSelected(c.at, Oper!execManeuver(c).open) EXCEPT !.box = Oper!EmptyBox]
      <4>1. c.at \in Elements /\ Oper!execManeuver(c).open \in SUBSET Oper!Operable
        BY <2>1, <2>2, <2>3 DEF OperateRequests, OperateWorlds, Elements
      <4>2. Oper!SetSelected(c.at, Oper!execManeuver(c).open) \in OperateUi
        BY <1>0, <4>1, ShownOther
      <4> QED BY <3>2, <4>2 DEF OperateUi, Boxes, Elements, Named, Oper!EmptyBox
    <3> QED BY <2>1, <3>1, <3>2
  <2> QED BY <1>0, <1>1, <2>1, <2>3, <2>4
<1>13. CASE Oper!OperateFailed
  <2>1. PICK c \in calls : /\ world' \in {world, Oper!execManeuver(c)} /\ calls' = calls \ {c}
                           /\ ui' = [ui EXCEPT !.box.busy = FALSE]
    BY <1>13 DEF Oper!OperateFailed, Oper!Got
  <2>2. c \in OperateRequests /\ Says(c)
    BY <1>0
  <2>3. world' \in OperateWorlds /\ ~world'.wrong
    BY <1>0, <2>1, <2>2, ServedAsNamed
  <2>4. ui' \in OperateUi /\ Named(ui')
    BY <1>0, <2>1 DEF OperateUi, Boxes, Elements, Named
  <2> QED BY <1>0, <1>1, <2>1, <2>3, <2>4
<1> QED BY <1>3, <1>4, <1>5, <1>6, <1>8, <1>9, <1>10, <1>11, <1>12, <1>13 DEF Oper!Next

-----------------------------------------------------------------------------
(* SwitchingPlans *)

\* The plans: nothing is edited at first, and a draft edited stays that of the plan shown.
LEMMA PlansInit ==
  ASSUME Switching!Init
  PROVE  PlansInv
<1>1. ui = [plan |-> Nil, draft |-> Nil, busy |-> Switching!NotBusy, confirm |-> Nil]
  BY DEF Switching!Init
<1>2. Fields(ui, {"plan", "draft", "busy", "confirm"})
  BY <1>1 DEF Fields
<1> QED BY <1>1, <1>2 DEF PlansInv, Switching!DraftOfPlan

\* What a plan that is opened puts on the screen.
LEMMA PlanShown ==
  ASSUME NEW u, NEW id, NEW p, Fields(u, {"plan", "draft", "busy", "confirm"}),
         ui' = Switching!WithPlan(u, id, p)
  PROVE  PlansInv'
<1>1. Fields(ui', {"plan", "draft", "busy", "confirm"})
  BY DEF Fields, Switching!WithPlan
<1>2. ui'.plan = [id |-> id, status |-> p.status, steps |-> p.steps, done |-> p.done]
  BY DEF Fields, Switching!WithPlan
<1>3. ui'.draft = IF p.status = "draft" THEN [id |-> id, steps |-> p.steps] ELSE Nil
  BY DEF Fields, Switching!WithPlan
<1>4. ui'.draft # Nil => Fields(ui'.draft, {"id", "steps"})
  BY <1>3 DEF Fields
<1>5. ui'.draft # Nil => ui'.draft.id = ui'.plan.id /\ ui'.plan.status = "draft"
  BY <1>2, <1>3
<1> QED BY <1>1, <1>4, <1>5 DEF PlansInv, Switching!DraftOfPlan

\* Whatever is pressed or answered, the draft is that of the plan shown.
LEMMA PlansNext ==
  ASSUME PlansInv, Switching!Next
  PROVE  PlansInv'
<1> USE DEF Fields, PlansInv, Switching!DraftOfPlan
<1>1. CASE \/ ui' = ui
           \/ \E x : ui' = [ui EXCEPT !.busy = x]
           \/ \E x : ui' = [ui EXCEPT !.confirm = x]
           \/ ui' = [ui EXCEPT !.plan = Nil, !.draft = Nil]
  BY <1>1
<1>2. CASE \/ \E p \in Plans : Switching!Open(p)
           \/ Switching!MakePlan \/ Switching!PlanHandedOver
           \/ Switching!Serve \/ Switching!Refresh \/ Switching!OtherDispatcher
  <2>1. ui' = ui
    BY <1>2 DEF Switching!Open, Switching!MakePlan, Switching!PlanHandedOver, Switching!Serve, Switching!Refresh,
                Switching!OtherDispatcher
  <2> QED BY <1>1, <2>1
<1>3. CASE Switching!newPlan
  BY <1>3 DEF Switching!newPlan, Switching!InList, Switching!Show
<1>4. CASE Switching!Back
  BY <1>4 DEF Switching!Back, Switching!Show
<1>5. CASE Switching!EditSteps
  BY <1>5 DEF Switching!EditSteps, Switching!Show
<1>6. CASE \/ Switching!simulate \/ Switching!save
           \/ \E op \in {"approve", "reopen", "cancel", "delete"} : Switching!act(op)
  <2> DEFINE Names == {"simulate", "save", "approve", "reopen", "cancel", "delete"}
  <2>1. ASSUME NEW name \in Names, NEW c, Switching!Press(name, c) PROVE PlansInv'
    <3>1. ui' = [ui EXCEPT !.busy = <<name, 0>>]
      BY <2>1, Zenon DEF Switching!Press
    <3> QED BY <1>1, <3>1
  <2>2. \E name \in Names : \E c : Switching!Press(name, c)
    BY <1>6 DEF Switching!simulate, Switching!save, Switching!act
  <2> HIDE DEF Names
  <2> QED BY <2>1, <2>2, Zenon
<1>7. CASE Switching!skip \/ Switching!execute
  BY <1>7, <1>1 DEF Switching!skip, Switching!execute, Switching!PressStep
<1>8. CASE Switching!AskExecute \/ Switching!CancelDialog
  BY <1>8, <1>1 DEF Switching!AskExecute, Switching!CancelDialog, Switching!Show
<1>9. CASE Switching!OpenAnswered
  <2>1. PICK c \in calls : LET free == [ui EXCEPT !.busy = IF c.after = "free" THEN Switching!NotBusy ELSE @]
                           IN ui' = IF c.reply = "refused" THEN free ELSE Switching!WithPlan(free, c.id, c.plan)
    BY <1>9 DEF Switching!OpenAnswered, Switching!Answered
  <2> DEFINE free == [ui EXCEPT !.busy = IF c.after = "free" THEN Switching!NotBusy ELSE @]
  <2>2. Fields(free, {"plan", "draft", "busy", "confirm"})
    OBVIOUS
  <2>3. CASE c.reply = "refused"
    BY <2>1, <2>3
  <2>4. CASE c.reply # "refused"
    <3>1. ui' = Switching!WithPlan(free, c.id, c.plan)
      BY <2>1, <2>4
    <3> QED BY <2>2, <3>1, PlanShown
  <2> QED BY <2>3, <2>4
<1>10. CASE Switching!SimulateAnswered
  BY <1>10, <1>1 DEF Switching!SimulateAnswered
<1>11. CASE Switching!CommandAnswered
  BY <1>11 DEF Switching!CommandAnswered
<1> QED BY <1>2, <1>3, <1>4, <1>5, <1>6, <1>7, <1>8, <1>9, <1>10, <1>11 DEF Switching!Next

-----------------------------------------------------------------------------
(* ReportsTab *)

\* The reports: the form is empty at first.
LEMMA ReportsInit ==
  ASSUME Rep!Init
  PROVE  ReportsInv
<1>1. ui = [filter |-> "open", items |-> Nil, overlay |-> Nil, form |-> FALSE, code |-> "", customer |-> Nil,
            picked |-> Nil, saving |-> FALSE, edit |-> Nil]
  BY DEF Rep!Init
<1>2. world = [stored |-> [r \in {} |-> FALSE], mixed |-> FALSE, news |-> 0]
  BY DEF Rep!Init
<1>3. ASSUME NEW c \in calls PROVE c.id = Nil
  <2>1. c = [op |-> "load", filter |-> "open", id |-> Nil, code |-> "", report |-> Nil, closed |-> FALSE]
    BY DEF Rep!Init
  <2> QED BY <2>1
<1>4. Fields(ui, FormFields)
  BY <1>1 DEF Fields, FormFields
<1>5. Fields(world, {"stored", "mixed", "news"})
  BY <1>2 DEF Fields
<1> QED BY <1>1, <1>2, <1>3, <1>4, <1>5 DEF ReportsInv

\* A customer that does not go with the code typed is never kept, nor sent.
LEMMA ReportsNext ==
  ASSUME ReportsInv, Rep!Next
  PROVE  ReportsInv'
<1> USE DEF Fields, FormFields
<1>1. ASSUME world' = world, \A c \in calls' \ calls : c.id \in {Nil, c.code},
             \/ ui' = ui
             \/ \E x : \/ ui' = [ui EXCEPT !.picked = x]
                       \/ ui' = [ui EXCEPT !.filter = x]
                       \/ ui' = [ui EXCEPT !.form = x]
                       \/ ui' = [ui EXCEPT !.saving = x]
                       \/ ui' = [ui EXCEPT !.edit = x]
                       \/ ui' = [ui EXCEPT !.items = x, !.overlay = x]
                       \/ ui' = [ui EXCEPT !.code = x, !.customer = Nil]
                       \/ ui' = [ui EXCEPT !.customer = x, !.code = x]
      PROVE  ReportsInv'
  <2>1. ui = [f \in FormFields |-> ui[f]] /\ ui.customer \in {Nil, ui.code}
    BY DEF ReportsInv
  <2>2. ui' = [f \in FormFields |-> ui'[f]]
    BY <1>1, <2>1
  <2>3. ui'.customer \in {Nil, ui'.code}
    BY <1>1, <2>1
  <2> QED BY <1>1, <2>2, <2>3 DEF ReportsInv
<1>2. CASE \/ \E c \in Customers : Rep!Pick(c)
           \/ \E s_ \in Codes \cup Customers \cup {""} : Rep!TypeCode(s_)
           \/ \E r \in Reports : Rep!Edit(r)
           \/ Rep!ToggleForm \/ Rep!usePicked \/ Rep!CancelEdit
  BY <1>1, <1>2 DEF Rep!Pick, Rep!TypeCode, Rep!Edit, Rep!ToggleForm, Rep!usePicked, Rep!CancelEdit, Rep!Show
<1>3. \A op : Rep!Call(op).id = Nil
  BY DEF Rep!Call
<1>4. CASE \E f \in {"open", ""} : Rep!SetFilter(f)
  <2>1. PICK f \in {"open", ""} : Rep!SetFilter(f)
    BY <1>4
  <2>2. PICK d : d.id = Nil /\ calls' = calls \cup {d}
    BY <2>1 DEF Rep!SetFilter, Rep!Send, Rep!Load, Rep!Call
  <2>3. world' = world /\ ui' = [ui EXCEPT !.filter = f]
    BY <2>1 DEF Rep!SetFilter
  <2> QED BY <1>1, <2>2, <2>3
<1>11. CASE Rep!Refresh
  BY <1>1, <1>3, <1>11 DEF Rep!Refresh, Rep!Send, Rep!Load
<1>12. CASE Rep!load
  BY <1>1, <1>12 DEF Rep!load, Rep!Got
<1>5. CASE Rep!submit
  <2>1. PICK d : d.id = ui.customer /\ d.code = ui.code /\ calls' = calls \cup {d}
    BY <1>5 DEF Rep!submit, Rep!Send, Rep!Call
  <2>2. world' = world /\ ui' = [ui EXCEPT !.saving = TRUE]
    BY <1>5 DEF Rep!submit
  <2>3. d.id \in {Nil, d.code}
    BY <2>1 DEF ReportsInv
  <2> QED BY <1>1, <2>1, <2>2, <2>3
<1>6. CASE Rep!update
  BY <1>1, <1>3, <1>6 DEF Rep!update, Rep!Send, Rep!Call
<1>7. CASE Rep!Failed
  BY <1>1, <1>7 DEF Rep!Failed, Rep!Got
<1>8. CASE Rep!Updated
  <2>1. PICK c \in calls : /\ world' = [world EXCEPT !.stored[c.report] = c.closed]
                           /\ ui' = [ui EXCEPT !.edit = Nil]
                           /\ calls' = (calls \ {c}) \cup {Rep!Load}
    BY <1>8 DEF Rep!Updated
  <2>2. Rep!Load.id = Nil
    BY <1>3 DEF Rep!Load
  <2>3. Fields(world', {"stored", "mixed", "news"}) /\ world'.mixed = world.mixed
    BY <2>1 DEF ReportsInv
  <2>4. Fields(ui', FormFields) /\ ui'.customer = ui.customer /\ ui'.code = ui.code
    BY <2>1 DEF ReportsInv
  <2> QED BY <2>1, <2>2, <2>3, <2>4 DEF ReportsInv
<1>9. CASE Rep!Stored
  <2>1. PICK c \in calls : /\ \E x : world' = [world EXCEPT !.stored = x, !.mixed = @ \/ (c.id # Nil /\ c.id # c.code)]
                           /\ ui' = [ui EXCEPT !.code = "", !.customer = Nil, !.form = FALSE, !.saving = FALSE]
                           /\ calls' = (calls \ {c}) \cup {Rep!Load}
    BY <1>9 DEF Rep!Stored
  <2>2. Rep!Load.id = Nil
    BY <1>3 DEF Rep!Load
  <2>3. c.id \in {Nil, c.code}
    BY DEF ReportsInv
  <2>4. Fields(world', {"stored", "mixed", "news"}) /\ world'.mixed = (world.mixed \/ (c.id # Nil /\ c.id # c.code))
    BY <2>1 DEF ReportsInv
  <2>5. Fields(ui', FormFields) /\ ui'.customer = Nil
    BY <2>1 DEF ReportsInv
  <2> QED BY <2>1, <2>2, <2>3, <2>4, <2>5 DEF ReportsInv
<1>10. CASE Rep!OtherReport
  <2>1. (\E x, y : world' = [world EXCEPT !.news = x, !.stored = y]) /\ UNCHANGED <<ui, calls>>
    BY <1>10 DEF Rep!OtherReport
  <2>2. Fields(world', {"stored", "mixed", "news"}) /\ world'.mixed = world.mixed
    BY <2>1 DEF ReportsInv
  <2> QED BY <2>1, <2>2 DEF ReportsInv
<1> QED BY <1>2, <1>4, <1>5, <1>6, <1>7, <1>8, <1>9, <1>10, <1>11, <1>12 DEF Rep!Next

-----------------------------------------------------------------------------
(* FaultAnalysis *)

\* The analysis of outages: nothing is drawn at first.
LEMMA FlisrInit ==
  ASSUME Flisr!Init
  PROVE  FlisrInv
<1>1. ui = [picked |-> Nil, outage |-> Nil, sections |-> Nil, busy |-> FALSE, result |-> Nil, saving |-> FALSE,
            dev |-> Nil, params |-> Nil, locating |-> FALSE, found |-> Nil, overlay |-> Nil]
  BY DEF Flisr!Init
<1>2. Fields(ui, FlisrFields)
  BY <1>1 DEF Fields, FlisrFields
<1>3. ASSUME NEW c \in calls PROVE c.op = "defaults"
  BY DEF Flisr!Init, Flisr!Call
<1> QED BY <1>1, <1>2, <1>3 DEF FlisrInv, Flisr!OverlayOfResult

\* What is drawn goes with the result in the panel, whatever is answered late.
LEMMA FlisrNext ==
  ASSUME FlisrInv, Flisr!Next
  PROVE  FlisrInv'
<1> USE DEF Fields, FlisrFields
<1> DEFINE Good(c) == /\ c.op = "flisr" => c.at \in Flisr!Faults
                      /\ c.op = "locate" => c.at \in Flisr!Devices
<1>0. /\ Fields(ui, FlisrFields)
      /\ ui.picked \in Flisr!Devices \cup {Nil} /\ ui.dev \in Flisr!Devices \cup {Nil}
      /\ \A c \in calls : Good(c)
      /\ Flisr!OverlayOfResult
  BY DEF FlisrInv
<1>1. ASSUME \A c \in calls' \ calls : Good(c),
             \/ ui' = ui
             \/ \E x \in Flisr!Devices : \/ ui' = [ui EXCEPT !.picked = x]
                                          \/ ui' = [ui EXCEPT !.dev = x, !.found = Nil]
             \/ \E x : \/ ui' = [ui EXCEPT !.params = x]
                       \/ ui' = [ui EXCEPT !.locating = x]
                       \/ ui' = [ui EXCEPT !.sections = x]
                       \/ ui' = [ui EXCEPT !.busy = x]
                       \/ ui' = [ui EXCEPT !.saving = x]
             \/ \E x, y, z : ui' = [ui EXCEPT !.busy = x, !.saving = y, !.locating = z]
      PROVE  FlisrInv'
  <2>1. Fields(ui', FlisrFields)
    BY <1>0, <1>1
  <2>2. ui'.picked \in Flisr!Devices \cup {Nil} /\ ui'.dev \in Flisr!Devices \cup {Nil}
    BY <1>0, <1>1
  <2>3. ui'.overlay = ui.overlay /\ ui'.result = ui.result
    BY <1>0, <1>1
  <2> QED BY <1>0, <1>1, <2>1, <2>2, <2>3 DEF FlisrInv, Flisr!OverlayOfResult
<1>2. \A op, x : Flisr!Call(op, x).op = op /\ Flisr!Call(op, x).at = x
  BY DEF Flisr!Call
<1>3. CASE \E x \in Flisr!Devices : Flisr!Pick(x)
  BY <1>1, <1>3 DEF Flisr!Pick, Flisr!Show
<1>4. CASE Flisr!UsePicked
  <2>1. ui' = [ui EXCEPT !.dev = ui.picked, !.found = Nil] /\ ui.picked \in Flisr!Devices
    BY <1>4 DEF Flisr!UsePicked, Flisr!WithDevice
  <2>2. PICK d : d.op = "defaults" /\ calls' = calls \cup {d}
    BY <1>4 DEF Flisr!UsePicked, Flisr!Send, Flisr!Call
  <2>3. \A c \in calls' \ calls : Good(c)
    BY <2>2
  <2>4. \E x \in Flisr!Devices : ui' = [ui EXCEPT !.dev = x, !.found = Nil]
    BY <2>1
  <2> QED BY <1>1, <2>3, <2>4
<1>5. CASE Flisr!defaults
  BY <1>1, <1>5 DEF Flisr!defaults, Flisr!Got
<1>6. CASE Flisr!run
  <2>1. PICK d : d.op = "locate" /\ d.at = ui.dev /\ calls' = calls \cup {d}
    BY <1>6 DEF Flisr!run, Flisr!Send, Flisr!Call
  <2>2. ui' = [ui EXCEPT !.locating = TRUE] /\ ui.dev # Nil
    BY <1>6 DEF Flisr!run
  <2> QED BY <1>0, <1>1, <2>1, <2>2
<1>7. CASE Flisr!Found
  <2>1. PICK c \in calls : /\ c.op = "locate" /\ calls' = calls \ {c}
                           /\ ui' = [ui EXCEPT !.found = Located[c.at], !.locating = FALSE, !.overlay = <<"located", c.at>>]
    BY <1>7 DEF Flisr!Found, Flisr!Got
  <2>4. c.at \in DOMAIN Located
    BY <1>0, <2>1 DEF Flisr!Devices
  <2>2. <<"located", c.at>> # Nil
    <3>1. Nil \notin {<<"isolated", c.at>>, <<"located", c.at>>}
      BY ONLY <2>4, NilAssumption
    <3> QED BY <3>1
  <2>3. Fields(ui', FlisrFields) /\ ui'.picked = ui.picked /\ ui'.dev = ui.dev /\ ui'.overlay = <<"located", c.at>>
    BY <1>0, <2>1
  <2> QED BY <1>0, <2>1, <2>2, <2>3 DEF FlisrInv, Flisr!OverlayOfResult
<1>8. CASE \E o \in Outages : Flisr!pickOutage(o)
  <2>1. PICK o \in Outages : Flisr!pickOutage(o)
    BY <1>8
  <2> DEFINE u == [ui EXCEPT !.outage = o, !.result = Nil, !.overlay = Nil, !.sections = Nil]
             other == CauseOf[o] # Nil /\ (ui.outage = Nil \/ CauseOf[o] # CauseOf[ui.outage])
  <2>2. ui' = IF other THEN [u EXCEPT !.dev = CauseOf[o], !.found = Nil] ELSE u
    BY <2>1 DEF Flisr!pickOutage, Flisr!WithDevice
  <2>3. \A c \in calls' \ calls : c.op \in {"sections", "defaults"}
    BY <1>2, <2>1 DEF Flisr!pickOutage, Flisr!SendAll
  <2>4. CauseOf[o] # Nil => CauseOf[o] \in Flisr!Devices
    BY PagesAssumption DEF Flisr!Devices
  <2>5. Fields(u, FlisrFields) /\ u.result = Nil /\ u.overlay = Nil /\ u.picked = ui.picked /\ u.dev = ui.dev
    BY <1>0
  <2> HIDE DEF u
  <2>6. Fields(ui', FlisrFields) /\ ui'.result = Nil /\ ui'.overlay = Nil /\ ui'.picked = ui.picked
        /\ ui'.dev \in {ui.dev, CauseOf[o]} /\ (CauseOf[o] = Nil => ui'.dev = ui.dev)
    BY <2>2, <2>5
  <2> QED BY <1>0, <2>3, <2>4, <2>6 DEF FlisrInv, Flisr!OverlayOfResult
<1>9. CASE Flisr!SectionsAnswered
  BY <1>1, <1>9 DEF Flisr!SectionsAnswered, Flisr!Got
<1>10. CASE \E f \in Flisr!Faults : Flisr!analyze(f)
  <2>1. PICK f \in Flisr!Faults : Flisr!analyze(f)
    BY <1>10
  <2>2. PICK d : d.op = "flisr" /\ d.at = f /\ calls' = calls \cup {d}
    BY <2>1 DEF Flisr!analyze, Flisr!Send, Flisr!Call
  <2>3. ui' = [ui EXCEPT !.busy = TRUE]
    BY <2>1 DEF Flisr!analyze
  <2>4. \A c \in calls' \ calls : Good(c)
    BY <2>2
  <2> QED BY <1>1, <2>3, <2>4
<1>11. CASE Flisr!Analyzed
  <2>1. PICK c \in calls : /\ c.op = "flisr" /\ calls' = calls \ {c}
                           /\ ui' = [ui EXCEPT !.result = c.at, !.busy = FALSE, !.overlay = <<"isolated", c.at>>]
    BY <1>11 DEF Flisr!Analyzed, Flisr!Got
  <2>2. <<"isolated", c.at>> # Nil
    BY <1>0, <2>1, NilAssumption DEF Flisr!Devices, Flisr!Faults
  <2>3. Fields(ui', FlisrFields) /\ ui'.picked = ui.picked /\ ui'.dev = ui.dev
        /\ ui'.overlay = <<"isolated", c.at>> /\ ui'.result = c.at
    BY <1>0, <2>1
  <2> QED BY <1>0, <2>1, <2>2, <2>3 DEF FlisrInv, Flisr!OverlayOfResult
<1>12. CASE Flisr!savePlan
  <2>1. PICK d : d.op = "plan" /\ calls' = calls \cup {d}
    BY <1>12 DEF Flisr!savePlan, Flisr!Send, Flisr!Call
  <2>2. ui' = [ui EXCEPT !.saving = TRUE]
    BY <1>12 DEF Flisr!savePlan
  <2> QED BY <1>1, <2>1, <2>2
<1>13. CASE Flisr!PlanSaved
  BY <1>1, <1>13 DEF Flisr!PlanSaved, Flisr!Got
<1>14. CASE Flisr!Failed
  <2>1. PICK c : /\ ui' = [ui EXCEPT !.busy = @ /\ c.op # "flisr", !.saving = @ /\ c.op # "plan",
                                      !.locating = @ /\ c.op # "locate"]
                 /\ calls' = calls \ {c}
    BY <1>14 DEF Flisr!Failed, Flisr!Got
  <2>2. calls' \ calls = {}
    BY <2>1
  <2>3. \E x, y, z : ui' = [ui EXCEPT !.busy = x, !.saving = y, !.locating = z]
    BY <2>1
  <2> QED BY <1>1, <2>2, <2>3
<1> QED BY <1>3, <1>4, <1>5, <1>6, <1>7, <1>8, <1>9, <1>10, <1>11, <1>12, <1>13, <1>14 DEF Flisr!Next

-----------------------------------------------------------------------------
(* AiOps *)

\* The assistant: no target at first.
LEMMA AiInit ==
  ASSUME Ai!Init
  PROVE  AiInv
<1>1. /\ ui = [task |-> "outage", id |-> [t \in DOMAIN Targets |-> Nil], auto |-> Nil, nonce |-> 0,
               visible |-> FALSE, prov |-> Nil, panel |-> ui.panel]
      /\ ui.panel = [key |-> Nil, turns |-> <<>>, busy |-> FALSE, started |-> FALSE]
      /\ calls = {}
  BY DEF Ai!Init, Ai!NoPanel, Ai!Tasks
<1>2. PICK p : world = [provider |-> p, sent |-> {}, wrong |-> FALSE, times |-> 0]
  BY DEF Ai!Init
<1>3. Fields(ui, AiFields) /\ Fields(ui.panel, PanelFields)
  BY <1>1 DEF Fields, AiFields, PanelFields
<1>4. Fields(world, {"provider", "sent", "wrong", "times"}) /\ ~world.wrong
  BY <1>2 DEF Fields
<1>5. Fields(ui.id, DOMAIN Targets) /\ \A t \in DOMAIN Targets : ui.id[t] = Nil
  BY <1>1 DEF Fields
<1>6. Selectors(ui)
  BY <1>1, <1>3, <1>5, PagesAssumption DEF Selectors
<1>7. ui.panel.key = Ai!PanelKey(ui)
  BY <1>1 DEF Ai!PanelKey, Ai!Ready
<1>8. ui.panel.turns \in TurnsOf(ui)
  BY <1>1 DEF TurnsOf
<1> QED BY <1>1, <1>3, <1>4, <1>6, <1>7, <1>8 DEF AiInv

\* Selectors with the same panel name the same target.
LEMMA SamePanel ==
  ASSUME NEW u, NEW v, Selectors(u), Selectors(v), Ai!PanelKey(u) = Ai!PanelKey(v), Ai!PanelKey(u) # Nil
  PROVE  Ai!CurKey(u) = Ai!CurKey(v)
<1>1. Ai!PanelKey(u) = <<Ai!CurKey(u), u.nonce>> /\ Ai!PanelKey(v) = <<Ai!CurKey(v), v.nonce>>
  BY DEF Ai!PanelKey
<1>2. <<Ai!CurKey(u), u.nonce>> = <<Ai!CurKey(v), v.nonce>>
  BY <1>1, Zenon
<1> HIDE DEF Ai!CurKey
<1> QED BY <1>2

\* Another setting of the selectors: the panel stays if it is that of the same target, or an empty one takes its place.
LEMMA ShownKeeps ==
  ASSUME AiInv, NEW u, Selectors(u), u.panel = ui.panel, Ai!Shown(u),
         Fields(world', {"provider", "sent", "wrong", "times"}), u.auto # Nil => u.auto \in world'.sent, ~world'.wrong
  PROVE  AiInv'
<1>0. /\ Selectors(ui) /\ Fields(ui.panel, PanelFields) /\ ui.panel.key = Ai!PanelKey(ui)
      /\ ui.panel.turns \in TurnsOf(ui)
      /\ ui.panel.key = Nil => ui.panel.turns = <<>> /\ calls = {}
      /\ \A c \in calls : c.op = "ops" /\ c.about = Ai!CurKey(ui)
  BY DEF AiInv
<1>1. CASE Ai!PanelKey(u) = u.panel.key
  <2>1. ui' = u /\ calls' = calls
    BY <1>1 DEF Ai!Shown
  <2>2. u.panel.turns \in TurnsOf(u) /\ \A c \in calls : c.op = "ops" /\ c.about = Ai!CurKey(u)
    <3>1. CASE ui.panel.key = Nil
      BY <1>0, <3>1 DEF TurnsOf
    <3>2. CASE ui.panel.key # Nil
      <4>1. Ai!CurKey(u) = Ai!CurKey(ui)
        BY <1>0, <1>1, <3>2, SamePanel
      <4> QED BY <1>0, <4>1 DEF TurnsOf
    <3> QED BY <3>1, <3>2
  <2>3. AiInv'
    <3>1. Selectors(ui') /\ Fields(ui'.panel, PanelFields) /\ ui'.panel.key = Ai!PanelKey(ui')
      BY <1>0, <1>1, <2>1
    <3>2. ui'.panel.turns \in TurnsOf(ui') /\ \A c \in calls' : c.op = "ops" /\ c.about = Ai!CurKey(ui')
      BY <2>1, <2>2
    <3>3. ui'.panel.key = Nil => ui'.panel.turns = <<>> /\ calls' = {}
      BY <1>0, <2>1
    <3>4. ui'.auto # Nil => ui'.auto \in world'.sent
      BY <2>1
    <3> QED BY <3>1, <3>2, <3>3, <3>4 DEF AiInv
  <2> QED BY <2>3
<1>2. CASE Ai!PanelKey(u) # u.panel.key
  <2>1. ui' = [u EXCEPT !.panel = [Ai!NoPanel EXCEPT !.key = Ai!PanelKey(u)]] /\ calls' = {c \in calls : c.op # "ops"}
    BY <1>2 DEF Ai!Shown
  <2>2. calls' = {}
    BY <1>0, <2>1
  <2> DEFINE p == [Ai!NoPanel EXCEPT !.key = Ai!PanelKey(u)]
  <2>3. Fields(p, PanelFields) /\ p.key = Ai!PanelKey(u) /\ p.turns = <<>>
    BY DEF Ai!NoPanel, Fields, PanelFields
  <2>4. ui' = [u EXCEPT !.panel = p]
    BY <2>1
  <2> HIDE DEF p
  <2>5. /\ Fields(ui', AiFields) /\ ui'.panel = p /\ ui'.task = u.task /\ ui'.id = u.id /\ ui'.nonce = u.nonce
        /\ ui'.visible = u.visible /\ ui'.auto = u.auto
    BY <2>4 DEF Selectors, Fields, AiFields
  <2>6. Ai!PanelKey(ui') = Ai!PanelKey(u)
    BY <2>5 DEF Ai!PanelKey, Ai!CurKey, Ai!Ready
  <2>7. Selectors(ui')
    BY <2>5 DEF Selectors
  <2>8. ui'.panel.turns \in TurnsOf(ui')
    <3>1. ui'.panel.turns = <<>>
      BY <2>3, <2>5
    <3>2. \A S : <<>> \in Seq(S)
      OBVIOUS
    <3> QED BY <3>1, <3>2, Zenon DEF TurnsOf
  <2> QED BY <2>2, <2>3, <2>5, <2>6, <2>7, <2>8 DEF AiInv
<1> QED BY <1>1, <1>2

\* More is written in the panel shown, about its target.
LEMMA WrittenKeeps ==
  ASSUME AiInv, Fields(ui', AiFields), Fields(ui'.panel, PanelFields),
         ui'.task = ui.task, ui'.id = ui.id, ui'.nonce = ui.nonce, ui'.visible = ui.visible, ui'.auto = ui.auto,
         ui'.panel.key = ui.panel.key, ui'.panel.turns \in TurnsOf(ui),
         ui.panel.key = Nil => ui'.panel.turns = <<>> /\ calls' = {},
         \A c \in calls' \ calls : c.op = "ops" /\ c.about = Ai!CurKey(ui),
         Fields(world', {"provider", "sent", "wrong", "times"}), world'.sent = world.sent, ~world'.wrong
  PROVE  AiInv'
<1>1. Ai!PanelKey(ui') = Ai!PanelKey(ui) /\ Ai!CurKey(ui') = Ai!CurKey(ui)
  BY DEF Ai!PanelKey, Ai!CurKey, Ai!Ready
<1>2. Selectors(ui')
  BY DEF AiInv, Selectors
<1>3. TurnsOf(ui') = TurnsOf(ui)
  BY <1>1 DEF TurnsOf
<1> QED BY <1>1, <1>2, <1>3 DEF AiInv

\* Whatever is selected, sent, streamed or stopped, the panel is about the target in the selectors.
LEMMA AiNext ==
  ASSUME AiInv, Ai!Next
  PROVE  AiInv'
<1>0. /\ Selectors(ui) /\ Fields(ui.panel, PanelFields) /\ Fields(world, {"provider", "sent", "wrong", "times"})
      /\ ui.panel.turns \in TurnsOf(ui)
      /\ ui.panel.key = Nil => ui.panel.turns = <<>> /\ calls = {}
      /\ \A c \in calls : c.op = "ops" /\ c.about = Ai!CurKey(ui)
      /\ ui.auto # Nil => ui.auto \in world.sent
      /\ ~world.wrong
  BY DEF AiInv
<1>1. CASE Ai!SetVisible
  <2> DEFINE u == [ui EXCEPT !.visible = ~@]
  <2>1. Ai!Shown(u) /\ world' = world
    BY <1>1 DEF Ai!SetVisible
  <2>2. Selectors(u) /\ u.panel = ui.panel /\ u.auto = ui.auto
    BY <1>0 DEF Selectors, Fields, AiFields
  <2> QED BY <1>0, <2>1, <2>2, ShownKeeps
<1>2. CASE Ai!load
  <2>1. PICK ids \in [DOMAIN Targets -> (UNION {Targets[t] : t \in DOMAIN Targets}) \cup {Nil}] :
          /\ \A t \in DOMAIN Targets : IF ui.id[t] # Nil \/ Targets[t] = {} THEN ids[t] = ui.id[t] ELSE ids[t] \in Targets[t]
          /\ Ai!Shown([ui EXCEPT !.id = ids])
    BY <1>2 DEF Ai!load, Ai!Tasks
  <2>2. world' = world
    BY <1>2 DEF Ai!load
  <2> DEFINE u == [ui EXCEPT !.id = ids]
  <2>3. Fields(u, AiFields) /\ u.panel = ui.panel /\ u.auto = ui.auto /\ u.id = ids /\ u.task = ui.task /\ u.nonce = ui.nonce
    BY <1>0 DEF Selectors, Fields, AiFields
  <2>4. Fields(ids, DOMAIN Targets) /\ \A t \in DOMAIN Targets : ids[t] \in Targets[t] \cup {Nil}
    BY <1>0, <2>1 DEF Selectors, Fields
  <2> HIDE DEF u
  <2>5. Selectors(u)
    BY <1>0, <2>3, <2>4 DEF Selectors
  <2>6. Ai!Shown(u)
    BY <2>1 DEF u
  <2> QED BY <1>0, <2>2, <2>3, <2>5, <2>6, ShownKeeps
<1>3. CASE \E t \in DOMAIN Targets : Ai!setTask(t)
  <2>1. PICK t \in DOMAIN Targets : Ai!Shown([ui EXCEPT !.task = t, !.auto = Nil]) /\ world' = world
    BY <1>3 DEF Ai!setTask
  <2> DEFINE u == [ui EXCEPT !.task = t, !.auto = Nil]
  <2>2. Selectors(u) /\ u.panel = ui.panel /\ u.auto = Nil
    BY <1>0 DEF Selectors, Fields, AiFields
  <2> QED BY <1>0, <2>1, <2>2, ShownKeeps
<1>4. CASE \E i \in UNION {Targets[t] : t \in DOMAIN Targets} : Ai!SelectId(i)
  <2>1. PICK i : i \in Targets[ui.task] /\ Ai!Shown([ui EXCEPT !.id[ui.task] = i]) /\ world' = world
    BY <1>4 DEF Ai!SelectId
  <2> DEFINE u == [ui EXCEPT !.id[ui.task] = i]
             ids == [ui.id EXCEPT ![ui.task] = i]
  <2>3. Fields(u, AiFields) /\ u.panel = ui.panel /\ u.auto = ui.auto /\ u.id = ids /\ u.task = ui.task /\ u.nonce = ui.nonce
    BY <1>0 DEF Selectors, Fields, AiFields
  <2>4. Fields(ids, DOMAIN Targets) /\ \A t \in DOMAIN Targets : ids[t] \in Targets[t] \cup {Nil}
    BY <1>0, <2>1 DEF Selectors, Fields
  <2> HIDE DEF u
  <2>5. Selectors(u)
    BY <1>0, <2>3, <2>4 DEF Selectors
  <2>6. Ai!Shown(u)
    BY <2>1 DEF u
  <2> QED BY <1>0, <2>1, <2>3, <2>5, <2>6, ShownKeeps
<1>5. CASE \E t \in DOMAIN Targets : \E i \in Targets[t] \cup {Nil} : Ai!preset(t, i)
  <2>1. PICK t \in DOMAIN Targets : \E i \in Targets[t] \cup {Nil} : Ai!preset(t, i)
    BY <1>5
  <2>2. PICK i \in Targets[t] \cup {Nil} : Ai!preset(t, i)
    BY <2>1
  <2> DEFINE u == [ui EXCEPT !.task = t, !.id[t] = i, !.auto = <<t, i>>, !.nonce = @ + 1, !.visible = TRUE]
             ids == [ui.id EXCEPT ![t] = i]
  <2>3. Ai!Shown(u) /\ ui.nonce < MaxSent /\ world' = [world EXCEPT !.sent = @ \cup {<<t, i>>}]
    BY <2>2 DEF Ai!preset
  <2>4. /\ Fields(u, AiFields) /\ u.panel = ui.panel /\ u.auto = <<t, i>> /\ u.id = ids /\ u.task = t
        /\ u.nonce = ui.nonce + 1
    BY <1>0 DEF Selectors, Fields, AiFields
  <2>5. Fields(ids, DOMAIN Targets) /\ \A x \in DOMAIN Targets : ids[x] \in Targets[x] \cup {Nil}
    BY <1>0 DEF Selectors, Fields
  <2>6. ui.nonce + 1 \in 0..MaxSent
    BY <1>0, <2>3, PagesAssumption DEF Selectors
  <2> HIDE DEF u
  <2>7. Selectors(u)
    BY <2>4, <2>5, <2>6 DEF Selectors
  <2>8. Fields(world', {"provider", "sent", "wrong", "times"}) /\ world'.wrong = world.wrong /\ <<t, i>> \in world'.sent
    BY <1>0, <2>3 DEF Fields
  <2> QED BY <1>0, <2>3, <2>4, <2>7, <2>8, ShownKeeps
<1>6. CASE Ai!providers
  <2>1. (\E p : ui' = [ui EXCEPT !.prov = p]) /\ UNCHANGED <<calls, world>>
    BY <1>6 DEF Ai!providers, Ai!Show
  <2>2. /\ Fields(ui', AiFields) /\ ui'.panel = ui.panel /\ ui'.task = ui.task /\ ui'.id = ui.id
        /\ ui'.nonce = ui.nonce /\ ui'.visible = ui.visible /\ ui'.auto = ui.auto
    BY <1>0, <2>1 DEF Selectors, Fields, AiFields
  <2> QED BY <1>0, <2>1, <2>2, WrittenKeeps
<1>7. Ai!Empty \in [role : {"user", "assistant", "error"}, about : {Nil, Ai!CurKey(ui)}]
      /\ Ai!Question \in [role : {"user", "assistant", "error"}, about : {Nil, Ai!CurKey(ui)}]
  BY DEF Ai!Empty, Ai!Question
<1>8. Ai!Stream(Ai!CurKey(ui)).op = "ops" /\ Ai!Stream(Ai!CurKey(ui)).about = Ai!CurKey(ui)
  BY DEF Ai!Stream
<1>9. ASSUME NEW history \in TurnsOf(ui), ui.panel.key # Nil, Ai!run(history), world' = world
      PROVE  AiInv'
  <2> DEFINE turns == Append(history, Ai!Empty)
  <2>1. turns \in TurnsOf(ui)
    BY <1>7 DEF TurnsOf
  <2>2. ui' = [ui EXCEPT !.panel.turns = turns, !.panel.busy = TRUE] /\ calls' = calls \cup {Ai!Stream(Ai!CurKey(ui))}
    BY <1>9 DEF Ai!run, Ai!Send
  <2> HIDE DEF turns
  <2>3. /\ Fields(ui', AiFields) /\ ui'.task = ui.task /\ ui'.id = ui.id /\ ui'.nonce = ui.nonce
        /\ ui'.visible = ui.visible /\ ui'.auto = ui.auto
        /\ ui'.panel = [ui.panel EXCEPT !.turns = turns, !.busy = TRUE]
    BY <1>0, <2>2 DEF Selectors, Fields, AiFields
  <2>4. Fields(ui'.panel, PanelFields) /\ ui'.panel.key = ui.panel.key /\ ui'.panel.turns = turns
    BY <1>0, <2>3 DEF Fields, PanelFields
  <2> QED BY <1>0, <1>8, <1>9, <2>1, <2>2, <2>3, <2>4, WrittenKeeps
<1>10. CASE Ai!Run
  <2>1. <<>> \in TurnsOf(ui)
    BY DEF TurnsOf
  <2> QED BY <1>9, <1>10, <2>1 DEF Ai!Run, Ai!Usable
<1>11. CASE Ai!FollowUp
  <2>1. PICK S : Ai!run(Append(Ai!Only(ui.panel.turns, S), Ai!Question)) /\ ui.panel.key # Nil /\ world' = world
    BY <1>11 DEF Ai!FollowUp, Ai!Usable
  <2>2. Ai!Only(ui.panel.turns, S) = Soe!Only(ui.panel.turns, S)
    BY DEF Ai!Only, Soe!Only
  <2>3. Soe!Only(ui.panel.turns, S) \in TurnsOf(ui)
    BY <1>0, OnlyRange DEF TurnsOf
  <2>4. Append(Ai!Only(ui.panel.turns, S), Ai!Question) \in TurnsOf(ui)
    BY <1>7, <2>2, <2>3 DEF TurnsOf
  <2> QED BY <1>9, <2>1, <2>4
<1>12. CASE Ai!AutoStart
  <2>1. /\ ui.panel.key # Nil /\ ui.auto = Ai!CurKey(ui)
        /\ ui' = [ui EXCEPT !.panel = [ui.panel EXCEPT !.turns = <<Ai!Empty>>, !.busy = TRUE, !.started = TRUE]]
        /\ calls' = calls \cup {Ai!Stream(Ai!CurKey(ui))}
    BY <1>12 DEF Ai!AutoStart, Ai!Usable, Ai!Send
  <2>2. <<Ai!Empty>> \in TurnsOf(ui)
    BY <1>7 DEF TurnsOf
  <2>3. PICK t : world' = [world EXCEPT !.wrong = @ \/ Ai!CurKey(ui) \notin world.sent, !.times = t]
    BY <1>12 DEF Ai!AutoStart
  <2>4. Ai!CurKey(ui) # Nil
    <3>1. Ai!CurKey(ui) = <<ui.task, ui.id[ui.task]>> /\ ui.task \in DOMAIN Targets
          /\ ui.id[ui.task] \in Targets[ui.task] \cup {Nil} /\ 0 \in 0..MaxSent
      BY <1>0, PagesAssumption DEF Selectors, Ai!CurKey
    <3> QED BY <3>1, NilAssumption
  <2>5. Fields(world', {"provider", "sent", "wrong", "times"}) /\ world'.sent = world.sent
        /\ world'.wrong = (world.wrong \/ Ai!CurKey(ui) \notin world.sent)
    BY <1>0, <2>3 DEF Fields
  <2>6. ~world'.wrong
    BY <1>0, <2>1, <2>4, <2>5
  <2> DEFINE p == [ui.panel EXCEPT !.turns = <<Ai!Empty>>, !.busy = TRUE, !.started = TRUE]
  <2>7. Fields(p, PanelFields) /\ p.key = ui.panel.key /\ p.turns = <<Ai!Empty>>
    BY <1>0 DEF Fields, PanelFields
  <2>8. ui' = [ui EXCEPT !.panel = p]
    BY <2>1
  <2> HIDE DEF p
  <2>9. /\ Fields(ui', AiFields) /\ ui'.panel = p /\ ui'.task = ui.task /\ ui'.id = ui.id
        /\ ui'.nonce = ui.nonce /\ ui'.visible = ui.visible /\ ui'.auto = ui.auto
    BY <1>0, <2>8 DEF Selectors, Fields, AiFields
  <2> QED BY <1>8, <2>1, <2>2, <2>5, <2>6, <2>7, <2>9, WrittenKeeps
<1>13. CASE Ai!Delta \/ Ai!StreamEnds
  <2>1. PICK c \in calls, role \in {"assistant", "error"} :
          /\ ui.panel.turns # <<>> /\ world' = world /\ calls' \subseteq calls
          /\ \/ ui' = Ai!patch(role, c.about)
             \/ ui' = [Ai!patch(role, c.about) EXCEPT !.panel.busy = FALSE]
    BY <1>13 DEF Ai!Delta, Ai!StreamEnds, Ai!Got
  <2> DEFINE n == Len(ui.panel.turns)
             turn == [role |-> role, about |-> c.about]
             turns == [ui.panel.turns EXCEPT ![n] = turn]
  <2>2. turn \in [role : {"user", "assistant", "error"}, about : {Nil, Ai!CurKey(ui)}]
    BY <1>0
  <2>3. n \in 1..Len(ui.panel.turns)
    BY <1>0, <2>1, EmptySeq DEF TurnsOf
  <2> HIDE DEF turn, n
  <2>4. turns \in TurnsOf(ui)
    BY <1>0, <2>2, <2>3, ExceptSeq DEF TurnsOf
  <2>5. Ai!patch(role, c.about) = [ui EXCEPT !.panel.turns[n] = turn]
    BY DEF Ai!patch, n, turn
  <2>6. \E b : ui'.panel = [ui.panel EXCEPT !.turns = turns, !.busy = b]
    <3> DEFINE q == [ui.panel EXCEPT !.turns = turns]
    <3> HIDE DEF turns
    <3>1. Ai!patch(role, c.about) = [ui EXCEPT !.panel = q]
      BY <2>5, Zenon DEF turns
    <3>2. Fields(q, PanelFields) /\ q.turns = turns
      BY <1>0 DEF Fields, PanelFields
    <3>3. CASE ui' = Ai!patch(role, c.about)
      <4>1. ui'.panel = q
        BY <1>0, <3>1, <3>3 DEF Selectors, Fields, AiFields
      <4>2. q = [ui.panel EXCEPT !.turns = turns, !.busy = ui.panel.busy]
        BY <1>0 DEF Fields, PanelFields
      <4> QED BY <4>1, <4>2
    <3>4. CASE ui' = [Ai!patch(role, c.about) EXCEPT !.panel.busy = FALSE]
      <4> HIDE DEF q
      <4>1. Ai!patch(role, c.about).panel = q /\ Fields(Ai!patch(role, c.about), AiFields)
        BY <1>0, <3>1 DEF Selectors, Fields, AiFields
      <4>2. ui'.panel = [q EXCEPT !.busy = FALSE]
        BY <3>4, <4>1 DEF Fields, AiFields
      <4>3. [q EXCEPT !.busy = FALSE] = [ui.panel EXCEPT !.turns = turns, !.busy = FALSE]
        BY <1>0 DEF q, Fields, PanelFields
      <4> QED BY <4>2, <4>3
    <3> QED BY <2>1, <3>3, <3>4
  <2>7. /\ Fields(ui', AiFields) /\ ui'.task = ui.task /\ ui'.id = ui.id
        /\ ui'.nonce = ui.nonce /\ ui'.visible = ui.visible /\ ui'.auto = ui.auto
    <3> DEFINE v == Ai!patch(role, c.about)
    <3>1. /\ Fields(v, AiFields) /\ v.task = ui.task /\ v.id = ui.id
          /\ v.nonce = ui.nonce /\ v.visible = ui.visible /\ v.auto = ui.auto
      BY <1>0, <2>5 DEF Selectors, Fields, AiFields
    <3>2. ui' = v \/ ui' = [v EXCEPT !.panel.busy = FALSE]
      BY <2>1
    <3> HIDE DEF v
    <3> QED BY <3>1, <3>2 DEF Fields, AiFields
  <2> HIDE DEF turns
  <2>8. Fields(ui'.panel, PanelFields) /\ ui'.panel.key = ui.panel.key /\ ui'.panel.turns = turns
    BY <1>0, <2>6 DEF Fields, PanelFields
  <2> QED BY <1>0, <2>1, <2>4, <2>7, <2>8, WrittenKeeps
<1>14. CASE Ai!Stop
  <2>1. ui' = [ui EXCEPT !.panel.busy = FALSE] /\ calls' = {} /\ world' = world
    BY <1>14 DEF Ai!Stop
  <2>2. /\ Fields(ui', AiFields) /\ ui'.task = ui.task /\ ui'.id = ui.id
        /\ ui'.nonce = ui.nonce /\ ui'.visible = ui.visible /\ ui'.auto = ui.auto
        /\ ui'.panel = [ui.panel EXCEPT !.busy = FALSE]
    BY <1>0, <2>1 DEF Selectors, Fields, AiFields
  <2>3. Fields(ui'.panel, PanelFields) /\ ui'.panel.key = ui.panel.key /\ ui'.panel.turns = ui.panel.turns
    BY <1>0, <2>2 DEF Fields, PanelFields
  <2> QED BY <1>0, <2>1, <2>2, <2>3, WrittenKeeps
<1> QED BY <1>1, <1>2, <1>3, <1>4, <1>5, <1>6, <1>10, <1>11, <1>12, <1>13, <1>14 DEF Ai!Next, Ai!Tasks

-----------------------------------------------------------------------------
(* PowerMonitor *)

\* The tabs: nothing is drawn at first.
LEMMA PowerInit ==
  ASSUME Power!Init
  PROVE  PowerInv
<1>1. ui = [page |-> "loading", summary |-> 0, tab |-> "outages", panel |-> TRUE,
            last |-> [mon |-> "outages", ops |-> "flisr"],
            filter |-> [l_ \in Lists |-> "all"], shown |-> [l_ \in Lists |-> Nil],
            overlays |-> [b \in OpsTabs |-> Nil], map |-> FALSE, drawn |-> Nil,
            timers |-> {}, opsTimer |-> FALSE, stale |-> FALSE]
  BY DEF Power!Init
<1>2. Fields(ui, PageFields)
  BY <1>1 DEF Fields, PageFields
<1>3. Fields(ui.overlays, OpsTabs)
  BY <1>1 DEF Fields
<1> QED BY <1>1, <1>2, <1>3 DEF PowerInv, Drawn

\* Another tab takes its own overlay along.
LEMMA TabKeepsDrawn ==
  ASSUME NEW u, NEW b, Drawn(u)
  PROVE  Drawn(Power!WithTab(u, b))
<1> DEFINE v == Power!WithTab(u, b)
<1>1. \E x : v = [u EXCEPT !.tab = b, !.opsTimer = FALSE, !.last = x,
                   !.drawn = IF ~u.map THEN @ ELSE IF b \in OpsTabs THEN u.overlays[b] ELSE Nil]
  BY DEF Power!WithTab
<1> HIDE DEF v
<1>2. Fields(v, PageFields) /\ v.overlays = u.overlays /\ v.map = u.map /\ v.tab = b
      /\ v.drawn = IF ~u.map THEN u.drawn ELSE IF b \in OpsTabs THEN u.overlays[b] ELSE Nil
  BY <1>1 DEF Drawn, Fields, PageFields
<1>3. Drawn(v)
  BY <1>2 DEF Drawn
<1> QED BY <1>3 DEF v

\* A filter does not matter to what is drawn.
LEMMA FilterKeepsDrawn ==
  ASSUME NEW u, NEW l_, NEW f, Drawn(u)
  PROVE  Drawn(Power!WithFilter(u, l_, f))
BY DEF Power!WithFilter, Drawn, Fields, PageFields

\* Whatever is clicked, polled or answered, the overlay is that of the tab shown.
LEMMA PowerNext ==
  ASSUME PowerInv, Power!Next
  PROVE  PowerInv'
<1>1. ASSUME NEW u, Drawn(u),
             \/ ui' = u
             \/ \E x, y : \/ ui' = [u EXCEPT !.panel = x]
                          \/ ui' = [u EXCEPT !.page = x]
                          \/ ui' = [u EXCEPT !.summary = x]
                          \/ ui' = [u EXCEPT !.shown = x]
                          \/ ui' = [u EXCEPT !.timers = x]
                          \/ ui' = [u EXCEPT !.timers = x, !.opsTimer = TRUE, !.stale = TRUE]
                          \/ ui' = [u EXCEPT !.opsTimer = FALSE, !.stale = FALSE]
      PROVE  PowerInv'
  <2> USE DEF Drawn, Fields, PageFields
  <2>1. /\ ui' = [f \in PageFields |-> ui'[f]]
        /\ ui'.overlays = u.overlays /\ ui'.tab = u.tab /\ ui'.map = u.map /\ ui'.drawn = u.drawn
    BY <1>1
  <2> QED BY <1>1, <2>1 DEF PowerInv
<1>2. Drawn(ui)
  BY DEF PowerInv
<1>3. CASE (\E b \in Power!Tabs : Power!tabBtn(b)) \/ Power!groupBtn
  <2>1. PICK b : ui' = Power!WithTab(ui, b)
    BY <1>3 DEF Power!tabBtn, Power!groupBtn
  <2> QED BY <1>1, <1>2, <2>1, TabKeepsDrawn
<1>4. CASE \E b \in Power!Tabs, f \in Power!Filters : Power!openTab(b, f)
  <2>1. PICK b, f : ui' = [Power!WithFilter(Power!WithTab(ui, b), b, f) EXCEPT !.panel = TRUE]
    BY <1>4 DEF Power!openTab
  <2>2. Drawn(Power!WithFilter(Power!WithTab(ui, b), b, f))
    BY <1>2, TabKeepsDrawn, FilterKeepsDrawn
  <2> QED BY <1>1, <2>1, <2>2
<1>5. ASSUME NEW l_, Power!SetFilter(l_)
      PROVE  PowerInv'
  <2>1. PICK f : ui' = Power!WithFilter(ui, l_, f)
    BY <1>5 DEF Power!SetFilter
  <2> QED BY <1>1, <1>2, <2>1, FilterKeepsDrawn
<1>6. CASE Power!GiPanel
  <2>1. CASE Power!SetFilter("gi")
    BY <1>5, <2>1
  <2>2. CASE ui' = Power!WithFilter(Power!WithTab(ui, "feeders"), "feeders", "all")
    BY <1>1, <1>2, <2>2, TabKeepsDrawn, FilterKeepsDrawn
  <2> QED BY <1>6, <2>1, <2>2 DEF Power!GiPanel
<1>7. CASE Power!OutagesPanel
  BY <1>1, <1>2, <1>5, <1>7 DEF Power!OutagesPanel
<1>8. CASE \E l_ \in Lists : Power!ListPanel(l_)
  BY <1>5, <1>8 DEF Power!ListPanel
<1>9. CASE Power!TogglePanel
  BY <1>1, <1>2, <1>9 DEF Power!TogglePanel
<1>10. CASE Power!configLoaded
  BY <1>1, <1>2, <1>10 DEF Power!configLoaded
<1>11. CASE Power!Poll \/ Power!NewsTimer
  BY <1>1, <1>2, <1>11 DEF Power!Poll, Power!NewsTimer
<1>12. CASE Power!loadSummary
  BY <1>1, <1>2, <1>12 DEF Power!loadSummary
<1>13. CASE Power!ListAnswered
  BY <1>1, <1>2, <1>13 DEF Power!ListAnswered
<1>14. CASE Power!Failed
  BY <1>1, <1>2, <1>14 DEF Power!Failed
<1>15. CASE Power!Maneuver
  BY <1>1, <1>2, <1>15 DEF Power!Maneuver
<1>16. CASE Power!OpsTimer
  BY <1>1, <1>2, <1>16 DEF Power!OpsTimer, Power!Show
<1>17. CASE Power!Socket
  BY <1>1, <1>2, <1>17 DEF Power!Socket
<1>18. CASE \E b \in OpsTabs, d \in Drawings \cup {Nil} : Power!Ready /\ Power!overlayFor(b, d)
  <2>1. PICK b \in OpsTabs, d \in Drawings \cup {Nil} :
          ui' = [ui EXCEPT !.overlays[b] = d, !.drawn = IF ui.map /\ ui.tab = b THEN d ELSE @]
    BY <1>18 DEF Power!overlayFor, Power!Show
  <2>2. Fields(ui', PageFields) /\ ui'.map = ui.map /\ ui'.tab = ui.tab
        /\ ui'.overlays = [ui.overlays EXCEPT ![b] = d] /\ ui'.drawn = IF ui.map /\ ui.tab = b THEN d ELSE ui.drawn
    BY <1>2, <2>1 DEF Drawn, Fields, PageFields
  <2>3. Fields(ui'.overlays, OpsTabs) /\ ui'.overlays[b] = d /\ \A x \in OpsTabs \ {b} : ui'.overlays[x] = ui.overlays[x]
    BY <1>2, <2>2 DEF Drawn, Fields
  <2>4. ui'.drawn = IF ui'.map /\ ui'.tab \in OpsTabs THEN ui'.overlays[ui'.tab] ELSE Nil
    BY <1>2, <2>2, <2>3 DEF Drawn
  <2> QED BY <2>2, <2>3, <2>4 DEF PowerInv, Drawn
<1>19. CASE Power!MapReady
  <2>1. ui' = [ui EXCEPT !.map = TRUE, !.drawn = IF ui.tab \in OpsTabs THEN ui.overlays[ui.tab] ELSE @] /\ ~ui.map
    BY <1>19 DEF Power!MapReady, Power!Show
  <2>2. Fields(ui', PageFields) /\ ui'.map /\ ui'.tab = ui.tab /\ ui'.overlays = ui.overlays
        /\ ui'.drawn = IF ui.tab \in OpsTabs THEN ui.overlays[ui.tab] ELSE ui.drawn
    BY <1>2, <2>1 DEF Drawn, Fields, PageFields
  <2> QED BY <1>2, <2>1, <2>2 DEF PowerInv, Drawn
<1> QED BY <1>3, <1>4, <1>5, <1>6, <1>7, <1>8, <1>9, <1>10, <1>11, <1>12, <1>13, <1>14, <1>15, <1>16, <1>17, <1>18, <1>19
        DEF Power!Next

-----------------------------------------------------------------------------
(* The theorems *)

\* The invariants of the pages hold in every state.
LEMMA PagesInvariant == Spec => []PagesInv
<1>1. Init => PagesInv
  <2> SUFFICES ASSUME Init PROVE PagesInv
    OBVIOUS
  <2> USE DEF PagesInv
  <2>1. CASE page = "power" /\ Power!Init
    BY <2>1, PowerInit
  <2>2. CASE page = "soe" /\ Soe!Init
    BY <2>2, SoeInit
  <2>3. CASE page = "operate" /\ Oper!Init
    BY <2>3, OperateInit
  <2>4. CASE page = "plans" /\ Switching!Init
    BY <2>4, PlansInit
  <2>5. CASE page = "flisr" /\ Flisr!Init
    BY <2>5, FlisrInit
  <2>6. CASE page = "reports" /\ Rep!Init
    BY <2>6, ReportsInit
  <2>7. CASE page = "ai" /\ Ai!Init
    BY <2>7, AiInit
  <2> QED BY <2>1, <2>2, <2>3, <2>4, <2>5, <2>6, <2>7 DEF Init
<1>2. PagesInv /\ [Next]_vars => PagesInv'
  <2> SUFFICES ASSUME PagesInv, [Next]_vars PROVE PagesInv'
    OBVIOUS
  <2>1. CASE UNCHANGED vars
    <3>1. page' = page /\ ui' = ui /\ calls' = calls /\ world' = world
      BY <2>1 DEF vars
    <3>2. (PowerInv => PowerInv') /\ (SoeInv => SoeInv')
      BY <3>1 DEF PowerInv, SoeInv, Socket, Known, Complete, Listed, Asked, Coming
    <3>3. (PlansInv => PlansInv') /\ (ReportsInv => ReportsInv') /\ (FlisrInv => FlisrInv')
      BY <3>1 DEF PlansInv, ReportsInv, FlisrInv, Switching!DraftOfPlan, Flisr!OverlayOfResult
    <3>4. (AiInv => AiInv') /\ (OperateInv => OperateInv')
      BY <3>1 DEF AiInv, OperateInv, Named
    <3> QED BY <3>1, <3>2, <3>3, <3>4 DEF PagesInv
  <2>2. CASE Next
    <3> USE DEF PagesInv
    <3>0. page' = page
      BY <2>2 DEF Next
    <3>1. CASE page = "power" /\ Power!Next
      BY <3>0, <3>1, PowerNext
    <3>2. CASE page = "soe" /\ Soe!Next
      BY <3>0, <3>2, SoeNext
    <3>3. CASE page = "operate" /\ Oper!Next
      BY <3>0, <3>3, OperateNext
    <3>4. CASE page = "plans" /\ Switching!Next
      BY <3>0, <3>4, PlansNext
    <3>5. CASE page = "flisr" /\ Flisr!Next
      BY <3>0, <3>5, FlisrNext
    <3>6. CASE page = "reports" /\ Rep!Next
      BY <3>0, <3>6, ReportsNext
    <3>7. CASE page = "ai" /\ Ai!Next
      BY <3>0, <3>7, AiNext
    <3> QED BY <2>2, <3>1, <3>2, <3>3, <3>4, <3>5, <3>6, <3>7 DEF Next
  <2> QED BY <2>1, <2>2
<1> QED BY <1>1, <1>2, PTL DEF Spec

\* What is drawn over the map is the overlay of the operation tab shown (PowerMonitor.tsx), for any number of tabs,
\* drawings and answers that are late.
THEOREM TabOwnsOverlay == Spec => []OverlayOfTab
<1>1. PagesInv => OverlayOfTab
  BY DEF PagesInv, PowerInv, Drawn, OverlayOfTab, Power!OverlayOfTab
<1> QED BY <1>1, PagesInvariant, PTL

\* Every event that matches the filter and is above the rows loaded is listed once the socket is up and nothing is on
\* its way (SOEPanel.tsx), for any number of events, losses, pauses and resynchronisations.
THEOREM FeedListsAll == Spec => []FeedComplete
<1>1. PagesInv => FeedComplete
  <2> SUFFICES ASSUME SoeInv PROVE Soe!FeedComplete
    BY DEF PagesInv, FeedComplete
  <2>1. /\ ui.items \in Seq(Nat) /\ ui.buffer \in Seq(Nat)
        /\ ~world.missed => Complete
    BY DEF SoeInv, SoeUis
  <2>2. ASSUME Soe!Quiet, NEW e PROVE ~Asked(e) /\ ~Coming(e)
    BY <2>2 DEF Soe!Quiet, Asked, Coming, In
  <2>3. \A e : Listed(e) => e \in Soe!Range(ui.items) \cup Soe!Range(ui.buffer)
    BY <2>1, InRange DEF Listed
  <2>4. \A e \in Soe!Events : e <= world.last => e \in 1..world.last
    BY PagesAssumption DEF Soe!Events, SoeInv, SoeWorlds
  <2> QED BY <2>1, <2>2, <2>3, <2>4 DEF Complete, Soe!FeedComplete
<1> QED BY <1>1, PagesInvariant, PTL

\* An analysis in the panel is about the target in the selectors, and only what another tab sent starts by itself
\* (AiOpsPanel.tsx), for any targets, providers and streams.
THEOREM AnalysisOfTarget == Spec => []AnalysisAsked
<1>1. PagesInv => AnalysisAsked
  <2> SUFFICES ASSUME AiInv PROVE Ai!AnswerOfTarget /\ Ai!AutoOnlyAsked
    BY DEF PagesInv, AnalysisAsked
  <2>1. Ai!AutoOnlyAsked
    BY DEF AiInv, Ai!AutoOnlyAsked
  <2>2. \A i \in 1..Len(ui.panel.turns) : ui.panel.turns[i].about \in {Nil, Ai!CurKey(ui)}
    <3> DEFINE T == [role : {"user", "assistant", "error"}, about : {Nil, Ai!CurKey(ui)}]
    <3>1. ui.panel.turns \in Seq(T)
      BY DEF AiInv, TurnsOf
    <3>2. \A t \in T : t.about \in {Nil, Ai!CurKey(ui)}
      OBVIOUS
    <3> HIDE DEF T
    <3>3. \A i \in 1..Len(ui.panel.turns) : ui.panel.turns[i] \in T
      BY <3>1, ElementOfSeq
    <3> QED BY <3>2, <3>3
  <2>3. DOMAIN ui.panel.turns = 1..Len(ui.panel.turns)
    BY LenProperties DEF AiInv, TurnsOf
  <2> QED BY <2>1, <2>2, <2>3 DEF Ai!AnswerOfTarget
<1> QED BY <1>1, PagesInvariant, PTL

\* What is sent or drawn belongs to what the page shows (OperateBox.tsx, PlansTab.tsx, ReportsTab.tsx, FlisrTab.tsx),
\* for any elements, plans, customers and outages, and whatever their numbers: a maneuver goes to the element its
\* dialog names, or to one that the box does not tell from it, a node that is no switch and a line with the same number.
THEOREM ShownIsSent == Spec => []SentAsShown
<1>1. PagesInv => SentAsShown
  BY DEF PagesInv, PlansInv, ReportsInv, FlisrInv, OperateInv, SentAsShown, Oper!DialogNamesTarget, Rep!CustomerOfCode
<1> QED BY <1>1, PagesInvariant, PTL
====
