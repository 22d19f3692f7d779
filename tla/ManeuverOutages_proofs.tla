------------------------ MODULE ManeuverOutages_proofs ------------------------
(***************************************************************************)
(* Proofs about ManeuverOutages: execManeuver of                           *)
(* backend/internal/api/power_handlers.go and openContinuations, for any   *)
(* network and any bounds.                                                 *)
(*                                                                         *)
(* Typed holds whatever operators, faults and restarts interleave.  What   *)
(* relates the stored state and the outages to the graph is proved for one *)
(* operator, whose maneuver is the only one under way: with two it fails,  *)
(* which the run maneuver_two shows.  There the argument is what each      *)
(* statement of the maneuver leaves for the next ones: Synced, Within and  *)
(* Covered say, for each place between two statements, by how much the     *)
(* stored state and the outages are behind the graph.                      *)
(***************************************************************************)
EXTENDS ManeuverOutages, FiniteSetTheorems, WellFoundedInduction, TLAPS

\* An order is for an element, and only an opening that switched something off gets an outage.
Orders == \A o \in Operators : /\ pc[o] # "idle" => order[o].elem \in Elements
                               /\ pc[o] = "outage" => diff[o] # {}

\* What an operator has still to continue has ended.
Ended == \A o \in Operators : closed[o] \cap Active = {}

\* What every maneuver may rely on, however many are under way.
Typed == TypeOK /\ Orders /\ Ended /\ ContinuationAfterParent

\* A statement that fails in a maneuver cuts it short; one that fails in a restart leaves the positions right.
PositionsKept == ~failed \/ ~interrupted

\* The stored positions and flags, if no statement failed: those of the graph, or before the operator's difference.
Synced(o) ==
  /\ PositionsKept =>
       /\ IF pc[o] \in {"info", "store"}
          THEN open = IF Opening(o) THEN dbOpen \cup {order[o].elem} ELSE dbOpen \ {order[o].elem}
          ELSE dbOpen = open
       /\ pc[o] = "store" => info[o] = Opening(o)
  /\ ~failed =>
       IF pc[o] \in {"info", "store", "energize"}
       THEN Lit = IF Opening(o) THEN dbLit \ diff[o] ELSE dbLit \cup diff[o]
       ELSE dbLit = Lit

\* The sections that outages are recorded for: those just switched off not yet, those just switched on still.
Recorded(o) ==
  IF pc[o] \in {"info", "store", "energize", "record", "outage"} /\ Opening(o) THEN Dark \ diff[o]
  ELSE IF pc[o] \in {"info", "store", "energize", "record", "closeOwn", "touch", "closeOther"} THEN Dark \cup diff[o]
  ELSE Dark

\* The outages that hold sections: the active ones, and those a closing maneuver has ended and not yet continued.
Holders(o) == Active \cup (IF pc[o] \in {"touch", "closeOther", "continue"} THEN closed[o] ELSE {})

\* Unless a maneuver was cut short, the active outages hold recorded sections only, and what the operator has found
\* out about them is true.
Within(o) ==
  ~interrupted =>
    /\ \A i \in Active : Affected(i) \subseteq Recorded(o)
    /\ pc[o] = "outage" => Opening(o)
    /\ pc[o] \in {"info", "store", "energize", "record", "outage"} /\ Opening(o) => diff[o] \subseteq Dark
    /\ pc[o] \in {"closeOwn", "touch", "closeOther", "continue"} => ~Opening(o)
    /\ pc[o] = "closeOther" => touched[o] = {i \in Active : Affected(i) \cap diff[o] # {}}

\* Unless a maneuver was cut short, each recorded section has exactly one holder.
Sole(n, H) == \E i \in H : n \in Affected(i) /\ \A j \in H : n \in Affected(j) => j = i
Covered(o) == ~interrupted => \A n \in Recorded(o) : Sole(n, Holders(o))

\* With one operator.
Alone(o) == Typed /\ Synced(o) /\ Within(o)

\* What is opened on a section's normal path are switches, and that path is one of those that supply it.
OnlySwitches == \A n \in Sections : LET up == {Upstream[n][i] : i \in DOMAIN Upstream[n]}
                                    IN  up \in Paths[n] /\ up \cap Lines = {}

-----------------------------------------------------------------------------
(* Operators of the model *)

\* A set of natural numbers that is not empty has a least member.
LEMMA Least ==
  ASSUME NEW S \in SUBSET Nat, S # {}
  PROVE  \E x \in S : \A y \in S : x <= y
<1>1. PICK x \in S : \A y \in S : ~ (<<y, x>> \in OpToRel(<, Nat))
  BY NatLessThanWellFounded, WFMin
<1>2. \A y \in S : ~(y < x)
  BY <1>1 DEF OpToRel
<1> QED BY <1>2

\* The isolator of a section is an element, or there is none.
LEMMA IsolatorIn ==
  ASSUME NEW n \in Sections
  PROVE  /\ Isolator(n) \in Elements \cup {NoOne}
         /\ OpenNodes(n) # {} => Isolator(n) \in Elements
<1>1. Upstream[n] \in Seq(Elements)
  BY NetworkAssumption
<1>2. OpenNodes(n) \subseteq DOMAIN Upstream[n] /\ OpenNodes(n) \subseteq Nat
  BY <1>1 DEF OpenNodes
<1>3. ASSUME OpenNodes(n) # {} PROVE Isolator(n) \in Elements
  <2>1. PICK x \in OpenNodes(n) : \A y \in OpenNodes(n) : x <= y
    BY <1>2, <1>3, Least
  <2>2. (CHOOSE i \in OpenNodes(n) : \A j \in OpenNodes(n) : i <= j) \in OpenNodes(n)
    BY <2>1
  <2> QED BY <1>1, <1>2, <1>3, <2>2 DEF Isolator
<1> QED BY <1>3 DEF Isolator

\* A numbering of the isolators without repetition reaches every one of them.
LEMMA Numbering ==
  ASSUME NEW T, IsFiniteSet(T), NEW q \in [1 .. Cardinality(T) -> T], \A a, b \in DOMAIN q : q[a] = q[b] => a = b
  PROVE  Cardinality(T) \in Nat /\ \A t \in T : \E k \in 1 .. Cardinality(T) : q[k] = t
<1>1. Cardinality(T) \in Nat
  BY FS_CardinalityType
<1>2. q \in Injection(1 .. Cardinality(T), T)
  BY DEF Injection, IsInjective
<1>3. Cardinality(1 .. Cardinality(T)) = Cardinality(T)
  BY <1>1, FS_Interval
<1>4. q \in Surjection(1 .. Cardinality(T), T)
  BY <1>2, <1>3, FS_Injection
<1> QED BY <1>1, <1>4 DEF Surjection

\* The isolators of what is off are finitely many.
LEMMA IsolatorsFinite ==
  ASSUME NEW off \in SUBSET Sections
  PROVE  IsFiniteSet({Isolator(n) : n \in off} \ {NoOne})
<1>1. IsFiniteSet(off)
  BY NetworkAssumption, FS_Subset
<1>2. IsFiniteSet({Isolator(n) : n \in off})
  <2> DEFINE f == [n \in off |-> Isolator(n)]
             T == {Isolator(n) : n \in off}
  <2>1. f \in Surjection(off, T)
    BY DEF Surjection
  <2> HIDE DEF f, T
  <2>2. IsFiniteSet(T)
    BY <1>1, <2>1, FS_Surjection
  <2> QED BY <2>2 DEF T
<1> QED BY <1>2, FS_Subset

\* Ending one record leaves everything else of it as it was.
LEMMA EndOne ==
  ASSUME NEW it \in Outage
  PROVE  /\ [it EXCEPT !.active = FALSE] \in Outage
         /\ [it EXCEPT !.active = FALSE].active = FALSE
         /\ [it EXCEPT !.active = FALSE].cause = it.cause
         /\ [it EXCEPT !.active = FALSE].nodes = it.nodes
         /\ [it EXCEPT !.active = FALSE].parent = it.parent
<1> DEFINE Groups == (SUBSET Sections) \ {{}}
           Parents == {NoOne} \cup Nat
<1>1. Outage = [cause : Elements, nodes : Groups, parent : Parents, active : BOOLEAN]
  BY DEF Outage
<1> HIDE DEF Groups, Parents
<1> QED BY <1>1

\* An outage keeps what it is about; ending it is all that happens to it.
LEMMA EndKeeps ==
  ASSUME TypeOK, NEW ids \in SUBSET DOMAIN outages, End(ids)
  PROVE  /\ outages' \in Seq(Outage) /\ DOMAIN outages' = DOMAIN outages
         /\ \A i \in DOMAIN outages : /\ outages'[i].cause = outages[i].cause /\ outages'[i].nodes = outages[i].nodes
                                      /\ outages'[i].parent = outages[i].parent
         /\ Active' = Active \ ids
<1>1. outages \in Seq(Outage)
  BY DEF TypeOK
<1>2. \A i \in DOMAIN outages : /\ outages[i] \in Outage
                                /\ [outages[i] EXCEPT !.active = FALSE] \in Outage
                                /\ [outages[i] EXCEPT !.active = FALSE].active = FALSE
                                /\ [outages[i] EXCEPT !.active = FALSE].cause = outages[i].cause
                                /\ [outages[i] EXCEPT !.active = FALSE].nodes = outages[i].nodes
                                /\ [outages[i] EXCEPT !.active = FALSE].parent = outages[i].parent
  <2> TAKE i \in DOMAIN outages
  <2>1. outages[i] \in Outage
    BY <1>1
  <2> HIDE <1>1
  <2> QED BY <2>1, EndOne
<1>3. outages' = [i \in DOMAIN outages |-> IF i \in ids THEN [outages[i] EXCEPT !.active = FALSE] ELSE outages[i]]
  BY DEF End
<1>4. outages' \in Seq(Outage) /\ DOMAIN outages' = DOMAIN outages
  <2>1. DOMAIN outages = 1 .. Len(outages) /\ Len(outages) \in Nat
    BY <1>1
  <2>2. \A i \in 1 .. Len(outages) : outages'[i] \in Outage
    BY <1>2, <1>3, <2>1
  <2>3. outages' = [i \in 1 .. Len(outages) |-> outages'[i]]
    BY <1>3, <2>1
  <2>4. outages' \in [1 .. Len(outages) -> Outage]
    BY <2>2, <2>3
  <2> QED BY <2>1, <2>4
<1>5. \A i \in DOMAIN outages : outages'[i] = IF i \in ids THEN [outages[i] EXCEPT !.active = FALSE] ELSE outages[i]
  BY <1>3
<1>6. Active' = Active \ ids
  BY <1>2, <1>4, <1>5 DEF Active
<1> QED BY <1>2, <1>4, <1>5, <1>6

\* Adding active records keeps the earlier ones and makes exactly the new ones active besides.
LEMMA AddKeeps ==
  ASSUME outages \in Seq(Outage), NEW r \in Seq(Outage), \A k \in DOMAIN r : r[k].active,
         outages' = outages \o r
  PROVE  /\ outages' \in Seq(Outage)
         /\ DOMAIN outages \subseteq DOMAIN outages'
         /\ \A i \in DOMAIN outages : outages'[i] = outages[i]
         /\ \A k \in DOMAIN r : Len(outages) + k \in DOMAIN outages' /\ outages'[Len(outages) + k] = r[k]
         /\ \A i \in DOMAIN outages' : i \in DOMAIN outages \/ \E k \in DOMAIN r : i = Len(outages) + k
         /\ Active' = Active \cup {Len(outages) + k : k \in DOMAIN r}
         /\ Active \subseteq DOMAIN outages
         /\ \A k \in DOMAIN r : Len(outages) + k \notin DOMAIN outages
<1>1. /\ outages' \in Seq(Outage)
      /\ Len(outages) \in Nat /\ Len(r) \in Nat /\ Len(outages') = Len(outages) + Len(r)
      /\ DOMAIN outages = 1 .. Len(outages) /\ DOMAIN r = 1 .. Len(r) /\ DOMAIN outages' = 1 .. Len(outages')
  OBVIOUS
<1>2. \A i \in 1 .. Len(outages) + Len(r) : outages'[i] = IF i <= Len(outages) THEN outages[i] ELSE r[i - Len(outages)]
  OBVIOUS
<1>3. \A i \in DOMAIN outages : i \in DOMAIN outages' /\ outages'[i] = outages[i]
  BY <1>1, <1>2
<1>4. \A k \in DOMAIN r : /\ Len(outages) + k \in DOMAIN outages' /\ Len(outages) + k \notin DOMAIN outages
                          /\ outages'[Len(outages) + k] = r[k]
  <2> TAKE k \in DOMAIN r
  <2>1. Len(outages) + k \in 1 .. Len(outages) + Len(r) /\ ~(Len(outages) + k <= Len(outages))
    BY <1>1
  <2>2. (Len(outages) + k) - Len(outages) = k
    BY <1>1
  <2> QED BY <1>1, <1>2, <2>1, <2>2
<1>5. \A i \in DOMAIN outages' : i \in DOMAIN outages \/ \E k \in DOMAIN r : i = Len(outages) + k
  <2> TAKE i \in DOMAIN outages'
  <2>1. CASE i <= Len(outages)
    BY <1>1, <2>1
  <2>2. CASE ~(i <= Len(outages))
    <3>1. i - Len(outages) \in DOMAIN r /\ i = Len(outages) + (i - Len(outages))
      BY <1>1, <2>2
    <3> QED BY <3>1
  <2> QED BY <2>1, <2>2
<1>6. Active' = Active \cup {Len(outages) + k : k \in DOMAIN r}
  BY <1>3, <1>4, <1>5 DEF Active
<1> QED BY <1>1, <1>3, <1>4, <1>5, <1>6 DEF Active

\* With the outages unchanged, so is what holds of them.
LEMMA SameOutages ==
  ASSUME outages' = outages
  PROVE  /\ Active' = Active /\ DOMAIN outages' = DOMAIN outages
         /\ ContinuationAfterParent => ContinuationAfterParent'
BY DEF Active, ContinuationAfterParent, Affected

-----------------------------------------------------------------------------
(* Types, for any number of operators: what leaves the outages alone *)

\* Graph.Maneuver sets an operator's order and difference.
LEMMA ManeuverTyped ==
  ASSUME Typed, NEW o \in Operators, NEW e \in Elements, NEW opening \in BOOLEAN, Maneuver(o, e, opening)
  PROVE  Typed'
<1> USE DEF Maneuver, Goto, stored, history
<1>1. outages' = outages
  OBVIOUS
<1>2. Supplied(open') \subseteq Sections /\ Lit \subseteq Sections
  BY DEF Supplied, Lit
<1>3. TypeOK'
  <2>1. diff' \in [Operators -> SUBSET Sections]
    BY <1>2 DEF Typed, TypeOK
  <2>2. order' \in [Operators -> [elem : Elements \cup {NoOne}, open : BOOLEAN]]
    BY DEF Typed, TypeOK
  <2>3. open' \subseteq Elements
    BY DEF Typed, TypeOK
  <2>4. pc' \in [Operators -> {"idle", "info", "store", "energize", "record", "outage",
                           "closeOwn", "touch", "closeOther", "continue"}]
    BY DEF Typed, TypeOK
  <2> QED BY <1>1, <2>1, <2>2, <2>3, <2>4 DEF Typed, TypeOK
<1>4. Orders'
  BY DEF Typed, TypeOK, Orders
<1>5. Ended'
  BY <1>1, SameOutages DEF Typed, Ended
<1> QED BY <1>1, <1>3, <1>4, <1>5, SameOutages DEF Typed

\* The statements that store the position, the flags and the maneuver, and the end.
LEMMA StoreTyped ==
  ASSUME Typed, NEW o \in Operators, ReadBack(o) \/ StorePosition(o) \/ StoreEnergized(o) \/ RecordManeuver(o) \/ Finish(o)
  PROVE  Typed'
<1> USE DEF ReadBack, StorePosition, StoreEnergized, RecordManeuver, Finish, Goto, stored, history, locals, counts
<1>1. outages' = outages /\ order' = order /\ diff' = diff /\ touched' = touched /\ closed' = closed /\ open' = open
  OBVIOUS
<1>2. TypeOK'
  <2>1. info' \in [Operators -> BOOLEAN]
    <3>1. info \in [Operators -> BOOLEAN] /\ order[o].open \in BOOLEAN
      BY DEF Typed, TypeOK
    <3>2. ~ReadBack(o) => info' = info
      OBVIOUS
    <3>3. CASE ReadBack(o)
      <4> DEFINE pos == IF order[o].elem \in Lines THEN Opening(o) ELSE order[o].elem \in open
      <4>1. info' = [info EXCEPT ![o] = pos]
        BY <3>3
      <4>2. pos \in BOOLEAN
        <5>1. CASE order[o].elem \in Lines
          BY <3>1, <5>1 DEF Opening
        <5>2. CASE order[o].elem \notin Lines
          <6>1. pos = (order[o].elem \in open)
            BY <5>2
          <6>2. (order[o].elem \in open) \in BOOLEAN
            OBVIOUS
          <6> QED BY <6>1, <6>2, Zenon
        <5> QED BY <5>1, <5>2
      <4> HIDE DEF pos
      <4> QED BY <3>1, <4>1, <4>2, Zenon
    <3> QED BY <3>1, <3>2, <3>3
  <2>2. pc' \in [Operators -> {"idle", "info", "store", "energize", "record", "outage",
                           "closeOwn", "touch", "closeOther", "continue"}]
    BY DEF Typed, TypeOK
  <2>3. dbOpen' \subseteq Elements
    BY DEF Typed, TypeOK, Orders
  <2>4. dbLit' \subseteq Sections
    BY DEF Typed, TypeOK
  <2> QED BY <1>1, <2>1, <2>2, <2>3, <2>4 DEF Typed, TypeOK
<1>3. Orders'
  BY <1>1 DEF Typed, TypeOK, Orders
<1>4. Ended'
  BY <1>1, SameOutages DEF Typed, Ended
<1> QED BY <1>1, <1>2, <1>3, <1>4, SameOutages DEF Typed

\* Looking for the outages that hold a section switched on.
LEMMA LookTyped ==
  ASSUME Typed, NEW o \in Operators, ActiveOutagesTouching(o)
  PROVE  Typed'
<1> USE DEF ActiveOutagesTouching, Goto, stored, history, counts
<1>1. outages' = outages
  OBVIOUS
<1>2. TypeOK'
  <2>1. touched' \in [Operators -> SUBSET DOMAIN outages]
    BY DEF Typed, TypeOK, Active
  <2>2. pc' \in [Operators -> {"idle", "info", "store", "energize", "record", "outage",
                           "closeOwn", "touch", "closeOther", "continue"}]
    BY DEF Typed, TypeOK
  <2> QED BY <1>1, <2>1, <2>2 DEF Typed, TypeOK
<1>3. Orders'
  BY DEF Typed, TypeOK, Orders
<1>4. Ended'
  BY <1>1, SameOutages DEF Typed, Ended
<1> QED BY <1>1, <1>2, <1>3, <1>4, SameOutages DEF Typed

\* A statement fails.
LEMMA FailTyped ==
  ASSUME Typed, NEW o \in Operators, StatementFails(o)
  PROVE  Typed'
<1> USE DEF StatementFails, Goto, stored
<1>1. outages' = outages /\ order' = order /\ diff' = diff
  OBVIOUS
<1>2. \A p \in Operators : closed'[p] \subseteq closed[p]
  BY DEF Typed, TypeOK
<1>3. TypeOK'
  <2>1. closed' \in [Operators -> SUBSET DOMAIN outages] /\ touched' \in [Operators -> SUBSET DOMAIN outages]
    BY DEF Typed, TypeOK
  <2>2. pc' \in [Operators -> {"idle", "info", "store", "energize", "record", "outage",
                           "closeOwn", "touch", "closeOther", "continue"}]
    BY DEF Typed, TypeOK
  <2>3. dbLit' \subseteq Sections
    BY DEF Typed, TypeOK
  <2> QED BY <1>1, <2>1, <2>2, <2>3 DEF Typed, TypeOK
<1>4. Orders'
  BY <1>1 DEF Typed, TypeOK, Orders
<1>5. Ended'
  BY <1>1, <1>2, SameOutages DEF Typed, Ended
<1> QED BY <1>1, <1>3, <1>4, <1>5, SameOutages DEF Typed

\* The server restarts.
LEMMA RestartTyped ==
  ASSUME Typed, Restart
  PROVE  Typed'
<1>1. outages' = outages
  BY DEF Restart
<1>2. TypeOK'
  BY DEF Typed, TypeOK, Restart, Supplied
<1>3. Orders' /\ Ended'
  BY DEF Orders, Ended, Restart
<1> QED BY <1>1, <1>2, <1>3, SameOutages DEF Typed

-----------------------------------------------------------------------------
(* Types, for any number of operators: what changes the outages *)

\* Ending outages keeps the types of the table and what is true of continuations.
LEMMA EndTyped ==
  ASSUME Typed, NEW ids \in SUBSET DOMAIN outages, End(ids)
  PROVE  /\ outages' \in Seq(Outage) /\ DOMAIN outages' = DOMAIN outages
         /\ \A i \in DOMAIN outages' : outages'[i].parent \in {NoOne} \cup 1 .. (i - 1)
         /\ ContinuationAfterParent'
         /\ Active' = Active \ ids
<1>1. /\ outages' \in Seq(Outage) /\ DOMAIN outages' = DOMAIN outages
      /\ \A i \in DOMAIN outages : /\ outages'[i].cause = outages[i].cause /\ outages'[i].nodes = outages[i].nodes
                                   /\ outages'[i].parent = outages[i].parent
      /\ Active' = Active \ ids
  BY EndKeeps DEF Typed
<1>2. /\ \A i \in DOMAIN outages : outages[i].parent \in {NoOne} \cup 1 .. (i - 1)
      /\ DOMAIN outages = 1 .. Len(outages) /\ Len(outages) \in Nat
      /\ ContinuationAfterParent
  BY DEF Typed, TypeOK
<1>3. \A i \in DOMAIN outages' : outages'[i].parent \in {NoOne} \cup 1 .. (i - 1)
  BY <1>1, <1>2
<1>4. ContinuationAfterParent'
  <2> SUFFICES ASSUME NEW i \in DOMAIN outages', outages'[i].parent # NoOne
               PROVE  ~outages'[outages'[i].parent].active /\ outages'[i].nodes \subseteq outages'[outages'[i].parent].nodes
    BY DEF ContinuationAfterParent, Affected
  <2> DEFINE p == outages[i].parent
  <2>1. outages'[i].parent = p /\ p \in 1 .. (i - 1) /\ p \in DOMAIN outages
    BY <1>1, <1>2
  <2>2. ~outages[p].active /\ outages[i].nodes \subseteq outages[p].nodes
    BY <1>1, <1>2, <2>1 DEF ContinuationAfterParent, Affected
  <2>3. p \notin Active'
    BY <1>1, <2>2 DEF Active
  <2> QED BY <1>1, <2>1, <2>2, <2>3 DEF Active
<1> QED BY <1>1, <1>3, <1>4

\* Adding records that are no continuation, or one of an outage that has ended, keeps both too.
LEMMA AddTyped ==
  ASSUME Typed, NEW r \in Seq(Outage), outages' = outages \o r,
         \A k \in DOMAIN r : /\ r[k].active
                             /\ r[k].parent \in {NoOne} \cup (DOMAIN outages \ Active)
                             /\ r[k].parent # NoOne => r[k].nodes \subseteq Affected(r[k].parent)
  PROVE  /\ \A i \in DOMAIN outages' : outages'[i].parent \in {NoOne} \cup 1 .. (i - 1)
         /\ ContinuationAfterParent'
<1>1. outages \in Seq(Outage)
  BY DEF Typed, TypeOK
<1>2. /\ DOMAIN outages \subseteq DOMAIN outages'
      /\ \A i \in DOMAIN outages : outages'[i] = outages[i]
      /\ \A k \in DOMAIN r : Len(outages) + k \in DOMAIN outages' /\ outages'[Len(outages) + k] = r[k]
      /\ \A i \in DOMAIN outages' : i \in DOMAIN outages \/ \E k \in DOMAIN r : i = Len(outages) + k
  BY <1>1, AddKeeps
<1>3. /\ \A i \in DOMAIN outages : outages[i].parent \in {NoOne} \cup 1 .. (i - 1)
      /\ DOMAIN outages = 1 .. Len(outages) /\ Len(outages) \in Nat
      /\ DOMAIN r = 1 .. Len(r) /\ Len(r) \in Nat
  BY DEF Typed, TypeOK
<1>4. \A i \in DOMAIN outages' : outages'[i].parent \in {NoOne} \cup 1 .. (i - 1)
  <2> TAKE i \in DOMAIN outages'
  <2>1. CASE i \in DOMAIN outages
    BY <1>2, <1>3, <2>1
  <2>2. ASSUME NEW k \in DOMAIN r, i = Len(outages) + k
        PROVE  outages'[i].parent \in {NoOne} \cup 1 .. (i - 1)
    <3>1. outages'[i].parent \in {NoOne} \cup DOMAIN outages
      BY <1>2, <2>2
    <3>2. 1 .. Len(outages) \subseteq 1 .. (i - 1)
      BY <1>3, <2>2
    <3> QED BY <1>3, <3>1, <3>2
  <2> QED BY <1>2, <2>1, <2>2
<1>5. ContinuationAfterParent'
  <2> SUFFICES ASSUME NEW i \in DOMAIN outages', outages'[i].parent # NoOne
               PROVE  ~outages'[outages'[i].parent].active /\ outages'[i].nodes \subseteq outages'[outages'[i].parent].nodes
    BY DEF ContinuationAfterParent, Affected
  <2>1. CASE i \in DOMAIN outages
    <3> DEFINE p == outages[i].parent
    <3>1. outages'[i] = outages[i] /\ p \in DOMAIN outages
      BY <1>2, <1>3, <2>1
    <3>2. ~outages[p].active /\ outages[i].nodes \subseteq outages[p].nodes
      BY <2>1, <3>1 DEF Typed, ContinuationAfterParent, Affected
    <3> QED BY <1>2, <3>1, <3>2
  <2>2. ASSUME NEW k \in DOMAIN r, i = Len(outages) + k
        PROVE  ~outages'[outages'[i].parent].active /\ outages'[i].nodes \subseteq outages'[outages'[i].parent].nodes
    <3>1. outages'[i] = r[k]
      BY <1>2, <2>2
    <3>2. r[k].parent \in DOMAIN outages /\ ~outages[r[k].parent].active /\ r[k].nodes \subseteq outages[r[k].parent].nodes
      BY <3>1 DEF Active, Affected
    <3> QED BY <1>2, <3>1, <3>2
  <2> QED BY <1>2, <2>1, <2>2
<1> QED BY <1>4, <1>5

\* The outage of an opening.
LEMMA OpenTyped ==
  ASSUME Typed, NEW o \in Operators, OpenOutage(o)
  PROVE  Typed'
<1> DEFINE it == NewOutage(order[o].elem, diff[o], NoOne)
<1>1. /\ order[o].elem \in Elements /\ diff[o] \in (SUBSET Sections) \ {{}}
      /\ order' = order /\ diff' = diff /\ touched' = touched /\ closed' = closed /\ open' = open /\ info' = info
      /\ dbOpen' = dbOpen /\ dbLit' = dbLit /\ pc' = [pc EXCEPT ![o] = "idle"]
      /\ outages' = Append(outages, it)
  BY DEF OpenOutage, Typed, TypeOK, Orders, Goto, locals
<1>2. it \in Outage /\ it.active /\ it.parent = NoOne
  BY <1>1 DEF NewOutage, Outage
<1> HIDE DEF it
<1>3. outages \in Seq(Outage)
  BY DEF Typed, TypeOK
<1> DEFINE r == <<it>>
<1>4. r \in Seq(Outage) /\ outages' = outages \o r /\ \A k \in DOMAIN r : r[k] = it /\ r[k].active
  BY <1>1, <1>2, <1>3
<1> HIDE DEF r
<1>5. /\ outages' \in Seq(Outage) /\ DOMAIN outages \subseteq DOMAIN outages'
      /\ Active' = Active \cup {Len(outages) + k : k \in DOMAIN r}
      /\ \A k \in DOMAIN r : Len(outages) + k \notin DOMAIN outages
  BY <1>3, <1>4, AddKeeps
<1>6. /\ \A i \in DOMAIN outages' : outages'[i].parent \in {NoOne} \cup 1 .. (i - 1)
      /\ ContinuationAfterParent'
  BY <1>2, <1>4, AddTyped
<1>7. TypeOK'
  <2>1. pc' \in [Operators -> {"idle", "info", "store", "energize", "record", "outage",
                           "closeOwn", "touch", "closeOther", "continue"}]
    BY <1>1 DEF Typed, TypeOK
  <2>2. touched' \in [Operators -> SUBSET DOMAIN outages'] /\ closed' \in [Operators -> SUBSET DOMAIN outages']
    BY <1>1, <1>5 DEF Typed, TypeOK
  <2> QED BY <1>1, <1>5, <1>6, <2>1, <2>2 DEF Typed, TypeOK
<1>8. Orders'
  BY <1>1 DEF Typed, TypeOK, Orders
<1>9. Ended'
  BY <1>1, <1>5 DEF Typed, TypeOK, Ended
<1> QED BY <1>6, <1>7, <1>8, <1>9 DEF Typed

\* Ending the element's own outages, then those it touches.
LEMMA CloseTyped ==
  ASSUME Typed, NEW o \in Operators, CloseOutages(o) \/ CloseOutageIDs(o)
  PROVE  Typed'
<1> DEFINE own == {i \in Active : outages[i].cause = order[o].elem}
           more == touched[o] \cap Active
<1>1. /\ order' = order /\ diff' = diff /\ open' = open /\ info' = info /\ dbOpen' = dbOpen /\ dbLit' = dbLit
      /\ pc[o] # "idle"
  BY DEF CloseOutages, CloseOutageIDs
<1>2. \E ids \in SUBSET Active, l \in {"touch", "continue"} : \E c \in SUBSET (closed[o] \cup ids) :
        /\ End(ids) /\ closed' = [closed EXCEPT ![o] = c] /\ pc' = [pc EXCEPT ![o] = l]
        /\ touched' = touched \/ touched' = [touched EXCEPT ![o] = {}]
  <2>1. CASE CloseOutages(o)
    <3>1. own \in SUBSET Active /\ own \in SUBSET (closed[o] \cup own)
      OBVIOUS
    <3>2. /\ End(own) /\ closed' = [closed EXCEPT ![o] = own] /\ pc' = [pc EXCEPT ![o] = "touch"] /\ touched' = touched
      BY <2>1 DEF CloseOutages, Goto
    <3> HIDE DEF own
    <3> QED BY <3>1, <3>2
  <2>2. CASE CloseOutageIDs(o)
    <3>1. more \in SUBSET Active /\ closed[o] \cup more \in SUBSET (closed[o] \cup more)
      OBVIOUS
    <3>2. /\ End(more) /\ closed' = [closed EXCEPT ![o] = closed[o] \cup more] /\ pc' = [pc EXCEPT ![o] = "continue"]
          /\ touched' = [touched EXCEPT ![o] = {}]
      BY <2>2 DEF CloseOutageIDs, Goto, Typed, TypeOK
    <3> HIDE DEF more
    <3> QED BY <3>1, <3>2
  <2> QED BY <2>1, <2>2
<1>3. PICK ids \in SUBSET Active, l \in {"touch", "continue"} : \E c \in SUBSET (closed[o] \cup ids) :
        /\ End(ids) /\ closed' = [closed EXCEPT ![o] = c] /\ pc' = [pc EXCEPT ![o] = l]
        /\ touched' = touched \/ touched' = [touched EXCEPT ![o] = {}]
  BY <1>2
<1>0. PICK c \in SUBSET (closed[o] \cup ids) :
        /\ End(ids) /\ closed' = [closed EXCEPT ![o] = c] /\ pc' = [pc EXCEPT ![o] = l]
        /\ touched' = touched \/ touched' = [touched EXCEPT ![o] = {}]
  BY <1>3
<1>8. ids \in SUBSET DOMAIN outages
  BY DEF Active
<1> HIDE DEF own, more
<1>4. /\ outages' \in Seq(Outage) /\ DOMAIN outages' = DOMAIN outages
      /\ \A i \in DOMAIN outages' : outages'[i].parent \in {NoOne} \cup 1 .. (i - 1)
      /\ ContinuationAfterParent'
      /\ Active' = Active \ ids
  BY <1>0, <1>8, EndTyped
<1>5. TypeOK'
  <2>1. pc' \in [Operators -> {"idle", "info", "store", "energize", "record", "outage",
                           "closeOwn", "touch", "closeOther", "continue"}]
    BY <1>0 DEF Typed, TypeOK
  <2>2. touched' \in [Operators -> SUBSET DOMAIN outages] /\ closed' \in [Operators -> SUBSET DOMAIN outages]
    BY <1>0, <1>8 DEF Typed, TypeOK
  <2> QED BY <1>1, <1>4, <2>1, <2>2 DEF Typed, TypeOK
<1>6. Orders'
  BY <1>1, <1>0 DEF Typed, TypeOK, Orders
<1>7. Ended'
  BY <1>0, <1>4 DEF Typed, TypeOK, Ended
<1> QED BY <1>4, <1>5, <1>6, <1>7 DEF Typed

\* What openContinuations adds for the ended outage i: one active record for each isolator of what is still dark.
Continues(o, i, r) ==
  /\ closed' = [closed EXCEPT ![o] = closed[o] \ {i}]
  /\ outages' = outages \o r
  /\ \A k \in DOMAIN r : /\ r[k].active /\ r[k].parent = i
                         /\ r[k].nodes = {n \in Affected(i) \ Lit : Isolator(n) = r[k].cause}
  /\ \A a, b \in DOMAIN r : r[a].cause = r[b].cause => a = b
  /\ \A n \in Affected(i) \ Lit : Isolator(n) # NoOne => \E k \in DOMAIN r : r[k].cause = Isolator(n)

\* It does so for one of the outages that ended.
LEMMA Continued ==
  ASSUME Typed, NEW o \in Operators, OpenContinuations(o)
  PROVE  \E i \in closed[o] : \E r \in Seq(Outage) : Continues(o, i, r)
<1>1. PICK i \in closed[o] :
        LET off  == Affected(i) \ Lit
            isos == {Isolator(n) : n \in off} \ {NoOne}
        IN  /\ \E q \in [1 .. Cardinality(isos) -> isos] :
                 /\ \A a, b \in DOMAIN q : q[a] = q[b] => a = b
                 /\ outages' = outages \o [k \in DOMAIN q |->
                                             NewOutage(q[k], {n \in off : Isolator(n) = q[k]}, i)]
            /\ closed' = [closed EXCEPT ![o] = @ \ {i}]
  BY DEF OpenContinuations
<1> DEFINE off  == Affected(i) \ Lit
           isos == {Isolator(n) : n \in off} \ {NoOne}
<1>2. PICK q \in [1 .. Cardinality(isos) -> isos] :
                 /\ \A a, b \in DOMAIN q : q[a] = q[b] => a = b
                 /\ outages' = outages \o [k \in DOMAIN q |->
                                             NewOutage(q[k], {n \in off : Isolator(n) = q[k]}, i)]
  BY <1>1
<1> DEFINE r == [k \in DOMAIN q |-> NewOutage(q[k], {n \in off : Isolator(n) = q[k]}, i)]
<1>3. /\ i \in DOMAIN outages /\ i \in Nat /\ outages[i] \in Outage
      /\ closed' = [closed EXCEPT ![o] = closed[o] \ {i}]
  BY <1>1 DEF Typed, TypeOK
<1>4. off \in SUBSET Sections
  BY <1>3 DEF Affected, Outage
<1>5. IsFiniteSet(isos)
  BY <1>4, IsolatorsFinite
<1>6. Cardinality(isos) \in Nat /\ \A t \in isos : \E k \in 1 .. Cardinality(isos) : q[k] = t
  <2> HIDE DEF isos
  <2> QED BY <1>2, <1>5, Numbering
<1>7. isos \subseteq Elements
  BY <1>4, IsolatorIn
<1>8. DOMAIN r = 1 .. Cardinality(isos) /\ DOMAIN q = 1 .. Cardinality(isos)
  BY <1>2
<1>9. \A k \in DOMAIN r : /\ r[k] = NewOutage(q[k], {n \in off : Isolator(n) = q[k]}, i) /\ q[k] \in isos
                          /\ r[k].cause = q[k] /\ r[k].parent = i /\ r[k].active
                          /\ r[k].nodes = {n \in off : Isolator(n) = q[k]}
  BY <1>2, <1>8 DEF NewOutage
<1>10. \A k \in DOMAIN r : r[k] \in Outage
  <2> TAKE k \in DOMAIN r
  <2> DEFINE ns == {n \in off : Isolator(n) = q[k]}
  <2>1. q[k] \in Elements /\ ns \in (SUBSET Sections) \ {{}}
    BY <1>4, <1>7, <1>9
  <2>2. r[k] = [cause |-> q[k], nodes |-> ns, parent |-> i, active |-> TRUE]
    BY <1>9 DEF NewOutage
  <2> HIDE DEF ns, r
  <2> QED BY <1>3, <2>1, <2>2 DEF Outage
<1>11. r \in Seq(Outage)
  <2> HIDE DEF isos
  <2>1. r = [k \in 1 .. Cardinality(isos) |-> r[k]]
    BY <1>8
  <2> HIDE DEF r
  <2>2. r \in [1 .. Cardinality(isos) -> Outage]
    BY <1>8, <1>10, <2>1
  <2> QED BY <1>6, <2>2
<1>12. outages' = outages \o r
  BY <1>2
<1>13. \A a, b \in DOMAIN r : r[a].cause = r[b].cause => a = b
  BY <1>2, <1>8, <1>9
<1>14. \A n \in off : Isolator(n) # NoOne => \E k \in DOMAIN r : r[k].cause = Isolator(n)
  <2> TAKE n \in off
  <2> HAVE Isolator(n) # NoOne
  <2>1. Isolator(n) \in isos
    OBVIOUS
  <2>2. PICK k \in 1 .. Cardinality(isos) : q[k] = Isolator(n)
    <3> HIDE DEF isos
    <3>1. \A t \in isos : \E k \in 1 .. Cardinality(isos) : q[k] = t
      BY <1>6
    <3> QED BY <2>1, <3>1, Zenon
  <2>3. k \in DOMAIN r
    BY <1>8
  <2>4. r[k].cause = q[k]
    BY <1>9, <2>3
  <2> QED BY <2>2, <2>3, <2>4
<1>15. \A k \in DOMAIN r : r[k].nodes = {n \in off : Isolator(n) = r[k].cause}
  <2> TAKE k \in DOMAIN r
  <2>1. r[k].cause = q[k] /\ r[k].nodes = {n \in off : Isolator(n) = q[k]}
    BY <1>9
  <2> HIDE DEF r, off
  <2> QED BY <2>1, Zenon
<1> HIDE DEF r
<1>16. \A k \in DOMAIN r : r[k].active /\ r[k].parent = i
  BY <1>9
<1> HIDE DEF isos
<1>17. Continues(o, i, r)
  BY <1>3, <1>12, <1>13, <1>14, <1>15, <1>16, Zenon DEF Continues
<1> QED BY <1>11, <1>17

\* The continuations of one ended outage.
LEMMA ContinueTyped ==
  ASSUME Typed, NEW o \in Operators, OpenContinuations(o)
  PROVE  Typed'
<1>1. PICK i \in closed[o], r \in Seq(Outage) : Continues(o, i, r)
  BY Continued
<1>2. /\ closed' = [closed EXCEPT ![o] = closed[o] \ {i}]
      /\ outages' = outages \o r
      /\ \A k \in DOMAIN r : /\ r[k].active /\ r[k].parent = i
                             /\ r[k].nodes = {n \in Affected(i) \ Lit : Isolator(n) = r[k].cause}
  BY <1>1 DEF Continues
<1>3. /\ open' = open /\ dbOpen' = dbOpen /\ dbLit' = dbLit /\ pc' = pc /\ order' = order /\ diff' = diff
      /\ info' = info /\ touched' = touched /\ outages \in Seq(Outage)
  BY DEF OpenContinuations, Typed, TypeOK
<1>4. i \in DOMAIN outages \ Active
  BY DEF Typed, TypeOK, Ended
<1>5. /\ outages' \in Seq(Outage) /\ DOMAIN outages \subseteq DOMAIN outages'
      /\ Active' = Active \cup {Len(outages) + k : k \in DOMAIN r}
      /\ \A k \in DOMAIN r : Len(outages) + k \notin DOMAIN outages
  BY <1>2, <1>3, AddKeeps
<1>6. /\ \A j \in DOMAIN outages' : outages'[j].parent \in {NoOne} \cup 1 .. (j - 1)
      /\ ContinuationAfterParent'
  BY <1>2, <1>4, AddTyped
<1>7. TypeOK'
  <2>1. touched' \in [Operators -> SUBSET DOMAIN outages'] /\ closed' \in [Operators -> SUBSET DOMAIN outages']
    BY <1>2, <1>3, <1>5 DEF Typed, TypeOK
  <2> QED BY <1>3, <1>5, <1>6, <2>1 DEF Typed, TypeOK
<1>8. Orders'
  BY <1>3 DEF Typed, Orders
<1>9. Ended'
  BY <1>2, <1>5 DEF Typed, TypeOK, Ended
<1> QED BY <1>6, <1>7, <1>8, <1>9 DEF Typed

\* Whatever the interleaving of the operators, faults and restarts, the types, the orders and the parents are kept.
LEMMA TypedInit == Init => Typed
<1> SUFFICES ASSUME Init PROVE Typed
  OBVIOUS
<1>1. outages = <<>> /\ DOMAIN outages = {}
  BY DEF Init
<1>2. TypeOK
  BY <1>1 DEF Init, TypeOK
<1>3. Orders /\ Ended /\ ContinuationAfterParent
  BY <1>1 DEF Init, Orders, Ended, ContinuationAfterParent
<1> QED BY <1>2, <1>3 DEF Typed

\* Every step keeps all of it.
LEMMA TypedStep == Typed /\ [Next]_vars => Typed'
<1> SUFFICES ASSUME Typed, [Next]_vars PROVE Typed'
  OBVIOUS
<1>1. ASSUME NEW o \in Operators, NEW e \in Elements, NEW opening \in BOOLEAN, Maneuver(o, e, opening) PROVE Typed'
  BY <1>1, ManeuverTyped
<1>2. ASSUME NEW o \in Operators,
             ReadBack(o) \/ StorePosition(o) \/ StoreEnergized(o) \/ RecordManeuver(o) \/ Finish(o)
      PROVE  Typed'
  BY <1>2, StoreTyped
<1>3. ASSUME NEW o \in Operators, OpenOutage(o) PROVE Typed'
  BY <1>3, OpenTyped
<1>4. ASSUME NEW o \in Operators, CloseOutages(o) \/ CloseOutageIDs(o) PROVE Typed'
  BY <1>4, CloseTyped
<1>5. ASSUME NEW o \in Operators, ActiveOutagesTouching(o) PROVE Typed'
  BY <1>5, LookTyped
<1>6. ASSUME NEW o \in Operators, OpenContinuations(o) PROVE Typed'
  BY <1>6, ContinueTyped
<1>7. ASSUME NEW o \in Operators, StatementFails(o) PROVE Typed'
  BY <1>7, FailTyped
<1>8. CASE Restart
  BY <1>8, RestartTyped
<1>9. CASE UNCHANGED vars
  BY <1>9, SameOutages DEF vars, stored, locals, counts, history, Typed, TypeOK, Orders, Ended
<1> QED BY <1>1, <1>2, <1>3, <1>4, <1>5, <1>6, <1>7, <1>8, <1>9 DEF Next

\* Every variable keeps its type, for any network, any number of operators and any bounds.
THEOREM TypeCorrect == Spec => []TypeOK
<1>1. Typed => TypeOK
  BY DEF Typed
<1> QED BY <1>1, TypedInit, TypedStep, PTL DEF Spec

\* An outage is continued only once it has ended, and its continuations are about its own customers: the sum over
\* the outages that are no continuation counts a customer once per interruption, whoever else works on the network.
THEOREM ContinuationsNested == Spec => []ContinuationAfterParent
<1>1. Typed => ContinuationAfterParent
  BY DEF Typed
<1> QED BY <1>1, TypedInit, TypedStep, PTL DEF Spec

-----------------------------------------------------------------------------
(***************************************************************************)
(* One operator.  Between the statements of its maneuver the stored state  *)
(* is behind the graph by exactly what the maneuver is about.              *)
(***************************************************************************)

\* Opening an element darkens, closing one lights.
LEMMA Antitone ==
  ASSUME NEW x, NEW y, x \subseteq y
  PROVE  Supplied(y) \subseteq Supplied(x)
BY DEF Supplied

\* The difference a maneuver reports is the change of what is lit.
LEMMA Difference ==
  ASSUME Typed, NEW o \in Operators, NEW e \in Elements, NEW opening \in BOOLEAN, Maneuver(o, e, opening)
  PROVE  /\ pc'[o] = "info" /\ Opening(o)' = opening /\ order'[o].elem = e
         /\ open' = IF opening THEN open \cup {e} ELSE open \ {e}
         /\ diff'[o] \subseteq Sections
         /\ Lit' = IF opening THEN Lit \ diff'[o] ELSE Lit \cup diff'[o]
         /\ Dark = IF opening THEN Dark' \ diff'[o] ELSE Dark' \cup diff'[o]
         /\ opening => diff'[o] \subseteq Dark'
<1>1. /\ pc' = [pc EXCEPT ![o] = "info"] /\ open' = IF opening THEN open \cup {e} ELSE open \ {e}
      /\ order' = [order EXCEPT ![o] = [elem |-> e, open |-> opening]]
      /\ diff' = [diff EXCEPT ![o] = IF opening THEN Lit \ Supplied(open') ELSE Supplied(open') \ Lit]
  BY DEF Maneuver, Goto
<1>2. order'[o] = [elem |-> e, open |-> opening] /\ pc'[o] = "info"
  BY <1>1 DEF Typed, TypeOK
<1>3. diff'[o] = IF opening THEN Lit \ Lit' ELSE Lit' \ Lit
  BY <1>1 DEF Typed, TypeOK, Lit
<1>4. Lit \subseteq Sections /\ Lit' \subseteq Sections
  BY DEF Lit, Supplied
<1>5. IF opening THEN Lit' \subseteq Lit ELSE Lit \subseteq Lit'
  BY <1>1, Antitone DEF Lit
<1>6. Lit' = IF opening THEN Lit \ diff'[o] ELSE Lit \cup diff'[o]
  BY <1>3, <1>4, <1>5
<1>7. Dark = Sections \ Lit /\ Dark' = Sections \ Lit'
  BY DEF Dark
<1>8. /\ Dark = IF opening THEN Dark' \ diff'[o] ELSE Dark' \cup diff'[o]
      /\ opening => diff'[o] \subseteq Dark'
  BY <1>3, <1>4, <1>5, <1>7
<1>9. diff'[o] \subseteq Sections
  BY <1>3, <1>4
<1>10. Opening(o)' = opening /\ order'[o].elem = e
  BY <1>2 DEF Opening
<1> QED BY <1>1, <1>2, <1>6, <1>8, <1>9, <1>10

\* The maneuver in the graph: from here on the stored state is behind by its difference.
LEMMA ManeuverAlone ==
  ASSUME NEW o \in Operators, Alone(o), NEW e \in Elements, NEW opening \in BOOLEAN, Maneuver(o, e, opening)
  PROVE  Synced(o)' /\ Within(o)'
<1>1. /\ pc[o] = "idle" /\ dbOpen' = dbOpen /\ dbLit' = dbLit /\ outages' = outages
      /\ failed' = failed /\ interrupted' = interrupted
  BY DEF Maneuver, stored, history
<1>2. /\ pc'[o] = "info" /\ Opening(o)' = opening /\ order'[o].elem = e
      /\ open' = IF opening THEN open \cup {e} ELSE open \ {e}
      /\ diff'[o] \subseteq Sections
      /\ Lit' = IF opening THEN Lit \ diff'[o] ELSE Lit \cup diff'[o]
      /\ Dark = IF opening THEN Dark' \ diff'[o] ELSE Dark' \cup diff'[o]
      /\ opening => diff'[o] \subseteq Dark'
  BY Difference DEF Alone
<1>3. (PositionsKept => dbOpen = open) /\ (~failed => dbLit = Lit)
  BY <1>1 DEF Alone, Synced, PositionsKept
<1>4. Synced(o)'
  BY <1>1, <1>2, <1>3 DEF Synced, PositionsKept
<1>5. Recorded(o)' = Dark /\ Recorded(o) = Dark
  BY <1>1, <1>2 DEF Recorded
<1>6. Within(o)'
  BY <1>1, <1>2, <1>5, SameOutages DEF Alone, Within, Affected
<1> QED BY <1>4, <1>6

\* Statement by statement the difference goes to the stored state.
LEMMA StoreAlone ==
  ASSUME NEW o \in Operators, Alone(o), ReadBack(o) \/ StorePosition(o) \/ StoreEnergized(o) \/ RecordManeuver(o)
  PROVE  Synced(o)' /\ Within(o)'
<1> USE DEF Goto, stored, locals, counts, history
<1>1. /\ open' = open /\ outages' = outages /\ order' = order /\ diff' = diff
      /\ failed' = failed /\ interrupted' = interrupted
  BY DEF ReadBack, StorePosition, StoreEnergized, RecordManeuver
<1>2. Lit' = Lit /\ Dark' = Dark /\ Opening(o)' = Opening(o)
  BY <1>1 DEF Lit, Dark, Opening
<1>3. CASE ReadBack(o)
  <2>1. pc[o] = "info" /\ pc'[o] = "store" /\ dbOpen' = dbOpen /\ dbLit' = dbLit
    BY <1>3 DEF ReadBack, Alone, Typed, TypeOK
  <2>2. info'[o] = IF order[o].elem \in Lines THEN Opening(o) ELSE order[o].elem \in open
    BY <1>3 DEF ReadBack, Alone, Typed, TypeOK
  <2>3. PositionsKept => (order[o].elem \in open <=> Opening(o))
    BY <2>1 DEF Alone, Synced, PositionsKept
  <2>4. Opening(o) \in BOOLEAN /\ (order[o].elem \in open) \in BOOLEAN
    BY DEF Alone, Typed, TypeOK, Opening
  <2>5. PositionsKept => (order[o].elem \in open) = Opening(o)
    BY <2>3, <2>4
  <2>6. PositionsKept => info'[o] = Opening(o)
    BY <2>2, <2>5
  <2>7. Synced(o)'
    BY <1>1, <1>2, <2>1, <2>6 DEF Alone, Synced, PositionsKept
  <2>8. Within(o)'
    BY <1>1, <1>2, <2>1, SameOutages DEF Alone, Within, Recorded, Affected
  <2> QED BY <2>7, <2>8
<1>4. CASE StorePosition(o)
  <2>1. /\ pc[o] = "store" /\ pc'[o] = "energize" /\ dbLit' = dbLit
        /\ dbOpen' = IF info[o] THEN dbOpen \cup {order[o].elem} ELSE dbOpen \ {order[o].elem}
    BY <1>4 DEF StorePosition, Alone, Typed, TypeOK
  <2>2. Synced(o)'
    BY <1>1, <1>2, <2>1 DEF Alone, Synced, PositionsKept
  <2>3. Within(o)'
    BY <1>1, <1>2, <2>1, SameOutages DEF Alone, Within, Recorded, Affected
  <2> QED BY <2>2, <2>3
<1>5. CASE StoreEnergized(o)
  <2>1. /\ pc[o] = "energize" /\ pc'[o] = "record" /\ dbOpen' = dbOpen
        /\ dbLit' = IF Opening(o) THEN dbLit \ diff[o] ELSE dbLit \cup diff[o]
    BY <1>5 DEF StoreEnergized, Alone, Typed, TypeOK
  <2>2. Synced(o)'
    BY <1>1, <1>2, <2>1 DEF Alone, Synced, PositionsKept
  <2>3. Within(o)'
    BY <1>1, <1>2, <2>1, SameOutages DEF Alone, Within, Recorded, Affected
  <2> QED BY <2>2, <2>3
<1>6. CASE RecordManeuver(o)
  <2>1. /\ pc[o] = "record" /\ dbOpen' = dbOpen /\ dbLit' = dbLit
        /\ pc'[o] = IF ~Opening(o) THEN "closeOwn" ELSE IF diff[o] # {} THEN "outage" ELSE "idle"
    BY <1>6 DEF RecordManeuver, Alone, Typed, TypeOK
  <2>2. Synced(o)'
    BY <1>1, <1>2, <2>1 DEF Alone, Synced, PositionsKept
  <2>3. Within(o)'
    BY <1>1, <1>2, <2>1, SameOutages DEF Alone, Within, Recorded, Affected
  <2> QED BY <2>2, <2>3
<1> QED BY <1>3, <1>4, <1>5, <1>6

\* The outage of an opening holds its difference, which is dark.
LEMMA OpenAlone ==
  ASSUME NEW o \in Operators, Alone(o), OpenOutage(o)
  PROVE  Synced(o)' /\ Within(o)'
<1> DEFINE it == NewOutage(order[o].elem, diff[o], NoOne)
<1>1. /\ pc[o] = "outage" /\ pc'[o] = "idle" /\ outages' = Append(outages, it)
      /\ open' = open /\ dbOpen' = dbOpen /\ dbLit' = dbLit /\ failed' = failed /\ interrupted' = interrupted
  BY DEF OpenOutage, Goto, history, Alone, Typed, TypeOK
<1>2. Lit' = Lit /\ Dark' = Dark
  BY <1>1 DEF Lit, Dark
<1>3. Synced(o)'
  BY <1>1, <1>2 DEF Alone, Synced, PositionsKept
<1>4. Within(o)'
  <2>1. outages \in Seq(Outage) /\ it.nodes = diff[o]
    BY DEF Alone, Typed, TypeOK, NewOutage
  <2> HIDE DEF it
  <2>2. \A i \in Active' : (i \in Active /\ outages'[i] = outages[i]) \/ outages'[i] = it
    BY <1>1, <2>1 DEF Active
  <2> SUFFICES ASSUME ~interrupted
               PROVE  \A i \in Active' : outages'[i].nodes \subseteq Recorded(o)'
    BY <1>1 DEF Within, Affected
  <2>3. Recorded(o)' = Dark /\ diff[o] \subseteq Dark /\ \A i \in Active : outages[i].nodes \subseteq Dark
    BY <1>1, <1>2 DEF Alone, Within, Recorded, Affected
  <2> QED BY <2>1, <2>2, <2>3
<1> QED BY <1>3, <1>4

\* Ending the element's own outages leaves fewer active ones.
LEMMA CloseAlone ==
  ASSUME NEW o \in Operators, Alone(o), CloseOutages(o)
  PROVE  Synced(o)' /\ Within(o)'
<1> DEFINE own == {i \in Active : outages[i].cause = order[o].elem}
<1>1. /\ pc[o] = "closeOwn" /\ pc'[o] = "touch" /\ End(own) /\ diff' = diff /\ order' = order
      /\ open' = open /\ dbOpen' = dbOpen /\ dbLit' = dbLit /\ failed' = failed /\ interrupted' = interrupted
  BY DEF CloseOutages, Goto, history, Alone, Typed, TypeOK
<1>2. Lit' = Lit /\ Dark' = Dark /\ Opening(o)' = Opening(o)
  BY <1>1 DEF Lit, Dark, Opening
<1>3. own \in SUBSET DOMAIN outages
  BY DEF Active
<1>4. Active' = Active \ own /\ \A i \in DOMAIN outages : outages'[i].nodes = outages[i].nodes
  BY <1>1, <1>3, EndKeeps DEF Alone, Typed
<1> HIDE DEF own
<1>5. Synced(o)'
  BY <1>1, <1>2 DEF Alone, Synced, PositionsKept
<1>6. Within(o)'
  BY <1>1, <1>2, <1>4 DEF Alone, Within, Recorded, Affected, Active
<1> QED BY <1>5, <1>6

\* What is found to be touched are the active outages that hold a section switched on.
LEMMA LookAlone ==
  ASSUME NEW o \in Operators, Alone(o), ActiveOutagesTouching(o)
  PROVE  Synced(o)' /\ Within(o)'
<1>1. /\ pc[o] = "touch" /\ pc'[o] = "closeOther" /\ outages' = outages /\ diff' = diff /\ order' = order
      /\ touched'[o] = {i \in Active : Affected(i) \cap diff[o] # {}}
      /\ open' = open /\ dbOpen' = dbOpen /\ dbLit' = dbLit /\ failed' = failed /\ interrupted' = interrupted
  BY DEF ActiveOutagesTouching, Goto, stored, history, Alone, Typed, TypeOK
<1>2. Lit' = Lit /\ Dark' = Dark /\ Opening(o)' = Opening(o)
  BY <1>1 DEF Lit, Dark, Opening
<1>3. Synced(o)'
  BY <1>1, <1>2 DEF Alone, Synced, PositionsKept
<1>4. Within(o)'
  BY <1>1, <1>2, SameOutages DEF Alone, Within, Recorded, Affected
<1> QED BY <1>3, <1>4

\* Once those are ended too, no active outage holds a section switched on.
LEMMA CloseOtherAlone ==
  ASSUME NEW o \in Operators, Alone(o), CloseOutageIDs(o)
  PROVE  Synced(o)' /\ Within(o)'
<1> DEFINE more == touched[o] \cap Active
<1>1. /\ pc[o] = "closeOther" /\ pc'[o] = "continue" /\ End(more) /\ diff' = diff /\ order' = order
      /\ open' = open /\ dbOpen' = dbOpen /\ dbLit' = dbLit /\ failed' = failed /\ interrupted' = interrupted
  BY DEF CloseOutageIDs, Goto, history, Alone, Typed, TypeOK
<1>2. Lit' = Lit /\ Dark' = Dark /\ Opening(o)' = Opening(o)
  BY <1>1 DEF Lit, Dark, Opening
<1>3. more \in SUBSET DOMAIN outages
  BY DEF Active
<1>4. Active' = Active \ more /\ \A i \in DOMAIN outages : outages'[i].nodes = outages[i].nodes
  BY <1>1, <1>3, EndKeeps DEF Alone, Typed
<1> HIDE DEF more
<1>5. Synced(o)'
  BY <1>1, <1>2 DEF Alone, Synced, PositionsKept
<1>6. Within(o)'
  <2> SUFFICES ASSUME ~interrupted
               PROVE  ~Opening(o) /\ \A i \in Active' : outages[i].nodes \subseteq Dark
    BY <1>1, <1>2, <1>4 DEF Within, Recorded, Affected, Active
  <2>1. /\ ~Opening(o) /\ \A i \in Active : Affected(i) \subseteq Dark \cup diff[o]
        /\ touched[o] = {i \in Active : Affected(i) \cap diff[o] # {}}
    BY <1>1 DEF Alone, Within, Recorded
  <2>2. \A i \in Active' : i \in Active /\ Affected(i) \cap diff[o] = {}
    BY <1>4, <2>1 DEF more
  <2> QED BY <2>1, <2>2 DEF Affected
<1> QED BY <1>5, <1>6

\* A continuation holds what is still dark.
LEMMA ContinueAlone ==
  ASSUME NEW o \in Operators, Alone(o), OpenContinuations(o)
  PROVE  Synced(o)' /\ Within(o)'
<1>0. Typed
  BY DEF Alone
<1>1. PICK i \in closed[o], r \in Seq(Outage) : Continues(o, i, r)
  BY <1>0, Continued
<1>2. /\ closed' = [closed EXCEPT ![o] = closed[o] \ {i}]
      /\ outages' = outages \o r
      /\ \A k \in DOMAIN r : /\ r[k].active /\ r[k].parent = i
                             /\ r[k].nodes = {n \in Affected(i) \ Lit : Isolator(n) = r[k].cause}
      /\ \A a, b \in DOMAIN r : r[a].cause = r[b].cause => a = b
      /\ \A n \in Affected(i) \ Lit : Isolator(n) # NoOne => \E k \in DOMAIN r : r[k].cause = Isolator(n)
  BY <1>1 DEF Continues
<1>3. /\ pc[o] = "continue" /\ pc' = pc /\ diff' = diff /\ order' = order
      /\ open' = open /\ dbOpen' = dbOpen /\ dbLit' = dbLit /\ failed' = failed /\ interrupted' = interrupted
  BY DEF OpenContinuations, history
<1>4. Lit' = Lit /\ Dark' = Dark /\ Opening(o)' = Opening(o)
  BY <1>3 DEF Lit, Dark, Opening
<1>5. Synced(o)'
  BY <1>3, <1>4 DEF Alone, Synced, PositionsKept
<1>6. /\ \A j \in DOMAIN outages : outages'[j] = outages[j]
      /\ \A k \in DOMAIN r : outages'[Len(outages) + k] = r[k]
      /\ Active' = Active \cup {Len(outages) + k : k \in DOMAIN r}
      /\ Active \subseteq DOMAIN outages
  BY <1>0, <1>2, AddKeeps DEF Typed, TypeOK
<1>7. outages[i].nodes \subseteq Sections
  <2>1. i \in DOMAIN outages /\ outages \in Seq(Outage)
    BY <1>0 DEF Typed, TypeOK
  <2>2. outages[i] \in Outage
    BY <2>1
  <2> QED BY <2>2 DEF Outage
<1>8. \A k \in DOMAIN r : r[k].nodes \subseteq Dark
  BY <1>2, <1>7 DEF Dark, Affected
<1>9. Within(o)'
  BY <1>3, <1>4, <1>6, <1>8 DEF Alone, Within, Recorded, Affected
<1> QED BY <1>5, <1>9

\* Nothing is left to continue.
LEMMA FinishAlone ==
  ASSUME NEW o \in Operators, Alone(o), Finish(o)
  PROVE  Synced(o)' /\ Within(o)'
<1>1. /\ pc[o] = "continue" /\ pc'[o] = "idle" /\ outages' = outages /\ diff' = diff /\ order' = order
      /\ open' = open /\ dbOpen' = dbOpen /\ dbLit' = dbLit /\ failed' = failed /\ interrupted' = interrupted
  BY DEF Finish, Goto, stored, locals, history, Alone, Typed, TypeOK
<1>2. Lit' = Lit /\ Dark' = Dark /\ Opening(o)' = Opening(o)
  BY <1>1 DEF Lit, Dark, Opening
<1> QED BY <1>1, <1>2, SameOutages DEF Alone, Synced, PositionsKept, Within, Recorded, Affected

\* A restart takes the stored positions, which are the graph's when no maneuver was under way.
LEMMA RestartAlone ==
  ASSUME NEW o \in Operators, Alone(o), Restart
  PROVE  Synced(o)' /\ Within(o)' /\ (~interrupted' => pc[o] = "idle" /\ ~interrupted /\ Dark' = Dark)
<1>1. /\ open' = dbOpen /\ dbOpen' = dbOpen /\ pc'[o] = "idle" /\ outages' = outages
      /\ failed' = TRUE \/ (failed' = FALSE /\ dbLit' = Supplied(dbOpen))
  BY DEF Restart
<1>2. ~failed' => Lit' = dbLit'
  BY <1>1 DEF Lit
<1>3. Synced(o)'
  BY <1>1, <1>2 DEF Synced, PositionsKept
<1>4. ~interrupted' => ~interrupted /\ pc[o] = "idle"
  BY DEF Restart
<1>5. ~interrupted' => dbOpen = open
  BY <1>4 DEF Alone, Synced, PositionsKept
<1>6. ~interrupted' => Dark' = Dark
  BY <1>1, <1>5 DEF Dark, Lit
<1>7. Within(o)'
  BY <1>1, <1>4, <1>6, SameOutages DEF Alone, Within, Recorded, Affected
<1> QED BY <1>3, <1>4, <1>6, <1>7

-----------------------------------------------------------------------------
(***************************************************************************)
(* What holds a dark section.  Besides the active outages these are, while *)
(* a closing maneuver runs, the outages it has ended and not continued.    *)
(***************************************************************************)

\* Where only switches are opened on the normal path, a dark section has an isolator.
LEMMA DarkHasIsolator ==
  ASSUME OnlySwitches, NEW n \in Dark
  PROVE  Isolator(n) # NoOne
<1>1. n \in Sections
  BY DEF Dark
<1> DEFINE up == {Upstream[n][i] : i \in DOMAIN Upstream[n]}
<1>2. up \in Paths[n] /\ up \cap Lines = {}
  BY <1>1 DEF OnlySwitches
<1>3. up \cap open # {}
  <2> HIDE DEF up
  <2> QED BY <1>1, <1>2 DEF Dark, Lit, Supplied
<1>4. OpenNodes(n) # {}
  BY <1>2, <1>3 DEF OpenNodes
<1>5. Isolator(n) \in Elements
  BY <1>1, <1>4, IsolatorIn
<1> QED BY <1>5, NetworkAssumption

\* Two tables with the same holders of the recorded sections.
LEMMA SameSole ==
  ASSUME NEW o \in Operators, Covered(o),
         ~interrupted' => ~interrupted /\ Recorded(o)' \subseteq Recorded(o) /\ Holders(o)' = Holders(o),
         \A i \in Holders(o) : outages'[i].nodes = outages[i].nodes
  PROVE  Covered(o)'
<1> SUFFICES ASSUME ~interrupted', NEW n \in Recorded(o)'
             PROVE  \E i \in Holders(o)' : /\ n \in outages'[i].nodes
                                           /\ \A j \in Holders(o)' : n \in outages'[j].nodes => j = i
  BY DEF Covered, Sole, Affected
<1>1. PICK i \in Holders(o) : n \in outages[i].nodes /\ \A j \in Holders(o) : n \in outages[j].nodes => j = i
  BY DEF Covered, Sole, Affected
<1> QED BY <1>1

\* Steps that change no outage keep the holders, and what is recorded.
LEMMA QuietCovered ==
  ASSUME NEW o \in Operators, Alone(o), Covered(o),
         \/ \E e \in Elements, opening \in BOOLEAN : Maneuver(o, e, opening)
         \/ ReadBack(o) \/ StorePosition(o) \/ StoreEnergized(o) \/ RecordManeuver(o) \/ ActiveOutagesTouching(o) \/ Finish(o)
  PROVE  Covered(o)'
<1>1. outages' = outages /\ interrupted' = interrupted /\ closed' = closed
  BY DEF Maneuver, ReadBack, StorePosition, StoreEnergized, RecordManeuver, ActiveOutagesTouching, Finish,
         stored, locals, history
<1>2. Active' = Active
  BY <1>1 DEF Active
<1>3. ~interrupted => Recorded(o)' = Recorded(o) /\ Holders(o)' = Holders(o)
  <2>1. CASE \E e \in Elements, opening \in BOOLEAN : Maneuver(o, e, opening)
    <3>1. PICK e \in Elements, opening \in BOOLEAN : Maneuver(o, e, opening)
      BY <2>1
    <3>2. /\ pc'[o] = "info" /\ Opening(o)' = opening
          /\ Dark = IF opening THEN Dark' \ diff'[o] ELSE Dark' \cup diff'[o]
      BY <3>1, Difference DEF Alone
    <3>3. pc[o] = "idle"
      BY <3>1 DEF Maneuver
    <3> QED BY <1>2, <3>2, <3>3 DEF Recorded, Holders
  <2>2. CASE \/ ReadBack(o) \/ StorePosition(o) \/ StoreEnergized(o) \/ RecordManeuver(o)
             \/ ActiveOutagesTouching(o) \/ Finish(o)
    <3>1. open' = open /\ diff' = diff /\ order' = order
      BY <2>2 DEF ReadBack, StorePosition, StoreEnergized, RecordManeuver, ActiveOutagesTouching, Finish, locals
    <3>2. Dark' = Dark /\ Opening(o)' = Opening(o)
      BY <3>1 DEF Dark, Lit, Opening
    <3>3. CASE ReadBack(o) \/ StorePosition(o) \/ StoreEnergized(o)
      <4>1. pc[o] \in {"info", "store", "energize"} /\ pc'[o] \in {"store", "energize", "record"}
        BY <3>3 DEF ReadBack, StorePosition, StoreEnergized, Goto, Alone, Typed, TypeOK
      <4> QED BY <1>2, <3>1, <3>2, <4>1 DEF Recorded, Holders
    <3>4. CASE RecordManeuver(o)
      <4>1. pc[o] = "record" /\ pc'[o] = IF ~Opening(o) THEN "closeOwn" ELSE IF diff[o] # {} THEN "outage" ELSE "idle"
        BY <3>4 DEF RecordManeuver, Goto, Alone, Typed, TypeOK
      <4> QED BY <1>2, <3>1, <3>2, <4>1 DEF Recorded, Holders
    <3>5. CASE ActiveOutagesTouching(o)
      <4>1. pc[o] = "touch" /\ pc'[o] = "closeOther"
        BY <3>5 DEF ActiveOutagesTouching, Goto, Alone, Typed, TypeOK
      <4>2. ~interrupted => ~Opening(o)
        BY <4>1 DEF Alone, Within
      <4> QED BY <1>1, <1>2, <3>1, <3>2, <4>1 DEF Recorded, Holders
    <3>6. CASE Finish(o)
      <4>1. pc[o] = "continue" /\ pc'[o] = "idle" /\ closed[o] = {}
        BY <3>6 DEF Finish, Goto, Alone, Typed, TypeOK
      <4> QED BY <1>2, <3>1, <3>2, <4>1 DEF Recorded, Holders
    <3> QED BY <2>2, <3>3, <3>4, <3>5, <3>6
  <2> QED BY <2>1, <2>2
<1> QED BY <1>1, <1>3, SameSole

\* The outage of an opening becomes the only holder of what went dark.
LEMMA OpenCovered ==
  ASSUME NEW o \in Operators, Alone(o), Covered(o), OpenOutage(o)
  PROVE  Covered(o)'
<1> DEFINE it == NewOutage(order[o].elem, diff[o], NoOne)
<1>1. /\ pc[o] = "outage" /\ pc'[o] = "idle" /\ outages' = Append(outages, it)
      /\ open' = open /\ interrupted' = interrupted
  BY DEF OpenOutage, Goto, history, Alone, Typed, TypeOK
<1>2. outages \in Seq(Outage) /\ it.nodes = diff[o] /\ it.active = TRUE
  BY DEF Alone, Typed, TypeOK, NewOutage
<1> HIDE DEF it
<1> DEFINE new == Len(outages) + 1
<1>3. Dark' = Dark
  BY <1>1 DEF Dark, Lit
<1>4. new \notin DOMAIN outages /\ outages'[new] = it /\ \A i \in DOMAIN outages : outages'[i] = outages[i]
  BY <1>1, <1>2
<1>5. DOMAIN outages' = DOMAIN outages \cup {new}
  BY <1>1, <1>2
<1>6. Active' = Active \cup {new} /\ Active \subseteq DOMAIN outages
  BY <1>2, <1>4, <1>5 DEF Active
<1> HIDE DEF new
<1> SUFFICES ASSUME ~interrupted, NEW n \in Dark
             PROVE  \E i \in Active' : n \in outages'[i].nodes /\ \A j \in Active' : n \in outages'[j].nodes => j = i
  BY <1>1, <1>3 DEF Covered, Sole, Affected, Recorded, Holders
<1>7. /\ \A i \in Active : outages[i].nodes \subseteq Dark \ diff[o]
      /\ \A m \in Dark \ diff[o] : \E i \in Active : /\ m \in outages[i].nodes
                                                     /\ \A j \in Active : m \in outages[j].nodes => j = i
  <2>1. Opening(o) /\ Recorded(o) = Dark \ diff[o] /\ Holders(o) = Active
    BY <1>1 DEF Alone, Within, Recorded, Holders
  <2>2. \A i \in Active : outages[i].nodes \subseteq Dark \ diff[o]
    BY <2>1 DEF Alone, Within, Affected
  <2>3. \A m \in Dark \ diff[o] : Sole(m, Active)
    BY <2>1 DEF Covered
  <2> QED BY <2>2, <2>3 DEF Sole, Affected
<1>8. CASE n \in diff[o]
  BY <1>2, <1>4, <1>6, <1>7, <1>8
<1>9. CASE n \notin diff[o]
  <2>1. PICK i \in Active : n \in outages[i].nodes /\ \A j \in Active : n \in outages[j].nodes => j = i
    BY <1>7, <1>9
  <2>2. n \in outages'[i].nodes /\ \A j \in Active' : n \in outages'[j].nodes => j = i
    BY <1>2, <1>4, <1>6, <1>9, <2>1
  <2> QED BY <1>6, <2>2
<1> QED BY <1>8, <1>9

\* An outage that ends is held for its continuation.
LEMMA CloseCovered ==
  ASSUME NEW o \in Operators, Alone(o), Covered(o), CloseOutages(o) \/ CloseOutageIDs(o)
  PROVE  Covered(o)'
<1>1. open' = open /\ diff' = diff /\ order' = order /\ interrupted' = interrupted
  BY DEF CloseOutages, CloseOutageIDs, history
<1>2. Dark' = Dark /\ Opening(o)' = Opening(o)
  BY <1>1 DEF Dark, Lit, Opening
<1>3. CASE CloseOutages(o)
  <2> DEFINE own == {i \in Active : outages[i].cause = order[o].elem}
  <2>1. pc[o] = "closeOwn" /\ pc'[o] = "touch" /\ End(own) /\ closed'[o] = own
    BY <1>3 DEF CloseOutages, Goto, Alone, Typed, TypeOK
  <2>2. own \subseteq Active /\ own \in SUBSET DOMAIN outages
    BY DEF Active
  <2>3. Active' = Active \ own /\ \A i \in DOMAIN outages : outages'[i].nodes = outages[i].nodes
    BY <2>1, <2>2, EndKeeps DEF Alone, Typed
  <2> HIDE DEF own
  <2>4. Holders(o) = Active /\ Holders(o)' = Active /\ Active \subseteq DOMAIN outages
    BY <2>1, <2>2, <2>3 DEF Holders, Active
  <2>5. ~interrupted => Recorded(o)' = Recorded(o)
    BY <1>1, <1>2, <2>1 DEF Alone, Within, Recorded
  <2> QED BY <1>1, <2>3, <2>4, <2>5, SameSole
<1>4. CASE CloseOutageIDs(o)
  <2> DEFINE more == touched[o] \cap Active
  <2>1. pc[o] = "closeOther" /\ pc'[o] = "continue" /\ End(more) /\ closed'[o] = closed[o] \cup more
    BY <1>4 DEF CloseOutageIDs, Goto, Alone, Typed, TypeOK
  <2>2. more \subseteq Active /\ more \in SUBSET DOMAIN outages
    BY DEF Active
  <2>3. Active' = Active \ more /\ \A i \in DOMAIN outages : outages'[i].nodes = outages[i].nodes
    BY <2>1, <2>2, EndKeeps DEF Alone, Typed
  <2> HIDE DEF more
  <2>4. Holders(o) = Active \cup closed[o] /\ Holders(o)' = Active \cup closed[o]
    BY <2>1, <2>2, <2>3 DEF Holders
  <2>5. Holders(o) \subseteq DOMAIN outages
    BY <2>4 DEF Active, Alone, Typed, TypeOK
  <2>6. ~interrupted => Recorded(o)' \subseteq Recorded(o)
    BY <1>1, <1>2, <2>1 DEF Alone, Within, Recorded
  <2> QED BY <1>1, <2>3, <2>4, <2>5, <2>6, SameSole
<1> QED BY <1>3, <1>4

\* The continuations of an outage share what it still held: each section goes to the one of its isolator.
LEMMA ContinueCovered ==
  ASSUME OnlySwitches, NEW o \in Operators, Alone(o), Covered(o), OpenContinuations(o)
  PROVE  Covered(o)'
<1>0. Typed
  BY DEF Alone
<1>1. PICK i \in closed[o], r \in Seq(Outage) : Continues(o, i, r)
  BY <1>0, Continued
<1>2. /\ closed' = [closed EXCEPT ![o] = closed[o] \ {i}]
      /\ outages' = outages \o r
      /\ \A k \in DOMAIN r : /\ r[k].active /\ r[k].parent = i
                             /\ r[k].nodes = {n \in Affected(i) \ Lit : Isolator(n) = r[k].cause}
      /\ \A a, b \in DOMAIN r : r[a].cause = r[b].cause => a = b
      /\ \A n \in Affected(i) \ Lit : Isolator(n) # NoOne => \E k \in DOMAIN r : r[k].cause = Isolator(n)
  BY <1>1 DEF Continues
<1>3. /\ pc[o] = "continue" /\ pc' = pc /\ open' = open /\ interrupted' = interrupted
  BY DEF OpenContinuations, history
<1>4. Lit' = Lit /\ Dark' = Dark
  BY <1>3 DEF Lit, Dark
<1>5. /\ \A j \in DOMAIN outages : outages'[j] = outages[j]
      /\ \A k \in DOMAIN r : outages'[Len(outages) + k] = r[k] /\ Len(outages) + k \notin DOMAIN outages
      /\ Active' = Active \cup {Len(outages) + k : k \in DOMAIN r}
      /\ Active \subseteq DOMAIN outages
  BY <1>0, <1>2, AddKeeps DEF Typed, TypeOK
<1>6. i \in DOMAIN outages /\ i \notin Active /\ closed[o] \subseteq DOMAIN outages /\ closed'[o] = closed[o] \ {i}
  BY <1>0, <1>2 DEF Typed, TypeOK, Ended
<1> DEFINE New == {Len(outages) + k : k \in DOMAIN r}
           H  == Active \cup closed[o]
           HH == New \cup (H \ {i})
<1>7. Holders(o) = H /\ Holders(o)' = HH /\ H \subseteq DOMAIN outages
  BY <1>3, <1>5, <1>6 DEF Holders
<1>8. \A x \in New : \E k \in DOMAIN r : x = Len(outages) + k /\ outages'[x] = r[k]
  BY <1>5
<1>9. \A k \in DOMAIN r : Len(outages) + k \in New /\ outages'[Len(outages) + k] = r[k]
  BY <1>5
<1>10. \A x \in H : outages'[x] = outages[x]
  BY <1>5, <1>7
<1> HIDE DEF New, H
<1> SUFFICES ASSUME ~interrupted, NEW n \in Dark
             PROVE  \E x \in HH : n \in outages'[x].nodes /\ \A y \in HH : n \in outages'[y].nodes => y = x
  BY <1>3, <1>4, <1>7 DEF Covered, Sole, Affected, Recorded
<1>11. PICK h \in H : n \in outages[h].nodes /\ \A y \in H : n \in outages[y].nodes => y = h
  BY <1>3, <1>7 DEF Covered, Sole, Affected, Recorded
<1>12. n \notin Lit
  BY DEF Dark
<1>13. CASE h = i
  <2>1. PICK k \in DOMAIN r : r[k].cause = Isolator(n)
    BY <1>2, <1>11, <1>12, <1>13, DarkHasIsolator DEF Affected
  <2>2. n \in r[k].nodes
    BY <1>2, <1>11, <1>12, <1>13, <2>1 DEF Affected
  <2>3. \A l \in DOMAIN r : n \in r[l].nodes => l = k
    <3> SUFFICES ASSUME NEW l \in DOMAIN r, n \in r[l].nodes PROVE l = k
      OBVIOUS
    <3>1. Isolator(n) = r[l].cause
      BY <1>2
    <3> QED BY <1>2, <2>1, <3>1
  <2> DEFINE x == Len(outages) + k
  <2>4. x \in New /\ outages'[x] = r[k]
    BY <1>9
  <2>5. \A y \in New : n \in outages'[y].nodes => y = x
    BY <1>8, <2>3
  <2>6. \A y \in H \ {i} : n \notin outages'[y].nodes
    BY <1>10, <1>11, <1>13
  <2> HIDE DEF x
  <2> QED BY <2>2, <2>4, <2>5, <2>6
<1>14. CASE h # i
  <2>1. n \notin outages[i].nodes
    <3>1. i \in H
      BY DEF H
    <3> QED BY <1>11, <1>14, <3>1
  <2>2. \A y \in New : n \notin outages'[y].nodes
    BY <1>2, <1>8, <2>1 DEF Affected
  <2>3. h \in HH /\ n \in outages'[h].nodes
    BY <1>10, <1>11, <1>14
  <2>4. \A y \in HH : n \in outages'[y].nodes => y = h
    BY <1>10, <1>11, <2>2
  <2> QED BY <2>3, <2>4
<1> QED BY <1>13, <1>14

\* A restart between maneuvers changes no holder.
LEMMA RestartCovered ==
  ASSUME NEW o \in Operators, Alone(o), Covered(o), Restart
  PROVE  Covered(o)'
<1>1. ~interrupted' => pc[o] = "idle" /\ ~interrupted /\ Dark' = Dark
  BY RestartAlone
<1>2. pc'[o] = "idle" /\ outages' = outages
  BY DEF Restart
<1>3. Active' = Active
  BY <1>2 DEF Active
<1>4. ~interrupted' => ~interrupted /\ Recorded(o)' = Recorded(o) /\ Holders(o)' = Holders(o)
  BY <1>1, <1>2, <1>3 DEF Recorded, Holders
<1> QED BY <1>2, <1>4, SameSole

-----------------------------------------------------------------------------
(***************************************************************************)
(* The theorems.                                                           *)
(***************************************************************************)

\* A single operator keeps the stored state behind the graph by its own maneuver and no more.
LEMMA AloneInit ==
  ASSUME NEW o \in Operators, Init
  PROVE  Alone(o) /\ Covered(o)
<1>1. /\ pc[o] = "idle" /\ dbOpen = open /\ dbLit = Sections /\ outages = <<>> /\ DOMAIN outages = {}
      /\ ~failed /\ ~interrupted /\ Supplied(open) = Sections
  BY DEF Init
<1>2. Dark = {} /\ Lit = Sections
  BY <1>1 DEF Dark, Lit
<1>3. Synced(o) /\ Within(o)
  BY <1>1, <1>2 DEF Synced, PositionsKept, Within, Active
<1>4. Recorded(o) = {}
  BY <1>1, <1>2 DEF Recorded
<1> QED BY <1>1, <1>3, <1>4, TypedInit DEF Alone, Covered

\* Every step of the only operator keeps it.
LEMMA AloneStep ==
  ASSUME NEW o, Operators = {o}, Alone(o), [Next]_vars
  PROVE  Alone(o)'
<1>1. o \in Operators /\ Typed /\ Typed'
  BY TypedStep DEF Alone
<1>2. Synced(o)' /\ Within(o)'
  <2>1. ASSUME NEW e \in Elements, NEW opening \in BOOLEAN, Maneuver(o, e, opening) PROVE Synced(o)' /\ Within(o)'
    BY <1>1, <2>1, ManeuverAlone
  <2>2. CASE ReadBack(o) \/ StorePosition(o) \/ StoreEnergized(o) \/ RecordManeuver(o)
    BY <1>1, <2>2, StoreAlone
  <2>3. CASE OpenOutage(o)
    BY <1>1, <2>3, OpenAlone
  <2>4. CASE CloseOutages(o)
    BY <1>1, <2>4, CloseAlone
  <2>5. CASE ActiveOutagesTouching(o)
    BY <1>1, <2>5, LookAlone
  <2>6. CASE CloseOutageIDs(o)
    BY <1>1, <2>6, CloseOtherAlone
  <2>7. CASE OpenContinuations(o)
    BY <1>1, <2>7, ContinueAlone
  <2>8. CASE Finish(o)
    BY <1>1, <2>8, FinishAlone
  <2>9. CASE StatementFails(o)
    BY <2>9 DEF StatementFails, Synced, PositionsKept, Within
  <2>10. CASE Restart
    BY <1>1, <2>10, RestartAlone
  <2>11. CASE UNCHANGED vars
    <3>1. /\ open' = open /\ dbOpen' = dbOpen /\ dbLit' = dbLit /\ outages' = outages /\ pc' = pc /\ order' = order
          /\ diff' = diff /\ info' = info /\ touched' = touched /\ closed' = closed
          /\ failed' = failed /\ interrupted' = interrupted
      BY <2>11 DEF vars, stored, locals, history
    <3>2. Lit' = Lit /\ Dark' = Dark /\ Opening(o)' = Opening(o)
      BY <3>1 DEF Lit, Dark, Opening
    <3> QED BY <3>1, <3>2, SameOutages DEF Alone, Synced, PositionsKept, Within, Recorded, Affected
  <2> QED BY <2>1, <2>2, <2>3, <2>4, <2>5, <2>6, <2>7, <2>8, <2>9, <2>10, <2>11 DEF Next
<1> QED BY <1>1, <1>2 DEF Alone

\* And so it does what holds the dark sections.
LEMMA CoveredStep ==
  ASSUME OnlySwitches, NEW o, Operators = {o}, Alone(o), Covered(o), [Next]_vars
  PROVE  Covered(o)'
<1>1. o \in Operators
  OBVIOUS
<1>2. CASE \/ \E e \in Elements, opening \in BOOLEAN : Maneuver(o, e, opening)
           \/ ReadBack(o) \/ StorePosition(o) \/ StoreEnergized(o) \/ RecordManeuver(o)
           \/ ActiveOutagesTouching(o) \/ Finish(o)
  BY <1>1, <1>2, QuietCovered
<1>3. CASE OpenOutage(o)
  BY <1>1, <1>3, OpenCovered
<1>4. CASE CloseOutages(o) \/ CloseOutageIDs(o)
  BY <1>1, <1>4, CloseCovered
<1>5. CASE OpenContinuations(o)
  BY <1>1, <1>5, ContinueCovered
<1>6. CASE StatementFails(o)
  BY <1>6 DEF StatementFails, Covered
<1>7. CASE Restart
  BY <1>1, <1>7, RestartCovered
<1>8. CASE UNCHANGED vars
  <2>1. /\ open' = open /\ outages' = outages /\ pc' = pc /\ order' = order /\ diff' = diff /\ closed' = closed
        /\ interrupted' = interrupted
    BY <1>8 DEF vars, stored, locals, history
  <2>2. Recorded(o)' = Recorded(o) /\ Holders(o)' = Holders(o)
    BY <2>1 DEF Recorded, Holders, Dark, Lit, Opening, Active
  <2> QED BY <1>1, <2>1, <2>2, SameSole
<1> QED BY <1>2, <1>3, <1>4, <1>5, <1>6, <1>7, <1>8 DEF Next

\* With one operator, at rest and with no failed statement since the last restart, the stored positions and flags
\* are those of the graph, for any network: every maneuver stores what it changed, and a restart puts it right.
THEOREM StoredAsHeld ==
  ASSUME NEW o, Operators = {o}
  PROVE  Spec => []StoredInSync
<1>1. Init => Alone(o)
  BY AloneInit
<1>2. Alone(o) /\ [Next]_vars => Alone(o)'
  BY AloneStep
<1>3. Alone(o) => StoredInSync
  BY DEF Alone, Synced, PositionsKept, StoredInSync, AtRest
<1> QED BY <1>1, <1>2, <1>3, PTL DEF Spec

\* With one operator, at rest and with no maneuver cut short, an active outage holds dark sections only, for any
\* network: whatever path a section is supplied by again, the outage that holds it ends.
THEOREM OutagesDark ==
  ASSUME NEW o, Operators = {o}
  PROVE  Spec => []ActiveOutagesDark
<1>1. Init => Alone(o)
  BY AloneInit
<1>2. Alone(o) /\ [Next]_vars => Alone(o)'
  BY AloneStep
<1>3. Alone(o) => ActiveOutagesDark
  BY DEF Alone, Within, Recorded, ActiveOutagesDark, AtRest
<1> QED BY <1>1, <1>2, <1>3, PTL DEF Spec

\* If moreover only switches are opened on a section's normal path, and that path supplies it, each dark section is
\* in exactly one active outage: continuations take over all that an ended outage leaves dark, and share nothing.
THEOREM CoveredOnce ==
  ASSUME NEW o, Operators = {o}, OnlySwitches
  PROVE  Spec => []DarkCoveredOnce
<1>1. Init => Alone(o) /\ Covered(o)
  BY AloneInit
<1>2. Alone(o) /\ Covered(o) /\ [Next]_vars => Alone(o)' /\ Covered(o)'
  BY AloneStep, CoveredStep
<1>3. Alone(o) /\ Covered(o) => DarkCoveredOnce
  <2> SUFFICES ASSUME Alone(o), Covered(o), AtRest, ~interrupted, NEW n \in Dark
               PROVE  Cardinality({i \in Active : n \in Affected(i)}) = 1
    BY DEF DarkCoveredOnce
  <2>1. Recorded(o) = Dark /\ Holders(o) = Active
    BY DEF AtRest, Recorded, Holders
  <2>2. Sole(n, Active)
    BY <2>1 DEF Covered
  <2>3. PICK i \in Active : n \in Affected(i) /\ \A j \in Active : n \in Affected(j) => j = i
    BY <2>2 DEF Sole
  <2>4. {j \in Active : n \in Affected(j)} = {i}
    BY <2>3
  <2> QED BY <2>4, FS_Singleton
<1> QED BY <1>1, <1>2, <1>3, PTL DEF Spec
=============================================================================
