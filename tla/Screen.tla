---- MODULE Screen ----
(***************************************************************************)
(* What every page of the web client has in common.  A page keeps React    *)
(* state, sends requests with api (src/frontend/lib/api.ts) and takes      *)
(* their answers in whatever order they come; several may be on their way, *)
(* and nothing but the page's own code tells a late answer from a new one. *)
(***************************************************************************)
EXTENDS Naturals, Sequences, FiniteSets

CONSTANTS
  Nil,
  MaxCalls  \* bound: requests on their way at once

VARIABLES
  ui,     \* React state and refs of the page
  calls,  \* requests on their way
  world   \* the server and the rest of the outside

vars == <<ui, calls, world>>

\* A request leaves; it is a record with the field op.
Send(c) == Cardinality(calls) < MaxCalls /\ calls' = calls \cup {c}
SendAll(S) == Cardinality(calls \cup S) <= MaxCalls /\ calls' = calls \cup S
Got(c) == calls' = calls \ {c}

\* The elements of s that are in S, in their order: what filter() leaves of an array.
Only(s, S) ==
  LET kept[n \in 0..Len(s)] ==
        IF n = 0 THEN <<>> ELSE IF s[n] \in S THEN Append(kept[n - 1], s[n]) ELSE kept[n - 1]
  IN kept[Len(s)]

\* Only the page changes.
Show(u) == ui' = u /\ UNCHANGED <<calls, world>>
====
