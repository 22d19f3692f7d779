---- MODULE AiChat ----
(***************************************************************************)
(* The conversation with the assistant                                     *)
(* (src/frontend/components/ai/AiAssistant.tsx): questions whose answers   *)
(* are streamed, the provider and the model that answer, the history kept  *)
(* in the browser, and the settings of the providers.  A question is       *)
(* known by its number, a text by the questions its words answer.          *)
(***************************************************************************)
EXTENDS Screen

CONSTANTS
  Providers,
  MaxTurns  \* bound: what the user does

MaxKept == 2  \* bound: messages kept, 60 in the code
Recent(s) == IF Len(s) > MaxKept THEN SubSeq(s, Len(s) - MaxKept + 1, Len(s)) ELSE s
Turn == world.turns < MaxTurns /\ world' = [world EXCEPT !.turns = @ + 1]

Question(n, p) == [role |-> "user", about |-> {n}, by |-> p, error |-> FALSE]
Empty == [role |-> "assistant", about |-> {}, by |-> Nil, error |-> FALSE]

\* The page as it is entered, with the history of the browser.
Entered(kept) ==
  [loaded |-> FALSE, known |-> {}, provider |-> Nil, model |-> Nil, context |-> TRUE, messages |-> kept, busy |-> FALSE,
   draft |-> Nil]

Init ==
  \E S \in SUBSET Providers, p \in Providers : \E h \in {<<>>, <<Question(0, p), [Empty EXCEPT !.about = {0}, !.by = p]>>} :
    /\ world = [configured |-> S, default |-> p, pref |-> Nil, context |-> TRUE, kept |-> h, turns |-> 0]
    /\ ui = Entered(h)
    /\ calls = {[op |-> "providers"]}

\* The history is written whenever no answer is awaited.
Said(u, w) == ui' = u /\ world' = IF u.busy THEN w ELSE [w EXCEPT !.kept = Recent(u.messages)]

----------------------------------------------------------------------------
(* Providers and settings *)

\* The one preferred before, the default, any that is configured, else the first.
Pick ==
  LET wanted == {world.pref} \cap world.configured
      default == {world.default} \cap world.configured
  IN IF wanted # {} THEN wanted ELSE IF default # {} THEN default
     ELSE IF world.configured # {} THEN world.configured ELSE Providers

\* The list of providers came: the one that answers is chosen again, and its model.
loadProviders ==
  \E c \in calls, p \in Pick :
    /\ c.op = "providers" /\ Got(c) /\ UNCHANGED world
    /\ ui' = [ui EXCEPT !.loaded = TRUE, !.known = world.configured, !.provider = p, !.model = p, !.context = world.context]

changeProvider ==
  \E p \in Providers \ {ui.provider} :
    /\ ui.loaded /\ world.turns < MaxTurns
    /\ ui' = [ui EXCEPT !.provider = p, !.model = p]
    /\ world' = [world EXCEPT !.turns = @ + 1, !.pref = p, !.context = ui.context]
    /\ UNCHANGED calls
SetModel == ui.loaded /\ ui.model # "typed" /\ Turn /\ ui' = [ui EXCEPT !.model = "typed"] /\ UNCHANGED calls
SetContext ==
  /\ ui.loaded /\ world.turns < MaxTurns
  /\ ui' = [ui EXCEPT !.context = ~@]
  /\ world' = [world EXCEPT !.turns = @ + 1, !.pref = ui.provider, !.context = ~ui.context]
  /\ UNCHANGED calls

\* The dialog of the administrator: keys typed or cleared, saved together.
AiSettings == ui.loaded /\ ui.draft = Nil /\ Turn /\ ui' = [ui EXCEPT !.draft = [p \in Providers |-> "kept"]] /\ UNCHANGED calls
SetKey ==
  \E p \in Providers, k \in {"typed", "cleared"} :
    ui.draft # Nil /\ Turn /\ ui' = [ui EXCEPT !.draft = [@ EXCEPT ![p] = k]] /\ UNCHANGED calls
CloseSettings == ui.draft # Nil /\ Show([ui EXCEPT !.draft = Nil])
saveAll ==
  LET changed == {p \in Providers : ui.draft[p] # "kept"}
  IN /\ ui.draft # Nil
     /\ ~ \E c \in calls : c.op = "save"
     /\ IF changed = {} THEN ui' = [ui EXCEPT !.draft = Nil] /\ UNCHANGED calls
        ELSE Send([op |-> "save", keys |-> ui.draft]) /\ UNCHANGED ui
     /\ UNCHANGED world

\* The dialog closes, and the providers are read again.
onSaved ==
  \E c \in calls :
    /\ c.op = "save"
    /\ calls' = (calls \ {c}) \cup {[op |-> "providers"]}
    /\ world' = [world EXCEPT !.configured = {p \in Providers : c.keys[p] = "typed" \/ (p \in @ /\ c.keys[p] = "kept")}]
    /\ ui' = [ui EXCEPT !.draft = Nil]
Failed ==
  \E c \in calls :
    /\ c.op \in {"save", "providers"}
    /\ Got(c) /\ UNCHANGED world
    /\ ui' = IF c.op = "providers" THEN [ui EXCEPT !.loaded = TRUE] ELSE ui

----------------------------------------------------------------------------
(* The conversation *)

\* mutant: A question may be asked while another is answered.
MayAsk_Always == ui.loaded /\ ui.provider \in ui.known

\* One answer at a time, and only of a provider that had a key when the list was read.
MayAsk == ui.loaded /\ ~ui.busy /\ ui.provider \in ui.known

\* The question, typed or one of those suggested, and an empty answer to be filled.
send ==
  LET n == world.turns + 1
  IN /\ MayAsk /\ Turn
     /\ Send([op |-> "chat", n |-> n, by |-> ui.provider])
     /\ ui' = [ui EXCEPT !.messages = @ \o <<Question(n, ui.provider), Empty>>, !.busy = TRUE]

\* The last message grows.
Last == ui.messages[Len(ui.messages)]
patchLast(m) == [ui EXCEPT !.messages[Len(ui.messages)] = m]

Delta ==
  \E c \in calls :
    /\ c.op = "chat"
    /\ ui' = patchLast([Last EXCEPT !.about = @ \cup {c.n}]) /\ UNCHANGED <<calls, world>>

\* The answer ends: whole, signed with the provider that was asked; with an error of the
\* provider after its words; cut off, which leaves the error alone; or stopped.
Ended ==
  \E c \in calls :
    /\ c.op = "chat" /\ Got(c)
    /\ \E u \in {patchLast([Last EXCEPT !.by = c.by]),
                 patchLast([Last EXCEPT !.error = TRUE]),
                 patchLast([Last EXCEPT !.error = TRUE, !.about = {}]),
                 ui} : Said([u EXCEPT !.busy = FALSE], world)

NewChat == ~ui.busy /\ ui.messages # <<>> /\ Said([ui EXCEPT !.messages = <<>>], world) /\ UNCHANGED calls

\* The page is left and entered again; an answer that still comes is for nobody.
Visit ==
  /\ world.turns < MaxTurns
  /\ ui' = Entered(world.kept) /\ calls' = {[op |-> "providers"]} /\ world' = [world EXCEPT !.turns = @ + 1]

Next ==
  \/ loadProviders \/ changeProvider \/ SetModel \/ SetContext
  \/ AiSettings \/ SetKey \/ CloseSettings \/ saveAll \/ onSaved \/ Failed
  \/ send \/ Delta \/ Ended \/ NewChat \/ Visit

Spec == Init /\ [][Next]_vars

----------------------------------------------------------------------------
(* Properties *)

\* An answer stands below its question, has words about that question only, and is signed
\* with the provider it was sent to, whatever is chosen, saved or stopped meanwhile.
AnswerOfQuestion ==
  \A i \in DOMAIN ui.messages :
    ui.messages[i].role = "assistant" =>
      /\ i > 1 /\ ui.messages[i - 1].role = "user"
      /\ ui.messages[i].about \subseteq ui.messages[i - 1].about
      /\ ui.messages[i].by \in {Nil, ui.messages[i - 1].by}

\* README.md:1269: the conversation is kept in the browser (not so: a question whose
\* answer is awaited is lost with the page).
ConversationKept == world.kept = Recent(ui.messages)
====
