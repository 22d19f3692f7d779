---- MODULE Workspace_proofs ----
(***************************************************************************)
(* The pages of Workspace: those on which something is looked up, each     *)
(* with an invariant of its own; at the end the invariant of all pages,    *)
(* those of Editor (Editor_proofs) included, and what the runs check on    *)
(* small instances, for every value of the constants.                      *)
(***************************************************************************)
EXTENDS Workspace, Editor_proofs

-----------------------------------------------------------------------------
(* Infographic *)

InfoFields == {"query", "refresh", "data", "configs", "last", "timer", "hidden", "ready", "drawn", "popup"}

\* An object asked about is the one the popup names.
InfoInv ==
  /\ Fields(ui, InfoFields)
  /\ ui.popup # Nil => Fields(ui.popup, {"query", "targets", "sel", "info"})
  /\ \A c \in calls : c.op = "object" => c.object = ui.popup.sel
  /\ Info!PopupOfObject /\ Info!MapOfReport

\* What the requests of the page ask for.
LEMMA InfoCalls ==
  /\ \A u : Info!Load(u).op = "data" /\ Info!Info(u).op = "object" /\ Info!Info(u).object = u.popup.sel
  /\ Info!Check.op = "version"
  /\ \A u, C : \A c \in Info!Watch(u, C) : c \in C \/ c.op = "version"
  /\ \A C : \A c \in Info!Alive(C, "object") : c.op # "object"
BY DEF Info!Load, Info!Info, Info!Call, Info!Check, Info!Watch, Info!Alive

\* No popup at first.
LEMMA InfoInit == ASSUME Info!PageInit PROVE InfoInv
<1> PICK r : ui = [query |-> [kind |-> Nil, outage |-> Nil], refresh |-> r, data |-> Nil, configs |-> FALSE, last |-> 0,
                timer |-> FALSE, hidden |-> FALSE, ready |-> FALSE, drawn |-> Nil, popup |-> Nil]
  BY DEF Info!PageInit
<1>1. Fields(ui, InfoFields) /\ ui.popup = Nil /\ ui.drawn = ui.data
  BY DEF Fields, InfoFields
<1>2. \A c \in calls : c.op # "object"
  BY InfoCalls DEF Info!PageInit
<1> QED BY <1>1, <1>2 DEF InfoInv, Info!PopupOfObject, Info!MapOfReport

\* Neither the popup nor the report, nor its map, changes.
LEMMA InfoKept ==
  ASSUME InfoInv, Fields(ui', InfoFields), ui'.popup = ui.popup, ui'.data = ui.data, ui'.drawn = ui.drawn, ui'.ready = ui.ready,
         \A c \in calls' : c.op = "object" => \E d \in calls : d.op = "object" /\ c.object = d.object
  PROVE  InfoInv'
BY DEF InfoInv, Info!PopupOfObject, Info!MapOfReport

\* Whatever is clicked, closed or answered, the popup and the map tell of what they name.
LEMMA InfoNext == ASSUME InfoInv, Info!PageNext PROVE InfoInv'
<1>0. Fields(ui, InfoFields)
  BY DEF InfoInv
<1>1. CASE Info!SetFilter
  <2> PICK q : ui' = [ui EXCEPT !.query = q, !.timer = FALSE] /\ calls' = Info!Watch(ui', calls) \cup {Info!Load(ui')}
    BY <1>1 DEF Info!SetFilter, Info!Asked
  <2>1. Fields(ui', InfoFields) /\ ui'.popup = ui.popup /\ ui'.data = ui.data /\ ui'.drawn = ui.drawn /\ ui'.ready = ui.ready
    BY <1>0 DEF Fields, InfoFields
  <2>2. \A c \in calls' : c \in calls \/ c.op \in {"version", "data"}
    BY InfoCalls
  <2> QED BY <2>1, <2>2, InfoKept
<1>2. CASE Info!setRefresh
  <2> PICK r : ui' = [ui EXCEPT !.refresh = r, !.timer = FALSE] /\ calls' = Info!Watch(ui', calls)
    BY <1>2 DEF Info!setRefresh, Info!Asked
  <2>1. Fields(ui', InfoFields) /\ ui'.popup = ui.popup /\ ui'.data = ui.data /\ ui'.drawn = ui.drawn /\ ui'.ready = ui.ready
    BY <1>0 DEF Fields, InfoFields
  <2>2. \A c \in calls' : c \in calls \/ c.op \in {"version", "data"}
    BY InfoCalls
  <2> QED BY <2>1, <2>2, InfoKept
<1>3. CASE Info!check \/ Info!Hide \/ Info!onVisible \/ Info!Event \/ Info!Timer
  <2>1. ui' = ui \/ (\E b : ui' = [ui EXCEPT !.hidden = b]) \/ (\E b : ui' = [ui EXCEPT !.timer = b])
    BY <1>3 DEF Info!check, Info!Hide, Info!onVisible, Info!Event, Info!Timer
  <2>2. Fields(ui', InfoFields) /\ ui'.popup = ui.popup /\ ui'.data = ui.data /\ ui'.drawn = ui.drawn /\ ui'.ready = ui.ready
    BY <1>0, <2>1 DEF Fields, InfoFields
  <2>3. \A c \in calls' : c \in calls \/ c.op = "version"
    BY <1>3, InfoCalls DEF Info!check, Info!Hide, Info!onVisible, Info!Event, Info!Timer, Info!Send
  <2> QED BY <2>2, <2>3, InfoKept
<1>4. CASE Info!Serve
  <2> PICK c, v : c \in calls /\ ui' = ui /\ calls' = (calls \ {c}) \cup {[c EXCEPT !.version = v]}
    BY <1>4 DEF Info!Serve
  <2>1. [c EXCEPT !.version = v].op = c.op /\ [c EXCEPT !.version = v].object = c.object
    OBVIOUS
  <2> QED BY <1>0, <2>1, InfoKept
<1>5. CASE Info!VersionAnswered
  <2> PICK c \in calls : /\ ui' = [ui EXCEPT !.last = c.version]
                         /\ \A d \in calls' : d \in calls \/ d = Info!Load(ui)
    BY <1>5 DEF Info!VersionAnswered, Info!Asked
  <2>1. Fields(ui', InfoFields) /\ ui'.popup = ui.popup /\ ui'.data = ui.data /\ ui'.drawn = ui.drawn /\ ui'.ready = ui.ready
    BY <1>0 DEF Fields, InfoFields
  <2> QED BY <2>1, InfoKept, InfoCalls
<1>6. CASE Info!load
  <2>1. ui' = ui /\ \A d \in calls' : d \in calls \/ d = Info!Load(ui)
    BY <1>6 DEF Info!load, Info!Send
  <2> QED BY <1>0, <2>1, InfoKept, InfoCalls
<1>7. CASE Info!DataAnswered
  <2> PICK c, x : c \in calls /\ ui' = Info!apply([ui EXCEPT !.data = x]) /\ calls' = calls \ {c}
    BY <1>7 DEF Info!DataAnswered, Info!Got
  <2> DEFINE u == [ui EXCEPT !.data = x]
  <2>1. Fields(u, InfoFields) /\ u.popup = ui.popup /\ u.ready = ui.ready
    BY <1>0 DEF Fields, InfoFields
  <2>2. ui' = IF u.ready THEN [u EXCEPT !.drawn = u.data] ELSE u
    BY DEF Info!apply
  <2> HIDE DEF u
  <2>3. Fields(ui', InfoFields) /\ ui'.popup = ui.popup /\ (ui'.ready => ui'.drawn = ui'.data)
    BY <2>1, <2>2 DEF Fields, InfoFields
  <2> QED BY <2>3 DEF InfoInv, Info!PopupOfObject, Info!MapOfReport
<1>8. CASE Info!ConfigsLoaded
  <2>1. ui' = [ui EXCEPT !.configs = TRUE] /\ calls' = calls
    BY <1>8 DEF Info!ConfigsLoaded, Info!Show
  <2>2. Fields(ui', InfoFields) /\ ui'.popup = ui.popup /\ ui'.data = ui.data /\ ui'.drawn = ui.drawn /\ ui'.ready = ui.ready
    BY <1>0, <2>1 DEF Fields, InfoFields
  <2> QED BY <2>1, <2>2, InfoKept
<1>9. CASE Info!MapLoad
  <2>1. ui' = Info!apply([ui EXCEPT !.ready = TRUE]) /\ calls' = calls
    BY <1>9 DEF Info!MapLoad, Info!Show, Info!MapLoaded
  <2> DEFINE u == [ui EXCEPT !.ready = TRUE]
  <2>2. Fields(u, InfoFields) /\ u.popup = ui.popup
    BY <1>0 DEF Fields, InfoFields
  <2>3. ui' = IF u.ready THEN [u EXCEPT !.drawn = u.data] ELSE u
    BY <2>1 DEF Info!apply
  <2> HIDE DEF u
  <2>4. Fields(ui', InfoFields) /\ ui'.popup = ui.popup /\ (ui'.ready => ui'.drawn = ui'.data)
    BY <2>2, <2>3 DEF Fields, InfoFields
  <2> QED BY <2>1, <2>4 DEF InfoInv, Info!PopupOfObject, Info!MapOfReport
<1>10. CASE Info!Failed
  BY <1>0, <1>10, InfoKept DEF Info!Failed, Info!Got
<1>11. CASE Info!click
  <2>1. CASE ui' = [ui EXCEPT !.popup = Nil] /\ calls' = Info!Alive(calls, "object")
    <3>1. Fields(ui', InfoFields) /\ ui'.popup = Nil /\ ui'.data = ui.data /\ ui'.drawn = ui.drawn /\ ui'.ready = ui.ready
      BY <1>0, <2>1 DEF Fields, InfoFields
    <3> QED BY <2>1, <3>1, InfoCalls DEF InfoInv, Info!PopupOfObject, Info!MapOfReport
  <2>2. ASSUME NEW S, NEW o, ui' = Info!Opened(ui, S, o), calls' = Info!Alive(calls, "object") \cup {Info!Info(ui')}
        PROVE  InfoInv'
    <3> DEFINE p == [query |-> ui.query, targets |-> S, sel |-> o, info |-> Nil]
    <3>1. Fields(p, {"query", "targets", "sel", "info"}) /\ p.info = Nil
      BY DEF Fields
    <3>2. ui' = [ui EXCEPT !.popup = p]
      BY <2>2 DEF Info!Opened
    <3> HIDE DEF p
    <3>3. Fields(ui', InfoFields) /\ ui'.popup = p /\ ui'.data = ui.data /\ ui'.drawn = ui.drawn /\ ui'.ready = ui.ready
      BY <1>0, <3>2 DEF Fields, InfoFields
    <3>4. \A c \in calls' : c.op = "object" => c.object = ui'.popup.sel
      BY <2>2, InfoCalls
    <3> QED BY <3>1, <3>3, <3>4 DEF InfoInv, Info!PopupOfObject, Info!MapOfReport
  <2> QED BY <1>11, <2>1, <2>2 DEF Info!click, Info!Asked
<1>12. CASE Info!ObjectPopup
  <2> PICK o : ui.popup # Nil /\ ui' = [ui EXCEPT !.popup.sel = o, !.popup.info = Nil] /\ calls' = Info!Alive(calls, "object") \cup {Info!Info(ui')}
    BY <1>12 DEF Info!ObjectPopup, Info!Asked
  <2>1. Fields(ui.popup, {"query", "targets", "sel", "info"})
    BY DEF InfoInv
  <2>2. /\ Fields(ui', InfoFields) /\ Fields(ui'.popup, {"query", "targets", "sel", "info"}) /\ ui'.popup.info = Nil
        /\ ui'.data = ui.data /\ ui'.drawn = ui.drawn /\ ui'.ready = ui.ready
    BY <1>0, <2>1 DEF Fields, InfoFields
  <2>3. \A c \in calls' : c.op = "object" => c.object = ui'.popup.sel
    BY InfoCalls
  <2> QED BY <2>2, <2>3 DEF InfoInv, Info!PopupOfObject, Info!MapOfReport
<1>13. CASE Info!ObjectAnswered
  <2> PICK c \in calls : /\ c.op = "object" /\ ui.popup # Nil /\ calls' = calls \ {c}
                         /\ ui' = [ui EXCEPT !.popup.info = [object |-> c.object, query |-> c.query]]
    BY <1>13 DEF Info!ObjectAnswered, Info!Got
  <2>1. Fields(ui.popup, {"query", "targets", "sel", "info"})
    BY DEF InfoInv
  <2>2. /\ Fields(ui', InfoFields) /\ Fields(ui'.popup, {"query", "targets", "sel", "info"}) /\ ui'.popup.info.object = c.object
        /\ ui'.popup.sel = ui.popup.sel /\ ui'.data = ui.data /\ ui'.drawn = ui.drawn /\ ui'.ready = ui.ready
    BY <1>0, <2>1 DEF Fields, InfoFields
  <2> QED BY <2>2 DEF InfoInv, Info!PopupOfObject, Info!MapOfReport
<1> QED BY <1>1, <1>2, <1>3, <1>4, <1>5, <1>6, <1>7, <1>8, <1>9, <1>10, <1>11, <1>12, <1>13 DEF Info!PageNext

ListFields == {"query", "level", "q", "qd", "size", "pg", "shown", "res"}

\* The answer awaited is the shown list's, and so are its rows.
ListInv ==
  /\ Fields(ui, ListFields) /\ Info!Key(ui) \in ListKeys /\ ui.q \in Info!Words
  /\ ui.shown \in {Nil, Info!Key(ui)}
  /\ ui.res # Nil => ui.res.key = Info!Key(ui)
  /\ \A c \in calls : c.key = Info!Key(ui)

\* The first page of a list is asked for under its key.
LEMMA FirstPage == \A k : \A c \in {[op |-> "list", key |-> k, page |-> 1]} : c.key = k
OBVIOUS

\* No rows at first.
LEMMA ListInit == ASSUME Info!ListInit PROVE ListInv
<1> PICK q \in Queries, l \in Tabs :
      ui = [query |-> q, level |-> l, q |-> "", qd |-> "", size |-> 2, pg |-> [key |-> Nil, page |-> 1], shown |-> Nil, res |-> Nil]
  BY DEF Info!ListInit
<1>1. Fields(ui, ListFields) /\ Info!Key(ui) \in ListKeys /\ ui.q \in Info!Words /\ ui.shown = Nil /\ ui.res = Nil
  BY DEF Fields, ListFields, ListKeys, Info!Key, Info!Words, Info!Sizes
<1>2. \A c \in calls : c.key = Info!Key(ui)
  <2>1. calls = {[op |-> "list", key |-> Info!Key(ui), page |-> 1]}
    BY DEF Info!ListInit
  <2> QED BY <2>1, FirstPage
<1> QED BY <1>1, <1>2 DEF ListInv

\* Rows of another list go when it is asked for.
LEMMA ListAsked ==
  ASSUME ListInv, NEW u, Fields(u, ListFields), Info!Key(u) \in ListKeys, u.q \in Info!Words, u.shown = ui.shown,
         u.res = ui.res, Info!Ask(u)
  PROVE  ListInv'
<1>1. ui' = Info!Emptied(u) /\ calls' = {Info!ListCall(ui')}
  BY DEF Info!Ask, Info!AskedLast
<1>2. CASE u.shown = Info!Key(u)
  <2>1. ui' = u
    BY <1>1, <1>2 DEF Info!Emptied
  <2> QED BY <1>1, <1>2, <2>1, ListAssumption DEF ListInv, Info!ListCall
<1>3. CASE u.shown # Info!Key(u)
  <2>1. ui' = [u EXCEPT !.shown = Info!Key(u), !.res = Nil]
    BY <1>1, <1>3 DEF Info!Emptied
  <2>2. /\ Fields(ui', ListFields) /\ ui'.query = u.query /\ ui'.level = u.level /\ ui'.qd = u.qd /\ ui'.size = u.size
        /\ ui'.q = u.q /\ ui'.res = Nil /\ ui'.shown = Info!Key(u)
    BY <2>1 DEF Fields, ListFields
  <2>3. Info!Key(ui') = Info!Key(u)
    BY <2>2 DEF Info!Key
  <2> QED BY <1>1, <2>2, <2>3 DEF ListInv, Info!ListCall
<1> QED BY <1>2, <1>3

\* Whatever is chosen, paged or typed, the rows and the answer awaited are those of the list shown.
LEMMA ListNext == ASSUME ListInv, Info!ListNext PROVE ListInv'
<1>0. /\ ui.query \in Queries /\ ui.level \in Tabs /\ ui.qd \in Info!Words /\ ui.size \in Info!Sizes /\ ui.q \in Info!Words
      /\ Fields(ui, ListFields)
  BY DEF ListInv, ListKeys, Info!Key
<1>1. CASE Info!SetQuery
  <2> PICK q \in Queries : Info!Ask([ui EXCEPT !.query = q])
    BY <1>1 DEF Info!SetQuery
  <2> DEFINE u == [ui EXCEPT !.query = q]
  <2>1. /\ Fields(u, ListFields) /\ u.query \in Queries /\ u.level = ui.level /\ u.qd = ui.qd /\ u.size = ui.size
        /\ u.q = ui.q /\ u.shown = ui.shown /\ u.res = ui.res
    BY <1>0 DEF Fields, ListFields
  <2> HIDE DEF u
  <2>2. Info!Key(u) \in ListKeys
    BY <1>0, <2>1 DEF ListKeys, Info!Key
  <2> QED BY <1>0, <2>1, <2>2, ListAsked DEF u
<1>2. CASE Info!SetTab
  <2> PICK q \in Tabs : Info!Ask([ui EXCEPT !.level = q])
    BY <1>2 DEF Info!SetTab
  <2> DEFINE u == [ui EXCEPT !.level = q]
  <2>1. /\ Fields(u, ListFields) /\ u.query = ui.query /\ u.level \in Tabs /\ u.qd = ui.qd /\ u.size = ui.size
        /\ u.q = ui.q /\ u.shown = ui.shown /\ u.res = ui.res
    BY <1>0 DEF Fields, ListFields
  <2> HIDE DEF u
  <2>2. Info!Key(u) \in ListKeys
    BY <1>0, <2>1 DEF ListKeys, Info!Key
  <2> QED BY <1>0, <2>1, <2>2, ListAsked DEF u
<1>3. CASE Info!SetSize
  <2> PICK q \in Info!Sizes : Info!Ask([ui EXCEPT !.size = q])
    BY <1>3 DEF Info!SetSize
  <2> DEFINE u == [ui EXCEPT !.size = q]
  <2>1. /\ Fields(u, ListFields) /\ u.query = ui.query /\ u.level = ui.level /\ u.qd = ui.qd /\ u.size \in Info!Sizes
        /\ u.q = ui.q /\ u.shown = ui.shown /\ u.res = ui.res
    BY <1>0 DEF Fields, ListFields
  <2> HIDE DEF u
  <2>2. Info!Key(u) \in ListKeys
    BY <1>0, <2>1 DEF ListKeys, Info!Key
  <2> QED BY <1>0, <2>1, <2>2, ListAsked DEF u
<1>4. CASE Info!Type
  <2> PICK w \in Info!Words : ui' = [ui EXCEPT !.q = w] /\ calls' = calls
    BY <1>4 DEF Info!Type
  <2>1. /\ Fields(ui', ListFields) /\ ui'.query = ui.query /\ ui'.level = ui.level /\ ui'.qd = ui.qd /\ ui'.size = ui.size
        /\ ui'.q = w /\ ui'.shown = ui.shown /\ ui'.res = ui.res
    BY <1>0 DEF Fields, ListFields
  <2>2. Info!Key(ui') = Info!Key(ui)
    BY <2>1 DEF Info!Key
  <2> QED BY <2>1, <2>2 DEF ListInv
<1>5. CASE Info!Debounced
  <2> DEFINE u == [ui EXCEPT !.qd = ui.q]
  <2>0. Info!Ask(u)
    BY <1>5 DEF Info!Debounced
  <2>1. /\ Fields(u, ListFields) /\ u.query = ui.query /\ u.level = ui.level /\ u.qd = ui.q /\ u.size = ui.size
        /\ u.q = ui.q /\ u.shown = ui.shown /\ u.res = ui.res
    BY <1>0 DEF Fields, ListFields
  <2> HIDE DEF u
  <2>2. Info!Key(u) \in ListKeys
    BY <1>0, <2>1 DEF ListKeys, Info!Key
  <2> QED BY <1>0, <2>0, <2>1, <2>2, ListAsked
<1>6. CASE Info!Refetch
  BY <1>0, <1>6, ListAsked DEF Info!Refetch, ListInv
<1>7. CASE Info!Answered
  <2> PICK c, p, n : c \in calls /\ ui' = [ui EXCEPT !.res = [key |-> c.key, page |-> p, pages |-> n]] /\ calls' = calls \ {c}
    BY <1>7 DEF Info!Answered, Info!Got
  <2>1. /\ Fields(ui', ListFields) /\ ui'.query = ui.query /\ ui'.level = ui.level /\ ui'.qd = ui.qd /\ ui'.size = ui.size
        /\ ui'.q = ui.q /\ ui'.shown = ui.shown /\ ui'.res.key = c.key
    BY <1>0 DEF Fields, ListFields
  <2>2. Info!Key(ui') = Info!Key(ui)
    BY <2>1 DEF Info!Key
  <2> QED BY <2>1, <2>2 DEF ListInv
<1>8. CASE Info!Failed
  BY <1>8 DEF Info!Failed, Info!Got, ListInv, Info!Key
<1>9. CASE Info!go
  <2>1. \E k : (ui' = [ui EXCEPT !.pg = k] /\ calls' = calls) \/ Info!Ask([ui EXCEPT !.pg = k])
    BY <1>9 DEF Info!go
  <2> PICK k : (ui' = [ui EXCEPT !.pg = k] /\ calls' = calls) \/ Info!Ask([ui EXCEPT !.pg = k])
    BY <2>1
  <2> DEFINE u == [ui EXCEPT !.pg = k]
  <2>2. /\ Fields(u, ListFields) /\ u.query = ui.query /\ u.level = ui.level /\ u.qd = ui.qd /\ u.size = ui.size
        /\ u.q = ui.q /\ u.shown = ui.shown /\ u.res = ui.res
    BY <1>0 DEF Fields, ListFields
  <2>3. (ui' = u /\ calls' = calls) \/ Info!Ask(u)
    OBVIOUS
  <2> HIDE DEF u
  <2>4. Info!Key(u) = Info!Key(ui)
    BY <2>2 DEF Info!Key
  <2>5. CASE ui' = u /\ calls' = calls
    BY <1>0, <2>2, <2>4, <2>5 DEF ListInv
  <2> QED BY <1>0, <2>2, <2>3, <2>4, <2>5, ListAsked DEF ListInv
<1> QED BY <1>1, <1>2, <1>3, <1>4, <1>5, <1>6, <1>7, <1>8, <1>9 DEF Info!ListNext

-----------------------------------------------------------------------------
(* CustomerLosses *)

LossFields == {"months", "month", "filter", "offset", "data", "sel", "detail", "imp"}
ImportFields == {"file", "month", "replace", "prev", "busy", "del"}
LossCall == {"op", "month", "filter", "offset", "gardu", "file", "replace", "after", "lists", "closed"}
ImportOps == {"preview", "apply", "delete"}

\* What the panel sent, since it was opened.
Sending(c) == c.op \in ImportOps /\ c.closed = FALSE
Pending(C) == \E c \in C : Sending(c)
LossPage(u) == Fields(u, LossFields) /\ (u.imp # Nil => Fields(u.imp, ImportFields))
LossInv == LossPage(ui) /\ (ui.imp # Nil /\ ui.imp.busy # "" => Pending(calls))

\* No month at first.
LEMMA LossInit == ASSUME Losses!Init PROVE LossInv
<1>1. Fields(ui, LossFields) /\ ui.imp = Nil
  BY DEF Losses!Init, Fields, LossFields
<1> QED BY <1>1 DEF LossInv, LossPage

\* What the invariant asks of a step.
LEMMA LossStep ==
  ASSUME LossInv, LossPage(ui'),
         \/ ui'.imp = Nil \/ ui'.imp.busy = "" \/ Pending(calls')
         \/ (ui.imp # Nil /\ ui'.imp.busy = ui.imp.busy /\ \A c \in calls : Sending(c) => c \in calls')
  PROVE  LossInv'
BY DEF LossInv, Pending

\* Steps that leave the panel alone.
LEMMA LossAside ==
  ASSUME LossInv, Fields(ui', LossFields), ui'.imp = ui.imp, \A c \in calls : Sending(c) => c \in calls'
  PROVE  LossInv'
<1>1. LossPage(ui')
  BY DEF LossInv, LossPage
<1> QED BY <1>1, LossStep

\* Another month or filter leaves the panel alone.
LEMMA LossChanged ==
  ASSUME LossInv, NEW u, NEW C, Losses!Changed(u, C), Fields(u, LossFields), u.imp = ui.imp,
         \A c \in calls : Sending(c) => c \in C
  PROVE  LossInv'
<1>1. C \subseteq calls'
  BY DEF Losses!Changed, Losses!Ask
<1>p. PICK x, y : ui' = [[u EXCEPT !.data = x, !.detail = y] EXCEPT !.offset = 0]
  <2> DEFINE x == IF u.month = Nil THEN Nil ELSE u.data
             y == IF u.month = ui.month THEN u.detail ELSE Nil
  <2>1. ui' = [[u EXCEPT !.data = x, !.detail = y] EXCEPT !.offset = 0]
    BY DEF Losses!Changed
  <2> HIDE DEF x, y
  <2> QED BY <2>1
<1>2. Fields(ui', LossFields) /\ ui'.imp = ui.imp
  BY <1>p DEF Fields, LossFields
<1> QED BY <1>1, <1>2, LossAside

\* The panel changes.
LEMMA LossPanel ==
  ASSUME LossPage(ui), NEW i, Fields(i, ImportFields), ui' = [ui EXCEPT !.imp = i]
  PROVE  LossPage(ui') /\ ui'.imp = i
BY DEF LossPage, Fields, LossFields

\* A preview, or none.
LEMMA LossAnswered ==
  ASSUME LossPage(ui), ui.imp # Nil, NEW y, NEW v, v = [ui EXCEPT !.imp.busy = "", !.imp.prev = y]
  PROVE  LossPage(v) /\ v.imp.busy = ""
<1>0. Fields(ui, LossFields) /\ Fields(ui.imp, ImportFields)
  BY DEF LossPage
<1> DEFINE j == [ui.imp EXCEPT !.busy = "", !.prev = y]
<1>1. Fields(j, ImportFields) /\ j.busy = ""
  BY <1>0 DEF Fields, ImportFields
<1>2. v = [ui EXCEPT !.imp = j]
  BY <1>0 DEF Fields, LossFields, ImportFields
<1> HIDE DEF j
<1> QED BY <1>0, <1>1, <1>2 DEF LossPage, Fields, LossFields

\* The panel starts or stops waiting.
LEMMA LossBusySet ==
  ASSUME LossPage(ui), ui.imp # Nil, NEW x, NEW v, v = [ui EXCEPT !.imp.busy = x]
  PROVE  LossPage(v) /\ v.imp.busy = x
<1>0. Fields(ui, LossFields) /\ Fields(ui.imp, ImportFields)
  BY DEF LossPage
<1> DEFINE j == [ui.imp EXCEPT !.busy = x]
<1>1. Fields(j, ImportFields) /\ j.busy = x
  BY <1>0 DEF Fields, ImportFields
<1>2. v = [ui EXCEPT !.imp = j]
  BY <1>0 DEF Fields, LossFields, ImportFields
<1> HIDE DEF j
<1> QED BY <1>0, <1>1, <1>2 DEF LossPage, Fields, LossFields

\* A month was deleted.
LEMMA LossDeleted ==
  ASSUME LossPage(ui), ui.imp # Nil, NEW v, v = [ui EXCEPT !.imp.busy = "", !.imp.del = Nil]
  PROVE  LossPage(v) /\ v.imp.busy = ""
<1>0. Fields(ui, LossFields) /\ Fields(ui.imp, ImportFields)
  BY DEF LossPage
<1> DEFINE j == [ui.imp EXCEPT !.busy = "", !.del = Nil]
<1>1. Fields(j, ImportFields) /\ j.busy = ""
  BY <1>0 DEF Fields, ImportFields
<1>2. v = [ui EXCEPT !.imp = j]
  BY <1>0 DEF Fields, LossFields, ImportFields
<1> HIDE DEF j
<1> QED BY <1>0, <1>1, <1>2 DEF LossPage, Fields, LossFields

\* Another file.
LEMMA LossFile ==
  ASSUME LossPage(ui), ui.imp # Nil, NEW x, NEW v, v = [ui EXCEPT !.imp.file = x, !.imp.prev = Nil]
  PROVE  LossPage(v) /\ v.imp.busy = ui.imp.busy
<1>0. Fields(ui, LossFields) /\ Fields(ui.imp, ImportFields)
  BY DEF LossPage
<1> DEFINE j == [ui.imp EXCEPT !.file = x, !.prev = Nil]
<1>1. Fields(j, ImportFields) /\ j.busy = ui.imp.busy
  BY <1>0 DEF Fields, ImportFields
<1>2. v = [ui EXCEPT !.imp = j]
  BY <1>0 DEF Fields, LossFields, ImportFields
<1> HIDE DEF j
<1> QED BY <1>0, <1>1, <1>2 DEF LossPage, Fields, LossFields

\* Another month.
LEMMA LossMonth ==
  ASSUME LossPage(ui), ui.imp # Nil, NEW x, NEW v, v = [ui EXCEPT !.imp.month = x, !.imp.prev = Nil]
  PROVE  LossPage(v) /\ v.imp.busy = ui.imp.busy
<1>0. Fields(ui, LossFields) /\ Fields(ui.imp, ImportFields)
  BY DEF LossPage
<1> DEFINE j == [ui.imp EXCEPT !.month = x, !.prev = Nil]
<1>1. Fields(j, ImportFields) /\ j.busy = ui.imp.busy
  BY <1>0 DEF Fields, ImportFields
<1>2. v = [ui EXCEPT !.imp = j]
  BY <1>0 DEF Fields, LossFields, ImportFields
<1> HIDE DEF j
<1> QED BY <1>0, <1>1, <1>2 DEF LossPage, Fields, LossFields

\* Replacing or not.
LEMMA LossReplace ==
  ASSUME LossPage(ui), ui.imp # Nil, NEW x, NEW v, v = [ui EXCEPT !.imp.replace = x]
  PROVE  LossPage(v) /\ v.imp.busy = ui.imp.busy
<1>0. Fields(ui, LossFields) /\ Fields(ui.imp, ImportFields)
  BY DEF LossPage
<1> DEFINE j == [ui.imp EXCEPT !.replace = x]
<1>1. Fields(j, ImportFields) /\ j.busy = ui.imp.busy
  BY <1>0 DEF Fields, ImportFields
<1>2. v = [ui EXCEPT !.imp = j]
  BY <1>0 DEF Fields, LossFields, ImportFields
<1> HIDE DEF j
<1> QED BY <1>0, <1>1, <1>2 DEF LossPage, Fields, LossFields

\* Asked whether to delete a month.
LEMMA LossAsked ==
  ASSUME LossPage(ui), ui.imp # Nil, NEW x, NEW v, v = [ui EXCEPT !.imp.del = x]
  PROVE  LossPage(v) /\ v.imp.busy = ui.imp.busy
<1>0. Fields(ui, LossFields) /\ Fields(ui.imp, ImportFields)
  BY DEF LossPage
<1> DEFINE j == [ui.imp EXCEPT !.del = x]
<1>1. Fields(j, ImportFields) /\ j.busy = ui.imp.busy
  BY <1>0 DEF Fields, ImportFields
<1>2. v = [ui EXCEPT !.imp = j]
  BY <1>0 DEF Fields, LossFields, ImportFields
<1> HIDE DEF j
<1> QED BY <1>0, <1>1, <1>2 DEF LossPage, Fields, LossFields

\* A command is done: the months are read again.
LEMMA LossDone ==
  ASSUME LossInv, NEW u, NEW c, NEW m, Losses!onDone(u, c, m), LossPage(u),
         (u = ui /\ ~Sending(c)) \/ u.imp = Nil \/ u.imp.busy = ""
  PROVE  LossInv'
<1>1. calls \ {c} \subseteq calls'
  BY DEF Losses!onDone, Losses!Ask
<1>2. Fields(ui', LossFields) /\ ui'.imp = u.imp
  BY DEF Losses!onDone, LossPage, Fields, LossFields
<1>3. LossPage(ui')
  BY <1>2 DEF LossPage
<1>4. CASE u = ui /\ ~Sending(c)
  BY <1>1, <1>2, <1>4, LossAside
<1>5. CASE u.imp = Nil \/ u.imp.busy = ""
  BY <1>2, <1>3, <1>5, LossStep
<1> QED BY <1>4, <1>5

\* Whatever is chosen, imported, closed or answered, what the panel waits for is on its way.
LEMMA LossNext == ASSUME LossInv, Losses!Next PROVE LossInv'
<1>0. LossPage(ui) /\ Fields(ui, LossFields)
  BY DEF LossInv, LossPage
<1>o. "meta" \notin ImportOps /\ "list" \notin ImportOps /\ "detail" \notin ImportOps
  BY DEF ImportOps
<1>1. CASE Losses!SetMonth
  <2>p. PICK p : Losses!Changed([ui EXCEPT !.month = p], calls)
    BY <1>1 DEF Losses!SetMonth
  <2> DEFINE u == [ui EXCEPT !.month = p]
  <2>1. Fields(u, LossFields) /\ u.imp = ui.imp
    BY <1>0 DEF Fields, LossFields
  <2>2. Losses!Changed(u, calls)
    BY <2>p
  <2> HIDE DEF u
  <2> QED BY <2>1, <2>2, LossChanged
<1>2. CASE Losses!SetFilter
  <2>p. PICK p : Losses!Changed([ui EXCEPT !.filter = p], calls)
    BY <1>2 DEF Losses!SetFilter
  <2> DEFINE u == [ui EXCEPT !.filter = p]
  <2>1. Fields(u, LossFields) /\ u.imp = ui.imp
    BY <1>0 DEF Fields, LossFields
  <2>2. Losses!Changed(u, calls)
    BY <2>p
  <2> HIDE DEF u
  <2> QED BY <2>1, <2>2, LossChanged
<1>3. CASE Losses!MetaLoaded
  <2>p. PICK c, m : LET u == [ui EXCEPT !.months = world.months, !.month = m]
                    IN c \in calls /\ c.op = "meta" /\ IF u.month = ui.month THEN ui' = u /\ Losses!Got(c) ELSE Losses!Changed(u, calls \ {c})
    <3>1. PICK c \in calls : /\ c.op = "meta"
                             /\ LET u == [ui EXCEPT !.months = world.months,
                                                    !.month = IF c.after /\ c.month # Nil THEN c.month ELSE Losses!Kept(ui, world.months)]
                                IN IF u.month = ui.month THEN ui' = u /\ Losses!Got(c) ELSE Losses!Changed(u, calls \ {c})
      BY <1>3 DEF Losses!MetaLoaded
    <3> DEFINE m == IF c.after /\ c.month # Nil THEN c.month ELSE Losses!Kept(ui, world.months)
    <3>2. LET u == [ui EXCEPT !.months = world.months, !.month = m]
          IN IF u.month = ui.month THEN ui' = u /\ Losses!Got(c) ELSE Losses!Changed(u, calls \ {c})
      BY <3>1
    <3> HIDE DEF m
    <3> QED BY <3>1, <3>2
  <2> DEFINE u == [ui EXCEPT !.months = world.months, !.month = m]
  <2>1. Fields(u, LossFields) /\ u.imp = ui.imp
    BY <1>0 DEF Fields, LossFields
  <2>2. c.op = "meta" /\ ((ui' = u /\ Losses!Got(c)) \/ Losses!Changed(u, calls \ {c}))
    BY <2>p
  <2> HIDE DEF u
  <2>3. \A d \in calls : Sending(d) => d \in calls \ {c}
    BY <1>o, <2>2 DEF Sending
  <2>4. CASE ui' = u /\ Losses!Got(c)
    BY <2>1, <2>3, <2>4, LossAside DEF Losses!Got
  <2>5. CASE Losses!Changed(u, calls \ {c})
    BY <2>1, <2>3, <2>5, LossChanged
  <2> QED BY <2>2, <2>4, <2>5
<1>4. CASE Losses!Loaded
  <2>p. PICK c \in calls : /\ c.op \in {"list", "detail"} /\ calls \ {c} \subseteq calls'
                           /\ \/ \E x : ui' = [ui EXCEPT !.data = x]
                              \/ \E x : ui' = [[ui EXCEPT !.data = x] EXCEPT !.detail = Nil]
                              \/ \E x : ui' = [ui EXCEPT !.detail = x]
                              \/ ui' = ui
    BY <1>4 DEF Losses!Loaded, Losses!Got, Losses!Ask
  <2>1. Fields(ui', LossFields) /\ ui'.imp = ui.imp
    BY <1>0, <2>p DEF Fields, LossFields
  <2>2. \A d \in calls : Sending(d) => d \in calls'
    BY <1>o, <2>p DEF Sending
  <2> QED BY <2>1, <2>2, LossAside
<1>5. CASE Losses!Failed
  <2>p. PICK c \in calls : /\ calls' = calls \ {c}
                           /\ LET open == ui.imp # Nil /\ ~c.closed
                              IN ui' = CASE c.op = "list" -> [ui EXCEPT !.data = Nil, !.detail = Nil]
                                         [] c.op = "meta" -> [ui EXCEPT !.months = {}]
                                         [] c.op = "preview" /\ open -> [ui EXCEPT !.imp.busy = "", !.imp.prev = Nil]
                                         [] c.op \in {"apply", "delete"} /\ open -> [ui EXCEPT !.imp.busy = ""]
                                         [] OTHER -> ui
    BY <1>5 DEF Losses!Failed, Losses!Got
  <2>1. CASE c.op \in {"list", "meta"}
    <3>1. ui' = [ui EXCEPT !.data = Nil, !.detail = Nil] \/ ui' = [ui EXCEPT !.months = {}]
      BY <2>p, <2>1
    <3>2. Fields(ui', LossFields) /\ ui'.imp = ui.imp
      BY <1>0, <3>1 DEF Fields, LossFields
    <3>3. ~Sending(c)
      BY <1>o, <2>1 DEF Sending
    <3> QED BY <2>p, <3>2, <3>3, LossAside
  <2>2. CASE c.op = "preview" /\ ui.imp # Nil /\ ~c.closed
    <3>1. ui' = [ui EXCEPT !.imp.busy = "", !.imp.prev = Nil]
      BY <2>p, <2>2
    <3>2. LossPage(ui') /\ ui'.imp.busy = ""
      BY <1>0, <2>2, <3>1, LossAnswered
    <3> QED BY <3>2, LossStep
  <2>3. CASE c.op \in {"apply", "delete"} /\ ui.imp # Nil /\ ~c.closed
    <3>1. ui' = [ui EXCEPT !.imp.busy = ""]
      BY <2>p, <2>3
    <3>2. LossPage(ui') /\ ui'.imp.busy = ""
      BY <1>0, <2>3, <3>1, LossBusySet
    <3> QED BY <3>2, LossStep
  <2>4. CASE c.op \notin {"list", "meta"} /\ ~(c.op \in ImportOps /\ ui.imp # Nil /\ ~c.closed)
    <3>1. ui' = ui
      BY <2>p, <2>4 DEF ImportOps
    <3>2. ui.imp = Nil \/ ~Sending(c)
      BY <2>4 DEF Sending
    <3> QED BY <1>0, <2>p, <3>1, <3>2, LossAside, LossStep
  <2> QED BY <2>1, <2>2, <2>3, <2>4 DEF ImportOps
<1>6. CASE Losses!Pager
  <2>p. PICK n : ui' = [ui EXCEPT !.offset = n] /\ calls \subseteq calls'
    BY <1>6 DEF Losses!Pager, Losses!Ask
  <2>1. Fields(ui', LossFields) /\ ui'.imp = ui.imp
    BY <1>0, <2>p DEF Fields, LossFields
  <2> QED BY <2>p, <2>1, LossAside
<1>7. CASE Losses!GarduDetail
  <2>p. PICK g : ui' = [ui EXCEPT !.sel = g, !.detail = Nil] /\ calls \subseteq calls'
    BY <1>7 DEF Losses!GarduDetail, Losses!Ask
  <2>1. Fields(ui', LossFields) /\ ui'.imp = ui.imp
    BY <1>0, <2>p DEF Fields, LossFields
  <2> QED BY <2>p, <2>1, LossAside
<1>8. CASE Losses!ImportPanel
  <2>1. CASE ui.imp = Nil
    <3> DEFINE n == Losses!NoImport
    <3>p. PICK m : ui' = [ui EXCEPT !.imp = [n EXCEPT !.month = m]]
      <4> DEFINE m == IF ui.month = Nil THEN Losses!prevMonth ELSE ui.month
      <4>1. ui' = [ui EXCEPT !.imp = [n EXCEPT !.month = m]]
        BY <1>8, <2>1 DEF Losses!ImportPanel
      <4> HIDE DEF m
      <4> QED BY <4>1
    <3>1. Fields(n, ImportFields) /\ n.busy = ""
      BY DEF Losses!NoImport, Fields, ImportFields
    <3> HIDE DEF n
    <3> DEFINE i == [n EXCEPT !.month = m]
    <3>2. Fields(i, ImportFields) /\ i.busy = ""
      BY <3>1 DEF Fields, ImportFields
    <3>3. ui' = [ui EXCEPT !.imp = i]
      BY <3>p
    <3> HIDE DEF i
    <3>4. LossPage(ui') /\ ui'.imp = i
      BY <1>0, <3>2, <3>3, LossPanel
    <3> QED BY <3>2, <3>4, LossStep
  <2>2. CASE ui.imp # Nil
    <3>1. ui' = [ui EXCEPT !.imp = Nil]
      BY <1>8, <2>2 DEF Losses!ImportPanel
    <3>2. LossPage(ui') /\ ui'.imp = Nil
      BY <1>0, <3>1 DEF LossPage, Fields, LossFields
    <3> QED BY <3>2, LossStep
  <2> QED BY <2>1, <2>2
<1>9. CASE Losses!Chosen
  <2>1. ui.imp # Nil /\ calls' = calls
    BY <1>9 DEF Losses!Chosen
  <2>p. \/ \E f : ui' = [ui EXCEPT !.imp.file = f, !.imp.prev = Nil]
        \/ \E p : ui' = [ui EXCEPT !.imp.month = p, !.imp.prev = Nil]
        \/ \E b : ui' = [ui EXCEPT !.imp.replace = b]
    BY <1>9, Zenon DEF Losses!Chosen
  <2>2. LossPage(ui') /\ ui'.imp.busy = ui.imp.busy
    <3>1. ASSUME NEW f, ui' = [ui EXCEPT !.imp.file = f, !.imp.prev = Nil] PROVE LossPage(ui') /\ ui'.imp.busy = ui.imp.busy
      BY <1>0, <2>1, <3>1, LossFile
    <3>2. ASSUME NEW f, ui' = [ui EXCEPT !.imp.month = f, !.imp.prev = Nil] PROVE LossPage(ui') /\ ui'.imp.busy = ui.imp.busy
      BY <1>0, <2>1, <3>2, LossMonth
    <3>3. ASSUME NEW f, ui' = [ui EXCEPT !.imp.replace = f] PROVE LossPage(ui') /\ ui'.imp.busy = ui.imp.busy
      BY <1>0, <2>1, <3>3, LossReplace
    <3> QED BY <2>p, <3>1, <3>2, <3>3
  <2> QED BY <2>1, <2>2, LossStep
<1>10. CASE Losses!send
  <2> DEFINE l == Losses!query(ui)
  <2>p. PICK op \in ImportOps : /\ ui.imp # Nil /\ ui' = [ui EXCEPT !.imp.busy = op]
                                /\ calls' = calls \cup {[Losses!Call(op, ui.imp.month) EXCEPT !.file = ui.imp.file, !.replace = ui.imp.replace, !.lists = l]}
    BY <1>10 DEF Losses!send, Losses!Send, ImportOps
  <2> HIDE DEF l
  <2> DEFINE d == Losses!Call(op, ui.imp.month)
             c == [d EXCEPT !.file = ui.imp.file, !.replace = ui.imp.replace, !.lists = l]
  <2>1. Fields(d, LossCall) /\ d.op = op /\ d.closed = FALSE
    BY DEF Losses!Call, Fields, LossCall
  <2>2. calls' = calls \cup {c}
    BY <2>p
  <2> HIDE DEF d
  <2>3. c.op = op /\ c.closed = FALSE
    BY <2>1 DEF Fields, LossCall
  <2> HIDE DEF c
  <2>4. Pending(calls')
    BY <2>p, <2>2, <2>3 DEF Pending, Sending
  <2>5. LossPage(ui')
    BY <1>0, <2>p, LossBusySet
  <2> QED BY <2>4, <2>5, LossStep
<1>11. CASE Losses!Previewed
  <2>p. PICK c, x :           /\ c \in calls
                              /\ calls' = calls \ {c}
                              /\ ui' = IF ui.imp = Nil \/ c.closed THEN ui ELSE [ui EXCEPT !.imp.busy = "", !.imp.prev = x]
    BY <1>11 DEF Losses!Previewed, Losses!Got
  <2>1. CASE ui.imp = Nil \/ c.closed
    <3>1. ui' = ui /\ (ui.imp = Nil \/ ~Sending(c))
      BY <2>p, <2>1 DEF Sending
    <3> QED BY <1>0, <2>p, <3>1, LossAside, LossStep
  <2>2. CASE ~(ui.imp = Nil \/ c.closed)
    <3>1. ui' = [ui EXCEPT !.imp.busy = "", !.imp.prev = x]
      BY <2>p, <2>2
    <3>2. LossPage(ui') /\ ui'.imp.busy = ""
      BY <1>0, <2>2, <3>1, LossAnswered
    <3> QED BY <3>2, LossStep
  <2> QED BY <2>1, <2>2
<1>12. CASE Losses!Applied
  <2>p. PICK c \in calls : Losses!onDone(IF ui.imp = Nil \/ c.closed THEN ui ELSE [ui EXCEPT !.imp = [@ EXCEPT !.file = Nil, !.prev = Nil, !.busy = ""]],
                                         c, c.month)
    BY <1>12 DEF Losses!Applied
  <2> DEFINE i == [ui.imp EXCEPT !.file = Nil, !.prev = Nil, !.busy = ""]
             v == [ui EXCEPT !.imp = i]
             u == IF ui.imp = Nil \/ c.closed THEN ui ELSE v
  <2>1. [ui EXCEPT !.imp = [@ EXCEPT !.file = Nil, !.prev = Nil, !.busy = ""]] = v
    BY <1>0 DEF Fields, LossFields
  <2>2. Losses!onDone(u, c, c.month)
    BY <2>p, <2>1
  <2>3. ui.imp # Nil => Fields(i, ImportFields) /\ i.busy = ""
    BY <1>0 DEF LossPage, Fields, ImportFields
  <2> HIDE DEF i
  <2>4. ui.imp # Nil => LossPage(v) /\ v.imp.busy = ""
    BY <1>0, <2>3 DEF LossPage, Fields, LossFields
  <2>5. LossPage(u) /\ ((u = ui /\ ~Sending(c)) \/ u.imp = Nil \/ u.imp.busy = "")
    <3> HIDE DEF v
    <3> QED BY <1>0, <2>4 DEF Sending
  <2> HIDE DEF u
  <2> QED BY <2>2, <2>5, LossDone
<1>13. CASE Losses!askDelete
  <2>p. ui.imp # Nil /\ calls' = calls /\ \E p : ui' = [ui EXCEPT !.imp.del = p]
    BY <1>13 DEF Losses!askDelete
  <2>1. ASSUME NEW p, ui' = [ui EXCEPT !.imp.del = p] PROVE LossPage(ui') /\ ui'.imp.busy = ui.imp.busy
    BY <1>0, <2>p, <2>1, LossAsked
  <2> QED BY <2>p, <2>1, LossStep
<1>14. CASE Losses!onConfirm
  <2>p. PICK l : /\ ui.imp # Nil /\ ui' = [ui EXCEPT !.imp.busy = "del"]
                 /\ calls' = calls \cup {[Losses!Call("delete", ui.imp.del) EXCEPT !.lists = l]}
    BY <1>14 DEF Losses!onConfirm, Losses!Send
  <2> DEFINE d == Losses!Call("delete", ui.imp.del)
             c == [d EXCEPT !.lists = l]
  <2>1. Fields(d, LossCall) /\ d.op = "delete" /\ d.closed = FALSE
    BY DEF Losses!Call, Fields, LossCall
  <2>2. calls' = calls \cup {c}
    BY <2>p
  <2> HIDE DEF d
  <2>3. c.op = "delete" /\ c.closed = FALSE
    BY <2>1 DEF Fields, LossCall
  <2> HIDE DEF c
  <2>4. Pending(calls')
    BY <2>2, <2>3 DEF Pending, Sending, ImportOps
  <2>5. LossPage(ui')
    BY <1>0, <2>p, LossBusySet
  <2> QED BY <2>4, <2>5, LossStep
<1>15. CASE Losses!Deleted
  <2>p. PICK c \in calls : Losses!onDone(IF ui.imp = Nil \/ c.closed THEN ui ELSE [ui EXCEPT !.imp.busy = "", !.imp.del = Nil], c, Nil)
    BY <1>15 DEF Losses!Deleted
  <2> DEFINE v == [ui EXCEPT !.imp.busy = "", !.imp.del = Nil]
             u == IF ui.imp = Nil \/ c.closed THEN ui ELSE v
  <2>1. ui.imp # Nil => LossPage(v) /\ v.imp.busy = ""
    BY <1>0, LossDeleted
  <2>2. Losses!onDone(u, c, Nil)
    BY <2>p
  <2>5. LossPage(u) /\ ((u = ui /\ ~Sending(c)) \/ u.imp = Nil \/ u.imp.busy = "")
    <3> HIDE DEF v
    <3> QED BY <1>0, <2>1 DEF Sending
  <2> HIDE DEF u
  <2> QED BY <2>2, <2>5, LossDone
<1> QED BY <1>1, <1>2, <1>3, <1>4, <1>5, <1>6, <1>7, <1>8, <1>9, <1>10, <1>11, <1>12, <1>13, <1>14, <1>15 DEF Losses!Next

\* The panel waits for what is on its way.
LEMMA LossAwaited == ASSUME LossInv, ui.imp # Nil, ui.imp.busy # "" PROVE \E c \in calls : c.op \in ImportOps
BY DEF LossInv, Pending, Sending

-----------------------------------------------------------------------------
(* PowerFlow *)

FlowFields == {"params", "word", "filter", "results", "running", "tab", "detail", "busy", "colorBy", "picked", "ready", "drawn"}

FlowShown(u) ==
  /\ Fields(u, FlowFields)
  /\ u.ready => u.drawn = Flow!colored(u)
  /\ u.picked # Nil => u.detail # Nil /\ u.picked = u.detail.head
FlowInv ==
  /\ FlowShown(ui)
  /\ ui.running => Sent(calls, {"run"})
  /\ ui.busy => Sent(calls, {"feeder"})

\* A request as it leaves.
LEMMA FlowCall == \A op : Flow!Call(op).op = op
BY DEF Flow!Call

\* Reading the results is no command.
LEMMA FlowResults == \A u : Flow!loadResults(u).op = "results"
<1> TAKE u
<1> DEFINE d == Flow!Call("results")
<1>1. [d EXCEPT !.filter = u.filter].op = d.op /\ d.op = "results"
  BY FlowCall
<1> QED BY <1>1 DEF Flow!loadResults

\* Nothing is drawn at first.
LEMMA FlowInit == ASSUME Flow!Init PROVE FlowInv
<1>1. Fields(ui, FlowFields) /\ ui.ready = FALSE /\ ui.picked = Nil /\ ui.running = FALSE /\ ui.busy = FALSE
  BY DEF Flow!Init, Fields, FlowFields
<1> QED BY <1>1 DEF FlowInv, FlowShown

\* What the map shows is unchanged.
LEMMA FlowSame ==
  ASSUME FlowShown(ui), Fields(ui', FlowFields), ui'.ready = ui.ready, ui'.drawn = ui.drawn, ui'.detail = ui.detail,
         ui'.colorBy = ui.colorBy, ui'.picked = ui.picked
  PROVE  FlowShown(ui')
BY DEF FlowShown, Flow!colored

\* It is drawn again.
LEMMA FlowOverlay ==
  ASSUME NEW u, Fields(u, FlowFields), u.picked # Nil => u.detail # Nil /\ u.picked = u.detail.head
  PROVE  FlowShown(Flow!Overlay(u)) /\ Flow!Overlay(u).running = u.running /\ Flow!Overlay(u).busy = u.busy
<1> DEFINE d == Flow!colored(u)
           v == [u EXCEPT !.drawn = d]
<1>1. /\ Fields(v, FlowFields) /\ v.drawn = d /\ v.ready = u.ready /\ v.detail = u.detail /\ v.colorBy = u.colorBy
      /\ v.picked = u.picked /\ v.running = u.running /\ v.busy = u.busy
  <2> HIDE DEF d
  <2> QED BY DEF Fields, FlowFields
<1>2. Flow!Overlay(u) = IF u.ready THEN v ELSE u
  BY DEF Flow!Overlay
<1> HIDE DEF v
<1>3. Flow!colored(v) = d
  BY <1>1 DEF Flow!colored
<1> HIDE DEF d
<1> QED BY <1>1, <1>2, <1>3 DEF FlowShown

\* What the invariant asks of a step.
LEMMA FlowStep ==
  ASSUME FlowInv, FlowShown(ui'),
         ui'.running => \/ Sent(calls', {"run"})
                        \/ ui.running /\ \A c \in calls : c.op = "run" => c \in calls',
         ui'.busy => \/ Sent(calls', {"feeder"})
                     \/ ui.busy /\ \A c \in calls : c.op = "feeder" => c \in calls'
  PROVE  FlowInv'
BY DEF FlowInv, Sent

\* Whatever is run, picked or answered, and whether the map is ready first or last, it draws what the page holds.
LEMMA FlowNext == ASSUME FlowInv, Flow!Next PROVE FlowInv'
<1>0. FlowShown(ui) /\ Fields(ui, FlowFields)
  BY DEF FlowInv, FlowShown
<1>1. CASE Flow!ConfigLoaded
  <2>1. PICK c, p : c \in calls /\ c.op = "config" /\ ui' = [ui EXCEPT !.params = p] /\ calls' = (calls \ {c}) \cup {Flow!loadResults(ui)}
    BY <1>1 DEF Flow!ConfigLoaded
  <2>2. /\ Fields(ui', FlowFields) /\ ui'.ready = ui.ready /\ ui'.drawn = ui.drawn /\ ui'.detail = ui.detail
        /\ ui'.colorBy = ui.colorBy /\ ui'.picked = ui.picked /\ ui'.running = ui.running /\ ui'.busy = ui.busy
    BY <1>0, <2>1 DEF Fields, FlowFields
  <2> QED BY <1>0, <2>1, <2>2, FlowSame, FlowStep
<1>2. CASE Flow!onReady
  <2> DEFINE d == Flow!colored(ui)
  <2>1. ui' = [ui EXCEPT !.ready = TRUE, !.drawn = d] /\ calls' = calls
    BY <1>2 DEF Flow!onReady, Flow!Show
  <2>2. d = Flow!colored(ui)
    OBVIOUS
  <2> HIDE DEF d
  <2>3. /\ Fields(ui', FlowFields) /\ ui'.ready = TRUE /\ ui'.drawn = d /\ ui'.detail = ui.detail
        /\ ui'.colorBy = ui.colorBy /\ ui'.picked = ui.picked /\ ui'.running = ui.running /\ ui'.busy = ui.busy
    BY <1>0, <2>1 DEF Fields, FlowFields
  <2>4. FlowShown(ui')
    BY <1>0, <2>2, <2>3 DEF FlowShown, Flow!colored
  <2> QED BY <2>1, <2>3, <2>4, FlowStep
<1>3. CASE Flow!SetFilter
  <2>1. PICK f : ui' = [ui EXCEPT !.filter = f, !.word = f] /\ calls \subseteq calls'
    BY <1>3 DEF Flow!SetFilter, Flow!Send
  <2>2. /\ Fields(ui', FlowFields) /\ ui'.ready = ui.ready /\ ui'.drawn = ui.drawn /\ ui'.detail = ui.detail
        /\ ui'.colorBy = ui.colorBy /\ ui'.picked = ui.picked /\ ui'.running = ui.running /\ ui'.busy = ui.busy
    BY <1>0, <2>1 DEF Fields, FlowFields
  <2> QED BY <1>0, <2>1, <2>2, FlowSame, FlowStep
<1>4. CASE Flow!Type
  <2>1. PICK f : ui' = [ui EXCEPT !.word = f] /\ calls' = calls
    BY <1>4 DEF Flow!Type
  <2>2. /\ Fields(ui', FlowFields) /\ ui'.ready = ui.ready /\ ui'.drawn = ui.drawn /\ ui'.detail = ui.detail
        /\ ui'.colorBy = ui.colorBy /\ ui'.picked = ui.picked /\ ui'.running = ui.running /\ ui'.busy = ui.busy
    BY <1>0, <2>1 DEF Fields, FlowFields
  <2> QED BY <1>0, <2>1, <2>2, FlowSame, FlowStep
<1>5. CASE Flow!ResultsLoaded
  <2>1. PICK c, r : c \in calls /\ c.op = "results" /\ ui' = [ui EXCEPT !.results = r] /\ calls' = calls \ {c}
    BY <1>5 DEF Flow!ResultsLoaded, Flow!Got
  <2>2. /\ Fields(ui', FlowFields) /\ ui'.ready = ui.ready /\ ui'.drawn = ui.drawn /\ ui'.detail = ui.detail
        /\ ui'.colorBy = ui.colorBy /\ ui'.picked = ui.picked /\ ui'.running = ui.running /\ ui'.busy = ui.busy
    BY <1>0, <2>1 DEF Fields, FlowFields
  <2> QED BY <1>0, <2>1, <2>2, FlowSame, FlowStep
<1>6. CASE Flow!SetParams
  <2>1. PICK p : ui' = [ui EXCEPT !.params = p] /\ calls' = calls
    BY <1>6 DEF Flow!SetParams
  <2>2. /\ Fields(ui', FlowFields) /\ ui'.ready = ui.ready /\ ui'.drawn = ui.drawn /\ ui'.detail = ui.detail
        /\ ui'.colorBy = ui.colorBy /\ ui'.picked = ui.picked /\ ui'.running = ui.running /\ ui'.busy = ui.busy
    BY <1>0, <2>1 DEF Fields, FlowFields
  <2> QED BY <1>0, <2>1, <2>2, FlowSame, FlowStep
<1>7. CASE Flow!runAll
  <2> DEFINE d == Flow!Call("run")
             c == [d EXCEPT !.params = ui.params, !.filter = ui.filter]
  <2>1. ui' = [ui EXCEPT !.running = TRUE] /\ calls' = calls \cup {c} /\ c.op = d.op /\ d.op = "run"
    BY <1>7, FlowCall DEF Flow!runAll, Flow!Send
  <2> HIDE DEF c, d
  <2>2. /\ Fields(ui', FlowFields) /\ ui'.ready = ui.ready /\ ui'.drawn = ui.drawn /\ ui'.detail = ui.detail
        /\ ui'.colorBy = ui.colorBy /\ ui'.picked = ui.picked /\ ui'.busy = ui.busy
    BY <1>0, <2>1 DEF Fields, FlowFields
  <2>3. Sent(calls', {"run"})
    BY <2>1 DEF Sent
  <2> QED BY <1>0, <2>1, <2>2, <2>3, FlowSame, FlowStep
<1>8. CASE Flow!Ran
  <2>1. PICK c \in calls : c.op = "run" /\ ui' = [ui EXCEPT !.running = FALSE] /\ calls' = (calls \ {c}) \cup {Flow!loadResults(c)}
    BY <1>8 DEF Flow!Ran
  <2>2. /\ Fields(ui', FlowFields) /\ ui'.ready = ui.ready /\ ui'.drawn = ui.drawn /\ ui'.detail = ui.detail
        /\ ui'.colorBy = ui.colorBy /\ ui'.picked = ui.picked /\ ui'.running = FALSE /\ ui'.busy = ui.busy
    BY <1>0, <2>1 DEF Fields, FlowFields
  <2> QED BY <1>0, <2>1, <2>2, FlowSame, FlowStep
<1>9. CASE Flow!openFeeder \/ Flow!recalc
  <2> DEFINE d == Flow!Call("feeder")
  <2>1. PICK h : ui' = [ui EXCEPT !.tab = "detail", !.busy = TRUE] /\ calls' = calls \cup {[d EXCEPT !.head = h, !.params = ui.params]}
    BY <1>9 DEF Flow!openFeeder, Flow!recalc, Flow!Send
  <2> DEFINE c == [d EXCEPT !.head = h, !.params = ui.params]
  <2>2. calls' = calls \cup {c} /\ c.op = d.op /\ d.op = "feeder"
    BY <2>1, FlowCall
  <2> HIDE DEF c, d
  <2>3. /\ Fields(ui', FlowFields) /\ ui'.ready = ui.ready /\ ui'.drawn = ui.drawn /\ ui'.detail = ui.detail
        /\ ui'.colorBy = ui.colorBy /\ ui'.picked = ui.picked /\ ui'.running = ui.running
    BY <1>0, <2>1 DEF Fields, FlowFields
  <2>4. Sent(calls', {"feeder"})
    BY <2>2 DEF Sent
  <2> QED BY <1>0, <2>2, <2>3, <2>4, FlowSame, FlowStep
<1>10. CASE Flow!FeederAnswered
  <2>1. PICK c \in calls : c.op = "feeder" /\ ui' = Flow!Overlay(Flow!Opened(ui, c)) /\ calls' = calls \ {c}
    BY <1>10 DEF Flow!FeederAnswered, Flow!Got
  <2> DEFINE u == Flow!Opened(ui, c)
  <2>2. Fields(u, FlowFields) /\ u.picked = Nil /\ u.busy = FALSE /\ u.running = ui.running
    BY <1>0 DEF Flow!Opened, Fields, FlowFields
  <2> HIDE DEF u
  <2> QED BY <2>1, <2>2, FlowOverlay, FlowStep DEF u
<1>11. CASE Flow!Failed
  <2>1. PICK c \in calls : /\ calls' = calls \ {c}
                           /\ ui' = CASE c.op = "run" -> [ui EXCEPT !.running = FALSE]
                                      [] c.op = "feeder" -> [ui EXCEPT !.busy = FALSE]
                                      [] OTHER -> ui
    BY <1>11 DEF Flow!Failed, Flow!Got
  <2>2. \/ c.op = "run" /\ ui' = [ui EXCEPT !.running = FALSE]
        \/ c.op = "feeder" /\ ui' = [ui EXCEPT !.busy = FALSE]
        \/ c.op # "run" /\ c.op # "feeder" /\ ui' = ui
    BY <2>1
  <2>3. /\ Fields(ui', FlowFields) /\ ui'.ready = ui.ready /\ ui'.drawn = ui.drawn /\ ui'.detail = ui.detail
        /\ ui'.colorBy = ui.colorBy /\ ui'.picked = ui.picked
    BY <1>0, <2>2 DEF Fields, FlowFields
  <2>4. ui'.running = ui.running \/ (c.op = "run" /\ ui'.running = FALSE)
    BY <1>0, <2>2 DEF Fields, FlowFields
  <2>5. ui'.busy = ui.busy \/ (c.op = "feeder" /\ ui'.busy = FALSE)
    BY <1>0, <2>2 DEF Fields, FlowFields
  <2>6. (ui'.running => ui.running /\ c.op # "run") /\ (ui'.busy => ui.busy /\ c.op # "feeder")
    BY <1>0, <2>2, <2>4, <2>5 DEF Fields, FlowFields
  <2> QED BY <1>0, <2>1, <2>3, <2>6, FlowSame, FlowStep
<1>12. CASE Flow!SetTab
  <2>1. PICK t : ui' = [ui EXCEPT !.tab = t] /\ calls' = calls
    BY <1>12 DEF Flow!SetTab, Flow!Show
  <2>2. /\ Fields(ui', FlowFields) /\ ui'.ready = ui.ready /\ ui'.drawn = ui.drawn /\ ui'.detail = ui.detail
        /\ ui'.colorBy = ui.colorBy /\ ui'.picked = ui.picked /\ ui'.running = ui.running /\ ui'.busy = ui.busy
    BY <1>0, <2>1 DEF Fields, FlowFields
  <2> QED BY <1>0, <2>1, <2>2, FlowSame, FlowStep
<1>13. CASE Flow!SetColor
  <2>1. PICK k : ui' = Flow!Overlay([ui EXCEPT !.colorBy = k]) /\ calls' = calls
    BY <1>13 DEF Flow!SetColor, Flow!Show
  <2> DEFINE u == [ui EXCEPT !.colorBy = k]
  <2>2. Fields(u, FlowFields) /\ u.picked = ui.picked /\ u.detail = ui.detail /\ u.busy = ui.busy /\ u.running = ui.running
    BY <1>0 DEF Fields, FlowFields
  <2>3. u.picked # Nil => u.detail # Nil /\ u.picked = u.detail.head
    BY <1>0, <2>2 DEF FlowShown
  <2> HIDE DEF u
  <2> QED BY <2>1, <2>2, <2>3, FlowOverlay, FlowStep DEF u
<1>14. CASE Flow!flyTo \/ Flow!Unpick
  <2>1. \/ ui.detail # Nil /\ ui' = [ui EXCEPT !.picked = ui.detail.head] /\ calls' = calls
        \/ ui' = [ui EXCEPT !.picked = Nil] /\ calls' = calls
    BY <1>14 DEF Flow!flyTo, Flow!Unpick, Flow!Show
  <2>2. /\ Fields(ui', FlowFields) /\ ui'.ready = ui.ready /\ ui'.drawn = ui.drawn /\ ui'.detail = ui.detail
        /\ ui'.colorBy = ui.colorBy /\ ui'.running = ui.running /\ ui'.busy = ui.busy
    BY <1>0, <2>1 DEF Fields, FlowFields
  <2>3. ui'.picked = Nil \/ (ui.detail # Nil /\ ui'.picked = ui.detail.head)
    BY <1>0, <2>1 DEF Fields, FlowFields
  <2>4. FlowShown(ui')
    BY <1>0, <2>2, <2>3 DEF FlowShown, Flow!colored
  <2> QED BY <2>1, <2>2, <2>4, FlowStep
<1> QED BY <1>1, <1>2, <1>3, <1>4, <1>5, <1>6, <1>7, <1>8, <1>9, <1>10, <1>11, <1>12, <1>13, <1>14 DEF Flow!Next

-----------------------------------------------------------------------------
(* SwitchEvents *)

EventFields == {"items", "filter", "auto", "open", "body", "busy", "more", "types"}
EventCall == {"op", "filter", "before", "rows", "served"}
EventModes == {"kafka", "direct"}
EventsInv ==
  /\ Fields(ui, EventFields) /\ \A c \in calls : Fields(c, EventCall)
  /\ ui.busy # "" => ui.busy \in EventModes /\ Sent(calls, {ui.busy})

\* A request as it leaves.
LEMMA EventsCalls ==
  /\ \A op : Fields(Events!Call(op), EventCall) /\ Events!Call(op).op = op
  /\ \A u, n : Fields(Events!load(u, n), EventCall) /\ Events!load(u, n).op = "list"
<1>1. \A op : Fields(Events!Call(op), EventCall) /\ Events!Call(op).op = op
  BY DEF Events!Call, Fields, EventCall
<1>2. ASSUME NEW u, NEW n PROVE Fields(Events!load(u, n), EventCall) /\ Events!load(u, n).op = "list"
  <2> DEFINE d == Events!Call("list")
  <2>1. Fields(d, EventCall) /\ d.op = "list"
    BY <1>1
  <2>2. Events!load(u, n) = [d EXCEPT !.filter = u.filter, !.before = n]
    BY DEF Events!load
  <2> HIDE DEF d
  <2> QED BY <2>1, <2>2 DEF Fields, EventCall
<1> QED BY <1>1, <1>2

\* No command is on its way.
LEMMA EventsInit == ASSUME Events!Init PROVE EventsInv
<1> DEFINE k == Events!Call("list")
           t == Events!Call("types")
<1>1. Fields(k, EventCall) /\ Fields(t, EventCall)
  BY EventsCalls
<1>2. calls = {k, t}
  BY DEF Events!Init
<1>3. Fields(ui, EventFields) /\ ui.busy = ""
  BY DEF Events!Init, Fields, EventFields
<1> HIDE DEF k, t
<1> QED BY <1>1, <1>2, <1>3 DEF EventsInv

\* What the invariant asks of a step that sends no command.
LEMMA EventsStep ==
  ASSUME EventsInv, Fields(ui', EventFields), ui'.busy = "" \/ ui'.busy = ui.busy,
         \A c \in calls' : c \in calls \/ Fields(c, EventCall),
         ui'.busy = "" \/ \A c \in calls : c.op \in EventModes => c \in calls'
  PROVE  EventsInv'
BY DEF EventsInv, Sent

\* Whatever is filtered, sent or answered, a command that is waited for is on its way.
LEMMA EventsNext == ASSUME EventsInv, Events!Next PROVE EventsInv'
<1>0. Fields(ui, EventFields) /\ \A c \in calls : Fields(c, EventCall)
  BY DEF EventsInv
<1>1. CASE Events!Serve
  <2>p. PICK c, x :           /\ c \in calls
                              /\ c.op = "list" /\ ui' = ui
                              /\ calls' = (calls \ {c}) \cup {[c EXCEPT !.served = TRUE, !.rows = x]}
    BY <1>1 DEF Events!Serve
  <2> DEFINE d == [c EXCEPT !.served = TRUE, !.rows = x]
  <2>1. Fields(d, EventCall)
    BY <1>0, <2>p DEF Fields, EventCall
  <2>2. calls' = (calls \ {c}) \cup {d} /\ c.op \notin EventModes
    BY <2>p DEF EventModes
  <2> HIDE DEF d
  <2> QED BY <1>0, <2>p, <2>1, <2>2, EventsStep
<1>2. CASE Events!Loaded
  <2>a. ui' = [ui EXCEPT !.items = ui'.items, !.more = ui'.more]
    <3>1. \E x, y : ui' = [ui EXCEPT !.items = x, !.more = y]
      BY <1>2, Zenon DEF Events!Loaded
    <3> QED BY <1>0, <3>1 DEF Fields, EventFields
  <2>p. PICK c \in calls : c.op = "list" /\ calls' = calls \ {c}
    BY <1>2 DEF Events!Loaded, Events!Got
  <2>1. Fields(ui', EventFields) /\ ui'.busy = ui.busy
    BY <1>0, <2>a DEF Fields, EventFields
  <2>2. c.op \notin EventModes
    BY <2>p DEF EventModes
  <2> QED BY <2>p, <2>1, <2>2, EventsStep
<1>3. CASE Events!Failed
  <2>p. PICK c \in calls : /\ calls' = calls \ {c}
                           /\ \/ c.op = "types" /\ ui' = [ui EXCEPT !.types = TRUE]
                              \/ c.op = "list" /\ ui' = [ui EXCEPT !.items = IF @ = Nil THEN <<>> ELSE @]
                              \/ ui' = [ui EXCEPT !.busy = ""]
    BY <1>3 DEF Events!Failed, Events!Got
  <2>1. CASE ui' = [ui EXCEPT !.busy = ""]
    <3>1. Fields(ui', EventFields) /\ ui'.busy = ""
      BY <1>0, <2>1 DEF Fields, EventFields
    <3> QED BY <2>p, <3>1, EventsStep
  <2>2. CASE c.op \in {"types", "list"} /\ \E x : ui' = [ui EXCEPT !.types = x] \/ ui' = [ui EXCEPT !.items = x]
    <3>1. Fields(ui', EventFields) /\ ui'.busy = ui.busy
      BY <1>0, <2>2 DEF Fields, EventFields
    <3>2. c.op \notin EventModes
      BY <2>2 DEF EventModes
    <3> QED BY <2>p, <3>1, <3>2, EventsStep
  <2> QED BY <2>p, <2>1, <2>2
<1>4. CASE Events!TypesLoaded
  <2>p. PICK c \in calls : c.op = "types" /\ calls' = calls \ {c} /\ ui' = [ui EXCEPT !.types = TRUE]
    BY <1>4 DEF Events!TypesLoaded, Events!Got
  <2>1. Fields(ui', EventFields) /\ ui'.busy = ui.busy
    BY <1>0, <2>p DEF Fields, EventFields
  <2>2. c.op \notin EventModes
    BY <2>p DEF EventModes
  <2> QED BY <2>p, <2>1, <2>2, EventsStep
<1>5. CASE Events!SetFilter
  <2>p. PICK f : LET u == [ui EXCEPT !.filter = f] IN ui' = u /\ calls' = calls \cup {Events!load(u, 0)}
    BY <1>5 DEF Events!SetFilter, Events!Send
  <2> DEFINE u == [ui EXCEPT !.filter = f]
             d == Events!load(u, 0)
  <2>1. Fields(u, EventFields) /\ u.busy = ui.busy
    BY <1>0 DEF Fields, EventFields
  <2>2. ui' = u /\ calls' = calls \cup {d}
    BY <2>p
  <2>3. Fields(d, EventCall)
    BY EventsCalls
  <2> HIDE DEF u, d
  <2> QED BY <2>1, <2>2, <2>3, EventsStep
<1>6. CASE Events!SetAuto
  <2>1. calls' = calls
    BY <1>6 DEF Events!SetAuto
  <2>p. \E x : ui' = [ui EXCEPT !.auto = x]
    BY <1>6, Zenon DEF Events!SetAuto
  <2>2. Fields(ui', EventFields) /\ ui'.busy = ui.busy
    BY <1>0, <2>p DEF Fields, EventFields
  <2> QED BY <2>1, <2>2, EventsStep
<1>7. CASE Events!refresh \/ Events!Later \/ Events!loadMore
  <2>1. ui' = ui /\ \/ \E n : calls' = calls \cup {Events!load(ui, n)}
                    \/ \E f : calls' = calls \cup {[Events!Call("list") EXCEPT !.filter = f]}
    BY <1>7 DEF Events!refresh, Events!Later, Events!loadMore, Events!Send
  <2>2. \A n : Fields(Events!load(ui, n), EventCall)
    BY EventsCalls
  <2> DEFINE d == Events!Call("list")
  <2>3. Fields(d, EventCall)
    BY EventsCalls
  <2>5. ui' = ui /\ \/ \E n : calls' = calls \cup {Events!load(ui, n)}
                    \/ \E f : calls' = calls \cup {[d EXCEPT !.filter = f]}
    BY <2>1
  <2> HIDE DEF d
  <2>4. \A f : Fields([d EXCEPT !.filter = f], EventCall)
    BY <2>3 DEF Fields, EventCall
  <2> QED BY <1>0, <2>5, <2>2, <2>4, EventsStep
<1>8. CASE Events!Expand
  <2>1. calls' = calls
    BY <1>8 DEF Events!Expand
  <2>p. \E x : ui' = [ui EXCEPT !.open = x]
    BY <1>8, Zenon DEF Events!Expand
  <2>2. Fields(ui', EventFields) /\ ui'.busy = ui.busy
    BY <1>0, <2>p DEF Fields, EventFields
  <2> QED BY <2>1, <2>2, EventsStep
<1>9. CASE Events!SetBody
  <2>p. calls' = calls /\ \E b : ui' = [ui EXCEPT !.body = b]
    BY <1>9 DEF Events!SetBody
  <2>2. Fields(ui', EventFields) /\ ui'.busy = ui.busy
    BY <1>0, <2>p DEF Fields, EventFields
  <2> QED BY <2>p, <2>2, EventsStep
<1>10. CASE Events!send
  <2>p. PICK mode \in EventModes : /\ calls' = calls \cup {[Events!Call(mode) EXCEPT !.filter = ui.filter]}
                                   /\ ui' = [ui EXCEPT !.busy = mode]
    BY <1>10 DEF Events!send, Events!Send, EventModes
  <2> DEFINE d == Events!Call(mode)
             c == [d EXCEPT !.filter = ui.filter]
  <2>1. Fields(d, EventCall) /\ d.op = mode
    BY EventsCalls
  <2>2. calls' = calls \cup {c}
    BY <2>p
  <2> HIDE DEF d
  <2>3. Fields(c, EventCall) /\ c.op = mode
    BY <2>1 DEF Fields, EventCall
  <2> HIDE DEF c
  <2>4. Fields(ui', EventFields) /\ ui'.busy = mode
    BY <1>0, <2>p DEF Fields, EventFields
  <2> QED BY <1>0, <2>p, <2>2, <2>3, <2>4 DEF EventsInv, Sent
<1>11. CASE Events!Sent
  <2>p. PICK c \in calls : calls' = calls \ {c} /\ ui' = [ui EXCEPT !.busy = ""]
    BY <1>11 DEF Events!Sent, Events!Got
  <2>1. Fields(ui', EventFields) /\ ui'.busy = ""
    BY <1>0, <2>p DEF Fields, EventFields
  <2> QED BY <2>p, <2>1, EventsStep
<1>12. CASE Events!Consumed
  BY <1>0, <1>12, EventsStep DEF Events!Consumed
<1> QED BY <1>1, <1>2, <1>3, <1>4, <1>5, <1>6, <1>7, <1>8, <1>9, <1>10, <1>11, <1>12 DEF Events!Next

-----------------------------------------------------------------------------
(* Assets *)

AssetFields == {"tab", "ready", "notReady", "open", "kids", "sel", "filter", "offset", "table", "exporting"}
AssetCall == {"op", "prev", "offset", "row", "had", "cur", "filter"}
KidFields == {"items", "offset", "loading"}
Reading == {"kids", "more"}

AssetPage(u) == Fields(u, AssetFields) /\ (u.kids # Nil => Fields(u.kids, KidFields))
AssetCalls(C) == \A c \in C : Fields(c, AssetCall) /\ (c.op = "more" => Fields(c.cur, KidFields))
KidsAwaited(u, C) == u.kids # Nil /\ u.kids.loading => Sent(C, Reading)
AssetsInv ==
  /\ AssetPage(ui) /\ AssetCalls(calls) /\ KidsAwaited(ui, calls)
  /\ ui.exporting => Sent(calls, {"csv"})

\* A request as it leaves.
LEMMA AssetsCall == \A op : LET c == Tree!Call(op) IN Fields(c, AssetCall) /\ c.op = op
BY DEF Tree!Call, Fields, AssetCall

\* Rows that are read are no longer waited for.
LEMMA AssetsKids ==
  /\ \A s, n : LET k == Tree!Kids(s, n) IN Fields(k, KidFields) /\ k.loading = FALSE
  /\ \A k, c : LET m == Tree!Merged(k, c) IN Fields(m, KidFields) /\ m.loading = FALSE
<1>1. \A s, n : LET k == Tree!Kids(s, n) IN Fields(k, KidFields) /\ k.loading = FALSE
  BY DEF Tree!Kids, Fields, KidFields
<1>2. \A k, c : \E s, n : Tree!Merged(k, c) = Tree!Kids(s, n)
  BY DEF Tree!Merged
<1> QED BY <1>1, <1>2

\* The tree is read.
LEMMA AssetsInit == ASSUME Tree!Init PROVE AssetsInv
<1> DEFINE k == Tree!Call("root")
<1>1. calls = {k} /\ Fields(k, AssetCall) /\ k.op # "more"
  BY AssetsCall DEF Tree!Init
<1>2. Fields(ui, AssetFields) /\ ui.kids = Nil /\ ui.exporting = FALSE
  BY DEF Tree!Init, Fields, AssetFields
<1> HIDE DEF k
<1> QED BY <1>1, <1>2 DEF AssetsInv, AssetPage, AssetCalls, KidsAwaited

\* What the invariant asks of a step.
LEMMA AssetsStep ==
  ASSUME AssetsInv, AssetPage(ui'), \A c \in calls' : c \in calls \/ (Fields(c, AssetCall) /\ (c.op = "more" => Fields(c.cur, KidFields))),
         \/ ui'.kids = Nil \/ ui'.kids.loading = FALSE \/ Sent(calls', Reading)
         \/ (ui'.kids = ui.kids /\ \A c \in calls : c.op \in Reading => c \in calls'),
         \/ ui'.exporting = FALSE \/ Sent(calls', {"csv"})
         \/ (ui'.exporting = ui.exporting /\ \A c \in calls : c.op = "csv" => c \in calls')
  PROVE  AssetsInv'
BY DEF AssetsInv, AssetCalls, KidsAwaited, Sent

\* Steps that leave the rows alone: requests are added, answers to others go.
LEMMA AssetsAside ==
  ASSUME AssetsInv, Fields(ui', AssetFields), ui'.kids = ui.kids, ui'.exporting = ui.exporting,
         \A c \in calls' : c \in calls \/ (Fields(c, AssetCall) /\ c.op # "more"),
         \A c \in calls : c.op \in Reading \cup {"csv"} => c \in calls'
  PROVE  AssetsInv'
<1>1. AssetPage(ui')
  BY DEF AssetsInv, AssetPage
<1> QED BY <1>1, AssetsStep

\* A request as it leaves.
LEMMA AssetsAsked ==
  /\ \A u : LET c == Tree!loadTable(u) IN Fields(c, AssetCall) /\ c.op = "table"
  /\ \A r, h : LET c == [Tree!Call("locate") EXCEPT !.row = r, !.had = h] IN Fields(c, AssetCall) /\ c.op = "locate"
<1>1. ASSUME NEW u PROVE LET c == Tree!loadTable(u) IN Fields(c, AssetCall) /\ c.op = "table"
  <2> DEFINE d == Tree!Call("table")
  <2>1. Fields(d, AssetCall) /\ d.op = "table" /\ Tree!loadTable(u) = [d EXCEPT !.filter = u.filter, !.offset = u.offset]
    BY AssetsCall DEF Tree!loadTable
  <2> HIDE DEF d
  <2> QED BY <2>1 DEF Fields, AssetCall
<1>2. ASSUME NEW r, NEW h PROVE LET c == [Tree!Call("locate") EXCEPT !.row = r, !.had = h] IN Fields(c, AssetCall) /\ c.op = "locate"
  <2> DEFINE d == Tree!Call("locate")
  <2>1. Fields(d, AssetCall) /\ d.op = "locate"
    BY AssetsCall
  <2> HIDE DEF d
  <2>2. LET c == [d EXCEPT !.row = r, !.had = h] IN Fields(c, AssetCall) /\ c.op = "locate"
    BY <2>1 DEF Fields, AssetCall
  <2> QED BY <2>2 DEF d
<1> QED BY <1>1, <1>2

\* The rows of the tree are opened, read or located.
LEMMA AssetsTree == ASSUME AssetsInv, Tree!toggle \/ Tree!loadMore \/ Tree!KidsLoaded \/ Tree!Located PROVE AssetsInv'
<1>0. AssetPage(ui) /\ Fields(ui, AssetFields)
  BY DEF AssetsInv, AssetPage
<1>1. CASE Tree!toggle
  <2>1. CASE calls' = calls /\ \E b : ui' = [ui EXCEPT !.open = b]
    <3>1. Fields(ui', AssetFields) /\ ui'.kids = ui.kids /\ ui'.exporting = ui.exporting
      BY <1>0, <2>1 DEF Fields, AssetFields
    <3> QED BY <2>1, <3>1, AssetsAside
  <2>2. CASE /\ ui' = [ui EXCEPT !.open = TRUE, !.kids = [Tree!Kids(<<>>, 0) EXCEPT !.loading = TRUE]]
             /\ calls' = calls \cup {Tree!Call("kids")}
    <3> DEFINE d == Tree!Call("kids")
               k == Tree!Kids(<<>>, 0)
               l == [k EXCEPT !.loading = TRUE]
    <3>1. Fields(d, AssetCall) /\ d.op = "kids" /\ Fields(k, KidFields)
      BY AssetsCall, AssetsKids
    <3>2. calls' = calls \cup {d} /\ ui' = [ui EXCEPT !.open = TRUE, !.kids = l]
      BY <2>2
    <3> HIDE DEF d, k
    <3>3. Fields(l, KidFields)
      BY <3>1 DEF Fields, KidFields
    <3> HIDE DEF l
    <3>4. AssetPage(ui') /\ ui'.exporting = ui.exporting
      BY <1>0, <3>2, <3>3 DEF AssetPage, Fields, AssetFields
    <3>5. Sent(calls', Reading)
      BY <3>1, <3>2 DEF Sent, Reading
    <3> QED BY <3>1, <3>2, <3>4, <3>5, AssetsStep
  <2>3. CASE ui.open
    BY <1>1, <2>1, <2>3 DEF Tree!toggle
  <2>4. CASE ~ui.open /\ ui.kids # Nil
    BY <1>1, <2>1, <2>4 DEF Tree!toggle
  <2>5. CASE ~ui.open /\ ~(ui.kids # Nil)
    BY <1>1, <2>2, <2>5 DEF Tree!toggle, Tree!Send
  <2> QED BY <2>3, <2>4, <2>5
<1>2. CASE Tree!loadMore
  <2>p. PICK p, n : /\ ui.kids # Nil /\ ui' = [ui EXCEPT !.kids.loading = TRUE]
                    /\ calls' = calls \cup {[Tree!Call("more") EXCEPT !.prev = p, !.offset = n, !.cur = ui.kids]}
    BY <1>2 DEF Tree!loadMore, Tree!Send
  <2> DEFINE d == Tree!Call("more")
             c == [d EXCEPT !.prev = p, !.offset = n, !.cur = ui.kids]
             l == [ui.kids EXCEPT !.loading = TRUE]
  <2>2. calls' = calls \cup {c}
    BY <2>p
  <2>0. Fields(d, AssetCall) /\ d.op = "more"
    BY AssetsCall
  <2> HIDE DEF d
  <2>1. Fields(c, AssetCall) /\ c.op = "more" /\ c.cur = ui.kids
    BY <2>0 DEF Fields, AssetCall
  <2>3. ui' = [ui EXCEPT !.kids = l]
    BY <1>0, <2>p DEF Fields, AssetFields
  <2>4. Fields(l, KidFields) /\ Fields(ui.kids, KidFields)
    BY <1>0, <2>p DEF AssetPage, Fields, KidFields
  <2> HIDE DEF c, l
  <2>5. AssetPage(ui') /\ ui'.exporting = ui.exporting
    BY <1>0, <2>3, <2>4 DEF AssetPage, Fields, AssetFields
  <2>6. Sent(calls', Reading)
    BY <2>1, <2>2 DEF Sent, Reading
  <2> QED BY <2>1, <2>2, <2>4, <2>5, <2>6, AssetsStep
<1>3. CASE Tree!KidsLoaded
  <2>p. PICK c \in calls : c.op \in Reading /\ calls' = calls \ {c}
                           /\ ui' = [ui EXCEPT !.kids = IF c.op = "kids" THEN Tree!Kids(Tree!Rows(0), 0)
                                                        ELSE Tree!Merged(IF @ = Nil THEN c.cur ELSE @, c)]
    BY <1>3, Zenon DEF Tree!KidsLoaded, Tree!Got, Reading
  <2>1. \E k : (\E s : k = Tree!Kids(s, 0)) \/ (\E j : k = Tree!Merged(j, c))
    BY AssetsKids
  <2>2. PICK k : ui' = [ui EXCEPT !.kids = k] /\ ((\E s : k = Tree!Kids(s, 0)) \/ (\E j : k = Tree!Merged(j, c)))
    <3>1. CASE c.op = "kids"
      <4>1. ui' = [ui EXCEPT !.kids = Tree!Kids(Tree!Rows(0), 0)]
        BY <2>p, <3>1
      <4> QED BY <4>1
    <3>2. CASE c.op # "kids"
      <4> DEFINE m == Tree!Merged(IF ui.kids = Nil THEN c.cur ELSE ui.kids, c)
      <4>1. ui' = [ui EXCEPT !.kids = m]
        BY <2>p, <3>2
      <4>2. \E j : m = Tree!Merged(j, c)
        OBVIOUS
      <4> HIDE DEF m
      <4> QED BY <4>1, <4>2
    <3> QED BY <3>1, <3>2
  <2>3. Fields(k, KidFields) /\ k.loading = FALSE
    BY <2>2, AssetsKids
  <2>4. AssetPage(ui') /\ ui'.kids = k /\ ui'.exporting = ui.exporting
    BY <1>0, <2>2, <2>3 DEF AssetPage, Fields, AssetFields
  <2>5. c.op # "csv"
    BY <2>p DEF Reading
  <2> QED BY <2>p, <2>3, <2>4, <2>5, AssetsStep
<1>4. CASE Tree!Located
  <2>p. PICK c \in calls : /\ c.op = "locate" /\ calls' = calls \ {c}
                           /\ ui' = [ui EXCEPT !.tab = "tree", !.open = TRUE, !.sel = c.row,
                                               !.kids = IF c.had THEN @ ELSE Tree!Kids(Tree!Rows(c.row - 1), c.row - 1)]
    BY <1>4, Zenon DEF Tree!Located, Tree!Got
  <2>1. c.op \notin Reading /\ c.op # "csv"
    BY <2>p DEF Reading
  <2> DEFINE k == Tree!Kids(Tree!Rows(c.row - 1), c.row - 1)
  <2>2. Fields(k, KidFields) /\ k.loading = FALSE
    BY AssetsKids
  <2>3. \/ ui' = [ui EXCEPT !.tab = "tree", !.open = TRUE, !.sel = c.row, !.kids = ui.kids]
        \/ ui' = [ui EXCEPT !.tab = "tree", !.open = TRUE, !.sel = c.row, !.kids = k]
    BY <2>p
  <2> HIDE DEF k
  <2>4. AssetPage(ui') /\ (ui'.kids = ui.kids \/ ui'.kids.loading = FALSE) /\ ui'.exporting = ui.exporting
    BY <1>0, <2>2, <2>3 DEF AssetPage, Fields, AssetFields
  <2> QED BY <2>p, <2>1, <2>4, AssetsStep
<1> QED BY <1>1, <1>2, <1>3, <1>4

\* Whatever is opened, read, sorted or exported, rows that are waited for are on their way.
LEMMA AssetsNext == ASSUME AssetsInv, Tree!Next PROVE AssetsInv'
<1>0. AssetPage(ui) /\ Fields(ui, AssetFields)
  BY DEF AssetsInv, AssetPage
<1>r. "root" \notin Reading /\ "table" \notin Reading /\ "locate" \notin Reading
  BY DEF Reading
<1>1. CASE Tree!RootLoaded \/ Tree!NotReady
  <2>p. PICK c \in calls : c.op = "root" /\ calls' = calls \ {c} /\ (\/ ui' = [ui EXCEPT !.ready = TRUE, !.notReady = FALSE]
                                                                   \/ ui' = [ui EXCEPT !.notReady = TRUE])
    BY <1>1 DEF Tree!RootLoaded, Tree!NotReady, Tree!Got
  <2>1. Fields(ui', AssetFields) /\ ui'.kids = ui.kids /\ ui'.exporting = ui.exporting
    BY <1>0, <2>p DEF Fields, AssetFields
  <2> QED BY <1>r, <2>p, <2>1, AssetsAside
<1>2. CASE Tree!loadRoot
  <2> DEFINE d == Tree!Call("root")
  <2>1. Fields(d, AssetCall) /\ d.op = "root" /\ calls' = calls \cup {d} /\ ui' = ui
    BY <1>2, AssetsCall DEF Tree!loadRoot, Tree!Send
  <2> HIDE DEF d
  <2> QED BY <1>0, <2>1, AssetsAside
<1>3. CASE Tree!toggle \/ Tree!loadMore \/ Tree!KidsLoaded \/ Tree!Located
  BY <1>3, AssetsTree
<1>4. CASE Tree!collapseAll \/ Tree!select
  <2>p. calls' = calls /\ \E x : ui' = [ui EXCEPT !.open = x] \/ ui' = [ui EXCEPT !.sel = x]
    BY <1>4 DEF Tree!collapseAll, Tree!select, Tree!Show
  <2>1. Fields(ui', AssetFields) /\ ui'.kids = ui.kids /\ ui'.exporting = ui.exporting
    BY <1>0, <2>p DEF Fields, AssetFields
  <2> QED BY <2>p, <2>1, AssetsAside
<1>5. CASE Tree!locate
  <2>p. PICK r, h : calls' = calls \cup {[Tree!Call("locate") EXCEPT !.row = r, !.had = h]} /\ ui' = ui
    <3>1. PICK r : ui' = ui /\ Tree!Send([Tree!Call("locate") EXCEPT !.row = r, !.had = ui.kids # Nil /\ \E i \in DOMAIN ui.kids.items : ui.kids.items[i] = r])
      BY <1>5, Zenon DEF Tree!locate
    <3>2. \E h : ui' = ui /\ Tree!Send([Tree!Call("locate") EXCEPT !.row = r, !.had = h])
      BY <3>1, Zenon
    <3> QED BY <3>2 DEF Tree!Send
  <2> DEFINE c == [Tree!Call("locate") EXCEPT !.row = r, !.had = h]
  <2>1. Fields(c, AssetCall) /\ c.op = "locate" /\ calls' = calls \cup {c}
    BY <2>p, AssetsAsked
  <2> HIDE DEF c
  <2> QED BY <1>0, <2>p, <2>1, AssetsAside
<1>6. CASE Tree!SetTab
  <2> DEFINE c == Tree!loadTable(ui)
  <2>p. (calls' = calls \/ calls' = calls \cup {c}) /\ \E t : ui' = [ui EXCEPT !.tab = t]
    BY <1>6 DEF Tree!SetTab, Tree!Send
  <2>1. Fields(c, AssetCall) /\ c.op = "table"
    BY AssetsAsked
  <2> HIDE DEF c
  <2>2. Fields(ui', AssetFields) /\ ui'.kids = ui.kids /\ ui'.exporting = ui.exporting
    BY <1>0, <2>p DEF Fields, AssetFields
  <2> QED BY <2>p, <2>1, <2>2, AssetsAside
<1>7. CASE Tree!openTable
  <2>p. PICK f : LET u == [ui EXCEPT !.tab = "table", !.filter = f]
                 IN /\ ui' = [u EXCEPT !.offset = 0]
                    /\ calls' = calls \cup {Tree!loadTable(u), Tree!loadTable([u EXCEPT !.offset = 0])}
    BY <1>7 DEF Tree!openTable, Tree!SendAll
  <2>1. PICK u, v : ui' = [[ui EXCEPT !.tab = "table", !.filter = f] EXCEPT !.offset = 0] /\ calls' = calls \cup {Tree!loadTable(u), Tree!loadTable(v)}
    BY <2>p
  <2> DEFINE c == Tree!loadTable(u)
             d == Tree!loadTable(v)
  <2>2. Fields(c, AssetCall) /\ c.op = "table" /\ Fields(d, AssetCall) /\ d.op = "table" /\ calls' = calls \cup {c, d}
    BY <2>1, AssetsAsked
  <2> HIDE DEF c, d
  <2>3. Fields(ui', AssetFields) /\ ui'.kids = ui.kids /\ ui'.exporting = ui.exporting
    BY <1>0, <2>1 DEF Fields, AssetFields
  <2> QED BY <2>2, <2>3, AssetsAside
<1>8. CASE Tree!pager
  <2>p. PICK n : LET u == [ui EXCEPT !.offset = n] IN ui' = u /\ calls' = calls \cup {Tree!loadTable(u)}
    BY <1>8 DEF Tree!pager, Tree!Send
  <2> DEFINE c == Tree!loadTable(ui')
  <2>2. Fields(c, AssetCall) /\ c.op = "table" /\ calls' = calls \cup {c}
    BY <2>p, AssetsAsked
  <2> HIDE DEF c
  <2>3. Fields(ui', AssetFields) /\ ui'.kids = ui.kids /\ ui'.exporting = ui.exporting
    BY <1>0, <2>p DEF Fields, AssetFields
  <2> QED BY <2>2, <2>3, AssetsAside
<1>9. CASE Tree!TableLoaded
  <2>p. PICK c, t : c \in calls /\ c.op = "table" /\ calls' = calls \ {c} /\ ui' = [ui EXCEPT !.table = t]
    BY <1>9 DEF Tree!TableLoaded, Tree!Got
  <2>1. Fields(ui', AssetFields) /\ ui'.kids = ui.kids /\ ui'.exporting = ui.exporting
    BY <1>0, <2>p DEF Fields, AssetFields
  <2> QED BY <1>r, <2>p, <2>1, AssetsAside
<1>10. CASE Tree!exportCsv
  <2> DEFINE d == Tree!Call("csv")
  <2>1. Fields(d, AssetCall) /\ d.op = "csv" /\ calls' = calls \cup {d} /\ ui' = [ui EXCEPT !.exporting = TRUE]
    BY <1>10, AssetsCall DEF Tree!exportCsv, Tree!Send
  <2> HIDE DEF d
  <2>2. AssetPage(ui') /\ ui'.kids = ui.kids
    BY <1>0, <2>1 DEF AssetPage, Fields, AssetFields
  <2>3. Sent(calls', {"csv"})
    BY <2>1 DEF Sent
  <2> QED BY <2>1, <2>2, <2>3, AssetsStep
<1>11. CASE Tree!Exported
  <2>p. PICK c \in calls : c.op = "csv" /\ calls' = calls \ {c} /\ ui' = [ui EXCEPT !.exporting = FALSE]
    BY <1>11 DEF Tree!Exported, Tree!Got
  <2>2. AssetPage(ui') /\ ui'.kids = ui.kids /\ ui'.exporting = FALSE
    BY <1>0, <2>p DEF AssetPage, Fields, AssetFields
  <2>3. c.op \notin Reading
    BY <2>p DEF Reading
  <2> QED BY <2>p, <2>2, <2>3, AssetsStep
<1>12. CASE Tree!Failed
  <2>p. PICK c \in calls : /\ c.op # "csv" /\ calls' = calls \ {c}
                           /\ ui' = CASE c.op = "kids" -> [ui EXCEPT !.kids = Nil]
                                      [] c.op = "more" -> [ui EXCEPT !.kids = [c.cur EXCEPT !.loading = FALSE]]
                                      [] OTHER -> ui
    BY <1>12 DEF Tree!Failed, Tree!Got
  <2>1. CASE c.op = "kids"
    <3>1. AssetPage(ui') /\ ui'.kids = Nil /\ ui'.exporting = ui.exporting
      BY <1>0, <2>p, <2>1 DEF AssetPage, Fields, AssetFields
    <3> QED BY <2>p, <3>1, AssetsStep
  <2>2. CASE c.op = "more"
    <3> DEFINE k == [c.cur EXCEPT !.loading = FALSE]
    <3>1. Fields(c.cur, KidFields)
      BY <2>p, <2>2 DEF AssetsInv, AssetCalls
    <3>2. Fields(k, KidFields) /\ k.loading = FALSE
      BY <3>1 DEF Fields, KidFields
    <3>3. ui' = [ui EXCEPT !.kids = k]
      BY <2>p, <2>2
    <3> HIDE DEF k
    <3>4. AssetPage(ui') /\ ui'.kids.loading = FALSE /\ ui'.exporting = ui.exporting
      BY <1>0, <3>2, <3>3 DEF AssetPage, Fields, AssetFields
    <3> QED BY <2>p, <3>4, AssetsStep
  <2>3. CASE c.op \notin Reading
    BY <1>0, <2>p, <2>3, AssetsAside DEF Reading
  <2> QED BY <2>1, <2>2, <2>3 DEF Reading
<1> QED BY <1>1, <1>2, <1>3, <1>4, <1>5, <1>6, <1>7, <1>8, <1>9, <1>10, <1>11, <1>12 DEF Tree!Next

-----------------------------------------------------------------------------
(* OfflineArea *)

DeviceFields == {"areas", "cache", "saved", "gone", "beside", "turns"}
DownloadFields == {"op", "id", "visit", "page", "left", "fetching", "storing", "urls", "aborted"}
DeleteFields == {"op", "id", "visit", "rest", "left"}

\* A deletion is alone, and takes no tile that another area uses.
DeletesAlone(w, C) ==
  \A c \in C : c.op = "delete" =>
    /\ C = {c} /\ c.id \in w.gone
    /\ c.rest = {a \in w.areas : a.id # c.id}
    /\ \A r \in c.rest, t \in c.left : t \notin r.tiles
TilesThere(w, C) == \A c \in C : c.op = "download" => c.urls \subseteq w.cache
AreasThere(w) ==
  /\ \A a \in w.areas : a.id \notin w.gone => a.tiles \subseteq w.cache
  /\ w.saved \ w.gone \subseteq Offline!Ids(w.areas)
AreaCalls(C) ==
  \A c \in C : /\ c.op = "download" => Fields(c, DownloadFields)
               /\ c.op = "delete" => Fields(c, DeleteFields)
OfflineInv ==
  /\ Fields(world, DeviceFields) /\ AreaCalls(calls)
  /\ ~world.beside => AreasThere(world) /\ TilesThere(world, calls) /\ DeletesAlone(world, calls)

\* No area is kept at first.
LEMMA OfflineInit == ASSUME Offline!Init PROVE OfflineInv
BY DEF Offline!Init, OfflineInv, Fields, DeviceFields, AreaCalls, AreasThere, TilesThere, DeletesAlone, Offline!Ids

\* What a turn of the user leaves alone, and what it says of the requests.
LEMMA OfflineTurn ==
  ASSUME Fields(world, DeviceFields), NEW id, Offline!Turn(id)
  PROVE  /\ Fields(world', DeviceFields) /\ world'.areas = world.areas /\ world'.cache = world.cache /\ world'.saved = world.saved
         /\ world'.gone = world.gone \cup id
         /\ ~world'.beside => ~world.beside /\ (calls = {} \/ (id = {} /\ \A c \in calls : c.op # "delete"))
<1> DEFINE F(b) == [world EXCEPT !.turns = @ + 1, !.gone = @ \cup id, !.beside = b]
           B == world.beside \/ (calls # {} /\ (id # {} \/ \E c \in calls : c.op = "delete"))
<1>1. world' = F(B)
  BY Zenon DEF Offline!Turn
<1>2. ~B => ~world.beside /\ (calls = {} \/ (id = {} /\ \A c \in calls : c.op # "delete"))
  BY Zenon
<1> HIDE DEF F, B
<1>p. PICK b : world' = F(b) /\ (~b => ~world.beside /\ (calls = {} \/ (id = {} /\ \A c \in calls : c.op # "delete")))
  BY <1>1, <1>2, Zenon
<1>3. /\ Fields(world', DeviceFields) /\ world'.areas = world.areas /\ world'.cache = world.cache /\ world'.saved = world.saved
      /\ world'.gone = world.gone \cup id /\ world'.beside = b
  BY <1>p DEF F, Fields, DeviceFields
<1> QED BY <1>p, <1>3

\* What a turn of the user leaves as it was.
LEMMA OfflineTurned ==
  ASSUME OfflineInv, Offline!Turned
  PROVE  /\ Fields(world', DeviceFields) /\ world'.areas = world.areas /\ world'.cache = world.cache /\ world'.saved = world.saved
         /\ world'.gone = world.gone
         /\ ~world'.beside => ~world.beside /\ (calls = {} \/ \A c \in calls : c.op # "delete")
BY OfflineTurn DEF Offline!Turned, OfflineInv

\* A turn without a request.
LEMMA OfflineIdle ==
  ASSUME OfflineInv, Offline!Turned, calls' = calls \/ calls' = {}
  PROVE  OfflineInv'
<1>1. /\ Fields(world', DeviceFields) /\ world'.areas = world.areas /\ world'.cache = world.cache /\ world'.saved = world.saved
      /\ world'.gone = world.gone
      /\ ~world'.beside => ~world.beside /\ (calls = {} \/ \A c \in calls : c.op # "delete")
  BY OfflineTurned
<1> QED BY <1>1 DEF OfflineInv, AreaCalls, AreasThere, TilesThere, DeletesAlone

\* A turn that begins a download.
LEMMA OfflineDownload ==
  ASSUME OfflineInv, NEW tiles, Offline!Download(tiles)
  PROVE  OfflineInv'
<1> DEFINE d == [op |-> "download", id |-> world.turns + 1, visit |-> ui.visit, page |-> ui.page, left |-> tiles, fetching |-> {},
                 storing |-> {}, urls |-> {}, aborted |-> FALSE]
<1>0. Offline!Turned /\ calls' = calls \cup {d}
  BY DEF Offline!Download, Offline!Send
<1>1. /\ Fields(world', DeviceFields) /\ world'.areas = world.areas /\ world'.cache = world.cache /\ world'.saved = world.saved
      /\ world'.gone = world.gone
      /\ ~world'.beside => ~world.beside /\ (calls = {} \/ \A c \in calls : c.op # "delete")
  BY <1>0, OfflineTurned
<1>2. Fields(d, DownloadFields) /\ d.op = "download" /\ d.urls = {}
  BY DEF Fields, DownloadFields
<1> HIDE DEF d
<1> QED BY <1>0, <1>1, <1>2 DEF OfflineInv, AreaCalls, AreasThere, TilesThere, DeletesAlone

\* A download goes further: what it has stored is in the cache, which grows.
LEMMA OfflineStep ==
  ASSUME OfflineInv, NEW c \in calls, c.op # "delete", Fields(world', DeviceFields), world'.beside = world.beside, world'.gone = world.gone,
         world.cache \subseteq world'.cache,
         \/ world'.areas = world.areas /\ world'.saved = world.saved
         \/ \E a : /\ world'.areas = world.areas \cup {a} /\ a.tiles \subseteq c.urls /\ c.op = "download"
                   /\ world'.saved = world.saved \cup {a.id},
         \A d \in calls' : \/ d \in calls \ {c}
                           \/ d.op = "stray"
                           \/ c.op = "download" /\ d.op = "download" /\ Fields(d, DownloadFields) /\ d.urls \subseteq c.urls \cup world'.cache
  PROVE  OfflineInv'
<1>1. AreaCalls(calls')
  BY DEF OfflineInv, AreaCalls
<1> SUFFICES ASSUME ~world.beside PROVE AreasThere(world') /\ TilesThere(world', calls') /\ DeletesAlone(world', calls')
  BY <1>1 DEF OfflineInv
<1>2. AreasThere(world) /\ TilesThere(world, calls) /\ DeletesAlone(world, calls)
  BY DEF OfflineInv
<1>3. c.op = "download" => c.urls \subseteq world'.cache
  BY <1>2 DEF TilesThere
<1>4. TilesThere(world', calls')
  BY <1>2, <1>3 DEF TilesThere
<1>5. \A d \in calls : d.op # "delete"
  BY <1>2 DEF DeletesAlone
<1>6. DeletesAlone(world', calls')
  BY <1>5 DEF DeletesAlone
<1>7. AreasThere(world')
  <2>1. CASE world'.areas = world.areas /\ world'.saved = world.saved
    BY <1>2, <2>1 DEF AreasThere
  <2>2. ASSUME NEW a, world'.areas = world.areas \cup {a}, a.tiles \subseteq c.urls, c.op = "download", world'.saved = world.saved \cup {a.id}
        PROVE  AreasThere(world')
    <3>1. a.tiles \subseteq world'.cache
      BY <1>3, <2>2
    <3>2. \A b \in world'.areas : b.id \notin world'.gone => b.tiles \subseteq world'.cache
      BY <1>2, <2>2, <3>1 DEF AreasThere
    <3>3. Offline!Ids(world.areas) \cup {a.id} \subseteq Offline!Ids(world'.areas)
      BY <2>2 DEF Offline!Ids
    <3> QED BY <1>2, <2>2, <3>2, <3>3 DEF AreasThere
  <2> QED BY <2>1, <2>2
<1> QED BY <1>4, <1>6, <1>7

\* The dialog is closed.
LEMMA OfflineClose == ASSUME OfflineInv, Offline!CloseDialog PROVE OfflineInv'
<1> DEFINE f(c) == IF c.op = "download" /\ c.id = ui.ctrl THEN [c EXCEPT !.aborted = TRUE] ELSE c
<1>0. Offline!Turned /\ calls' = {f(c) : c \in calls}
  BY DEF Offline!CloseDialog
<1>1. /\ Fields(world', DeviceFields) /\ world'.areas = world.areas /\ world'.cache = world.cache /\ world'.saved = world.saved
      /\ world'.gone = world.gone
      /\ ~world'.beside => ~world.beside /\ (calls = {} \/ \A c \in calls : c.op # "delete")
  BY <1>0, OfflineTurned
<1>2. ASSUME NEW c \in calls
      PROVE  /\ f(c).op = c.op
             /\ c.op = "download" => Fields(f(c), DownloadFields) /\ f(c).urls = c.urls
             /\ c.op # "download" => f(c) = c
  <2>1. c.op = "download" => Fields(c, DownloadFields)
    BY DEF OfflineInv, AreaCalls
  <2>2. CASE c.op = "download" /\ c.id = ui.ctrl
    BY <2>1, <2>2 DEF Fields, DownloadFields
  <2>3. CASE ~(c.op = "download" /\ c.id = ui.ctrl)
    BY <2>1, <2>3
  <2> QED BY <2>2, <2>3
<1> HIDE DEF f
<1>3. AreaCalls(calls')
  BY <1>0, <1>2 DEF OfflineInv, AreaCalls
<1>4. TilesThere(world, calls) => TilesThere(world', calls')
  BY <1>0, <1>1, <1>2 DEF TilesThere
<1>5. calls = {} \/ (\A c \in calls : c.op # "delete") => DeletesAlone(world', calls')
  BY <1>0, <1>2 DEF DeletesAlone
<1> QED BY <1>1, <1>3, <1>4, <1>5 DEF OfflineInv, AreasThere

\* A tile is taken, or comes.
LEMMA OfflineTile ==
  ASSUME OfflineInv, NEW c \in calls, c.op = "download", NEW d, Fields(d, DownloadFields), d.op = "download", d.urls = c.urls,
         calls' = (calls \ {c}) \cup {d}, world' = world
  PROVE  OfflineInv'
<1>1. Fields(world, DeviceFields)
  BY DEF OfflineInv
<1>2. \A e \in calls' : e \in calls \ {c} \/ (c.op = "download" /\ e.op = "download" /\ Fields(e, DownloadFields) /\ e.urls \subseteq c.urls \cup world'.cache)
  OBVIOUS
<1> QED BY <1>1, <1>2, OfflineStep

\* A tile is taken from the cache or comes.
LEMMA OfflineFetch == ASSUME OfflineInv, Offline!Fetch \/ Offline!Fetched PROVE OfflineInv'
<1>1. \A c \in calls : c.op = "download" => Fields(c, DownloadFields)
  BY DEF OfflineInv, AreaCalls
<1>2. CASE Offline!Fetch
  <2>1. PICK c, t : c \in calls /\ c.op = "download" /\ calls' = (calls \ {c}) \cup {[c EXCEPT !.left = @ \ {t}, !.fetching = @ \cup {t}]} /\ world' = world
    BY <1>2 DEF Offline!Fetch, Offline!Step
  <2> DEFINE d == [c EXCEPT !.left = @ \ {t}, !.fetching = @ \cup {t}]
  <2>2. Fields(d, DownloadFields) /\ d.op = "download" /\ d.urls = c.urls
    BY <1>1, <2>1 DEF Fields, DownloadFields
  <2>3. calls' = (calls \ {c}) \cup {d}
    BY <2>1
  <2> HIDE DEF d
  <2> QED BY <2>1, <2>2, <2>3, OfflineTile
<1>3. CASE Offline!Fetched
  <2>1. PICK c, t :           /\ c \in calls
                              /\ c.op = "download" /\ world' = world
                              /\ \/ calls' = (calls \ {c}) \cup {[c EXCEPT !.fetching = @ \ {t}, !.storing = @ \cup {t}]}
                                 \/ calls' = (calls \ {c}) \cup {[c EXCEPT !.fetching = @ \ {t}]}
    BY <1>3 DEF Offline!Fetched, Offline!Step
  <2> DEFINE d == [c EXCEPT !.fetching = @ \ {t}, !.storing = @ \cup {t}]
             e == [c EXCEPT !.fetching = @ \ {t}]
  <2>a. Fields(d, DownloadFields) /\ d.op = "download" /\ d.urls = c.urls
    BY <1>1, <2>1 DEF Fields, DownloadFields
  <2>b. Fields(e, DownloadFields) /\ e.op = "download" /\ e.urls = c.urls
    BY <1>1, <2>1 DEF Fields, DownloadFields
  <2>2. /\ Fields(d, DownloadFields) /\ d.op = "download" /\ d.urls = c.urls
        /\ Fields(e, DownloadFields) /\ e.op = "download" /\ e.urls = c.urls
    BY <2>a, <2>b
  <2>3. calls' = (calls \ {c}) \cup {d} \/ calls' = (calls \ {c}) \cup {e}
    BY <2>1
  <2> HIDE DEF d, e
  <2> QED BY <2>1, <2>2, <2>3, OfflineTile
<1> QED BY <1>2, <1>3

\* A tile is stored.
LEMMA OfflineStored == ASSUME OfflineInv, Offline!Stored PROVE OfflineInv'
<1>p. PICK c, t :           /\ c \in calls
                            /\ c.op = "download"
                            /\ \/ /\ calls' = (calls \ {c}) \cup {[c EXCEPT !.storing = @ \ {t}, !.urls = @ \cup {t}]}
                                  /\ world' = [world EXCEPT !.cache = @ \cup {t}]
                               \/ calls' = (calls \ {c}) \cup {[c EXCEPT !.storing = @ \ {t}]} /\ world' = world
  BY DEF Offline!Stored, Offline!Step
<1>0. Fields(c, DownloadFields) /\ Fields(world, DeviceFields)
  BY <1>p DEF OfflineInv, AreaCalls
<1>1. ASSUME calls' = (calls \ {c}) \cup {[c EXCEPT !.storing = @ \ {t}, !.urls = @ \cup {t}]},
             world' = [world EXCEPT !.cache = @ \cup {t}]
      PROVE  OfflineInv'
  <2> DEFINE d == [c EXCEPT !.storing = @ \ {t}, !.urls = @ \cup {t}]
  <2>1. Fields(d, DownloadFields) /\ d.op = c.op /\ d.urls = c.urls \cup {t}
    BY <1>0 DEF Fields, DownloadFields
  <2>2. /\ Fields(world', DeviceFields) /\ world'.areas = world.areas /\ world'.cache = world.cache \cup {t} /\ world'.saved = world.saved
        /\ world'.gone = world.gone /\ world'.beside = world.beside
    BY <1>0, <1>1 DEF Fields, DeviceFields
  <2>3. calls' = (calls \ {c}) \cup {d}
    BY <1>1
  <2> HIDE DEF d
  <2> QED BY <1>p, <2>1, <2>2, <2>3, OfflineStep
<1>2. ASSUME calls' = (calls \ {c}) \cup {[c EXCEPT !.storing = @ \ {t}]}, world' = world
      PROVE  OfflineInv'
  <2> DEFINE d == [c EXCEPT !.storing = @ \ {t}]
  <2>1. Fields(d, DownloadFields) /\ d.op = c.op /\ d.urls = c.urls
    BY <1>0 DEF Fields, DownloadFields
  <2>3. calls' = (calls \ {c}) \cup {d}
    BY <1>2
  <2> HIDE DEF d
  <2> QED BY <1>p, <1>0, <1>2, <2>1, <2>3, OfflineStep
<1> QED BY <1>p, <1>1, <1>2

\* A download that was stopped ends.
LEMMA OfflineAborted == ASSUME OfflineInv, Offline!Aborted PROVE OfflineInv'
<1>p. PICK c \in calls : /\ c.op = "download" /\ world' = world
                         /\ calls' = (calls \ {c}) \cup {[op |-> "stray", storing |-> S] : S \in {c.storing} \ {{}}}
  BY DEF Offline!Aborted
<1>1. \A d \in calls' : d \in calls \ {c} \/ d.op = "stray"
  BY <1>p
<1>2. Fields(world, DeviceFields)
  BY DEF OfflineInv
<1> QED BY <1>p, <1>1, <1>2, OfflineStep

\* A tile is stored after its download was stopped.
LEMMA OfflineStray == ASSUME OfflineInv, Offline!StrayStored PROVE OfflineInv'
<1>p. PICK c, S : c \in calls /\ c.op = "stray" /\ world' = [world EXCEPT !.cache = @ \cup S] /\ calls' = calls \ {c}
  BY DEF Offline!StrayStored, Offline!Got
<1>0. Fields(world, DeviceFields)
  BY DEF OfflineInv
<1>1. /\ Fields(world', DeviceFields) /\ world'.areas = world.areas /\ world'.cache = world.cache \cup S /\ world'.saved = world.saved
      /\ world'.gone = world.gone /\ world'.beside = world.beside
  BY <1>0, <1>p DEF Fields, DeviceFields
<1> QED BY <1>p, <1>1, OfflineStep

\* A download ends, and its area is on the list.
LEMMA OfflineDownloaded == ASSUME OfflineInv, Offline!Downloaded PROVE OfflineInv'
<1>p. PICK c \in calls : /\ c.op = "download" /\ calls' = calls \ {c}
                         /\ world' = Offline!Listed(c) \/ world' = world
  BY DEF Offline!Downloaded, Offline!Got
<1>0. Fields(world, DeviceFields)
  BY DEF OfflineInv
<1> DEFINE a == [id |-> c.id, tiles |-> c.urls]
<1>1. CASE world' = Offline!Listed(c)
  <2>1. a.id = c.id /\ a.tiles = c.urls
    OBVIOUS
  <2>2. world' = [world EXCEPT !.areas = @ \cup {a}, !.saved = @ \cup {a.id}]
    BY <1>1, <2>1 DEF Offline!Listed
  <2> HIDE DEF a
  <2>3. /\ Fields(world', DeviceFields) /\ world'.areas = world.areas \cup {a} /\ world'.cache = world.cache /\ world'.saved = world.saved \cup {a.id}
        /\ world'.gone = world.gone /\ world'.beside = world.beside
    BY <1>0, <2>2 DEF Fields, DeviceFields
  <2>4. \E b : /\ world'.areas = world.areas \cup {b} /\ b.tiles \subseteq c.urls /\ c.op = "download"
               /\ world'.saved = world.saved \cup {b.id}
    BY <1>p, <2>1, <2>3
  <2> QED BY <1>p, <2>3, <2>4, OfflineStep
<1>2. CASE world' = world
  BY <1>p, <1>0, <1>2, OfflineStep
<1> QED BY <1>p, <1>1, <1>2

\* An area is to be deleted.
LEMMA OfflineDelete == ASSUME OfflineInv, Offline!Delete PROVE OfflineInv'
<1>p. PICK id : LET rest == {a \in world.areas : a.id # id}
                    d == [op |-> "delete", id |-> id, visit |-> ui.visit, rest |-> rest,
                          left |-> UNION {Offline!Unused(a, rest) : a \in world.areas \ rest}]
                IN Offline!Turn({id}) /\ calls' = calls \cup {d}
  BY DEF Offline!Delete, Offline!Send
<1> DEFINE rest == {a \in world.areas : a.id # id}
           left == UNION {Offline!Unused(a, rest) : a \in world.areas \ rest}
           d == [op |-> "delete", id |-> id, visit |-> ui.visit, rest |-> rest, left |-> left]
<1>0. Offline!Turn({id}) /\ calls' = calls \cup {d}
  BY <1>p
<1>1. /\ Fields(world', DeviceFields) /\ world'.areas = world.areas /\ world'.cache = world.cache /\ world'.saved = world.saved
      /\ world'.gone = world.gone \cup {id}
      /\ ~world'.beside => ~world.beside /\ (calls = {} \/ ({id} = {} /\ \A c \in calls : c.op # "delete"))
  BY <1>0, OfflineTurn DEF OfflineInv
<1>2. \A r \in rest, t \in left : t \notin r.tiles
  BY DEF Offline!Unused
<1>3. Fields(d, DeleteFields) /\ d.op = "delete" /\ d.id = id /\ d.rest = rest /\ d.left = left
  <2> HIDE DEF rest, left
  <2> QED BY DEF Fields, DeleteFields
<1>4. rest = {a \in world'.areas : a.id # id}
  BY <1>1
<1> HIDE DEF d, left, rest
<1>5. AreaCalls(calls')
  BY <1>0, <1>3 DEF OfflineInv, AreaCalls
<1> SUFFICES ASSUME ~world'.beside PROVE AreasThere(world') /\ TilesThere(world', calls') /\ DeletesAlone(world', calls')
  BY <1>1, <1>5 DEF OfflineInv
<1>6. calls = {} /\ calls' = {d}
  BY <1>0, <1>1
<1>7. DeletesAlone(world', calls')
  BY <1>1, <1>2, <1>3, <1>4, <1>6 DEF DeletesAlone
<1>8. TilesThere(world', calls')
  BY <1>3, <1>6 DEF TilesThere
<1>9. AreasThere(world')
  BY <1>1 DEF OfflineInv, AreasThere
<1> QED BY <1>7, <1>8, <1>9

\* A tile of an area deleted goes.
LEMMA OfflineErased == ASSUME OfflineInv, Offline!Erased PROVE OfflineInv'
<1>p. PICK c, t :           /\ c \in calls
                            /\ t \in c.left /\ c.op = "delete" /\ calls' = (calls \ {c}) \cup {[c EXCEPT !.left = @ \ {t}]}
                            /\ world' = [world EXCEPT !.cache = @ \ {t}]
  BY DEF Offline!Erased, Offline!Step
<1>0. Fields(c, DeleteFields) /\ Fields(world, DeviceFields)
  BY <1>p DEF OfflineInv, AreaCalls
<1> DEFINE d == [c EXCEPT !.left = @ \ {t}]
<1>1. Fields(d, DeleteFields) /\ d.op = "delete" /\ d.id = c.id /\ d.rest = c.rest /\ d.left = c.left \ {t}
  BY <1>0, <1>p DEF Fields, DeleteFields
<1>2. calls' = (calls \ {c}) \cup {d}
  BY <1>p
<1> HIDE DEF d
<1>3. /\ Fields(world', DeviceFields) /\ world'.areas = world.areas /\ world'.cache = world.cache \ {t} /\ world'.saved = world.saved
      /\ world'.gone = world.gone /\ world'.beside = world.beside
  BY <1>0, <1>p DEF Fields, DeviceFields
<1>4. AreaCalls(calls')
  BY <1>1, <1>2 DEF OfflineInv, AreaCalls
<1> SUFFICES ASSUME ~world.beside PROVE AreasThere(world') /\ TilesThere(world', calls') /\ DeletesAlone(world', calls')
  BY <1>3, <1>4 DEF OfflineInv
<1>5. /\ calls = {c} /\ c.id \in world.gone /\ c.rest = {a \in world.areas : a.id # c.id}
      /\ \A r \in c.rest, x \in c.left : x \notin r.tiles
  BY <1>p DEF OfflineInv, DeletesAlone
<1>6. calls' = {d}
  BY <1>2, <1>5
<1>7. DeletesAlone(world', calls')
  BY <1>1, <1>3, <1>5, <1>6 DEF DeletesAlone
<1>8. TilesThere(world', calls')
  BY <1>1, <1>6 DEF TilesThere
<1>9. AreasThere(world')
  <2>1. \A a \in world.areas : a.id \notin world.gone => a \in c.rest
    BY <1>5
  <2>2. \A a \in world.areas : a.id \notin world.gone => t \notin a.tiles
    BY <1>p, <1>5, <2>1
  <2> QED BY <1>3, <2>2 DEF OfflineInv, AreasThere
<1> QED BY <1>7, <1>8, <1>9

\* A deletion ends.
LEMMA OfflineDeleted == ASSUME OfflineInv, Offline!Deleted PROVE OfflineInv'
<1>p. PICK c \in calls : c.op = "delete" /\ calls' = calls \ {c} /\ world' = [world EXCEPT !.areas = c.rest]
  BY DEF Offline!Deleted, Offline!Got
<1>0. Fields(world, DeviceFields)
  BY DEF OfflineInv
<1>3. /\ Fields(world', DeviceFields) /\ world'.areas = c.rest /\ world'.cache = world.cache /\ world'.saved = world.saved
      /\ world'.gone = world.gone /\ world'.beside = world.beside
  BY <1>0, <1>p DEF Fields, DeviceFields
<1>4. AreaCalls(calls')
  BY <1>p DEF OfflineInv, AreaCalls
<1> SUFFICES ASSUME ~world.beside PROVE AreasThere(world') /\ TilesThere(world', calls') /\ DeletesAlone(world', calls')
  BY <1>3, <1>4 DEF OfflineInv
<1>5. calls = {c} /\ c.id \in world.gone /\ c.rest = {a \in world.areas : a.id # c.id}
  BY <1>p DEF OfflineInv, DeletesAlone
<1>6. calls' = {}
  BY <1>p, <1>5
<1>7. Offline!Ids(world.areas) \ world.gone \subseteq Offline!Ids(c.rest)
  BY <1>5 DEF Offline!Ids
<1>8. AreasThere(world')
  BY <1>3, <1>5, <1>7 DEF OfflineInv, AreasThere
<1> QED BY <1>6, <1>8 DEF TilesThere, DeletesAlone

\* Whatever is downloaded, stopped or deleted in turn, an area on the list has its tiles.
LEMMA OfflineNext == ASSUME OfflineInv, Offline!Next PROVE OfflineInv'
<1>1. CASE Offline!Visit BY <1>1, OfflineIdle DEF Offline!Visit
<1>2. CASE Offline!Reload BY <1>2, OfflineIdle DEF Offline!Reload
<1>3. CASE Offline!OpenDialog BY <1>3, OfflineIdle DEF Offline!OpenDialog
<1>4. CASE Offline!SetExtra BY <1>4, OfflineIdle DEF Offline!SetExtra
<1>5. CASE Offline!start BY <1>5, OfflineDownload DEF Offline!start
<1>6. CASE Offline!save BY <1>6, OfflineDownload DEF Offline!save
<1>7. CASE Offline!CloseDialog BY <1>7, OfflineClose
<1>8. CASE Offline!Fetch \/ Offline!Fetched BY <1>8, OfflineFetch
<1>9. CASE Offline!Stored BY <1>9, OfflineStored
<1>10. CASE Offline!Aborted BY <1>10, OfflineAborted
<1>11. CASE Offline!StrayStored BY <1>11, OfflineStray
<1>12. CASE Offline!Downloaded BY <1>12, OfflineDownloaded
<1>13. CASE Offline!Delete BY <1>13, OfflineDelete
<1>14. CASE Offline!Erased BY <1>14, OfflineErased
<1>15. CASE Offline!Deleted BY <1>15, OfflineDeleted
<1> QED BY <1>1, <1>2, <1>3, <1>4, <1>5, <1>6, <1>7, <1>8, <1>9, <1>10, <1>11, <1>12, <1>13, <1>14, <1>15 DEF Offline!Next

\* Areas are kept unless a deletion ran beside something else.
LEMMA OfflineKept == ASSUME OfflineInv PROVE Offline!AreasKeptInTurn
BY DEF OfflineInv, AreasThere, Offline!AreasKeptInTurn, Offline!AreasKept

-----------------------------------------------------------------------------
(* ServiceWorker *)

AnswerWorld == {"kind", "version", "session", "cache", "area", "turns"}

\* What the server gave, or gives, to a question of the API is not older than the question.
WorkerInv ==
  /\ Fields(world, AnswerWorld) /\ world.version \in Nat /\ Fields(ui, {"shown", "asked"})
  /\ world.kind = "api" =>
       /\ world.area = {}
       /\ \A c \in calls : c.op = "fetch" =>
            /\ c.asked \in 0..world.version
            /\ c.res # Nil => c.res.version \in Nat /\ c.res.version >= c.asked
  /\ Worker!FreshUnlessTold

\* Nothing is stored at first.
LEMMA WorkerInit == ASSUME Worker!AnswersInit PROVE WorkerInv
<1>1. PICK r \in Worker!Resources, saved \in {{}, {0}} :
        /\ r # "tile" => saved = {}
        /\ world = [kind |-> r, version |-> 0, session |-> 0, cache |-> Nil, area |-> saved, turns |-> 0]
  BY DEF Worker!AnswersInit
<1>2. Fields(world, AnswerWorld) /\ world.version = 0 /\ (world.kind = "api" => world.area = {})
  BY <1>1 DEF Fields, AnswerWorld
<1>3. ui = [shown |-> Nil, asked |-> 0] /\ calls = {}
  BY DEF Worker!AnswersInit
<1> QED BY <1>2, <1>3 DEF WorkerInv, Worker!FreshUnlessTold, Worker!HasContent, Fields

\* Versions grow, and the questions on their way are those there were.
LEMMA WorkerKept ==
  ASSUME WorkerInv, Fields(world', AnswerWorld), world'.kind = world.kind, world'.area = world.area,
         world'.version \in Nat, world'.version >= world.version, ui' = ui, calls' \subseteq calls
  PROVE  WorkerInv'
BY DEF WorkerInv, Worker!FreshUnlessTold

\* An answer to a question that was there.
LEMMA WorkerAnswered ==
  ASSUME WorkerInv, NEW c \in calls, c.op = "fetch", NEW a, Worker!Answer(c, a), world' = world,
         world.kind = "api" => ~Worker!HasContent(a) \/ a.told = TRUE \/ (a.got = c.res /\ c.res # Nil),
         \A d \in calls' : d \in calls \/ d.op = "put"
  PROVE  WorkerInv'
<1>1. CASE ui' = ui
  BY <1>1 DEF WorkerInv, Worker!FreshUnlessTold
<1>2. CASE ui' = [ui EXCEPT !.shown = a, !.asked = c.asked]
  <2>1. Fields(ui', {"shown", "asked"}) /\ ui'.shown = a /\ ui'.asked = c.asked
    BY <1>2 DEF WorkerInv, Fields
  <2> QED BY <2>1 DEF WorkerInv, Worker!FreshUnlessTold
<1> QED BY <1>1, <1>2 DEF Worker!Answer

\* Whatever the network does, an answer shown is fresh, or says that it is not.
LEMMA WorkerNext == ASSUME WorkerInv, Worker!AnswersNext PROVE WorkerInv'
<1>0. Fields(world, AnswerWorld) /\ world.version \in Nat
  BY DEF WorkerInv
<1>1. CASE Worker!Outside
  <2>1. world' = [world EXCEPT !.version = @ + 1] /\ ui' = ui /\ calls' = calls
    BY <1>1 DEF Worker!Outside
  <2>2. Fields(world', AnswerWorld) /\ world'.kind = world.kind /\ world'.area = world.area /\ world'.version = world.version + 1
    BY <1>0, <2>1 DEF Fields, AnswerWorld
  <2> QED BY <1>0, <2>1, <2>2, WorkerKept
<1>2. CASE Worker!Ask
  <2>1. PICK n, s, b : LET c == [op |-> "fetch", n |-> n, session |-> s, asked |-> world.version, waited |-> b, res |-> Nil]
                       IN \A d \in calls' : d \in calls \/ d = c
    BY <1>2, Zenon DEF Worker!Ask, Worker!Send
  <2>2. world' = [world EXCEPT !.turns = @ + 1] /\ (world.kind = "api" => ui' = ui)
    BY <1>2 DEF Worker!Ask, Worker!CacheFirst
  <2>3. /\ Fields(world', AnswerWorld) /\ world'.kind = world.kind /\ world'.area = world.area /\ world'.version = world.version
    BY <1>0, <2>2 DEF Fields, AnswerWorld
  <2>4. Fields(ui', {"shown", "asked"})
    <3>1. ui' = ui \/ \E x, y : ui' = [ui EXCEPT !.shown = x, !.asked = y]
      BY <1>2 DEF Worker!Ask
    <3> QED BY <3>1 DEF WorkerInv, Fields
  <2>5. \A d \in calls' : d \in calls \/ (d.asked = world.version /\ d.res = Nil)
    BY <2>1
  <2> QED BY <1>0, <2>2, <2>3, <2>4, <2>5 DEF WorkerInv, Worker!FreshUnlessTold
<1>3. CASE Worker!Served
  <2> PICK c \in calls : /\ c.op = "fetch" /\ ui' = ui /\ world' = world
                         /\ calls' = (calls \ {c}) \cup {[c EXCEPT !.res = Worker!Content(c)]}
    BY <1>3 DEF Worker!Served
  <2> DEFINE d == [c EXCEPT !.res = Worker!Content(c)]
  <2>1. d.op = c.op /\ d.asked = c.asked /\ (d.res = Worker!Content(c) \/ d.res = c.res)
    OBVIOUS
  <2>2. Worker!Content(c).version = world.version
    BY DEF Worker!Content
  <2>3. calls' = (calls \ {c}) \cup {d}
    OBVIOUS
  <2> HIDE DEF d
  <2>4. world.kind = "api" => d.asked \in 0..world.version /\ (d.res # Nil => d.res.version \in Nat /\ d.res.version >= d.asked)
    BY <2>1, <2>2 DEF WorkerInv
  <2> QED BY <2>1, <2>3, <2>4 DEF WorkerInv, Worker!FreshUnlessTold
<1>4. CASE Worker!Arrived
  <2> PICK c \in calls : /\ c.op = "fetch" /\ c.res # Nil /\ Worker!Answer(c, Worker!Live(c.res)) /\ world' = world
                         /\ calls' = (calls \ {c}) \cup {[op |-> "put", n |-> c.n, res |-> c.res]}
    BY <1>4 DEF Worker!Arrived
  <2>1. Worker!Live(c.res).got = c.res
    BY DEF Worker!Live
  <2>2. \A d \in calls' : d \in calls \/ d.op = "put"
    OBVIOUS
  <2> QED BY <2>1, <2>2, WorkerAnswered
<1>5. CASE Worker!Refused
  <2> PICK c \in calls : c.op = "fetch" /\ Worker!Answer(c, Worker!None("error")) /\ world' = world /\ calls' = calls \ {c}
    BY <1>5 DEF Worker!Refused, Worker!Got
  <2>1. ~Worker!HasContent(Worker!None("error"))
    BY DEF Worker!HasContent, Worker!None
  <2> QED BY <2>1, WorkerAnswered
<1>6. CASE Worker!Failed
  <2> PICK c \in calls : c.op = "fetch" /\ Worker!Answer(c, Worker!Fallback) /\ world' = world /\ calls' = calls \ {c}
    BY <1>6 DEF Worker!Failed, Worker!Got
  <2>1. world.kind = "api" => ~Worker!HasContent(Worker!Fallback) \/ Worker!Fallback.told = TRUE
    <3> SUFFICES ASSUME world.kind = "api" PROVE ~Worker!HasContent(Worker!Fallback) \/ Worker!Fallback.told = TRUE
      OBVIOUS
    <3>1. Worker!Fallback = [Worker!Live(world.cache) EXCEPT !.told = TRUE] \/ Worker!Fallback = Worker!None("offline")
      BY DEF WorkerInv, Worker!Fallback, Worker!Stored, Worker!Offline
    <3> QED BY <3>1 DEF Worker!Live, Worker!None, Worker!HasContent
  <2> QED BY <2>1, WorkerAnswered
<1>7. CASE Worker!Put \/ Worker!trim
  <2>1. ui' = ui /\ calls' \subseteq calls /\ (world' = world \/ \E x : world' = [world EXCEPT !.cache = x])
    BY <1>7 DEF Worker!Put, Worker!trim, Worker!Got
  <2>2. Fields(world', AnswerWorld) /\ world'.kind = world.kind /\ world'.area = world.area /\ world'.version = world.version
    BY <1>0, <2>1 DEF Fields, AnswerWorld
  <2> QED BY <1>0, <2>1, <2>2, WorkerKept
<1>8. CASE Worker!logout
  <2>1. calls' = calls /\ ui' = [ui EXCEPT !.shown = Nil] /\ \E t, s, x : world' = [world EXCEPT !.turns = t, !.session = s, !.cache = x]
    BY <1>8, Zenon DEF Worker!logout
  <2>2. Fields(world', AnswerWorld) /\ world'.kind = world.kind /\ world'.area = world.area /\ world'.version = world.version
    BY <1>0, <2>1 DEF Fields, AnswerWorld
  <2>3. Fields(ui', {"shown", "asked"}) /\ ui'.shown = Nil
    BY <2>1 DEF WorkerInv, Fields
  <2> QED BY <2>1, <2>2, <2>3 DEF WorkerInv, Worker!FreshUnlessTold, Worker!HasContent
<1> QED BY <1>1, <1>2, <1>3, <1>4, <1>5, <1>6, <1>7, <1>8 DEF Worker!AnswersNext

TabFields == {"open", "ready", "watches", "controller", "follows", "waiting", "reloading"}
VersionWorld == {"script", "installing", "waiting", "active", "activating", "shells", "took", "first", "turns"}

\* What a tab may be loaded again for.
Taken(w) == w.took \cup {w.first}

\* While a version takes over, it was taken, or every open tab is already served by it.
UpdateInv ==
  /\ Fields(world, VersionWorld)
  /\ ui = [t \in Tabs |-> ui[t]] /\ \A t \in Tabs : Fields(ui[t], TabFields)
  /\ world.active = Nil => ~world.activating /\ \A t \in Tabs : ui[t].controller = Nil /\ ~ui[t].reloading
  /\ world.activating => \/ world.active \in Taken(world)
                         \/ \A t \in Tabs : ui[t].open => ui[t].controller = world.active
  /\ \A t \in Tabs : ui[t].reloading => ui[t].controller \in Taken(world)

\* Every tab is served by the first version, or by none.
LEMMA UpdateInit == ASSUME Worker!VersionsInit PROVE UpdateInv
<1> USE DEF Worker!VersionsInit
<1>1. Fields(world, VersionWorld) /\ ~world.activating
  <2> PICK a, sh : world = [script |-> 0, installing |-> Nil, waiting |-> Nil, active |-> a, activating |-> FALSE,
                            shells |-> sh, took |-> {}, first |-> Nil, turns |-> 0]
    OBVIOUS
  <2> QED BY DEF Fields, VersionWorld
<1>2. Fields(Worker!Closed, TabFields) /\ ~Worker!Closed.reloading /\ Worker!Closed.controller = world.active
  BY DEF Worker!Closed, Worker!Loaded, Fields, TabFields
<1> QED BY <1>1, <1>2 DEF UpdateInv

\* The tabs may change if each stays what it is allowed to be.
LEMMA TabChanged ==
  ASSUME UpdateInv, NEW t \in Tabs, NEW u, Fields(u, TabFields), u.controller = world.active \/ u.controller = ui[t].controller,
         u.open => ui[t].open \/ u.controller = world.active,
         u.reloading => ui[t].reloading /\ u.controller = ui[t].controller,
         ui' = [ui EXCEPT ![t] = u], Fields(world', VersionWorld), world'.active = world.active,
         world'.activating = world.activating, world'.took = world.took, world'.first = world.first
  PROVE  UpdateInv'
<1>1. ui' = [s \in Tabs |-> ui'[s]] /\ \A s \in Tabs : ui'[s] = IF s = t THEN u ELSE ui[s]
  BY DEF UpdateInv
<1>2. Taken(world') = Taken(world)
  BY DEF Taken
<1> QED BY <1>1, <1>2 DEF UpdateInv

\* Whatever is published, installed and taken, a tab is loaded again only for a version taken.
LEMMA UpdateNext == ASSUME UpdateInv, Worker!VersionsNext PROVE UpdateInv'
<1>0. /\ Fields(Worker!Closed, TabFields) /\ ~Worker!Closed.reloading /\ Worker!Closed.controller = world.active /\ ~Worker!Closed.open
      /\ Fields(Worker!Loaded, TabFields) /\ ~Worker!Loaded.reloading /\ Worker!Loaded.controller = world.active
  BY DEF Worker!Closed, Worker!Loaded, Fields, TabFields
<1>1. ASSUME NEW t \in Tabs, Worker!Open(t) PROVE UpdateInv'
  <2>1. /\ Fields(world', VersionWorld) /\ world'.active = world.active
        /\ world'.activating = world.activating /\ world'.took = world.took /\ world'.first = world.first
    BY <1>1 DEF Worker!Open, Worker!Acted, UpdateInv, Fields, VersionWorld
  <2>2. ui' = [ui EXCEPT ![t] = Worker!Loaded]
    BY <1>1 DEF Worker!Open, Worker!Tab
  <2> QED BY <1>0, <2>1, <2>2, TabChanged
<1>2. ASSUME NEW t \in Tabs, Worker!Close(t) PROVE UpdateInv'
  <2>1. /\ Fields(world', VersionWorld) /\ world'.active = world.active
        /\ world'.activating = world.activating /\ world'.took = world.took /\ world'.first = world.first
    BY <1>2 DEF Worker!Close, Worker!Acted, UpdateInv, Fields, VersionWorld
  <2>2. ui' = [ui EXCEPT ![t] = Worker!Closed]
    BY <1>2 DEF Worker!Close, Worker!Tab
  <2> QED BY <1>0, <2>1, <2>2, TabChanged
<1>3. ASSUME NEW t \in Tabs, Worker!Mount(t) \/ Worker!watch(t) PROVE UpdateInv'
  <2>1. world' = world /\ \E u : /\ ui' = [ui EXCEPT ![t] = u]
                                 /\ u = [ui[t] EXCEPT !.ready = TRUE] \/ \E v : u = [ui[t] EXCEPT !.watches = TRUE, !.waiting = v]
    BY <1>3 DEF Worker!Mount, Worker!watch, Worker!Tab
  <2> PICK u : /\ ui' = [ui EXCEPT ![t] = u]
               /\ u = [ui[t] EXCEPT !.ready = TRUE] \/ \E v : u = [ui[t] EXCEPT !.watches = TRUE, !.waiting = v]
    BY <2>1
  <2>2. Fields(u, TabFields) /\ u.controller = ui[t].controller /\ u.open = ui[t].open /\ u.reloading = ui[t].reloading
    BY DEF UpdateInv, Fields, TabFields
  <2> QED BY <2>1, <2>2, TabChanged DEF UpdateInv
<1>4. ASSUME NEW t \in Tabs, Worker!Reload(t) PROVE UpdateInv'
  <2>1. ui' = [ui EXCEPT ![t] = Worker!Loaded] /\ world' = world /\ Fields(world, VersionWorld)
    BY <1>4 DEF Worker!Reload, Worker!Tab, UpdateInv
  <2> QED BY <1>0, <2>1, TabChanged
<1>5. ASSUME NEW t \in Tabs, Worker!applyUpdate(t) PROVE UpdateInv'
  <2>1. ui' = ui /\ Fields(world', VersionWorld) /\ world'.took = world.took \cup {ui[t].waiting}
        /\ world'.first = world.first /\ world'.active = world.active /\ world'.activating = world.activating
    BY <1>5 DEF Worker!applyUpdate, Worker!Acted, UpdateInv, Fields, VersionWorld
  <2>2. Taken(world) \subseteq Taken(world')
    BY <2>1 DEF Taken
  <2> QED BY <2>1, <2>2 DEF UpdateInv
<1>6. CASE Worker!NewVersion \/ Worker!InstallFailed
  <2>1. ui' = ui /\ Fields(world', VersionWorld) /\ world'.took = world.took
        /\ world'.first = world.first /\ world'.active = world.active /\ world'.activating = world.activating
    BY <1>6 DEF Worker!NewVersion, Worker!InstallFailed, UpdateInv, Fields, VersionWorld
  <2>2. Taken(world) \subseteq Taken(world')
    BY <2>1 DEF Taken
  <2> QED BY <2>1, <2>2 DEF UpdateInv
<1>7. CASE Worker!Update \/ Worker!Installed
  <2>1. Fields(world', VersionWorld) /\ world'.took = world.took
        /\ world'.first = world.first /\ world'.active = world.active /\ world'.activating = world.activating
    BY <1>7 DEF Worker!Update, Worker!Installed, UpdateInv, Fields, VersionWorld
  <2>2. Taken(world) \subseteq Taken(world')
    BY <2>1 DEF Taken
  <2>3. /\ ui' = [t \in Tabs |-> ui'[t]]
        /\ \A t \in Tabs : ui'[t] = ui[t] \/ (\E v : ui'[t] = [ui[t] EXCEPT !.follows = v] \/ ui'[t] = [ui[t] EXCEPT !.waiting = v])
    BY <1>7 DEF Worker!Update, Worker!Installed
  <2>4. \A t \in Tabs : /\ Fields(ui'[t], TabFields) /\ ui'[t].controller = ui[t].controller
                        /\ ui'[t].open = ui[t].open /\ ui'[t].reloading = ui[t].reloading
    BY <2>3 DEF UpdateInv, Fields, TabFields
  <2> QED BY <2>1, <2>2, <2>3, <2>4 DEF UpdateInv
<1>8. ASSUME NEW t \in Tabs, NEW v, NEW u, u = Worker!Controlled(ui[t], v), UpdateInv
      PROVE  /\ Fields(u, TabFields) /\ u.open = ui[t].open
             /\ IF ui[t].open THEN u.controller = v ELSE u.controller = ui[t].controller /\ u.reloading = ui[t].reloading
  <2>1. CASE ui[t].open
    <3> PICK r : u = [ui[t] EXCEPT !.controller = v, !.reloading = r]
      BY <1>8, <2>1, Zenon DEF Worker!Controlled
    <3> QED BY <2>1 DEF UpdateInv, Fields, TabFields
  <2>2. CASE ~ui[t].open
    BY <1>8, <2>2 DEF Worker!Controlled, UpdateInv
  <2> QED BY <2>1, <2>2
<1>9. CASE Worker!Activate
  <2>1. /\ Fields(world', VersionWorld) /\ world'.took = world.took /\ world'.active = world.waiting /\ world'.activating = TRUE
        /\ world'.first = IF world.active = Nil THEN world.waiting ELSE world.first
        /\ world.waiting # Nil
    BY <1>9 DEF Worker!Activate, UpdateInv, Fields, VersionWorld
  <2>2. /\ ui' = [t \in Tabs |-> ui'[t]]
        /\ \A t \in Tabs : ui'[t] = IF ui[t].controller # Nil THEN Worker!Controlled(ui[t], world.waiting) ELSE ui[t]
    BY <1>9 DEF Worker!Activate
  <2>3. \A t \in Tabs : /\ Fields(ui'[t], TabFields) /\ ui'[t].open = ui[t].open
                        /\ \/ ui[t].open /\ ui'[t].controller = world.waiting
                           \/ ui'[t].controller = ui[t].controller /\ ui'[t].reloading = ui[t].reloading
    BY <1>8, <2>2 DEF UpdateInv
  <2>4. CASE world.active = Nil
    <3>1. \A t \in Tabs : ui'[t] = ui[t]
      BY <2>2, <2>4 DEF UpdateInv
    <3> QED BY <2>1, <2>2, <3>1, <2>4 DEF UpdateInv, Taken
  <2>5. CASE world.active # Nil /\ world.waiting \in world.took
    <3>1. Taken(world') = Taken(world) /\ world.waiting \in Taken(world)
      BY <2>1, <2>5 DEF Taken
    <3> QED BY <2>1, <2>2, <2>3, <3>1 DEF UpdateInv
  <2>6. CASE world.active # Nil /\ \A t \in Tabs : ~ui[t].open
    <3>1. Taken(world') = Taken(world)
      BY <2>1, <2>6 DEF Taken
    <3> QED BY <2>1, <2>2, <2>3, <2>6, <3>1 DEF UpdateInv
  <2> QED BY <1>9, <2>4, <2>5, <2>6 DEF Worker!Activate, Worker!AtOnce
<1>10. CASE Worker!Claim
  <2>1. /\ Fields(world', VersionWorld) /\ world'.took = world.took /\ world'.active = world.active /\ world'.activating = FALSE
        /\ world'.first = world.first /\ world.activating /\ world.active # Nil
    BY <1>10 DEF Worker!Claim, UpdateInv, Fields, VersionWorld
  <2>2. /\ ui' = [t \in Tabs |-> ui'[t]]
        /\ \A t \in Tabs : ui'[t] = IF ui[t].controller # world.active THEN Worker!Controlled(ui[t], world.active) ELSE ui[t]
    BY <1>10 DEF Worker!Claim
  <2>3. \A t \in Tabs : /\ Fields(ui'[t], TabFields) /\ ui'[t].open = ui[t].open
                        /\ \/ ui[t].open /\ ui[t].controller # world.active /\ ui'[t].controller = world.active
                           \/ ui'[t].controller = ui[t].controller /\ ui'[t].reloading = ui[t].reloading
    BY <1>8, <2>2 DEF UpdateInv
  <2>4. Taken(world') = Taken(world)
    BY <2>1 DEF Taken
  <2> QED BY <2>1, <2>2, <2>3, <2>4 DEF UpdateInv
<1> QED BY <1>1, <1>2, <1>3, <1>4, <1>5, <1>6, <1>7, <1>9, <1>10 DEF Worker!VersionsNext

-----------------------------------------------------------------------------
(* FieldPage *)

PhotoFields == {"host", "asset", "open", "items", "view", "note", "busy"}
PhotoWorld == {"photos", "queued", "told", "taken", "online", "turns"}

\* A photo taken is on its way, on the server, in the outbox, or the user was told of its end.
PhotosSomewhere == \A p \in world.taken : \/ p \in world.photos \cup world.queued \cup world.told
                                          \/ \E c \in calls : c.op = "capture" /\ c.photo = p
PhotoCall == {"op", "asset", "photo", "gone"}
PhotoRequests == \A c \in calls : Fields(c, PhotoCall) /\ c.gone \in BOOLEAN /\ (c.op = "list" => ~c.gone)
\* What a row asked for while it is there is about its object.
PhotosOfTheRow == ui.host = "row" => Field!PhotosOfObject /\ \A c \in calls : ~c.gone => c.asset = ui.asset
PhotosAwaited == ui.busy => \E c \in calls : c.op = "capture" /\ ~c.gone

PhotosInv ==
  /\ Fields(ui, PhotoFields) /\ Fields(world, PhotoWorld)
  /\ PhotosSomewhere /\ PhotoRequests /\ PhotosOfTheRow /\ PhotosAwaited

\* A request as it leaves.
LEMMA PhotosCall == \A op, a : LET c == Field!Call(op, a)
                               IN Fields(c, PhotoCall) /\ c.op = op /\ c.asset = a /\ c.gone = FALSE
BY DEF Field!Call, Fields, PhotoCall

\* A box that is shut shows nothing and waits for nothing.
LEMMA PhotosShut == \A host, a : LET u == Field!Shut(host, a)
                                 IN Fields(u, PhotoFields) /\ u.host = host /\ u.asset = a /\ u.items = Nil /\ u.busy = FALSE
BY DEF Field!Shut, Fields, PhotoFields

\* The box is shut at first.
LEMMA PhotosInit == ASSUME Field!PhotosInit PROVE PhotosInv
<1> PICK host, a, q, online :
      /\ world = [photos |-> q, queued |-> {}, told |-> {}, taken |-> {}, online |-> online, turns |-> 0]
      /\ ui = Field!Shut(host, a) /\ calls = {Field!Call("list", a)}
  BY DEF Field!PhotosInit
<1>1. Fields(world, PhotoWorld) /\ world.taken = {}
  BY DEF Fields, PhotoWorld
<1>2. Fields(ui, PhotoFields) /\ ui.host = host /\ ui.asset = a /\ ui.items = Nil /\ ui.busy = FALSE
  BY PhotosShut
<1>3. \A c \in calls : Fields(c, PhotoCall) /\ c.op = "list" /\ c.asset = a /\ c.gone = FALSE
  BY PhotosCall
<1> QED BY <1>1, <1>2, <1>3
        DEF PhotosInv, PhotosSomewhere, PhotoRequests, PhotosOfTheRow, PhotosAwaited, Field!PhotosOfObject

\* The requests there are stay, and a new one is about the object shown.
LEMMA PhotosKept ==
  ASSUME PhotosInv, Fields(ui', PhotoFields), Fields(world', PhotoWorld), ui'.host = ui.host, ui'.asset = ui.asset,
         ui'.items = ui.items, ui'.busy = ui.busy, world'.taken = world.taken, world'.photos = world.photos,
         world'.queued = world.queued, world'.told = world.told,
         \A c \in calls' : c \in calls \/ (Fields(c, PhotoCall) /\ c.op = "delete" /\ c.asset = ui.asset /\ c.gone = FALSE),
         \A c \in calls : c.op = "capture" => c \in calls'
  PROVE  PhotosInv'
<1>1. PhotosSomewhere'
  BY DEF PhotosInv, PhotosSomewhere
<1>2. PhotoRequests'
  BY DEF PhotosInv, PhotoRequests
<1>3. PhotosOfTheRow'
  BY DEF PhotosInv, PhotosOfTheRow, Field!PhotosOfObject
<1>4. PhotosAwaited'
  BY DEF PhotosInv, PhotosAwaited
<1> QED BY <1>1, <1>2, <1>3, <1>4 DEF PhotosInv

\* A capture or a deletion ends: its photo went somewhere, and the page, if it is still there, may wait no more.
LEMMA PhotosEnded ==
  ASSUME PhotosInv, NEW c \in calls, c.op \in {"capture", "delete"}, NEW u, Fields(u, PhotoFields), u.host = ui.host,
         u.asset = ui.asset, u.items = ui.items, u.busy => ui.busy /\ c.op = "delete", NEW again,
         again \subseteq {c.asset}, Field!Ended(c, u, again),
         Fields(world', PhotoWorld), world'.taken = world.taken,
         NEW S, world.photos \cup world.queued \cup world.told \cup S \subseteq world'.photos \cup world'.queued \cup world'.told,
         c.op = "capture" => c.photo \in S
  PROVE  PhotosInv'
<1>0. c.gone \in BOOLEAN
  BY DEF PhotosInv, PhotoRequests
<1>1. \A d \in calls' : d \in calls \/ (~c.gone /\ Fields(d, PhotoCall) /\ d.op = "list" /\ d.gone = FALSE /\ d.asset = c.asset)
  BY PhotosCall DEF Field!Ended
<1>2. \A d \in calls : d # c => d \in calls'
  BY DEF Field!Ended
<1>3. PhotosSomewhere'
  BY <1>2 DEF PhotosInv, PhotosSomewhere
<1>4. PhotoRequests'
  BY <1>1 DEF PhotosInv, PhotoRequests
<1>5. CASE c.gone
  <2>1. ui' = ui
    BY <1>5 DEF Field!Ended
  <2>2. PhotosOfTheRow'
    BY <1>1, <1>5, <2>1 DEF PhotosInv, PhotosOfTheRow, Field!PhotosOfObject
  <2>3. PhotosAwaited'
    BY <1>2, <1>5, <2>1 DEF PhotosInv, PhotosAwaited
  <2> QED BY <1>3, <1>4, <2>1, <2>2, <2>3 DEF PhotosInv
<1>6. CASE ~c.gone
  <2>1. ui' = u
    BY <1>6 DEF Field!Ended
  <2>2. PhotosOfTheRow'
    BY <1>1, <1>6, <2>1 DEF PhotosInv, PhotosOfTheRow, Field!PhotosOfObject
  <2>3. PhotosAwaited'
    BY <1>2, <1>6, <2>1 DEF PhotosInv, PhotosAwaited
  <2> QED BY <1>3, <1>4, <2>1, <2>2, <2>3 DEF PhotosInv
<1> QED BY <1>0, <1>5, <1>6

\* Whatever is taken, closed, sent or refused, no photo is lost, and the photos shown are of the object.
LEMMA PhotosNext == ASSUME PhotosInv, Field!PhotosNext PROVE PhotosInv'
<1>0. Fields(ui, PhotoFields) /\ Fields(world, PhotoWorld)
  BY DEF PhotosInv
<1>1. CASE Field!Select
  <2> PICK a : /\ ui' = IF Field!Kept(ui.host) THEN [ui EXCEPT !.asset = a, !.items = Nil] ELSE Field!Shut(ui.host, a)
               /\ world' = [world EXCEPT !.turns = @ + 1]
               /\ calls' = (IF Field!Kept(ui.host) THEN calls
                            ELSE {[c EXCEPT !.gone = TRUE] : c \in {d \in calls : d.op # "list"}}) \cup {Field!Call("list", a)}
    BY <1>1 DEF Field!Select, Field!Turn
  <2>1. /\ Fields(world', PhotoWorld) /\ world'.taken = world.taken /\ world'.photos = world.photos /\ world'.queued = world.queued
        /\ world'.told = world.told
    BY <1>0 DEF Fields, PhotoWorld
  <2>2. Fields(Field!Call("list", a), PhotoCall) /\ Field!Call("list", a).op = "list" /\ Field!Call("list", a).asset = a /\ Field!Call("list", a).gone = FALSE
    BY PhotosCall
  <2>3. CASE Field!Kept(ui.host)
    <3>1. ui' = [ui EXCEPT !.asset = a, !.items = Nil] /\ calls' = calls \cup {Field!Call("list", a)} /\ ui.host = "panel"
      BY <2>3 DEF Field!Kept
    <3>2. Fields(ui', PhotoFields) /\ ui'.host = "panel" /\ ui'.busy = ui.busy
      BY <1>0, <3>1 DEF Fields, PhotoFields
    <3>3. PhotosSomewhere'
      BY <2>1, <3>1 DEF PhotosInv, PhotosSomewhere
    <3>4. PhotoRequests'
      BY <2>2, <3>1 DEF PhotosInv, PhotoRequests
    <3>5. PhotosAwaited' /\ PhotosOfTheRow'
      BY <3>1, <3>2 DEF PhotosInv, PhotosAwaited, PhotosOfTheRow
    <3> QED BY <2>1, <3>2, <3>3, <3>4, <3>5 DEF PhotosInv
  <2>4. CASE ~Field!Kept(ui.host)
    <3> DEFINE D == {[c EXCEPT !.gone = TRUE] : c \in {d \in calls : d.op # "list"}}
    <3>1. ui' = Field!Shut(ui.host, a) /\ calls' = D \cup {Field!Call("list", a)}
      BY <2>4
    <3>2. Fields(ui', PhotoFields) /\ ui'.host = ui.host /\ ui'.busy = FALSE /\ ui'.asset = a /\ ui'.items = Nil
      BY ONLY <3>1, PhotosShut
    <3>3. \A c : [c EXCEPT !.gone = TRUE].op = c.op /\ [c EXCEPT !.gone = TRUE].photo = c.photo
      OBVIOUS
    <3>4. \A c \in calls : LET d == [c EXCEPT !.gone = TRUE] IN Fields(d, PhotoCall) /\ d.gone = TRUE
      BY DEF PhotosInv, PhotoRequests, Fields, PhotoCall
    <3>5. \A d \in D : Fields(d, PhotoCall) /\ d.gone = TRUE /\ d.op # "list"
      BY <3>3, <3>4
    <3>6. \A c \in calls : c.op = "capture" => \E d \in D : d.op = "capture" /\ d.photo = c.photo
      BY <3>3
    <3> HIDE DEF D
    <3>7. PhotosSomewhere'
      BY <2>1, <3>1, <3>6 DEF PhotosInv, PhotosSomewhere
    <3>8. PhotoRequests'
      BY <2>2, <3>1, <3>5 DEF PhotoRequests
    <3>9. PhotosOfTheRow' /\ PhotosAwaited'
      BY <2>2, <3>1, <3>2, <3>5 DEF PhotosOfTheRow, PhotosAwaited, Field!PhotosOfObject
    <3> QED BY <2>1, <3>2, <3>7, <3>8, <3>9 DEF PhotosInv
  <2> QED BY <2>3, <2>4
<1>2. CASE Field!Listed \/ Field!ListFailed
  <2>1. \E c, S :           /\ c \in calls
                            /\ c.op = "list" /\ calls' = calls \ {c} /\ ui' = [ui EXCEPT !.items = S] /\ world' = world
                            /\ \A p \in S : p.of = c.asset
    <3>2. \A x : \A p \in Field!Held(x) : p.of = x
      BY DEF Field!Held
    <3>3. CASE Field!Listed
      <4> PICK c \in calls : c.op = "list" /\ Field!Got(c) /\ ui' = [ui EXCEPT !.items = Field!Held(c.asset)] /\ world' = world
        BY <3>3 DEF Field!Listed
      <4> DEFINE S == Field!Held(c.asset)
      <4>1. c.op = "list" /\ calls' = calls \ {c} /\ ui' = [ui EXCEPT !.items = S] /\ world' = world /\ \A p \in S : p.of = c.asset
        BY <3>2 DEF Field!Got
      <4> HIDE DEF S
      <4> QED BY <4>1, Zenon
    <3>4. CASE Field!ListFailed
      <4> DEFINE S == {}
      <4> PICK c \in calls : c.op = "list" /\ Field!Got(c) /\ ui' = [ui EXCEPT !.items = S] /\ world' = world
        BY <3>4 DEF Field!ListFailed
      <4>1. c.op = "list" /\ calls' = calls \ {c} /\ ui' = [ui EXCEPT !.items = S] /\ world' = world /\ \A p \in S : p.of = c.asset
        BY DEF Field!Got
      <4> HIDE DEF S
      <4> QED BY <4>1, Zenon
    <3> QED BY <1>2, <3>3, <3>4
  <2> PICK c, S :           /\ c \in calls
                            /\ c.op = "list" /\ calls' = calls \ {c} /\ ui' = [ui EXCEPT !.items = S] /\ world' = world
                            /\ \A p \in S : p.of = c.asset
    BY <2>1
  <2>2. Fields(ui', PhotoFields) /\ ui'.host = ui.host /\ ui'.busy = ui.busy /\ ui'.asset = ui.asset /\ ui'.items = S
    BY <1>0 DEF Fields, PhotoFields
  <2>3. PhotosSomewhere' /\ PhotosAwaited'
    BY <2>2 DEF PhotosInv, PhotosSomewhere, PhotosAwaited
  <2>4. PhotoRequests'
    BY DEF PhotosInv, PhotoRequests
  <2>5. PhotosOfTheRow'
    BY <2>2 DEF PhotosInv, PhotoRequests, PhotosOfTheRow, Field!PhotosOfObject
  <2> QED BY <1>0, <2>2, <2>3, <2>4, <2>5 DEF PhotosInv
<1>3. CASE Field!Open \/ Field!CloseDialog \/ Field!View \/ Field!Back \/ Field!SetNote
  <2>1. calls' = calls /\ \E o, v, n : ui' = [ui EXCEPT !.open = o] \/ ui' = [ui EXCEPT !.view = v] \/ ui' = [ui EXCEPT !.note = n]
                                      \/ ui' = [ui EXCEPT !.open = o, !.view = v]
    BY <1>3 DEF Field!Open, Field!CloseDialog, Field!View, Field!Back, Field!SetNote, Field!Show
  <2>2. world' = world \/ world' = [world EXCEPT !.turns = @ + 1]
    BY <1>3 DEF Field!Open, Field!CloseDialog, Field!View, Field!Back, Field!SetNote, Field!Show, Field!Turn
  <2>3. Fields(ui', PhotoFields) /\ ui'.host = ui.host /\ ui'.busy = ui.busy /\ ui'.asset = ui.asset /\ ui'.items = ui.items
    BY <1>0, <2>1 DEF Fields, PhotoFields
  <2>4. /\ Fields(world', PhotoWorld) /\ world'.taken = world.taken /\ world'.photos = world.photos /\ world'.queued = world.queued
        /\ world'.told = world.told
    BY <1>0, <2>2 DEF Fields, PhotoWorld
  <2> QED BY <2>1, <2>3, <2>4, PhotosKept
<1>4. CASE Field!Network
  <2>1. calls' = calls /\ ui' = ui /\ world' = [world EXCEPT !.online = ~@]
    BY <1>4 DEF Field!Network
  <2>4. /\ Fields(world', PhotoWorld) /\ world'.taken = world.taken /\ world'.photos = world.photos /\ world'.queued = world.queued
        /\ world'.told = world.told
    BY <1>0, <2>1 DEF Fields, PhotoWorld
  <2> QED BY <1>0, <2>1, <2>4, PhotosKept
<1>5. CASE Field!onFile
  <2> PICK p, d : /\ calls' = calls \cup {d} /\ d = [Field!Call("capture", ui.asset) EXCEPT !.photo = p]
                  /\ ui' = [ui EXCEPT !.busy = TRUE] /\ world' = [world EXCEPT !.turns = @ + 1, !.taken = @ \cup {p}]
    BY <1>5 DEF Field!onFile, Field!Send
  <2>1. Fields(d, PhotoCall) /\ d.op = "capture" /\ d.asset = ui.asset /\ d.gone = FALSE /\ d.photo = p
    <3> DEFINE c == Field!Call("capture", ui.asset)
    <3>1. Fields(c, PhotoCall) /\ c.op = "capture" /\ c.asset = ui.asset /\ c.gone = FALSE
      BY PhotosCall
    <3>2. d = [c EXCEPT !.photo = p]
      OBVIOUS
    <3> HIDE DEF c
    <3> QED BY <3>1, <3>2 DEF Fields, PhotoCall
  <2>2. Fields(ui', PhotoFields) /\ ui'.host = ui.host /\ ui'.asset = ui.asset /\ ui'.items = ui.items
    BY <1>0 DEF Fields, PhotoFields
  <2>3. /\ Fields(world', PhotoWorld) /\ world'.taken = world.taken \cup {p} /\ world'.photos = world.photos
        /\ world'.queued = world.queued /\ world'.told = world.told
    BY <1>0 DEF Fields, PhotoWorld
  <2>4. PhotosSomewhere'
    BY <2>1, <2>3 DEF PhotosInv, PhotosSomewhere
  <2>5. PhotoRequests' /\ PhotosAwaited'
    BY <2>1 DEF PhotosInv, PhotoRequests, PhotosAwaited
  <2>6. PhotosOfTheRow'
    BY <2>1, <2>2 DEF PhotosInv, PhotosOfTheRow, Field!PhotosOfObject
  <2> QED BY <2>2, <2>3, <2>4, <2>5, <2>6 DEF PhotosInv
<1>6. CASE Field!Uploaded \/ Field!Refused \/ Field!Queued \/ Field!Dropped \/ Field!Unheard
  <2>1. PICK c \in calls :
               /\ c.op = "capture"
               /\ Field!Captured(c, {c.asset}) \/ Field!Captured(c, {})
               /\ \/ world' = [world EXCEPT !.photos = @ \cup {c.photo}]
                  \/ world' = [world EXCEPT !.told = @ \cup {c.photo}]
                  \/ world' = [world EXCEPT !.queued = @ \cup {c.photo}]
                  \/ \E got : world' = [world EXCEPT !.told = @ \cup {c.photo}, !.photos = @ \cup got]
                  \/ world' = [Field!Queue(c.photo) EXCEPT !.photos = @ \cup {c.photo}]
    BY <1>6, Zenon DEF Field!Uploaded, Field!Refused, Field!Queued, Field!Dropped, Field!Unheard, Field!Queue
  <2> DEFINE u == [ui EXCEPT !.busy = FALSE, !.note = Nil]
  <2>2. Fields(u, PhotoFields) /\ u.host = ui.host /\ u.asset = ui.asset /\ u.items = ui.items /\ u.busy = FALSE
    BY <1>0 DEF Fields, PhotoFields
  <2>3. \E again : again \subseteq {c.asset} /\ Field!Ended(c, u, again)
    <3>1. {} \subseteq {c.asset} /\ {c.asset} \subseteq {c.asset}
      OBVIOUS
    <3> QED BY <2>1, <3>1, Zenon DEF Field!Captured
  <2> HIDE DEF u
  <2>4. /\ Fields(world', PhotoWorld) /\ world'.taken = world.taken
        /\ world.photos \cup world.queued \cup world.told \cup {c.photo} \subseteq world'.photos \cup world'.queued \cup world'.told
    BY <1>0, <2>1 DEF Fields, PhotoWorld, Field!Queue
  <2> PICK again : again \subseteq {c.asset} /\ Field!Ended(c, u, again)
    BY <2>3
  <2>5. c.op \in {"capture", "delete"} /\ (u.busy => ui.busy /\ c.op = "delete") /\ (c.op = "capture" => c.photo \in {c.photo})
    BY <2>1, <2>2
  <2> QED BY <2>2, <2>4, <2>5, PhotosEnded
<1>7. CASE Field!del
  <2> PICK d : /\ calls' = calls \cup {d} /\ d = [Field!Call("delete", ui.asset) EXCEPT !.photo = ui.view]
               /\ ui' = ui /\ world' = [world EXCEPT !.turns = @ + 1]
    BY <1>7 DEF Field!del, Field!Send, Field!Turn
  <2>1. Fields(d, PhotoCall) /\ d.op = "delete" /\ d.asset = ui.asset /\ d.gone = FALSE
    <3> DEFINE c == Field!Call("delete", ui.asset)
    <3>1. Fields(c, PhotoCall) /\ c.op = "delete" /\ c.asset = ui.asset /\ c.gone = FALSE
      BY PhotosCall
    <3>2. d = [c EXCEPT !.photo = ui.view]
      OBVIOUS
    <3> HIDE DEF c
    <3> QED BY <3>1, <3>2 DEF Fields, PhotoCall
  <2>3. /\ Fields(world', PhotoWorld) /\ world'.taken = world.taken /\ world'.photos = world.photos
        /\ world'.queued = world.queued /\ world'.told = world.told
    BY <1>0 DEF Fields, PhotoWorld
  <2> QED BY <1>0, <2>1, <2>3, PhotosKept
<1>8. CASE Field!Deleted
  <2> DEFINE u == [ui EXCEPT !.view = Nil]
  <2>1. PICK c \in calls : /\ c.op = "delete" /\ Field!Ended(c, u, {c.asset})
                           /\ world' = [world EXCEPT !.photos = @ \ {c.photo}, !.told = @ \cup {c.photo}]
    BY <1>8 DEF Field!Deleted
  <2>2. Fields(u, PhotoFields) /\ u.host = ui.host /\ u.asset = ui.asset /\ u.items = ui.items /\ u.busy = ui.busy
    BY <1>0 DEF Fields, PhotoFields
  <2> HIDE DEF u
  <2>3. /\ Fields(world', PhotoWorld) /\ world'.taken = world.taken
        /\ world.photos \cup world.queued \cup world.told \cup {} \subseteq world'.photos \cup world'.queued \cup world'.told
    BY <1>0, <2>1 DEF Fields, PhotoWorld
  <2> QED BY <2>1, <2>2, <2>3, PhotosEnded
<1>9. CASE Field!DeleteFailed
  <2>1. ui' = ui /\ world' = world /\ \E c \in calls : c.op = "delete" /\ calls' = calls \ {c}
    BY <1>9 DEF Field!DeleteFailed, Field!Got
  <2> QED BY <1>0, <2>1, PhotosKept
<1> QED BY <1>1, <1>2, <1>3, <1>4, <1>5, <1>6, <1>7, <1>8, <1>9 DEF Field!PhotosNext

NearbyFields == {"fix", "online", "radius", "group", "items", "open", "busy", "last"}

\* While it is busy, a list is on its way.
NearbyInv ==
  /\ Fields(ui, NearbyFields)
  /\ ui.busy => Sent(calls, {"nearby"})

\* Nothing is asked for at first.
LEMMA NearbyInit == ASSUME Field!NearbyInit PROVE NearbyInv
<1> PICK g, r, online :
      ui = [fix |-> Nil, online |-> online, radius |-> r, group |-> g, items |-> Nil, open |-> FALSE, busy |-> FALSE, last |-> Nil]
  BY DEF Field!NearbyInit
<1>1. Fields(ui, NearbyFields) /\ ui.busy = FALSE
  BY DEF Fields, NearbyFields
<1> QED BY <1>1 DEF NearbyInv

\* A list is asked for, or none is needed.
LEMMA NearbyLoad ==
  ASSUME NearbyInv, NEW u, Fields(u, NearbyFields), u.busy = ui.busy, Field!load(u)
  PROVE  NearbyInv'
<1>1. CASE \E c : c.op = "nearby" /\ calls' = calls \cup {c} /\ ui' = [u EXCEPT !.busy = TRUE]
  <2>1. Fields(ui', NearbyFields)
    BY <1>1 DEF Fields, NearbyFields
  <2> QED BY <1>1, <2>1 DEF NearbyInv, Sent
<1>2. CASE ui' = u /\ calls' = calls
  BY <1>2 DEF NearbyInv
<1>3. \A k : [op |-> "nearby", key |-> k].op = "nearby"
  OBVIOUS
<1> QED BY <1>1, <1>2, <1>3 DEF Field!load, Field!Send

\* A fix asks for a list only when it is far enough from the last one.
LEMMA NearbyMoved ==
  ASSUME NearbyInv, NEW u, Fields(u, NearbyFields), u.busy = ui.busy, Field!Moved(u)
  PROVE  NearbyInv'
<1>1. CASE ui' = u /\ calls' = calls
  BY <1>1 DEF NearbyInv
<1>2. CASE Field!load([u EXCEPT !.last = Field!Key(u)])
  <2> DEFINE v == [u EXCEPT !.last = Field!Key(u)]
  <2>1. Field!load(v)
    BY <1>2
  <2>2. Fields(v, NearbyFields) /\ v.busy = ui.busy
    BY DEF Fields, NearbyFields
  <2> HIDE DEF v
  <2> QED BY <2>1, <2>2, NearbyLoad
<1> QED BY <1>1, <1>2 DEF Field!Moved

\* Whatever the device and the network do, a list that is waited for is on its way.
LEMMA NearbyNext == ASSUME NearbyInv, Field!NearbyNext PROVE NearbyInv'
<1>0. Fields(ui, NearbyFields)
  BY DEF NearbyInv
<1>1. CASE Field!SetFix \/ Field!SetRadius \/ Field!SetGroup \/ Field!SetOnline
  <2>1. PICK u : Field!Moved(u) /\ \E x : u = [ui EXCEPT !.fix = x] \/ u = [ui EXCEPT !.radius = x] \/ u = [ui EXCEPT !.group = x]
                                         \/ u = [ui EXCEPT !.online = x]
    BY <1>1 DEF Field!SetFix, Field!SetRadius, Field!SetGroup, Field!SetOnline
  <2>2. Fields(u, NearbyFields) /\ u.busy = ui.busy
    BY <1>0, <2>1 DEF Fields, NearbyFields
  <2> QED BY <2>1, <2>2, NearbyMoved
<1>2. CASE Field!Refresh
  BY <1>0, <1>2, NearbyLoad DEF Field!Refresh
<1>3. CASE Field!Answered \/ Field!Failed
  <2>1. \E x : ui' = [ui EXCEPT !.items = x, !.busy = FALSE] \/ ui' = [ui EXCEPT !.busy = FALSE]
    BY <1>3 DEF Field!Answered, Field!Failed
  <2>2. Fields(ui', NearbyFields) /\ ui'.busy = FALSE
    BY <1>0, <2>1 DEF Fields, NearbyFields
  <2> QED BY <2>2 DEF NearbyInv
<1>4. CASE Field!Unfold
  <2>1. \E x : ui' = [ui EXCEPT !.open = x] /\ calls' = calls
    BY <1>4 DEF Field!Unfold, Field!Show
  <2>2. Fields(ui', NearbyFields) /\ ui'.busy = ui.busy
    BY <1>0, <2>1 DEF Fields, NearbyFields
  <2> QED BY <2>1, <2>2 DEF NearbyInv
<1> QED BY <1>1, <1>2, <1>3, <1>4 DEF Field!NearbyNext

-----------------------------------------------------------------------------
(* Regions *)

RegionFields == {"period", "level", "sel", "data", "detail", "expanded", "busy"}

\* A detail on its way is that of the region and period chosen.
RegionsInv ==
  /\ Fields(ui, RegionFields)
  /\ Area!DetailOfSelection
  /\ \A c \in calls : c.op = "detail" => c.region = ui.sel /\ c.period = ui.period
  /\ ui.data # Nil => ui.data.value \in [Regs -> (0..MaxValue) \cup {Nil}]
  /\ ui.busy => Sent(calls, {"recompute"})

\* What the requests of the page ask for.
LEMMA RegionsCalls ==
  /\ \A op, r, p : Area!Call(op, r, p).op = op /\ Area!Call(op, r, p).region = r /\ Area!Call(op, r, p).period = p
  /\ \A s, p : \A c \in Area!AskDetail(s, p) : c.op = "detail" /\ c.region = s /\ c.period = p
BY DEF Area!Call, Area!AskDetail

\* No region is selected at first.
LEMMA RegionsInit == ASSUME Area!Init PROVE RegionsInv
<1> PICK s \in Regs \cup {Nil}, p \in Periods :
      /\ ui = [period |-> p, level |-> "up3", sel |-> s, data |-> Nil, detail |-> Nil, expanded |-> {}, busy |-> FALSE]
      /\ calls = {Area!Call("regions", Nil, p)} \cup Area!AskDetail(s, p)
  BY DEF Area!Init
<1>1. Fields(ui, RegionFields) /\ ui.data = Nil /\ ui.detail = Nil /\ ui.busy = FALSE /\ ui.sel = s /\ ui.period = p
  BY DEF Fields, RegionFields
<1>2. \A c \in calls : c.op = "detail" => c.region = s /\ c.period = p
  BY RegionsCalls
<1> QED BY <1>1, <1>2 DEF RegionsInv, Area!DetailOfSelection

\* What is told of a region goes, and what is on its way for the one before no longer counts.
LEMMA RegionChosen ==
  ASSUME RegionsInv, NEW u, Fields(u, RegionFields), u.data = ui.data, u.busy = ui.busy,
         NEW C, \A c \in C : c.op = "regions", Area!Chosen(u, C)
  PROVE  RegionsInv'
<1>1. ui' = [u EXCEPT !.detail = Nil] /\ calls' = {c \in calls : c.op # "detail"} \cup Area!AskDetail(u.sel, u.period) \cup C
  BY DEF Area!Chosen
<1>2. Fields(ui', RegionFields) /\ ui'.data = u.data /\ ui'.detail = Nil /\ ui'.busy = u.busy /\ ui'.sel = u.sel /\ ui'.period = u.period
  BY <1>1 DEF Fields, RegionFields
<1>3. \A c \in calls' : c.op = "detail" => c.region = ui'.sel /\ c.period = ui'.period
  BY <1>1, <1>2, RegionsCalls
<1>4. Sent(calls, {"recompute"}) => Sent(calls', {"recompute"})
  BY <1>1 DEF Sent
<1> QED BY <1>2, <1>3, <1>4 DEF RegionsInv, Area!DetailOfSelection

\* Whatever is selected, expanded or answered, the detail is that of the selection.
LEMMA RegionsNext == ASSUME RegionsInv, Area!Next PROVE RegionsInv'
<1>0. Fields(ui, RegionFields)
  BY DEF RegionsInv
<1>1. CASE Area!SetPeriod
  <2> PICK p : Area!Chosen([ui EXCEPT !.period = p], {Area!Call("regions", Nil, p)})
    BY <1>1 DEF Area!SetPeriod
  <2> DEFINE u == [ui EXCEPT !.period = p]
  <2>0. Area!Chosen(u, {Area!Call("regions", Nil, p)})
    OBVIOUS
  <2>1. Fields(u, RegionFields) /\ u.data = ui.data /\ u.busy = ui.busy
    BY <1>0 DEF Fields, RegionFields
  <2> HIDE DEF u
  <2> QED BY <2>0, <2>1, RegionChosen, RegionsCalls
<1>2. CASE Area!Select
  <2> PICK r : Area!Chosen([ui EXCEPT !.sel = r], {})
    BY <1>2 DEF Area!Select
  <2> DEFINE u == [ui EXCEPT !.sel = r]
  <2>0. Area!Chosen(u, {})
    OBVIOUS
  <2>1. Fields(u, RegionFields) /\ u.data = ui.data /\ u.busy = ui.busy
    BY <1>0 DEF Fields, RegionFields
  <2> HIDE DEF u
  <2> QED BY <2>0, <2>1, RegionChosen
<1>3. CASE Area!SetLevel \/ Area!Expand
  <2>1. calls' = calls /\ \E x : ui' = [ui EXCEPT !.level = x] \/ ui' = [ui EXCEPT !.expanded = x]
    BY <1>3 DEF Area!SetLevel, Area!Expand
  <2>2. /\ Fields(ui', RegionFields) /\ ui'.data = ui.data /\ ui'.detail = ui.detail /\ ui'.busy = ui.busy /\ ui'.sel = ui.sel
        /\ ui'.period = ui.period
    BY <1>0, <2>1 DEF Fields, RegionFields
  <2> QED BY <2>1, <2>2 DEF RegionsInv, Area!DetailOfSelection
<1>4. CASE Area!Loaded
  <2> PICK c \in calls, v \in [Regs -> (0..MaxValue) \cup {Nil}] :
        c.op = "regions" /\ calls' = calls \ {c} /\ ui' = [ui EXCEPT !.data = [period |-> c.period, value |-> v]]
    BY <1>4 DEF Area!Loaded, Area!Got
  <2>2. /\ Fields(ui', RegionFields) /\ ui'.data.value = v /\ ui'.detail = ui.detail /\ ui'.busy = ui.busy /\ ui'.sel = ui.sel
        /\ ui'.period = ui.period
    BY <1>0 DEF Fields, RegionFields
  <2>3. Sent(calls, {"recompute"}) => Sent(calls', {"recompute"})
    BY DEF Sent
  <2> QED BY <2>2, <2>3 DEF RegionsInv, Area!DetailOfSelection
<1>5. CASE Area!Detailed
  <2> PICK c \in calls : Area!Detailed!(c)
    BY <1>5 DEF Area!Detailed
  <2>1. /\ c.op = "detail" /\ calls' = calls \ {c}
        /\ \E l, e : ui' = [ui EXCEPT !.detail = c, !.level = l, !.expanded = e]
    BY Zenon DEF Area!Got
  <2> PICK l, e : ui' = [ui EXCEPT !.detail = c, !.level = l, !.expanded = e]
    BY <2>1
  <2>2. /\ Fields(ui', RegionFields) /\ ui'.data = ui.data /\ ui'.detail = c /\ ui'.busy = ui.busy /\ ui'.sel = ui.sel
        /\ ui'.period = ui.period
    BY <1>0 DEF Fields, RegionFields
  <2>3. Sent(calls, {"recompute"}) => Sent(calls', {"recompute"})
    BY <2>1 DEF Sent
  <2> QED BY <2>1, <2>2, <2>3 DEF RegionsInv, Area!DetailOfSelection
<1>6. CASE Area!recompute
  <2>1. calls' = calls \cup {Area!Call("recompute", Nil, ui.period)} /\ ui' = [ui EXCEPT !.busy = TRUE]
    BY <1>6 DEF Area!recompute, Area!Send
  <2>2. Fields(ui', RegionFields) /\ ui'.data = ui.data /\ ui'.detail = ui.detail /\ ui'.sel = ui.sel /\ ui'.period = ui.period
    BY <1>0, <2>1 DEF Fields, RegionFields
  <2>3. Sent(calls', {"recompute"})
    BY <2>1, RegionsCalls DEF Sent
  <2> QED BY <2>1, <2>2, <2>3, RegionsCalls DEF RegionsInv, Area!DetailOfSelection
<1>7. CASE Area!Recomputed
  <2> PICK c \in calls : ui' = [ui EXCEPT !.busy = FALSE] /\ calls' = (calls \ {c}) \cup {Area!Call("regions", Nil, c.period)}
    BY <1>7 DEF Area!Recomputed
  <2>2. /\ Fields(ui', RegionFields) /\ ui'.data = ui.data /\ ui'.detail = ui.detail /\ ui'.sel = ui.sel /\ ui'.period = ui.period
        /\ ui'.busy = FALSE
    BY <1>0 DEF Fields, RegionFields
  <2> QED BY <2>2, RegionsCalls DEF RegionsInv, Area!DetailOfSelection
<1>8. CASE Area!Failed
  <2> PICK c \in calls : calls' = calls \ {c} /\ ui' = IF c.op = "recompute" THEN [ui EXCEPT !.busy = FALSE] ELSE ui
    BY <1>8 DEF Area!Failed, Area!Got
  <2>2. /\ Fields(ui', RegionFields) /\ ui'.data = ui.data /\ ui'.detail = ui.detail /\ ui'.sel = ui.sel /\ ui'.period = ui.period
        /\ ui'.busy => ui.busy /\ c.op # "recompute"
    BY <1>0 DEF Fields, RegionFields
  <2>3. c.op # "recompute" /\ Sent(calls, {"recompute"}) => Sent(calls', {"recompute"})
    BY DEF Sent
  <2> QED BY <2>2, <2>3 DEF RegionsInv, Area!DetailOfSelection
<1> QED BY <1>1, <1>2, <1>3, <1>4, <1>5, <1>6, <1>7, <1>8 DEF Area!Next

\* A set of numbers up to a bound has a greatest.
LEMMA GreatestOf ==
  ASSUME NEW S, S \subseteq 0..MaxValue, S # {}
  PROVE  \E m \in S : \A v \in S : v <= m
<1> DEFINE T == {MaxValue - v : v \in S}
<1>1. T \subseteq Nat /\ T # {}
  <2>1. \A v \in S : v \in 0..MaxValue /\ MaxValue - v \in Nat
    BY BoundsAssumption
  <2> QED BY <2>1
<1> HIDE DEF T
<1>2. PICK x \in T : \A y \in T : x <= y
  BY <1>1, Least
<1> USE DEF T
<1>3. \A y \in T : x <= y
  BY <1>2
<1>4. PICK m \in S : x = MaxValue - m
  OBVIOUS
<1>5. \A v \in S : MaxValue - m <= MaxValue - v
  BY <1>3, <1>4
<1>6. \A v \in S : v <= m
  BY <1>5, BoundsAssumption
<1> QED BY <1>6

\* So the colour of a region is the one the legend has for its value.
LEMMA RegionsColour == ASSUME RegionsInv PROVE Area!ColourOfLegend
<1> SUFFICES ASSUME ui.data # Nil, NEW r \in Regs, ui.data.value[r] # Nil
             PROVE  LET v == ui.data.value[r]
                        max == Area!Greatest(ui.data.value, Area!LevelOf(r))
                        i == Area!Class(v, max)
                    IN i \in 0..4 /\ max * i <= 5 * v /\ 5 * v <= max * (i + 1)
  BY DEF Area!ColourOfLegend
<1> DEFINE v == ui.data.value[r]
           max == Area!Greatest(ui.data.value, Area!LevelOf(r))
           S == {ui.data.value[q] : q \in {p \in Regs : Area!LevelOf(p) = Area!LevelOf(r)}} \ {Nil}
<1>1. S \subseteq 0..MaxValue /\ v \in S
  BY DEF RegionsInv
<1>2. max = IF S = {} THEN 0 ELSE CHOOSE m \in S : \A w \in S : w <= m
  BY DEF Area!Greatest
<1> HIDE DEF S, max
<1>3. max \in S /\ \A w \in S : w <= max
  BY <1>1, <1>2, GreatestOf
<1> HIDE DEF v
<1>4. v \in Nat /\ max \in Nat /\ v <= max
  BY <1>1, <1>3, BoundsAssumption
<1>5. Area!Class(v, max) = IF max = 0 THEN 0 ELSE IF (v * 5) \div max > 4 THEN 4 ELSE (v * 5) \div max
  BY DEF Area!Class, v
<1>6. CASE max = 0
  BY <1>4, <1>5, <1>6 DEF v, max
<1>7. CASE max # 0
  <2> DEFINE q == (v * 5) \div max
  <2>1. q \in Nat /\ max * q <= v * 5 /\ v * 5 < max * (q + 1)
    BY <1>4, <1>7
  <2>2. Area!Class(v, max) = IF q > 4 THEN 4 ELSE q
    BY <1>5, <1>7
  <2> HIDE DEF q
  <2>3. CASE q > 4
    <3>1. max * 5 <= max * q
      BY <1>4, <2>1, <2>3
    <3> QED BY <1>4, <2>1, <2>2, <2>3, <3>1 DEF v, max
  <2>4. CASE ~(q > 4)
    BY <1>4, <2>1, <2>2, <2>4 DEF v, max
  <2> QED BY <2>3, <2>4
<1> QED BY <1>6, <1>7

-----------------------------------------------------------------------------
(* Workspace: the pages together *)

\* Each page keeps its own; the plan of the diagram on paper is drawn at once and keeps nothing.
PagesInv ==
  /\ page = "gdb" => GdbInv /\ GdbWaits
  /\ page = "drawing" => DrawingInv
  /\ page = "layers" => LayersInv
  /\ page = "selection" => SelInv
  /\ page = "normal" => NormalInv
  /\ page = "exchange" => ExchangeInv
  /\ page = "trace" => TraceInv
  /\ page = "changes" => ChangesInv
  /\ page = "review" => ReviewInv /\ ReviewWaits
  /\ page = "sld" => DiagramInv
  /\ page = "info" => InfoInv
  /\ page = "list" => ListInv
  /\ page = "losses" => LossInv
  /\ page = "flow" => FlowInv
  /\ page = "periodic" => PeriodicInv
  /\ page = "loads" => ReportsInv
  /\ page = "events" => EventsInv
  /\ page = "assets" => AssetsInv
  /\ page = "offline" => OfflineInv
  /\ page = "worker" => WorkerInv
  /\ page = "update" => UpdateInv
  /\ page = "chat" => ChatInv
  /\ page = "photos" => PhotosInv
  /\ page = "nearby" => NearbyInv
  /\ page = "regions" => RegionsInv
  /\ page = "load" => LoadInv

\* A step that changes nothing keeps them.
LEMMA PagesKept ==
  ASSUME PagesInv, page' = page, ui' = ui, calls' = calls, world' = world
  PROVE  PagesInv'
<1>1. (GdbInv => GdbInv') /\ (GdbWaits => GdbWaits') /\ (ReviewInv => ReviewInv') /\ (ReviewWaits => ReviewWaits')
  BY DEF GdbInv, GdbWaits, ReviewInv, Settled, ReviewWaits
<1>2. (DrawingInv => DrawingInv') /\ (LayersInv => LayersInv') /\ (SelInv => SelInv') /\ (NormalInv => NormalInv')
  BY DEF DrawingInv, LayersInv, SelInv, NormalInv
<1>3. (ExchangeInv => ExchangeInv') /\ (TraceInv => TraceInv') /\ (ChangesInv => ChangesInv') /\ (DiagramInv => DiagramInv')
  BY DEF ExchangeInv, TraceInv, ChangesInv, Package!FormOfPackage, DiagramInv
<1>4. (InfoInv => InfoInv') /\ (ListInv => ListInv') /\ (LossInv => LossInv') /\ (FlowInv => FlowInv')
  BY DEF InfoInv, Info!PopupOfObject, Info!MapOfReport, ListInv, LossInv, FlowInv
<1>5. (PeriodicInv => PeriodicInv') /\ (ReportsInv => ReportsInv') /\ (EventsInv => EventsInv') /\ (AssetsInv => AssetsInv')
  BY DEF PeriodicInv, ReportsInv, EventsInv, AssetsInv
<1>6. (OfflineInv => OfflineInv') /\ (WorkerInv => WorkerInv') /\ (UpdateInv => UpdateInv') /\ (ChatInv => ChatInv')
  BY DEF OfflineInv, WorkerInv, Worker!FreshUnlessTold, UpdateInv, ChatInv, ChatRequests
<1>7. (PhotosInv => PhotosInv') /\ (NearbyInv => NearbyInv')
  BY DEF PhotosInv, PhotosSomewhere, PhotoRequests, PhotosOfTheRow, Field!PhotosOfObject, PhotosAwaited, NearbyInv
<1>8. (RegionsInv => RegionsInv') /\ (LoadInv => LoadInv')
  BY DEF RegionsInv, Area!DetailOfSelection, LoadInv, LoadRequests, LoadShown
<1> QED BY <1>1, <1>2, <1>3, <1>4, <1>5, <1>6, <1>7, <1>8 DEF PagesInv

\* The page that is opened keeps what is its own from its first state on.
LEMMA PagesInvariant == Spec => []PagesInv
<1>1. Init => PagesInv
  <2> SUFFICES ASSUME Init PROVE PagesInv
    OBVIOUS
  <2> USE DEF PagesInv
  <2>1. CASE page = "gdb" /\ Gdb!Init
    BY <2>1, GdbInit, GdbWaitsInit
  <2>2. CASE page = "drawing" /\ Drawing!Init
    BY <2>2, DrawingInit
  <2>3. CASE page = "layers" /\ Layering!Init
    BY <2>3, LayersInit
  <2>4. CASE page = "selection" /\ Selection!Init
    BY <2>4, SelInit
  <2>5. CASE page = "normal" /\ Normal!Init
    BY <2>5, NormalInit
  <2>6. CASE page = "exchange" /\ Panels!ExchangeInit
    BY <2>6, ExchangeInit
  <2>7. CASE page = "trace" /\ Panels!TraceInit
    BY <2>7, TraceInit
  <2>8. CASE page = "changes" /\ Package!Init
    BY <2>8, ChangesInit
  <2>9. CASE page = "review" /\ Rev!Init
    BY <2>9, ReviewInit, ReviewWaitsInit
  <2>10. CASE page = "sld" /\ Diagrams!PageInit
    BY <2>10, DiagramInit
  <2>11. CASE page = "layout"
    BY <2>11
  <2>12. CASE page = "info" /\ Info!PageInit
    BY <2>12, InfoInit
  <2>13. CASE page = "list" /\ Info!ListInit
    BY <2>13, ListInit
  <2>14. CASE page = "losses" /\ Losses!Init
    BY <2>14, LossInit
  <2>15. CASE page = "flow" /\ Flow!Init
    BY <2>15, FlowInit
  <2>16. CASE page = "periodic" /\ Reporting!PeriodicInit
    BY <2>16, PeriodicInit
  <2>17. CASE page = "loads" /\ Reporting!LoadInit
    BY <2>17, ReportsInit
  <2>18. CASE page = "events" /\ Events!Init
    BY <2>18, EventsInit
  <2>19. CASE page = "assets" /\ Tree!Init
    BY <2>19, AssetsInit
  <2>20. CASE page = "offline" /\ Offline!Init
    BY <2>20, OfflineInit
  <2>21. CASE page = "worker" /\ Worker!AnswersInit
    BY <2>21, WorkerInit
  <2>22. CASE page = "update" /\ Worker!VersionsInit
    BY <2>22, UpdateInit
  <2>23. CASE page = "chat" /\ Chat!Init
    BY <2>23, ChatInit
  <2>24. CASE page = "photos" /\ Field!PhotosInit
    BY <2>24, PhotosInit
  <2>25. CASE page = "nearby" /\ Field!NearbyInit
    BY <2>25, NearbyInit
  <2>26. CASE page = "regions" /\ Area!Init
    BY <2>26, RegionsInit
  <2>27. CASE page = "load" /\ Load!Init
    BY <2>27, LoadInit
  <2> QED BY <2>1, <2>2, <2>3, <2>4, <2>5, <2>6, <2>7, <2>8, <2>9, <2>10, <2>11, <2>12, <2>13, <2>14,
         <2>15, <2>16, <2>17, <2>18, <2>19, <2>20, <2>21, <2>22, <2>23, <2>24, <2>25, <2>26, <2>27 DEF Init
<1>2. PagesInv /\ [Next]_vars => PagesInv'
  <2> SUFFICES ASSUME PagesInv, [Next]_vars PROVE PagesInv'
    OBVIOUS
  <2>1. CASE UNCHANGED vars
    BY <2>1, PagesKept DEF vars
  <2>2. CASE Next
    <3> USE DEF PagesInv
    <3>0. page' = page
      BY <2>2 DEF Next
    <3>1. CASE page = "gdb" /\ Gdb!Next
      BY <3>1, <3>0, GdbNext, GdbWaitsNext
    <3>2. CASE page = "drawing" /\ Drawing!Next
      BY <3>2, <3>0, DrawingNext
    <3>3. CASE page = "layers" /\ Layering!Next
      BY <3>3, <3>0, LayersNext
    <3>4. CASE page = "selection" /\ Selection!Next
      BY <3>4, <3>0, SelNext
    <3>5. CASE page = "normal" /\ Normal!Next
      BY <3>5, <3>0, NormalNext
    <3>6. CASE page = "exchange" /\ Panels!ExchangeNext
      BY <3>6, <3>0, ExchangeNext
    <3>7. CASE page = "trace" /\ Panels!TraceNext
      BY <3>7, <3>0, TraceNext
    <3>8. CASE page = "changes" /\ Package!Next
      BY <3>8, <3>0, ChangesNext
    <3>9. CASE page = "review" /\ Rev!Next
      BY <3>9, <3>0, ReviewNext, ReviewWaitsNext
    <3>10. CASE page = "sld" /\ Diagrams!PageNext
      BY <3>10, <3>0, DiagramNext
    <3>11. CASE page = "layout"
      BY <3>11, <3>0
    <3>12. CASE page = "info" /\ Info!PageNext
      BY <3>12, <3>0, InfoNext
    <3>13. CASE page = "list" /\ Info!ListNext
      BY <3>13, <3>0, ListNext
    <3>14. CASE page = "losses" /\ Losses!Next
      BY <3>14, <3>0, LossNext
    <3>15. CASE page = "flow" /\ Flow!Next
      BY <3>15, <3>0, FlowNext
    <3>16. CASE page = "periodic" /\ Reporting!PeriodicNext
      BY <3>16, <3>0, PeriodicNext
    <3>17. CASE page = "loads" /\ Reporting!LoadNext
      BY <3>17, <3>0, ReportsNext
    <3>18. CASE page = "events" /\ Events!Next
      BY <3>18, <3>0, EventsNext
    <3>19. CASE page = "assets" /\ Tree!Next
      BY <3>19, <3>0, AssetsNext
    <3>20. CASE page = "offline" /\ Offline!Next
      BY <3>20, <3>0, OfflineNext
    <3>21. CASE page = "worker" /\ Worker!AnswersNext
      BY <3>21, <3>0, WorkerNext
    <3>22. CASE page = "update" /\ Worker!VersionsNext
      BY <3>22, <3>0, UpdateNext
    <3>23. CASE page = "chat" /\ Chat!Next
      BY <3>23, <3>0, ChatNext
    <3>24. CASE page = "photos" /\ Field!PhotosNext
      BY <3>24, <3>0, PhotosNext
    <3>25. CASE page = "nearby" /\ Field!NearbyNext
      BY <3>25, <3>0, NearbyNext
    <3>26. CASE page = "regions" /\ Area!Next
      BY <3>26, <3>0, RegionsNext
    <3>27. CASE page = "load" /\ Load!Next
      BY <3>27, <3>0, LoadNext
    <3> QED BY <2>2, <3>1, <3>2, <3>3, <3>4, <3>5, <3>6, <3>7, <3>8, <3>9, <3>10, <3>11, <3>12, <3>13, <3>14,
           <3>15, <3>16, <3>17, <3>18, <3>19, <3>20, <3>21, <3>22, <3>23, <3>24, <3>25, <3>26, <3>27 DEF Next
  <2> QED BY <2>1, <2>2
<1> QED BY <1>1, <1>2, PTL DEF Spec

\* What the user edits or saves is what stands on the screen, on every page (components/map, sld, exec, load, field),
\* for any number of objects, packages, clicks, reports, photos and answers that are late.
THEOREM ScreenIsEdited == Spec => []EditedAsShown
<1>1. PagesInv => EditedAsShown
  <2> SUFFICES ASSUME PagesInv PROVE EditedAsShown
    OBVIOUS
  <2>1. (page = "drawing" => Drawing!DrawnOnce) /\ (page = "selection" => Selection!EditedAsShown) /\ (page = "normal" => Normal!CheckedListed)
    BY DrawingOnce DEF PagesInv, SelInv, SelShown, SelRequests, Selection!EditedAsShown, NormalInv, Normal!CheckedListed
  <2>2. (page = "changes" => Package!FormOfPackage) /\ (page = "sld" => Diagrams!PositionsOfDiagram)
    BY DEF PagesInv, ChangesInv, DiagramInv, Diagrams!PositionsOfDiagram, Shifts
  <2>3. (page = "periodic" => Reporting!WrittenForReport) /\ (page = "photos" => Field!PhotoKept)
    BY DEF PagesInv, PeriodicInv, PeriodicShown, Reporting!WrittenForReport, PhotosInv, PhotosSomewhere, Field!PhotoKept
  <2>4. page = "load" => Load!NoteOfAnomaly
    BY DEF PagesInv, LoadInv, LoadRequests, LoadShown, Load!NoteOfAnomaly
  <2> QED BY <2>1, <2>2, <2>3, <2>4 DEF EditedAsShown
<1> QED BY <1>1, PagesInvariant, PTL

\* What a map draws is what its page holds (MapCanvas.tsx, exec, powerflow, offline, regions), for any types, feeders,
\* reports, results, areas and values, whether the map or the answers were ready first.
THEOREM MapDrawsPage == Spec => []DrawnAsSet
<1>1. PagesInv => DrawnAsSet
  <2> SUFFICES ASSUME PagesInv PROVE DrawnAsSet
    OBVIOUS
  <2>1. (page = "layers" => Layering!DrawnAsSet) /\ (page = "offline" => Offline!AreasKeptInTurn) /\ (page = "regions" => Area!ColourOfLegend)
    BY LayersAsSet, OfflineKept, RegionsColour DEF PagesInv
  <2>2. (page = "info" => Info!MapOfReport) /\ (page = "flow" => Flow!DrawnOfDetail)
    BY DEF PagesInv, InfoInv, FlowInv, FlowShown, Flow!DrawnOfDetail
  <2> QED BY <2>1, <2>2 DEF DrawnAsSet
<1> QED BY <1>1, PagesInvariant, PTL

\* Tables, popups and lists tell of what they name, an old answer stored on the device says so, and an answer of the
\* assistant is the one to the question above it, for any number of questions and answers in any order.
THEOREM AnswersAreShown == Spec => []ShownAsAsked
<1>1. PagesInv => ShownAsAsked
  <2> SUFFICES ASSUME PagesInv PROVE ShownAsAsked
    OBVIOUS
  <2>1. (page = "info" => Info!PopupOfObject) /\ (page = "list" => Info!RowsOfList) /\ (page = "worker" => Worker!FreshUnlessTold)
    BY DEF PagesInv, InfoInv, ListInv, Info!RowsOfList, WorkerInv
  <2>2. (page = "chat" => Chat!AnswerOfQuestion) /\ (page = "regions" => Area!DetailOfSelection)
    BY ConversationAnswers DEF PagesInv, ChatInv, RegionsInv
  <2>3. (page = "load" => Load!PartsOfChoice) /\ (page = "photos" => Field!PhotosOfRow)
    BY DEF PagesInv, LoadInv, LoadShown, Load!PartsOfChoice, PhotosInv, PhotosOfTheRow, Field!PhotosOfRow
  <2> QED BY <2>1, <2>2, <2>3 DEF ShownAsAsked
<1> QED BY <1>1, PagesInvariant, PTL

\* An import is applied once it was compared and approved, a package of changes that is over, with no command under
\* way, stays over, and a page is loaded again under a version that a user took, for any number of jobs, users, packages, versions and tabs.
THEOREM CommandsKeepOrder == Spec => []CommandsInOrder
<1>1. PagesInv => CommandsInOrder
  <2> SUFFICES ASSUME PagesInv PROVE CommandsInOrder
    OBVIOUS
  <2>1. page = "gdb" => Gdb!AppliedAfterReview
    BY DEF PagesInv, GdbInv, Reviewed, Gdb!AppliedAfterReview
  <2>2. page = "review" => Rev!StaysOver
    BY ReviewStays DEF PagesInv
  <2>3. page = "update" => Worker!ReloadedWhenTaken
    BY DEF PagesInv, UpdateInv, Taken, Worker!ReloadedWhenTaken
  <2> QED BY <2>1, <2>2, <2>3 DEF CommandsInOrder
<1> QED BY <1>1, PagesInvariant, PTL

\* What a page says it waits for is on its way, for any number of panels closed and opened again and of answers and
\* failures in any order: no spinner is left without its request.
THEOREM WaitingIsAnswered == Spec => []WaitsForAnswer
<1>1. PagesInv => WaitsForAnswer
  <2> SUFFICES ASSUME PagesInv PROVE WaitsForAnswer
    OBVIOUS
  <2>1. page = "gdb" => /\ ui.progress => Sent(calls, {"start"})
                        /\ ui.busy # "" => Sent(calls, {"ask", "delete"})
                        /\ ui.panel.busy # "" => Sent(calls, {"apply", "cancel"})
    BY Zenon DEF PagesInv, GdbWaits, GdbAwaits
  <2>2. (page = "selection" => (ui.loading => Sent(calls, {"select"}))) /\ (page = "normal" => (ui.busy => Sent(calls, {"apply"})))
    BY DEF PagesInv, SelInv, NormalInv
  <2>3. /\ page = "exchange" => (ui.busy # "" => Sent(calls, {ui.busy}))
        /\ page = "trace" => (ui.panel.running => Sent(calls, {"trace"}))
        /\ page = "changes" => (ui.busy # "" => Sent(calls, {ui.busy}))
    BY DEF PagesInv, ExchangeInv, TraceInv, ChangesInv
  <2>4. page = "review" => (ui.busy # "" => Sent(calls, {"submit", "approve", "reject", "release", "cancel"}))
    BY DEF PagesInv, ReviewWaits, Rev!Actions, Sent
  <2>5. page = "losses" => (ui.imp # Nil /\ ui.imp.busy # "" => Sent(calls, {"preview", "apply", "delete"}))
    BY DEF PagesInv, LossInv, Pending, Sending, ImportOps, Sent
  <2>6. /\ page = "flow" => (ui.running => Sent(calls, {"run"})) /\ (ui.busy => Sent(calls, {"feeder"}))
        /\ page = "events" => (ui.busy # "" => Sent(calls, {ui.busy}))
    BY DEF PagesInv, FlowInv, EventsInv
  <2>7. page = "periodic" => (ui.busy # "" => Sent(calls, {"open", "generate", "listed"})) /\ (ui.view.saving => Sent(calls, {"save"}))
    BY DEF PagesInv, PeriodicInv, Sent
  <2>8. page = "loads" => (ui.busy # "" => Sent(calls, {"open", "generate", "listed"})) /\ (ui.ai # Nil /\ ui.ai.busy => Sent(calls, {"ops"}))
    BY DEF PagesInv, ReportsInv, Streaming
  <2>9. page = "assets" => (ui.kids # Nil /\ ui.kids.loading => Sent(calls, {"kids", "more"})) /\ (ui.exporting => Sent(calls, {"csv"}))
    BY DEF PagesInv, AssetsInv, KidsAwaited, Reading
  <2>10. /\ page = "chat" => (ui.busy => Sent(calls, {"chat"}))
         /\ page = "photos" => (ui.busy => Sent(calls, {"capture"}))
         /\ page = "nearby" => (ui.busy => Sent(calls, {"nearby"}))
    BY DEF PagesInv, ChatInv, ChatRequests, PhotosInv, PhotosAwaited, NearbyInv, Sent
  <2>11. (page = "regions" => (ui.busy => Sent(calls, {"recompute"}))) /\ (page = "load" => Load!BusyAwaited)
    BY DEF PagesInv, RegionsInv, LoadInv, LoadShown, Load!BusyAwaited, Sent
  <2> QED BY <2>1, <2>2, <2>3, <2>4, <2>5, <2>6, <2>7, <2>8, <2>9, <2>10, <2>11, Zenon DEF WaitsForAnswer, Sent
<1> QED BY <1>1, PagesInvariant, PTL
====
