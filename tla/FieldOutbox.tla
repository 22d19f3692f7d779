---- MODULE FieldOutbox ----
(***************************************************************************)
(* The offline queue of the field page (src/frontend/lib/outbox.ts), the   *)
(* forms that fill it (QuickReport in components/field/Field.tsx,          *)
(* usePhotoCapture in components/field/AssetPhotos.tsx), the provider that *)
(* empties it (components/pwa/PwaProvider.tsx) and the session both use    *)
(* (lib/api.ts, lib/auth.tsx).  Several browser tabs share one IndexedDB   *)
(* and one token; every await is a step of its own.  Requests may be lost, *)
(* may be carried out after their sender gave up, and may be refused; a    *)
(* photo may not be compressible, and IndexedDB may refuse a write.  The   *)
(* server recognises a client_id it has already stored.                    *)
(***************************************************************************)
EXTENDS Naturals, FiniteSets

CONSTANTS
  Tabs,       \* browser tabs of one device; the provider runs in each
  FieldTabs,  \* those that show the field page
  Users,      \* accounts that log in on the device
  Reports,    \* fault reports, each with the client_id drawn when it is sent
  Photos,     \* photos taken
  ReportOf,   \* the report a photo belongs to, or Asset
  Asset,      \* the photo is of a network element the server knows
  None,       \* nobody is logged in
  MaxFaults   \* bound: connections, answers and sessions lost, pages reloaded, refusals,
              \* writes to IndexedDB refused

ASSUME OutboxAssumption ==
  /\ FieldTabs \subseteq Tabs
  /\ ReportOf \in [Photos -> Reports \cup {Asset}]
  /\ Asset \notin Reports
  /\ None \notin Users \cup Reports
  /\ Reports \cap (Photos \cup (Photos \X {1, 2, 3})) = {}
  /\ MaxFaults \in Nat

VARIABLES
  online,   \* navigator.onLine
  token,    \* the session in localStorage, shared by the tabs
  user,     \* React state of each tab: who it believes is logged in
  form,     \* the send form of each tab
  sync,     \* the flush running in each tab
  outbox,   \* ids in the object store "items"
  owner,    \* field user of the items ever queued
  waits,    \* queued photos without a target id: they wait for their report
  errors,   \* items with a recorded refusal
  idmap,    \* reports whose server id is in the object store "map"
  net,      \* requests sent and answers on their way
  db,       \* client_ids the server has stored
  removed,  \* items the user deleted from the queue
  drawn,    \* reports sent from a form and photos taken
  skipped,  \* photos left out of their report: they could not be compressed
  accepted, \* what the page told the user was sent or queued
  faults

vars == <<online, token, user, form, sync, outbox, owner, waits, errors, idmap,
          net, db, removed, drawn, skipped, accepted, faults>>

queueVars == <<outbox, owner, waits, errors, removed>>

\* A photo is sent under the client_id <<p, 1>>; the report form draws a new one when it
\* queues the photos, <<p, 2>> for a report that has its id and <<p, 3>> for one that waits.
Copies == {1, 2, 3}
PhotoIds == Photos \X Copies
Ids == Reports \cup PhotoIds
Source == {"sync", "form", "lost"}
Answer == {"ok", "rejected", "again", "auth"}

IdleForm == [step |-> "idle", rep |-> None, cur |-> None, pics |-> {}, left |-> {},
             known |-> FALSE, failed |-> FALSE]
IdleSync == [step |-> "idle", todo |-> {}, item |-> None]

PhotosOf(r) == {p \in Photos : ReportOf[p] = r}

\* Still somewhere: on the server, in the queue, or deleted by the user.
Kept(i) == i \in db \cup outbox \cup removed

Init ==
  /\ online \in BOOLEAN
  /\ token = None
  /\ user = [t \in Tabs |-> None]
  /\ form = [t \in Tabs |-> IdleForm]
  /\ sync = [t \in Tabs |-> IdleSync]
  /\ outbox = {}
  /\ owner = [i \in Ids |-> None]
  /\ waits = {}
  /\ errors = {}
  /\ idmap = {}
  /\ net = {}
  /\ db = {}
  /\ removed = {}
  /\ drawn = {}
  /\ skipped = {}
  /\ accepted = {}
  /\ faults = 0

----------------------------------------------------------------------------
(* Requests *)

Fault == faults < MaxFaults /\ faults' = faults + 1

\* The token is read from localStorage when the request leaves.
Send(t, src, i) ==
  net' = net \cup {[tab |-> t, src |-> src, id |-> i, as |-> token, status |-> "sent"]}

\* The page of tab t goes away: nobody waits for its answers any more.
Abandoned(t) ==
  {IF q.tab = t THEN [q EXCEPT !.src = "lost"] ELSE q :
     q \in {x \in net : x.tab # t \/ x.status = "sent"}}

Answered(t, src, status) ==
  \E q \in net :
    /\ q.tab = t /\ q.src = src /\ q.status = status
    /\ net' = net \ {q}

\* The sender sees a network error: the request may have been carried out, may
\* still be, or never arrives.
Lost(t, src) ==
  /\ Fault
  /\ \E q \in net :
       /\ q.tab = t /\ q.src = src
       /\ \/ net' = net \ {q}
          \/ /\ q.status = "sent"
             /\ net' = (net \ {q}) \cup {[q EXCEPT !.src = "lost"]}

\* The network failed, or the server answers that it cannot serve now.
Unreachable(t, src) ==
  \/ Lost(t, src)
  \/ Answered(t, src, "again") /\ UNCHANGED faults

\* The server: an unknown session is refused, a client_id stored before is
\* answered like the first time.
Serve(t, src) ==
  \E q \in {x \in net : x.tab = t /\ x.src = src /\ x.status = "sent"} :
    LET Reply(status) ==
          net' = IF q.src = "lost" THEN net \ {q}
                 ELSE (net \ {q}) \cup {[q EXCEPT !.status = status]}
    IN /\ \/ q.as # None /\ Reply("ok") /\ db' = db \cup {q.id} /\ UNCHANGED faults
          \/ q.as # None /\ Fault /\ Reply("rejected") /\ UNCHANGED db
          \/ Fault /\ Reply("again") /\ UNCHANGED db
          \/ q.as = None /\ Reply("auth") /\ UNCHANGED <<db, faults>>
          \/ Fault /\ Reply("auth") /\ UNCHANGED db
       /\ UNCHANGED <<online, token, user, form, sync, queueVars, idmap, drawn, skipped, accepted>>

----------------------------------------------------------------------------
(* Session and pages *)

\* The whole page is loaded again: its state is gone, its requests abandoned.
Leave(t, u) ==
  /\ user' = [user EXCEPT ![t] = u]
  /\ form' = [form EXCEPT ![t] = IdleForm]
  /\ sync' = [sync EXCEPT ![t] = IdleSync]
  /\ UNCHANGED <<online, queueVars, idmap, db, drawn, skipped, accepted>>

Login(t, u) ==
  /\ user[t] = None
  /\ user' = [user EXCEPT ![t] = u]
  /\ token' = u
  /\ UNCHANGED <<online, form, sync, queueVars, idmap, net, db, drawn, skipped, accepted, faults>>

Logout(t) ==
  /\ user[t] # None
  /\ Fault
  /\ token' = None
  /\ net' = Abandoned(t)
  /\ Leave(t, None)

\* A reload asks /api/auth/me, which answers for the token now in localStorage.
Reload(t) ==
  /\ Fault
  /\ net' = Abandoned(t)
  /\ Leave(t, token)
  /\ UNCHANGED token

\* api() meets 401: the token is dropped and the tab goes to the login page.
Expired(t, src) ==
  /\ \E q \in net : q.tab = t /\ q.src = src /\ q.status = "auth"
  /\ token' = None
  /\ net' = Abandoned(t)
  /\ Leave(t, None)
  /\ UNCHANGED faults

GoOffline ==
  /\ online
  /\ Fault
  /\ online' = FALSE
  /\ UNCHANGED <<token, user, form, sync, queueVars, idmap, net, db, drawn, skipped, accepted>>

GoOnline ==
  /\ ~online
  /\ online' = TRUE
  /\ UNCHANGED <<token, user, form, sync, queueVars, idmap, net, db, drawn, skipped, accepted, faults>>

----------------------------------------------------------------------------
(* Filling the queue *)

formOnly == <<online, user, sync, idmap, db, token, skipped>>

\* The send and photo buttons answer only while nothing is being sent.
Ready(t) == t \in FieldTabs /\ user[t] # None /\ form[t].step = "idle"

SetForm(t, f) == form' = [form EXCEPT ![t] = f]

outboxAdd(t, i, waiting) ==
  /\ outbox' = outbox \cup {i}
  /\ owner' = [owner EXCEPT ![i] = user[t]]
  /\ waits' = IF waiting THEN waits \cup {i} ELSE waits
  /\ UNCHANGED <<errors, removed>>

\* The send button of the report form: its photos are compressed first.
Submit(t, r) ==
  /\ Ready(t) /\ r \notin drawn
  /\ drawn' = drawn \cup {r}
  /\ SetForm(t, [IdleForm EXCEPT !.step = "compress", !.rep = r])
  /\ UNCHANGED <<formOnly, queueVars, net, accepted, faults>>

\* A photo that cannot be compressed is left out without a word; the report goes on
\* with the others, by the network there is now.
Compressed(t) ==
  /\ form[t].step = "compress"
  /\ \E pics \in SUBSET PhotosOf(form[t].rep) :
       /\ SetForm(t, [form[t] EXCEPT !.step = IF online THEN "report" ELSE "queueReport", !.pics = pics])
       /\ skipped' = skipped \cup (PhotosOf(form[t].rep) \ pics)
  /\ IF online THEN Send(t, "form", form[t].rep) ELSE UNCHANGED net
  /\ UNCHANGED <<online, user, sync, idmap, db, token, queueVars, drawn, accepted, faults>>

ReportAnswered(t) ==
  /\ form[t].step = "report"
  /\ \/ /\ Answered(t, "form", "ok")
        /\ SetForm(t, [form[t] EXCEPT !.step = "photos", !.known = TRUE,
                                      !.left = form[t].pics])
        /\ UNCHANGED faults
     \/ /\ Answered(t, "form", "rejected")
        /\ SetForm(t, IdleForm)
        /\ UNCHANGED faults
     \/ /\ Unreachable(t, "form")
        /\ SetForm(t, [form[t] EXCEPT !.step = "queueReport"])
  /\ UNCHANGED <<formOnly, queueVars, drawn, accepted>>

ReportExpired(t) == form[t].step = "report" /\ Expired(t, "form")

Upload(t) ==
  /\ form[t].step = "photos"
  /\ \E p \in form[t].left :
       /\ Send(t, "form", <<p, 1>>)
       /\ SetForm(t, [form[t] EXCEPT !.step = "upload", !.cur = p])
  /\ UNCHANGED <<formOnly, queueVars, drawn, accepted, faults>>

\* Whatever goes wrong with one photo, the loop goes on with the next.
UploadAnswered(t) ==
  /\ form[t].step = "upload"
  /\ LET Next1(bad) == SetForm(t, [form[t] EXCEPT !.step = "photos", !.left = @ \ {form[t].cur},
                                                 !.failed = @ \/ bad])
     IN \/ Answered(t, "form", "ok") /\ Next1(FALSE) /\ UNCHANGED faults
        \/ Answered(t, "form", "rejected") /\ Next1(TRUE) /\ UNCHANGED faults
        \/ Answered(t, "form", "auth") /\ Next1(TRUE) /\ UNCHANGED faults
        \/ Unreachable(t, "form") /\ Next1(TRUE)
  /\ UNCHANGED <<formOnly, queueVars, drawn, accepted>>

\* One photo failed: all of them are queued, for the report's id.
Uploaded(t) ==
  /\ form[t].step = "photos" /\ form[t].left = {}
  /\ IF form[t].failed
     THEN /\ SetForm(t, [form[t] EXCEPT !.step = "queuePhotos", !.left = form[t].pics])
          /\ UNCHANGED accepted
     ELSE /\ SetForm(t, IdleForm)
          /\ accepted' = accepted \cup {form[t].rep}
  /\ UNCHANGED <<formOnly, queueVars, net, drawn, faults>>

QueueReport(t) ==
  /\ form[t].step = "queueReport"
  /\ outboxAdd(t, form[t].rep, FALSE)
  /\ SetForm(t, [form[t] EXCEPT !.step = "queuePhotos", !.left = form[t].pics])
  /\ UNCHANGED <<formOnly, net, drawn, accepted, faults>>

QueuePhoto(t) ==
  /\ form[t].step = "queuePhotos"
  /\ \E p \in form[t].left :
       /\ outboxAdd(t, <<p, IF form[t].known THEN 2 ELSE 3>>, ~form[t].known)
       /\ SetForm(t, [form[t] EXCEPT !.left = @ \ {p}])
  /\ UNCHANGED <<formOnly, net, drawn, accepted, faults>>

Queued(t) ==
  /\ form[t].step = "queuePhotos" /\ form[t].left = {}
  /\ SetForm(t, IdleForm)
  /\ accepted' = accepted \cup {form[t].rep}
  /\ UNCHANGED <<formOnly, queueVars, net, drawn, faults>>

\* A photo of a network element: compressed, then sent, or queued under the same
\* client_id.
capture(t, p) ==
  /\ Ready(t) /\ p \notin drawn /\ ReportOf[p] = Asset
  /\ drawn' = drawn \cup {p}
  /\ SetForm(t, [IdleForm EXCEPT !.step = "compressPhoto", !.cur = p])
  /\ UNCHANGED <<formOnly, queueVars, net, accepted, faults>>

\* One that cannot be compressed is given up, and the page says so.
CaptureCompressed(t) ==
  /\ form[t].step = "compressPhoto"
  /\ \/ SetForm(t, IdleForm) /\ UNCHANGED net
     \/ /\ SetForm(t, [form[t] EXCEPT !.step = IF online THEN "capture" ELSE "queueCapture"])
        /\ IF online THEN Send(t, "form", <<form[t].cur, 1>>) ELSE UNCHANGED net
  /\ UNCHANGED <<formOnly, queueVars, drawn, accepted, faults>>

CaptureAnswered(t) ==
  /\ form[t].step = "capture"
  /\ \/ /\ Answered(t, "form", "ok")
        /\ SetForm(t, IdleForm)
        /\ accepted' = accepted \cup {form[t].cur}
        /\ UNCHANGED faults
     \/ /\ \E s \in {"rejected", "auth"} : Answered(t, "form", s)
        /\ SetForm(t, IdleForm)
        /\ UNCHANGED <<accepted, faults>>
     \/ /\ Unreachable(t, "form")
        /\ SetForm(t, [form[t] EXCEPT !.step = "queueCapture"])
        /\ UNCHANGED accepted
  /\ UNCHANGED <<formOnly, queueVars, drawn>>

QueueCapture(t) ==
  /\ form[t].step = "queueCapture"
  /\ outboxAdd(t, <<form[t].cur, 1>>, FALSE)
  /\ SetForm(t, IdleForm)
  /\ accepted' = accepted \cup {form[t].cur}
  /\ UNCHANGED <<formOnly, net, drawn, faults>>

\* IndexedDB refuses a write.  The page does not say that anything was queued; but photos
\* that failed after their report was sent are then queued again, with the report.
QueueFailed(t) ==
  /\ \/ form[t].step \in {"queueReport", "queueCapture"}
     \/ form[t].step = "queuePhotos" /\ form[t].left # {}
  /\ Fault
  /\ SetForm(t, IF form[t].step = "queuePhotos" /\ form[t].known
                THEN [form[t] EXCEPT !.step = "queueReport", !.known = FALSE] ELSE IdleForm)
  /\ UNCHANGED <<formOnly, queueVars, net, drawn, accepted>>

----------------------------------------------------------------------------
(* Emptying the queue *)

syncOnly == <<online, user, form, token, db, drawn, skipped, accepted>>

\* The queue of the user logged in, as its card lists it.
Shown(t) == {i \in outbox : user[t] # None /\ owner[i] = user[t]}

SetSync(t, s) == sync' = [sync EXCEPT ![t] = s]

\* mutant: The queue is emptied when it is read.
flushOutbox_Takes(t) ==
  /\ user[t] # None /\ online /\ sync[t].step = "idle"
  /\ Shown(t) # {}
  /\ SetSync(t, [step |-> "next", todo |-> Shown(t), item |-> None])
  /\ outbox' = outbox \ Shown(t)
  /\ UNCHANGED <<syncOnly, owner, waits, errors, removed, idmap, net, faults>>

\* On the event "online", on login, by the button, every minute.  The list is
\* read once; one flush at a time per tab.
flushOutbox(t) ==
  /\ user[t] # None /\ online /\ sync[t].step = "idle"
  /\ Shown(t) # {}
  /\ SetSync(t, [step |-> "next", todo |-> Shown(t), item |-> None])
  /\ UNCHANGED <<syncOnly, queueVars, idmap, net, faults>>

\* mutant: Photos are sent without looking for their report's server id.
FlushNext_NoMap(t) ==
  /\ sync[t].step = "next"
  /\ \E i \in sync[t].todo :
       /\ SetSync(t, [step |-> "send", todo |-> sync[t].todo \ {i}, item |-> i])
       /\ Send(t, "sync", i)
  /\ UNCHANGED <<syncOnly, queueVars, idmap, faults>>

\* Reports first.  A photo whose report has no server id yet is passed over.
FlushNext(t) ==
  /\ sync[t].step = "next"
  /\ LET todo == sync[t].todo
         reports == todo \cap Reports
         Waiting(i) == i \in waits /\ ReportOf[i[1]] \notin idmap
     IN \E i \in (IF reports # {} THEN reports ELSE todo) :
          IF i \in PhotoIds /\ Waiting(i)
          THEN /\ SetSync(t, [sync[t] EXCEPT !.todo = @ \ {i}])
               /\ UNCHANGED net
          ELSE /\ SetSync(t, [step |-> "send", todo |-> todo \ {i}, item |-> i])
               /\ Send(t, "sync", i)
  /\ UNCHANGED <<syncOnly, queueVars, idmap, faults>>

FlushOk(t) ==
  /\ sync[t].step = "send"
  /\ Answered(t, "sync", "ok")
  /\ idmap' = IF sync[t].item \in Reports THEN idmap \cup {sync[t].item} ELSE idmap
  /\ SetSync(t, [sync[t] EXCEPT !.step = "remove"])
  /\ UNCHANGED <<syncOnly, queueVars, faults>>

outboxRemove(i) ==
  /\ outbox' = outbox \ {i}
  /\ errors' = errors \ {i}

FlushRemove(t) ==
  /\ sync[t].step = "remove"
  /\ outboxRemove(sync[t].item)
  /\ SetSync(t, [sync[t] EXCEPT !.step = "next", !.item = None])
  /\ UNCHANGED <<syncOnly, owner, waits, removed, idmap, net, faults>>

\* mutant: The cleared item is written back instead of the one refused.
FlushRefused_Cleared(t) ==
  /\ sync[t].step = "send"
  /\ Answered(t, "sync", "rejected")
  /\ outbox' = outbox \cup {IdleSync.item}
  /\ errors' = errors \cup {sync[t].item}
  /\ SetSync(t, [sync[t] EXCEPT !.step = "next", !.item = None])
  /\ UNCHANGED <<syncOnly, owner, waits, removed, idmap, faults>>

\* The item as it was read is written back with the error, also when it has been
\* deleted in the meantime.
FlushRefused(t) ==
  /\ sync[t].step = "send"
  /\ Answered(t, "sync", "rejected")
  /\ outbox' = outbox \cup {sync[t].item}
  /\ errors' = errors \cup {sync[t].item}
  /\ SetSync(t, [sync[t] EXCEPT !.step = "next", !.item = None])
  /\ UNCHANGED <<syncOnly, owner, waits, removed, idmap, faults>>

\* The network, the session or IndexedDB (mapSet, outboxRemove, the item written back,
\* mapGet) fails.
FlushBreaks(t) ==
  LET s == sync[t]
  IN \/ s.step = "send" /\ Unreachable(t, "sync")
     \/ s.step = "send" /\ s.item \in PhotoIds /\ Answered(t, "sync", "auth") /\ UNCHANGED faults
     \/ s.step = "send" /\ s.item \in Reports /\ Answered(t, "sync", "ok") /\ Fault
     \/ s.step = "send" /\ Answered(t, "sync", "rejected") /\ Fault
     \/ s.step = "remove" /\ UNCHANGED net /\ Fault
     \/ s.step = "next" /\ s.todo \cap Reports = {} /\ s.todo \cap waits # {} /\ UNCHANGED net /\ Fault

\* mutant: The item is removed although the flush was broken off.
FlushStopped_Removes(t) ==
  /\ FlushBreaks(t)
  /\ outboxRemove(sync[t].item)
  /\ SetSync(t, IdleSync)
  /\ UNCHANGED <<syncOnly, owner, waits, removed, idmap>>

\* That ends the flush; the items stay.
FlushStopped(t) ==
  /\ FlushBreaks(t)
  /\ SetSync(t, IdleSync)
  /\ UNCHANGED <<syncOnly, queueVars, idmap>>

FlushExpired(t) ==
  /\ sync[t].step = "send" /\ sync[t].item \in Reports
  /\ Expired(t, "sync")

\* mutant: "flushing" is not cleared when the flush ends.
FlushEnd_KeepsLock(t) ==
  /\ sync[t].step = "next" /\ sync[t].todo = {}
  /\ SetSync(t, [IdleSync EXCEPT !.step = "send"])
  /\ UNCHANGED <<syncOnly, queueVars, idmap, net, faults>>

FlushEnd(t) ==
  /\ sync[t].step = "next" /\ sync[t].todo = {}
  /\ SetSync(t, IdleSync)
  /\ UNCHANGED <<syncOnly, queueVars, idmap, net, faults>>

\* The bin beside an item of the user's own queue.
DeleteItem(t, i) ==
  /\ t \in FieldTabs /\ i \in Shown(t)
  /\ outboxRemove(i)
  /\ removed' = removed \cup {i}
  /\ UNCHANGED <<syncOnly, sync, owner, waits, idmap, net, faults>>

----------------------------------------------------------------------------
FormStep(t) ==
  \/ Compressed(t) \/ ReportAnswered(t) \/ ReportExpired(t)
  \/ Upload(t) \/ UploadAnswered(t) \/ Uploaded(t)
  \/ QueueReport(t) \/ QueuePhoto(t) \/ Queued(t)
  \/ CaptureCompressed(t) \/ CaptureAnswered(t) \/ QueueCapture(t) \/ QueueFailed(t)

FlushStep(t) ==
  \/ FlushNext(t) \/ FlushOk(t) \/ FlushRemove(t) \/ FlushRefused(t)
  \/ FlushStopped(t) \/ FlushExpired(t) \/ FlushEnd(t)

Next ==
  \/ GoOffline \/ GoOnline
  \/ \E t \in Tabs :
       \/ Logout(t) \/ Reload(t)
       \/ \E u \in Users : Login(t, u)
       \/ \E r \in Reports : Submit(t, r)
       \/ \E p \in Photos : capture(t, p)
       \/ FormStep(t)
       \/ flushOutbox(t) \/ FlushStep(t)
       \/ \E i \in Ids : DeleteItem(t, i)
       \/ \E src \in Source : Serve(t, src)

\* The connection comes back, the server answers what reaches it, the page's own
\* steps are carried out.  Coming online starts a flush at once, hence strong
\* fairness for it.
Fairness ==
  /\ WF_vars(GoOnline)
  /\ \A t \in Tabs :
       /\ WF_vars(FormStep(t))
       /\ SF_vars(flushOutbox(t))
       /\ WF_vars(FlushStep(t))
       /\ \A src \in Source : WF_vars(Serve(t, src))

Spec == Init /\ [][Next]_vars

FairSpec == Spec /\ Fairness

----------------------------------------------------------------------------
(* Properties *)

FormSteps == {"idle", "compress", "compressPhoto", "report", "photos", "upload", "queueReport", "queuePhotos",
              "capture", "queueCapture"}

\* Type invariant: every variable of the model keeps its shape.
TypeOK ==
  /\ online \in BOOLEAN
  /\ token \in Users \cup {None}
  /\ user \in [Tabs -> Users \cup {None}]
  /\ form \in [Tabs -> [step : FormSteps, rep : Reports \cup {None}, cur : Photos \cup {None},
                        pics : SUBSET Photos, left : SUBSET Photos, known : BOOLEAN, failed : BOOLEAN]]
  /\ sync \in [Tabs -> [step : {"idle", "next", "send", "remove"}, todo : SUBSET Ids,
                        item : Ids \cup {None}]]
  /\ outbox \subseteq Ids /\ waits \subseteq PhotoIds /\ errors \subseteq Ids
  /\ owner \in [Ids -> Users \cup {None}]
  /\ idmap \subseteq Reports
  /\ net \subseteq [tab : Tabs, src : Source, id : Ids, as : Users \cup {None},
                    status : Answer \cup {"sent"}]
  /\ db \subseteq Ids /\ removed \subseteq Ids
  /\ skipped \subseteq Photos
  /\ drawn \subseteq Reports \cup Photos /\ accepted \subseteq Reports \cup Photos
  /\ faults \in 0..MaxFaults

\* What the page has told the user was sent or queued is never lost, whatever is
\* lost on the way and however the tabs interleave: each such report, and for each
\* photo of it or of an element some copy, is on the server, in the queue, or was
\* deleted from the queue by the user (submit, capture, flushOutbox).  Not so for the
\* photos of a report that could not be compressed: submit skips them, and says all the
\* same that the report was sent or queued (Field.tsx:258, 272, 281).
NothingLost ==
  /\ \A r \in accepted \cap Reports :
       /\ Kept(r)
       /\ \A p \in PhotosOf(r) \ skipped : \E k \in Copies : Kept(<<p, k>>)
  /\ \A p \in accepted \cap Photos : Kept(<<p, 1>>)

\* A photo reaches the server only after the report it belongs to: the form sends
\* the report first, and the queue holds a photo back until the map of server ids
\* has its report, also when several tabs flush the same queue.
PhotoAfterReport ==
  \A i \in PhotoIds : i \in db /\ ReportOf[i[1]] \in Reports => ReportOf[i[1]] \in db

\* README.md says sending again makes no double data: each photo of a report is
\* stored once.
PhotoStoredOnce == \A p \in Photos, j, k \in Copies : {<<p, j>>, <<p, k>>} \subseteq db => j = k

Attended(i) == \E t \in Tabs : user[t] = owner[i] /\ token = owner[i]

\* The report a photo waits for is not coming: refused, or deleted by the user.
Orphan(i) ==
  i \in waits /\ LET r == ReportOf[i[1]] IN r \notin idmap /\ (r \notin outbox \/ r \in errors)

\* While its owner stays logged in, a queued item leaves the queue or shows a
\* refusal, unless it is a photo whose report is not coming (flushOutbox, the timer).
QueueDrains ==
  \A i \in Ids :
    i \in outbox ~> (i \notin outbox \/ i \in errors \/ Orphan(i) \/ ~Attended(i))

\* The status of a report as its reporter sees it.
ReportStatus(r) ==
  IF r \in db THEN "stored"
  ELSE IF r \in outbox THEN "queued"
  ELSE IF r \in removed THEN "deleted"
  ELSE IF \E t \in Tabs : form[t].rep = r THEN "form"
  ELSE IF r \in drawn THEN "refused"
  ELSE "new"

Ledger == INSTANCE FieldLedger WITH status <- [r \in Reports |-> ReportStatus(r)]

\* The queue implements the ledger: no step takes a queued report back to nothing,
\* and a stored one stays stored.
LedgerSpec == Ledger!Spec

----------------------------------------------------------------------------
(* Values of the constants, for the runs *)

\* A report with a photo, and a photo of an element.
PhotoOfReport ==
  LET first == CHOOSE p \in Photos : TRUE
  IN [p \in Photos |-> IF p = first THEN CHOOSE r \in Reports : TRUE ELSE Asset]
====
