------------------------- MODULE FieldOutbox_proofs -------------------------
(***************************************************************************)
(* Proofs, for any number of tabs, users, reports, photos and faults, that *)
(* the queue loses nothing, keeps photos behind their reports, and         *)
(* implements the ledger of FieldLedger.                                   *)
(***************************************************************************)
EXTENDS FieldOutbox, TLAPS

FormType == [step : FormSteps, rep : Reports \cup {None}, cur : Photos \cup {None},
             pics : SUBSET Photos, left : SUBSET Photos, known : BOOLEAN, failed : BOOLEAN]
SyncType == [step : {"idle", "next", "send", "remove"}, todo : SUBSET Ids, item : Ids \cup {None}]
Request  == [tab : Tabs, src : Source, id : Ids, as : Users \cup {None}, status : Answer \cup {"sent"}]

Basics ==
  /\ online \in BOOLEAN
  /\ token \in Users \cup {None}
  /\ user \in [Tabs -> Users \cup {None}]
  /\ outbox \subseteq Ids /\ waits \subseteq PhotoIds /\ errors \subseteq Ids
  /\ owner \in [Ids -> Users \cup {None}]
  /\ idmap \subseteq Reports
  /\ db \subseteq Ids /\ removed \subseteq Ids
  /\ drawn \subseteq Reports \cup Photos /\ accepted \subseteq Reports \cup Photos
  /\ skipped \subseteq Photos
  /\ faults \in 0..MaxFaults

\* The report that photo i is sent for, and whether there is one.
Parent(i) == ReportOf[i[1]]
Follows(i) == i \in PhotoIds /\ Parent(i) \in Reports

\* Some copy of the photo is kept.
Copied(p) == \E k \in Copies : Kept(<<p, k>>)

\* The steps of a form that work on a report.
ReportSteps == {"compress", "report", "photos", "upload", "queueReport", "queuePhotos"}

\* What a form holds at each of its steps, and what has become of it so far.
FormGood(f) ==
  /\ f.step \in ReportSteps => f.rep \in Reports /\ f.rep \in drawn /\ f.left \subseteq f.pics /\ f.pics \subseteq PhotosOf(f.rep)
  /\ f.step = "compress" => f.left = {}
  /\ f.step \in ReportSteps \ {"compress"} => PhotosOf(f.rep) \ f.pics \subseteq skipped
  /\ f.step \notin ReportSteps => f.rep = None
  /\ f.step = "upload" => f.cur \in f.pics
  /\ f.step \in {"compressPhoto", "capture", "queueCapture"} => f.cur \in Photos /\ ReportOf[f.cur] = Asset
  /\ f.step \in {"photos", "upload"} => f.known
  /\ f.known => f.rep \in db
  /\ f.step = "queuePhotos" => Kept(f.rep) /\ \A p \in f.pics \ f.left : Copied(p)
  /\ f.step \in {"photos", "upload"} /\ ~f.failed => \A p \in f.pics \ f.left : <<p, 1>> \in db

\* An item may be sent: it is kept, and its report is on the server unless it waits for it.
Sendable(i) == Kept(i) /\ (Follows(i) => i \in waits \/ Parent(i) \in db)

SyncGood(s) ==
  /\ \A i \in s.todo : Sendable(i)
  /\ s.step \in {"send", "remove"} => s.item \in Ids /\ Sendable(s.item)
  /\ s.step = "remove" => s.item \in db

RequestGood(q) ==
  /\ q.status = "ok" => q.id \in db
  /\ Follows(q.id) => Parent(q.id) \in db
  /\ q.id \in Reports => q.id \in drawn

Forms    == form \in [Tabs -> FormType] /\ \A t \in Tabs : FormGood(form[t])
Flushes  == sync \in [Tabs -> SyncType] /\ \A t \in Tabs : SyncGood(sync[t])
Requests == net \subseteq Request /\ \A q \in net : RequestGood(q)

\* A request that is waited for is the one its sender is at, and the only one.
Expected(q) ==
  /\ q.src = "form" => \/ form[q.tab].step = "report" /\ q.id = form[q.tab].rep
                       \/ form[q.tab].step \in {"upload", "capture"} /\ q.id = <<form[q.tab].cur, 1>>
  /\ q.src = "sync" => sync[q.tab].step = "send" /\ q.id = sync[q.tab].item
Single == \A q, x \in net : q.tab = x.tab /\ q.src = x.src /\ q.src # "lost" => q = x
Awaited == Single /\ \A q \in net : Expected(q)

\* What is stored, queued and noted.
Stored ==
  /\ idmap \subseteq db
  /\ \A i \in db : Follows(i) => Parent(i) \in db
  /\ \A i \in outbox : Sendable(i)
  /\ \A r \in Reports : Kept(r) => r \in drawn

IInv == Basics /\ Forms /\ Flushes /\ Requests /\ Awaited /\ Stored /\ NothingLost

-----------------------------------------------------------------------------
(* Nothing is ever forgotten, so what was right about a form, a flush or a  *)
(* request that does not change stays right.                                *)

Grows ==
  /\ db \subseteq db' /\ drawn \subseteq drawn' /\ waits \subseteq waits' /\ skipped \subseteq skipped'
  /\ \A i : Kept(i) => Kept(i)'

\* Another form changes.
LEMMA FormsMove ==
  ASSUME Forms, Grows, NEW t \in Tabs, form' \in [Tabs -> FormType],
         \A u \in Tabs \ {t} : form'[u] = form[u], FormGood(form[t])'
  PROVE  Forms'
<1> SUFFICES ASSUME NEW u \in Tabs \ {t} PROVE FormGood(form[u])'
  BY DEF Forms
<1>1. form'[u] = form[u] /\ FormGood(form[u])
  BY DEF Forms
<1>2. \A p : Copied(p) => Copied(p)'
  BY DEF Grows, Copied
<1> QED BY <1>1, <1>2 DEF Grows, FormGood

\* No form changes.
LEMMA FormsStay == ASSUME Forms, Grows, UNCHANGED form PROVE Forms'
<1> SUFFICES ASSUME NEW u \in Tabs PROVE FormGood(form[u])'
  BY DEF Forms
<1>1. form'[u] = form[u] /\ FormGood(form[u])
  BY DEF Forms
<1>2. \A p : Copied(p) => Copied(p)'
  BY DEF Grows, Copied
<1> QED BY <1>1, <1>2 DEF Grows, FormGood

\* Another flush changes.
LEMMA FlushesMove ==
  ASSUME Flushes, Grows, NEW t \in Tabs, sync' \in [Tabs -> SyncType],
         \A u \in Tabs \ {t} : sync'[u] = sync[u], SyncGood(sync[t])'
  PROVE  Flushes'
<1> SUFFICES ASSUME NEW u \in Tabs \ {t} PROVE SyncGood(sync[u])'
  BY DEF Flushes
<1>1. sync'[u] = sync[u] /\ SyncGood(sync[u])
  BY DEF Flushes
<1>2. \A i : Sendable(i) => Sendable(i)'
  BY DEF Grows, Sendable
<1> QED BY <1>1, <1>2 DEF Grows, SyncGood

\* No flush changes.
LEMMA FlushesStay == ASSUME Flushes, Grows, UNCHANGED sync PROVE Flushes'
<1> SUFFICES ASSUME NEW u \in Tabs PROVE SyncGood(sync[u])'
  BY DEF Flushes
<1>1. sync'[u] = sync[u] /\ SyncGood(sync[u])
  BY DEF Flushes
<1>2. \A i : Sendable(i) => Sendable(i)'
  BY DEF Grows, Sendable
<1> QED BY <1>1, <1>2 DEF Grows, SyncGood

\* Requests that have gone, or that nobody waits for any more.
Fewer == \A q \in net' : q \in net \/ \E x \in net : x.status = "sent" /\ q = [x EXCEPT !.src = "lost"]

\* Requests that are answered or given up leave the others right.
LEMMA RequestsFewer == ASSUME Requests, Grows, Fewer PROVE Requests'
<1> SUFFICES ASSUME NEW q \in net' PROVE q \in Request /\ RequestGood(q)'
  BY DEF Requests
<1>1. PICK x \in net : q = x \/ q = [x EXCEPT !.src = "lost"]
  BY DEF Fewer
<1>2. x \in Request /\ RequestGood(x)
  BY DEF Requests
<1>3. q \in Request /\ q.id = x.id /\ q.status = x.status
  BY <1>1, <1>2 DEF Request, Source
<1> QED BY <1>2, <1>3 DEF Grows, RequestGood

\* No request changes.
LEMMA RequestsStay == ASSUME Requests, Grows, UNCHANGED net PROVE Requests'
BY RequestsFewer DEF Fewer

\* One more request, of which what is asked of requests holds.
LEMMA RequestsSend ==
  ASSUME Basics, Requests, Grows, NEW t \in Tabs, NEW src \in Source, NEW i \in Ids, Send(t, src, i),
         (Follows(i) => Parent(i) \in db)', (i \in Reports => i \in drawn)'
  PROVE  Requests'
<1> DEFINE new == [tab |-> t, src |-> src, id |-> i, as |-> token, status |-> "sent"]
<1> SUFFICES ASSUME NEW q \in net' PROVE q \in Request /\ RequestGood(q)'
  BY DEF Requests
<1>1. CASE q \in net
  BY <1>1 DEF Requests, RequestGood, Grows
<1>2. CASE q = new
  <2>1. q \in Request /\ q.status # "ok" /\ q.id = i
    BY <1>2 DEF Request, Basics
  <2> QED BY <2>1 DEF RequestGood
<1> QED BY <1>1, <1>2 DEF Send

\* The queue and the server do not change.
LEMMA StoredStays ==
  ASSUME Stored, Grows, UNCHANGED <<idmap, db, outbox, removed>> PROVE Stored'
<1>1. \A i : Sendable(i) => Sendable(i)'
  BY DEF Grows, Sendable
<1> QED BY <1>1 DEF Stored, Grows, Kept

\* An item that may be sent is put into the queue.
LEMMA StoredQueue ==
  ASSUME Stored, Grows, NEW t \in Tabs, NEW i, NEW w, outboxAdd(t, i, w),
         Follows(i) => w \/ Parent(i) \in db, i \in Reports => i \in drawn, UNCHANGED <<idmap, db, drawn>>
  PROVE  Stored' /\ Sendable(i)'
<1>1. \A x : Sendable(x) => Sendable(x)'
  BY DEF Grows, Sendable
<1>2. Sendable(i)'
  BY DEF outboxAdd, Sendable, Kept
<1>3. \A x : Kept(x)' => Kept(x) \/ x = i
  BY DEF outboxAdd, Kept
<1>4. outbox' = outbox \cup {i}
  BY DEF outboxAdd
<1> QED BY <1>1, <1>2, <1>3, <1>4 DEF Stored

\* The page promises nothing new.
LEMMA NothingLostStays == ASSUME NothingLost, Grows, UNCHANGED accepted PROVE NothingLost'
BY DEF NothingLost, Grows

\* The page tells the user that something is sent or queued, which is kept.
LEMMA NothingLostAccepts ==
  ASSUME NothingLost, Grows, NEW x, accepted' = accepted \cup {x},
         x \in Reports => Kept(x)' /\ \A p \in PhotosOf(x) \ skipped' : Copied(p)',
         x \in Photos => Kept(<<x, 1>>)'
  PROVE  NothingLost'
BY DEF NothingLost, Grows, Copied

-----------------------------------------------------------------------------
(* Who waits for which request.                                             *)

\* Nobody sends, answers or goes on.
LEMMA AwaitedStays == ASSUME Awaited, UNCHANGED <<net, form, sync>> PROVE Awaited'
BY DEF Awaited, Single, Expected

\* A request is answered or given up: its sender has no other, and goes on.
Ended(t, src) ==
  /\ Fewer /\ Single'
  /\ \A q \in net' : q.src = "lost" \/ (q \in net /\ ~(q.tab = t /\ q.src = src))

\* A sender that drops its request waits for none.
LEMMA EndedOnce ==
  ASSUME Requests, Awaited, NEW t \in Tabs, NEW src \in {"form", "sync"},
         Lost(t, src) \/ \E status \in Answer : Answered(t, src, status)
  PROVE  Ended(t, src)
<1>1. PICK q \in net :
        /\ q.tab = t /\ q.src = src
        /\ \/ net' = net \ {q}
           \/ q.status = "sent" /\ net' = (net \ {q}) \cup {[q EXCEPT !.src = "lost"]}
  BY DEF Lost, Answered
<1>2. q \in Request /\ [q EXCEPT !.src = "lost"].src = "lost"
  BY DEF Requests, Request
<1>3. \A x \in net : x.tab = t /\ x.src = src => x = q
  BY <1>1 DEF Awaited, Single
<1> QED BY <1>1, <1>2, <1>3 DEF Ended, Fewer, Awaited, Single

\* A form takes its answer; everybody else waits as before.
LEMMA FormEnded ==
  ASSUME Requests, Awaited, NEW t \in Tabs, Ended(t, "form"), UNCHANGED sync,
         \A u \in Tabs \ {t} : form'[u] = form[u]
  PROVE  Awaited'
<1> SUFFICES ASSUME NEW q \in net', q.src # "lost" PROVE Expected(q)'
  BY DEF Awaited, Ended, Expected
<1>1. q \in net /\ ~(q.tab = t /\ q.src = "form") /\ Expected(q) /\ q.tab \in Tabs
  BY DEF Ended, Awaited, Requests, Request
<1> QED BY <1>1 DEF Expected

\* A flush takes its answer; everybody else waits as before.
LEMMA FlushEnded ==
  ASSUME Requests, Awaited, NEW t \in Tabs, Ended(t, "sync"), UNCHANGED form,
         \A u \in Tabs \ {t} : sync'[u] = sync[u]
  PROVE  Awaited'
<1> SUFFICES ASSUME NEW q \in net', q.src # "lost" PROVE Expected(q)'
  BY DEF Awaited, Ended, Expected
<1>1. q \in net /\ ~(q.tab = t /\ q.src = "sync") /\ Expected(q) /\ q.tab \in Tabs
  BY DEF Ended, Awaited, Requests, Request
<1> QED BY <1>1 DEF Expected

\* A new request is the only one of its sender.
LEMMA Sent ==
  ASSUME NEW t, NEW src, NEW i, Send(t, src, i)
  PROVE  \E new : net' = net \cup {new} /\ new.tab = t /\ new.src = src /\ new.id = i
<1> DEFINE new == [tab |-> t, src |-> src, id |-> i, as |-> token, status |-> "sent"]
<1>1. new.tab = t /\ new.src = src /\ new.id = i
  OBVIOUS
<1>2. net' = net \cup {new}
  BY DEF Send
<1> HIDE DEF new
<1> QED BY <1>1, <1>2

\* A form that waits for nothing has no request on its way, so it may go on or send one.
FormFree(t) == form[t].step \notin {"report", "upload", "capture"}

\* A form that waits for nothing goes on to a step that waits for nothing.
LEMMA FormWorks ==
  ASSUME Requests, Awaited, NEW t \in Tabs, FormFree(t), UNCHANGED <<net, sync>>,
         \A u \in Tabs \ {t} : form'[u] = form[u]
  PROVE  Awaited'
<1>1. \A q \in net : q.tab \in Tabs /\ Expected(q) /\ ~(q.tab = t /\ q.src = "form")
  BY DEF Requests, Request, Awaited, Expected, FormFree
<1> QED BY <1>1 DEF Awaited, Single, Expected

\* A form that waits for nothing sends a request and waits for it.
LEMMA FormAsks ==
  ASSUME Requests, Awaited, NEW t \in Tabs, FormFree(t), NEW i, Send(t, "form", i), UNCHANGED sync,
         \A u \in Tabs \ {t} : form'[u] = form[u],
         \/ form'[t].step = "report" /\ i = form'[t].rep
         \/ form'[t].step \in {"upload", "capture"} /\ i = <<form'[t].cur, 1>>
  PROVE  Awaited'
<1>1. \A q \in net : q.tab \in Tabs /\ Expected(q) /\ ~(q.tab = t /\ q.src = "form")
  BY DEF Requests, Request, Awaited, Expected, FormFree
<1>2. PICK new : /\ net' = net \cup {new}
                 /\ new.tab = t /\ new.src = "form" /\ new.id = i
  BY Sent
<1>3. Single'
  BY <1>1, <1>2 DEF Awaited, Single
<1>4. \A q \in net' : Expected(q)'
  BY <1>1, <1>2 DEF Expected
<1> QED BY <1>3, <1>4 DEF Awaited

\* A flush that waits for nothing goes on to a step that waits for nothing.
LEMMA FlushWorks ==
  ASSUME Requests, Awaited, NEW t \in Tabs, sync[t].step # "send", UNCHANGED <<net, form>>,
         \A u \in Tabs \ {t} : sync'[u] = sync[u]
  PROVE  Awaited'
<1>1. \A q \in net : q.tab \in Tabs /\ Expected(q) /\ ~(q.tab = t /\ q.src = "sync")
  BY DEF Requests, Request, Awaited, Expected
<1> QED BY <1>1 DEF Awaited, Single, Expected

\* A flush that waits for nothing sends a request and waits for it.
LEMMA FlushAsks ==
  ASSUME Requests, Awaited, NEW t \in Tabs, sync[t].step # "send", NEW i, Send(t, "sync", i), UNCHANGED form,
         \A u \in Tabs \ {t} : sync'[u] = sync[u], sync'[t].step = "send", i = sync'[t].item
  PROVE  Awaited'
<1>1. \A q \in net : q.tab \in Tabs /\ Expected(q) /\ ~(q.tab = t /\ q.src = "sync")
  BY DEF Requests, Request, Awaited, Expected
<1>2. PICK new : /\ net' = net \cup {new}
                 /\ new.tab = t /\ new.src = "sync" /\ new.id = i
  BY Sent
<1>3. Single'
  BY <1>1, <1>2 DEF Awaited, Single
<1>4. \A q \in net' : Expected(q)'
  BY <1>1, <1>2 DEF Expected
<1> QED BY <1>3, <1>4 DEF Awaited

-----------------------------------------------------------------------------
(* Forms: the report and its photos.                                        *)

\* The form of tab t becomes f, the others stay.
LEMMA FormSet ==
  ASSUME Forms, NEW t \in Tabs, NEW f \in FormType, SetForm(t, f)
  PROVE  form' \in [Tabs -> FormType] /\ form'[t] = f /\ \A u \in Tabs \ {t} : form'[u] = form[u]
BY DEF Forms, SetForm

\* The flush of tab t becomes f, the others stay.
LEMMA SyncSet ==
  ASSUME Flushes, NEW t \in Tabs, NEW f \in SyncType, SetSync(t, f)
  PROVE  sync' \in [Tabs -> SyncType] /\ sync'[t] = f /\ \A u \in Tabs \ {t} : sync'[u] = sync[u]
BY DEF Flushes, SetSync

\* The next photo of a report that was sent is uploaded.
LEMMA UploadKeeps == ASSUME IInv, NEW t \in Tabs, Upload(t) PROVE IInv'
<1> USE DEF IInv
<1>1. PICK p \in form[t].left : /\ Send(t, "form", <<p, 1>>)
                               /\ SetForm(t, [form[t] EXCEPT !.step = "upload", !.cur = p])
  BY DEF Upload
<1>2. form[t] \in FormType /\ form[t].step = "photos" /\ FormGood(form[t])
  BY DEF Upload, Forms
<1>3. p \in Photos /\ ReportOf[p] = form[t].rep /\ form[t].rep \in Reports \cap db
  BY <1>2 DEF FormGood, ReportSteps, PhotosOf
<1>4. /\ form' \in [Tabs -> FormType] /\ \A u \in Tabs \ {t} : form'[u] = form[u]
      /\ form'[t] = [form[t] EXCEPT !.step = "upload", !.cur = p]
  <2>1. [form[t] EXCEPT !.step = "upload", !.cur = p] \in FormType
    BY <1>2, <1>3 DEF FormType, FormSteps
  <2> QED BY <1>1, <2>1, FormSet
<1>5. /\ form'[t].step = "upload" /\ form'[t].cur = p /\ form'[t].rep = form[t].rep /\ form'[t].left = form[t].left
      /\ form'[t].known = form[t].known /\ form'[t].failed = form[t].failed /\ form'[t].pics = form[t].pics
  BY <1>2, <1>4 DEF FormType
<1>6. UNCHANGED <<sync, idmap, db, outbox, waits, removed, skipped, accepted, drawn>>
  BY DEF Upload, formOnly, queueVars
<1>7. Grows
  BY <1>6 DEF Grows, Kept
<1>8. Basics'
  BY DEF Basics, Upload, formOnly, queueVars
<1>9. Forms'
  <2>1. FormGood(form[t])'
    BY <1>2, <1>3, <1>5, <1>6 DEF FormGood, ReportSteps, PhotosOf
  <2> QED BY <1>4, <1>7, <2>1, FormsMove
<1>10. Flushes' /\ Stored' /\ NothingLost'
  BY <1>6, <1>7, FlushesStay, StoredStays, NothingLostStays
<1>11. Requests'
  <2>1. <<p, 1>> \in Ids \ Reports /\ Parent(<<p, 1>>) \in db' /\ "form" \in Source
    BY <1>3, <1>6, OutboxAssumption DEF Ids, PhotoIds, Copies, Parent, Source
  <2> QED BY <1>1, <1>7, <2>1, RequestsSend DEF Parent
<1>12. Awaited'
  BY <1>1, <1>2, <1>4, <1>5, <1>6, FormAsks DEF FormFree
<1> QED BY <1>8, <1>9, <1>10, <1>11, <1>12

\* What a form's answer changes besides the form itself.
LEMMA FormHeard ==
  ASSUME IInv, NEW t \in Tabs, NEW f \in FormType, SetForm(t, f), FormGood(form[t])',
         Lost(t, "form") \/ (UNCHANGED faults /\ \E status \in Answer : Answered(t, "form", status)),
         UNCHANGED <<formOnly, queueVars, drawn>>,
         NothingLost', accepted' \subseteq Reports \cup Photos
  PROVE  IInv'
<1> USE DEF IInv
<1>1. form' \in [Tabs -> FormType] /\ \A u \in Tabs \ {t} : form'[u] = form[u]
  BY FormSet
<1>2. UNCHANGED <<sync, idmap, db, outbox, waits, removed, skipped, drawn>>
  BY DEF formOnly, queueVars
<1>3. Grows
  BY <1>2 DEF Grows, Kept
<1>4. Basics'
  <2>1. faults' \in 0..MaxFaults
    BY OutboxAssumption DEF Basics, Lost, Fault
  <2> QED BY <2>1 DEF Basics, formOnly, queueVars
<1>5. Ended(t, "form")
  BY EndedOnce
<1>6. Forms' /\ Flushes' /\ Stored' /\ Awaited'
  BY <1>1, <1>2, <1>3, <1>5, FormsMove, FlushesStay, StoredStays, FormEnded
<1>7. Requests'
  BY <1>3, <1>5, RequestsFewer DEF Ended
<1> QED BY <1>4, <1>6, <1>7

\* A form's request that was carried out is stored under the id the form is at.
LEMMA FormStored ==
  ASSUME IInv, NEW t \in Tabs, Answered(t, "form", "ok")
  PROVE  \/ form[t].step = "report" /\ form[t].rep \in db
         \/ form[t].step \in {"upload", "capture"} /\ <<form[t].cur, 1>> \in db
<1>1. PICK q \in net : q.tab = t /\ q.src = "form" /\ q.status = "ok"
  BY DEF Answered
<1>2. Expected(q) /\ RequestGood(q)
  BY DEF IInv, Awaited, Requests
<1> QED BY <1>1, <1>2 DEF Expected, RequestGood

\* The report is created, refused, or the server is not reached.
LEMMA ReportAnsweredKeeps == ASSUME IInv, NEW t \in Tabs, ReportAnswered(t) PROVE IInv'
<1>1. /\ form[t] \in FormType /\ form[t].step = "report" /\ FormGood(form[t])
      /\ UNCHANGED <<formOnly, queueVars, drawn>> /\ UNCHANGED accepted
  BY DEF ReportAnswered, IInv, Forms
<1>2. UNCHANGED <<db, outbox, removed, skipped, drawn>> /\ form[t].rep \in Reports /\ ~(form[t].known /\ form[t].rep \notin db)
  BY <1>1 DEF formOnly, queueVars, FormGood, ReportSteps
<1>3. NothingLost' /\ accepted' \subseteq Reports \cup Photos
  BY <1>1, <1>2, NothingLostStays DEF Grows, Kept, IInv, Basics, queueVars
<1>4. CASE /\ Answered(t, "form", "ok")
           /\ SetForm(t, [form[t] EXCEPT !.step = "photos", !.known = TRUE, !.left = form[t].pics])
           /\ UNCHANGED faults
  <2> DEFINE f == [form[t] EXCEPT !.step = "photos", !.known = TRUE, !.left = form[t].pics]
  <2>1. f \in FormType
    BY <1>1 DEF FormType, FormSteps, PhotosOf
  <2>2. form'[t] = f
    BY <1>4, <2>1, FormSet DEF IInv
  <2>3. /\ form'[t].step = "photos" /\ form'[t].rep = form[t].rep
        /\ form'[t].left = form[t].pics /\ form'[t].pics = form[t].pics
    BY <1>1, <2>2 DEF FormType
  <2>4. form'[t].known
    BY <1>1, <2>2 DEF FormType
  <2>5. form[t].rep \in db
    BY <1>1, <1>4, FormStored
  <2>6. FormGood(form[t])'
    BY <1>1, <1>2, <2>3, <2>4, <2>5 DEF FormGood, ReportSteps
  <2> QED BY <1>1, <1>3, <1>4, <2>1, <2>6, FormHeard DEF Answer
<1>5. CASE Answered(t, "form", "rejected") /\ SetForm(t, IdleForm) /\ UNCHANGED faults
  <2>1. IdleForm \in FormType
    BY DEF FormType, FormSteps, IdleForm
  <2>2. form'[t] = IdleForm
    BY <1>5, <2>1, FormSet DEF IInv
  <2>3. FormGood(form[t])'
    BY <2>2 DEF FormGood, ReportSteps, IdleForm
  <2> QED BY <1>1, <1>3, <1>5, <2>1, <2>3, FormHeard DEF Answer
<1>6. CASE Unreachable(t, "form") /\ SetForm(t, [form[t] EXCEPT !.step = "queueReport"])
  <2> DEFINE f == [form[t] EXCEPT !.step = "queueReport"]
  <2>1. f \in FormType
    BY <1>1 DEF FormType, FormSteps
  <2>2. form'[t] = f
    BY <1>6, <2>1, FormSet DEF IInv
  <2>3. /\ form'[t].step = "queueReport" /\ form'[t].rep = form[t].rep /\ form'[t].pics = form[t].pics
        /\ form'[t].left = form[t].left /\ form'[t].known = form[t].known
    BY <1>1, <2>2 DEF FormType
  <2>4. FormGood(form[t])'
    BY <1>1, <1>2, <2>3 DEF FormGood, ReportSteps
  <2> QED BY <1>1, <1>3, <1>6, <2>1, <2>4, FormHeard DEF Answer, Unreachable
<1> QED BY <1>4, <1>5, <1>6 DEF ReportAnswered

\* A photo is uploaded, or the form notes that one failed.
LEMMA UploadAnsweredKeeps == ASSUME IInv, NEW t \in Tabs, UploadAnswered(t) PROVE IInv'
<1> DEFINE next(bad) == [form[t] EXCEPT !.step = "photos", !.left = @ \ {form[t].cur}, !.failed = @ \/ bad]
<1>1. /\ form[t] \in FormType /\ form[t].step = "upload" /\ FormGood(form[t])
      /\ UNCHANGED <<formOnly, queueVars, drawn>> /\ UNCHANGED accepted
  BY DEF UploadAnswered, IInv, Forms
<1>2. UNCHANGED <<db, outbox, removed, skipped, drawn>> /\ form[t].rep \in Reports /\ form[t].known
  BY <1>1 DEF formOnly, queueVars, FormGood, ReportSteps
<1>3. NothingLost' /\ accepted' \subseteq Reports \cup Photos
  BY <1>1, <1>2, NothingLostStays DEF Grows, Kept, IInv, Basics, queueVars
<1>4. PICK bad \in BOOLEAN :
        /\ SetForm(t, next(bad))
        /\ bad \/ Answered(t, "form", "ok")
        /\ Lost(t, "form") \/ (UNCHANGED faults /\ \E status \in Answer : Answered(t, "form", status))
  <2>1. CASE Answered(t, "form", "ok") /\ SetForm(t, next(FALSE)) /\ UNCHANGED faults
    BY <2>1 DEF Answer
  <2>2. CASE \/ Answered(t, "form", "rejected") /\ SetForm(t, next(TRUE)) /\ UNCHANGED faults
             \/ Answered(t, "form", "auth") /\ SetForm(t, next(TRUE)) /\ UNCHANGED faults
             \/ Unreachable(t, "form") /\ SetForm(t, next(TRUE))
    BY <2>2 DEF Answer, Unreachable
  <2> QED BY <2>1, <2>2 DEF UploadAnswered
<1>5. next(bad) \in FormType
  BY <1>1 DEF FormType, FormSteps
<1>6. form'[t] = next(bad)
  BY <1>4, <1>5, FormSet DEF IInv
<1>7. /\ form'[t].step = "photos" /\ form'[t].rep = form[t].rep /\ form'[t].known = form[t].known
      /\ form'[t].left = form[t].left \ {form[t].cur} /\ form'[t].pics = form[t].pics
  BY <1>1, <1>6 DEF FormType
<1>8. ~form'[t].failed => ~form[t].failed /\ ~bad
  BY <1>1, <1>6 DEF FormType
<1>9. ~bad => <<form[t].cur, 1>> \in db
  BY <1>1, <1>4, FormStored
<1>10. FormGood(form[t])'
  BY <1>1, <1>2, <1>7, <1>8, <1>9 DEF FormGood, ReportSteps, PhotosOf
<1> QED BY <1>1, <1>3, <1>4, <1>5, <1>10, FormHeard

\* The photo of an element is uploaded, refused, or is to be queued.
LEMMA CaptureAnsweredKeeps == ASSUME IInv, NEW t \in Tabs, CaptureAnswered(t) PROVE IInv'
<1>1. /\ form[t] \in FormType /\ form[t].step = "capture" /\ FormGood(form[t])
      /\ UNCHANGED <<formOnly, queueVars, drawn>>
  BY DEF CaptureAnswered, IInv, Forms
<1>2. /\ UNCHANGED <<db, outbox, removed, skipped, drawn, waits>> /\ form[t].cur \in Photos /\ ReportOf[form[t].cur] = Asset
      /\ form[t].rep = None /\ form[t].cur \notin Reports
  BY <1>1, OutboxAssumption DEF formOnly, queueVars, FormGood, ReportSteps
<1>3. Grows
  BY <1>2 DEF Grows, Kept
<1>4. CASE SetForm(t, IdleForm)
  <2>1. IdleForm \in FormType
    BY DEF FormType, FormSteps, IdleForm
  <2>2. form'[t] = IdleForm
    BY <1>4, <2>1, FormSet DEF IInv
  <2>3. FormGood(form[t])'
    BY <2>2 DEF FormGood, ReportSteps, IdleForm
  <2>4. UNCHANGED faults /\ \E status \in Answer : Answered(t, "form", status)
    <3>1. form'[t].step = "idle"
      BY <2>2 DEF IdleForm
    <3>2. CASE SetForm(t, [form[t] EXCEPT !.step = "queueCapture"])
      <4>1. [form[t] EXCEPT !.step = "queueCapture"] \in FormType
        BY <1>1 DEF FormType, FormSteps
      <4>2. form'[t].step = "queueCapture"
        BY <1>1, <3>2, <4>1, FormSet DEF IInv, FormType
      <4> QED BY <3>1, <4>2
    <3> QED BY <3>2 DEF CaptureAnswered, Answer
  <2>5. CASE UNCHANGED accepted
    <3>1. NothingLost' /\ accepted' \subseteq Reports \cup Photos
      BY <1>3, <2>5, NothingLostStays DEF IInv, Basics
    <3> QED BY <1>1, <1>4, <2>1, <2>3, <2>4, <3>1, FormHeard
  <2>6. CASE Answered(t, "form", "ok") /\ accepted' = accepted \cup {form[t].cur}
    <3> PICK p : p = form[t].cur
      OBVIOUS
    <3>1. <<p, 1>> \in db
      BY <1>1, <2>6, FormStored
    <3>2. Kept(<<p, 1>>)'
      BY <1>2, <3>1 DEF Kept
    <3>3. NothingLost' /\ accepted' \subseteq Reports \cup Photos
      BY <1>2, <1>3, <2>6, <3>2, NothingLostAccepts DEF IInv, Basics
    <3> QED BY <1>1, <1>4, <2>1, <2>3, <2>4, <3>3, FormHeard
  <2> QED BY <2>5, <2>6 DEF CaptureAnswered
<1>5. CASE /\ Unreachable(t, "form") /\ UNCHANGED accepted
           /\ SetForm(t, [form[t] EXCEPT !.step = "queueCapture"])
  <2> DEFINE f == [form[t] EXCEPT !.step = "queueCapture"]
  <2>1. f \in FormType
    BY <1>1 DEF FormType, FormSteps
  <2>2. form'[t] = f
    BY <1>5, <2>1, FormSet DEF IInv
  <2>3. /\ form'[t].step = "queueCapture" /\ form'[t].rep = form[t].rep
        /\ form'[t].cur = form[t].cur /\ form'[t].known = form[t].known
    BY <1>1, <2>2 DEF FormType
  <2>4. FormGood(form[t])'
    BY <1>1, <1>2, <2>3 DEF FormGood, ReportSteps
  <2>5. NothingLost' /\ accepted' \subseteq Reports \cup Photos
    BY <1>3, <1>5, NothingLostStays DEF IInv, Basics
  <2> QED BY <1>1, <1>5, <2>1, <2>4, <2>5, FormHeard DEF Answer, Unreachable
<1> QED BY <1>4, <1>5 DEF CaptureAnswered

\* A form that waits for no request and puts nothing into the queue.
LEMMA FormGoesOn ==
  ASSUME IInv, NEW t \in Tabs, NEW f \in FormType, SetForm(t, f), FormGood(form[t])', FormFree(t),
         UNCHANGED <<formOnly, queueVars, net>>, faults' \in 0..MaxFaults,
         drawn \subseteq drawn', drawn' \subseteq Reports \cup Photos,
         NothingLost', accepted' \subseteq Reports \cup Photos
  PROVE  IInv'
<1> USE DEF IInv
<1>1. form' \in [Tabs -> FormType] /\ \A u \in Tabs \ {t} : form'[u] = form[u]
  BY FormSet
<1>2. UNCHANGED <<sync, idmap, db, outbox, waits, removed, net, skipped>>
  BY DEF formOnly, queueVars
<1>3. Grows
  BY <1>2 DEF Grows, Kept
<1>4. Basics'
  BY DEF Basics, formOnly, queueVars
<1>5. Forms' /\ Flushes' /\ Stored' /\ Awaited' /\ Requests'
  BY <1>1, <1>2, <1>3, FormsMove, FlushesStay, StoredStays, FormWorks, RequestsStay
<1> QED BY <1>4, <1>5

\* A form that waits for no request, and sends one if there is a network.
LEMMA FormSends ==
  ASSUME IInv, NEW t \in Tabs, NEW f \in FormType, SetForm(t, f), FormGood(form[t])', FormFree(t),
         NEW i \in Ids, ~Follows(i), i \in Reports => i \in drawn,
         Send(t, "form", i) \/ UNCHANGED net,
         UNCHANGED net \/ (f.step = "report" /\ i = f.rep) \/ (f.step = "capture" /\ i = <<f.cur, 1>>),
         UNCHANGED <<online, user, sync, idmap, db, token, queueVars, drawn, accepted, faults>>,
         skipped \subseteq skipped', skipped' \subseteq Photos
  PROVE  IInv'
<1> USE DEF IInv
<1>1. form' \in [Tabs -> FormType] /\ form'[t] = f /\ \A u \in Tabs \ {t} : form'[u] = form[u]
  BY FormSet
<1>2. UNCHANGED <<sync, idmap, db, outbox, waits, removed, accepted, drawn>>
  BY DEF queueVars
<1>3. Grows
  BY <1>2 DEF Grows, Kept
<1>4. Basics'
  BY DEF Basics, queueVars
<1>5. Forms' /\ Flushes' /\ Stored' /\ NothingLost'
  BY <1>1, <1>2, <1>3, FormsMove, FlushesStay, StoredStays, NothingLostStays
<1>6. CASE UNCHANGED net
  BY <1>1, <1>2, <1>3, <1>4, <1>5, <1>6, RequestsStay, FormWorks
<1>7. CASE Send(t, "form", i) /\ ~UNCHANGED net
  <2>1. Requests'
    <3>1. "form" \in Source /\ (Follows(i) => Parent(i) \in db)' /\ (i \in Reports => i \in drawn)'
      BY <1>2 DEF Source, Follows, Parent
    <3> QED BY <1>3, <1>7, <3>1, RequestsSend
  <2>2. Awaited'
    BY <1>1, <1>2, <1>7, FormAsks
  <2> QED BY <1>4, <1>5, <2>1, <2>2
<1> QED BY <1>6, <1>7

\* The page promises nothing new, and no form puts anything anywhere.
LEMMA QuietForm ==
  ASSUME IInv, UNCHANGED <<formOnly, queueVars, accepted>>, drawn \subseteq drawn'
  PROVE  NothingLost' /\ accepted' \subseteq Reports \cup Photos
<1>1. UNCHANGED <<db, outbox, waits, removed, skipped>>
  BY DEF formOnly, queueVars
<1>2. Grows
  BY <1>1 DEF Grows, Kept
<1> QED BY <1>2, NothingLostStays DEF IInv, Basics

\* submit: a report is handed in.
LEMMA SubmitKeeps == ASSUME IInv, NEW t \in Tabs, NEW r \in Reports, Submit(t, r) PROVE IInv'
<1> DEFINE f == [IdleForm EXCEPT !.step = "compress", !.rep = r]
<1>1. /\ FormFree(t) /\ SetForm(t, f) /\ drawn' = drawn \cup {r}
      /\ UNCHANGED <<formOnly, queueVars, net, accepted, faults>>
  BY DEF Submit, Ready, FormFree
<1>2. f \in FormType /\ f.step = "compress" /\ f.rep = r /\ f.left = {} /\ f.pics = {} /\ ~f.known
  BY DEF FormType, FormSteps, IdleForm
<1>3. form'[t] = f
  BY <1>1, <1>2, FormSet DEF IInv
<1>4. FormGood(form[t])'
  BY <1>1, <1>2, <1>3 DEF FormGood, ReportSteps
<1>5. faults' \in 0..MaxFaults /\ drawn' \subseteq Reports \cup Photos
  BY <1>1 DEF IInv, Basics
<1> QED BY <1>1, <1>2, <1>4, <1>5, QuietForm, FormGoesOn

\* The photos are compressed, or some of them skipped, and the report goes on.
LEMMA CompressedKeeps == ASSUME IInv, NEW t \in Tabs, Compressed(t) PROVE IInv'
<1> PICK r : r = form[t].rep
  OBVIOUS
<1>1. /\ form[t] \in FormType /\ form[t].step = "compress" /\ FormGood(form[t]) /\ FormFree(t)
      /\ UNCHANGED <<online, user, sync, idmap, db, token, queueVars, drawn, accepted, faults>>
  BY DEF Compressed, IInv, Forms, FormFree
<1>2. r \in Reports /\ r \in drawn /\ r \in Ids /\ ~Follows(r)
  BY <1>1, OutboxAssumption DEF FormGood, ReportSteps, Follows, Ids, PhotoIds, Copies
<1>3. PICK pics \in SUBSET PhotosOf(r), step \in {"report", "queueReport"} :
        /\ SetForm(t, [form[t] EXCEPT !.step = step, !.pics = pics])
        /\ skipped' = skipped \cup (PhotosOf(r) \ pics)
        /\ Send(t, "form", r) \/ UNCHANGED net
        /\ step = "report" \/ UNCHANGED net
  BY DEF Compressed
<1> DEFINE f == [form[t] EXCEPT !.step = step, !.pics = pics]
<1>4. /\ f \in FormType /\ f.step = step /\ f.rep = r /\ f.left = form[t].left /\ f.pics = pics
      /\ f.known = form[t].known
  BY <1>1, <1>3 DEF FormType, FormSteps, PhotosOf
<1>5. form'[t] = f
  BY <1>3, <1>4, FormSet DEF IInv
<1>6. skipped \subseteq skipped' /\ skipped' \subseteq Photos
  BY <1>3 DEF IInv, Basics, PhotosOf
<1>7. FormGood(form[t])'
  BY <1>1, <1>2, <1>3, <1>4, <1>5 DEF FormGood, ReportSteps
<1> QED BY <1>1, <1>2, <1>3, <1>4, <1>6, <1>7, FormSends

\* capture: a photo of an element is taken.
LEMMA captureKeeps == ASSUME IInv, NEW t \in Tabs, NEW p \in Photos, capture(t, p) PROVE IInv'
<1> DEFINE f == [IdleForm EXCEPT !.step = "compressPhoto", !.cur = p]
<1>1. /\ FormFree(t) /\ SetForm(t, f) /\ drawn' = drawn \cup {p} /\ ReportOf[p] = Asset
      /\ UNCHANGED <<formOnly, queueVars, net, accepted, faults>>
  BY DEF capture, Ready, FormFree
<1>2. f \in FormType /\ f.step = "compressPhoto" /\ f.rep = None /\ f.cur = p /\ ~f.known
  BY DEF FormType, FormSteps, IdleForm
<1>3. form'[t] = f
  BY <1>1, <1>2, FormSet DEF IInv
<1>4. FormGood(form[t])'
  BY <1>1, <1>2, <1>3 DEF FormGood, ReportSteps
<1>5. faults' \in 0..MaxFaults /\ drawn' \subseteq Reports \cup Photos
  BY <1>1 DEF IInv, Basics
<1> QED BY <1>1, <1>2, <1>4, <1>5, QuietForm, FormGoesOn

\* The emptied form is always right.
LEMMA IdleGood == IdleForm \in FormType /\ FormGood(IdleForm)
BY DEF FormType, FormSteps, IdleForm, FormGood, ReportSteps

\* The photo of an element is compressed, or given up.
LEMMA CaptureCompressedKeeps == ASSUME IInv, NEW t \in Tabs, CaptureCompressed(t) PROVE IInv'
<1> PICK p : p = form[t].cur
  OBVIOUS
<1>1. /\ form[t] \in FormType /\ form[t].step = "compressPhoto" /\ FormGood(form[t]) /\ FormFree(t)
      /\ UNCHANGED <<formOnly, queueVars, drawn, accepted, faults>>
  BY DEF CaptureCompressed, IInv, Forms, FormFree
<1>2. /\ p \in Photos /\ ReportOf[p] = Asset /\ form[t].rep = None
      /\ UNCHANGED <<online, user, sync, idmap, db, token, skipped>>
  BY <1>1 DEF FormGood, ReportSteps, formOnly
<1>3. <<p, 1>> \in Ids \ Reports /\ ~Follows(<<p, 1>>)
  BY <1>2, OutboxAssumption DEF Ids, Follows, Parent, PhotoIds, Copies
<1>4. skipped' \subseteq Photos
  BY <1>2 DEF IInv, Basics
<1>5. CASE SetForm(t, IdleForm) /\ UNCHANGED net
  <2>1. form'[t] = IdleForm
    BY <1>5, IdleGood, FormSet DEF IInv
  <2>2. FormGood(form[t])'
    BY <2>1 DEF FormGood, ReportSteps, IdleForm
  <2> QED BY <1>1, <1>2, <1>3, <1>4, <1>5, <2>2, IdleGood, FormSends
<1>6. ASSUME NEW step \in {"capture", "queueCapture"}, SetForm(t, [form[t] EXCEPT !.step = step]),
             Send(t, "form", <<p, 1>>) \/ UNCHANGED net, step = "capture" \/ UNCHANGED net
      PROVE  IInv'
  <2> DEFINE f == [form[t] EXCEPT !.step = step]
  <2>1. f \in FormType /\ f.step = step /\ f.rep = None /\ f.cur = p /\ f.known = form[t].known
    BY <1>1, <1>2 DEF FormType, FormSteps
  <2>2. form'[t] = f
    BY <1>6, <2>1, FormSet DEF IInv
  <2>3. FormGood(form[t])'
    BY <1>1, <1>2, <2>1, <2>2 DEF FormGood, ReportSteps
  <2> QED BY <1>1, <1>2, <1>3, <1>4, <1>6, <2>1, <2>3, FormSends
<1>7. \/ SetForm(t, IdleForm) /\ UNCHANGED net
      \/ \E step \in {"capture", "queueCapture"} :
           /\ SetForm(t, [form[t] EXCEPT !.step = step])
           /\ Send(t, "form", <<p, 1>>) \/ UNCHANGED net
           /\ step = "capture" \/ UNCHANGED net
  BY DEF CaptureCompressed
<1> QED BY <1>5, <1>6, <1>7

\* IndexedDB takes no write: the form is given up, or starts to queue again with its report.
LEMMA QueueFailedKeeps == ASSUME IInv, NEW t \in Tabs, QueueFailed(t) PROVE IInv'
<1>1. /\ form[t] \in FormType /\ FormGood(form[t]) /\ FormFree(t) /\ Fault
      /\ UNCHANGED <<formOnly, queueVars, net, drawn, accepted>>
  BY DEF QueueFailed, IInv, Forms, FormFree
<1>2. faults' \in 0..MaxFaults /\ drawn' \subseteq Reports \cup Photos
  BY <1>1, OutboxAssumption DEF Fault, IInv, Basics
<1>3. UNCHANGED <<db, outbox, removed, skipped>>
  BY <1>1 DEF formOnly, queueVars
<1>4. CASE SetForm(t, IdleForm)
  <2>1. form'[t] = IdleForm
    BY <1>4, IdleGood, FormSet DEF IInv
  <2>2. FormGood(form[t])'
    BY <2>1 DEF FormGood, ReportSteps, IdleForm
  <2> QED BY <1>1, <1>2, <1>4, <2>2, IdleGood, QuietForm, FormGoesOn
<1>5. CASE /\ form[t].step = "queuePhotos"
           /\ SetForm(t, [form[t] EXCEPT !.step = "queueReport", !.known = FALSE])
  <2> DEFINE f == [form[t] EXCEPT !.step = "queueReport", !.known = FALSE]
  <2>1. /\ f \in FormType /\ f.step = "queueReport" /\ f.rep = form[t].rep /\ f.left = form[t].left
        /\ f.pics = form[t].pics /\ ~f.known
    BY <1>1 DEF FormType, FormSteps
  <2>2. form'[t] = f
    BY <1>5, <2>1, FormSet DEF IInv
  <2>3. FormGood(form[t])'
    BY <1>1, <1>3, <1>5, <2>1, <2>2 DEF FormGood, ReportSteps
  <2> QED BY <1>1, <1>2, <1>5, <2>1, <2>3, QuietForm, FormGoesOn
<1> QED BY <1>4, <1>5 DEF QueueFailed

\* Every photo was tried: the report is done, or all of its photos are to be queued.
LEMMA UploadedKeeps == ASSUME IInv, NEW t \in Tabs, Uploaded(t) PROVE IInv'
<1>1. /\ form[t] \in FormType /\ form[t].step = "photos" /\ form[t].left = {} /\ FormGood(form[t]) /\ FormFree(t)
      /\ UNCHANGED <<formOnly, queueVars, net, drawn, faults>>
  BY DEF Uploaded, IInv, Forms, FormFree
<1>2. UNCHANGED <<db, outbox, removed, skipped, drawn, waits>> /\ form[t].rep \in Reports \cap db /\ form[t].rep \notin Photos
  BY <1>1, OutboxAssumption DEF formOnly, queueVars, FormGood, ReportSteps
<1>3. Grows
  BY <1>2 DEF Grows, Kept
<1>f. faults' \in 0..MaxFaults /\ drawn \subseteq drawn' /\ drawn' \subseteq Reports \cup Photos
  BY <1>1 DEF IInv, Basics
<1>4. CASE form[t].failed
  <2> DEFINE f == [form[t] EXCEPT !.step = "queuePhotos", !.left = form[t].pics]
  <2>1. f \in FormType
    BY <1>1 DEF FormType, FormSteps, PhotosOf
  <2>2. SetForm(t, f) /\ UNCHANGED accepted
    BY <1>4 DEF Uploaded
  <2>3. form'[t] = f
    BY <2>1, <2>2, FormSet DEF IInv
  <2>4. form'[t].step = "queuePhotos" /\ form'[t].rep = form[t].rep /\ form'[t].left = form[t].pics /\ form'[t].pics = form[t].pics
    BY <1>1, <2>3 DEF FormType
  <2>a. Kept(form[t].rep)' /\ form[t].rep \in drawn'
    BY <1>1, <1>2, <2>4 DEF Kept, FormGood, ReportSteps
  <2>5. FormGood(form[t])'
    BY <1>1, <1>2, <2>4, <2>a DEF FormGood, ReportSteps
  <2>6. NothingLost' /\ accepted' \subseteq Reports \cup Photos
    BY <1>3, <2>2, NothingLostStays DEF IInv, Basics
  <2> QED BY <1>1, <1>f, <2>1, <2>2, <2>5, <2>6, FormGoesOn
<1>5. CASE ~form[t].failed
  <2>1. IdleForm \in FormType
    BY DEF FormType, FormSteps, IdleForm
  <2>2. SetForm(t, IdleForm) /\ accepted' = accepted \cup {form[t].rep}
    BY <1>5 DEF Uploaded
  <2>3. FormGood(form[t])'
    BY <2>1, <2>2, FormSet DEF IInv, FormGood, ReportSteps, IdleForm
  <2>4. Kept(form[t].rep) /\ \A p \in PhotosOf(form[t].rep) \ skipped : Copied(p)
    BY <1>1, <1>2, <1>5 DEF FormGood, ReportSteps, Kept, Copied, Copies
  <2>5. NothingLost'
    <3> PICK r : r = form[t].rep
      OBVIOUS
    <3>1. Kept(r)' /\ \A p \in PhotosOf(r) \ skipped' : Copied(p)'
      BY <1>3, <2>4 DEF Grows, Copied
    <3>2. r \in Reports /\ r \notin Photos /\ accepted' = accepted \cup {r}
      BY <1>2, <2>2
    <3>3. NothingLost
      BY DEF IInv
    <3> QED BY <1>3, <3>1, <3>2, <3>3, NothingLostAccepts
  <2>6. accepted' \subseteq Reports \cup Photos
    BY <1>2, <2>2 DEF IInv, Basics
  <2> QED BY <1>1, <1>f, <2>1, <2>2, <2>3, <2>5, <2>6, FormGoesOn
<1> QED BY <1>4, <1>5

\* Report and photos are queued and the page says so.
LEMMA QueuedKeeps == ASSUME IInv, NEW t \in Tabs, Queued(t) PROVE IInv'
<1>1. /\ form[t] \in FormType /\ form[t].step = "queuePhotos" /\ form[t].left = {} /\ FormGood(form[t]) /\ FormFree(t)
      /\ UNCHANGED <<formOnly, queueVars, net, drawn, faults>>
      /\ SetForm(t, IdleForm) /\ accepted' = accepted \cup {form[t].rep}
  BY DEF Queued, IInv, Forms, FormFree
<1>2. UNCHANGED <<db, outbox, removed, skipped, drawn, waits>> /\ form[t].rep \in Reports /\ form[t].rep \notin Photos
  BY <1>1, OutboxAssumption DEF formOnly, queueVars, FormGood, ReportSteps
<1>3. Grows
  BY <1>2 DEF Grows, Kept
<1>4. IdleForm \in FormType
  BY DEF FormType, FormSteps, IdleForm
<1>5. FormGood(form[t])'
  BY <1>1, <1>4, FormSet DEF IInv, FormGood, ReportSteps, IdleForm
<1>6. NothingLost'
  <2> PICK r : r = form[t].rep
    OBVIOUS
  <2>1. Kept(r) /\ \A p \in PhotosOf(r) \ skipped : Copied(p)
    BY <1>1 DEF FormGood, ReportSteps
  <2>2. Kept(r)' /\ \A p \in PhotosOf(r) \ skipped' : Copied(p)'
    BY <1>3, <2>1 DEF Grows, Copied
  <2>3. r \in Reports /\ r \notin Photos /\ accepted' = accepted \cup {r}
    BY <1>1, <1>2
  <2>4. NothingLost
    BY DEF IInv
  <2> QED BY <1>3, <2>2, <2>3, <2>4, NothingLostAccepts
<1>7. accepted' \subseteq Reports \cup Photos
  BY <1>1, <1>2 DEF IInv, Basics
<1>8. faults' \in 0..MaxFaults /\ drawn \subseteq drawn' /\ drawn' \subseteq Reports \cup Photos
  BY <1>1 DEF IInv, Basics
<1> QED BY <1>1, <1>8, <1>4, <1>5, <1>6, <1>7, FormGoesOn

\* What is put into the queue is kept, and nothing else is forgotten.
LEMMA QueueGrows ==
  ASSUME NEW t, NEW i, NEW w, outboxAdd(t, i, w), UNCHANGED <<db, drawn, skipped>>
  PROVE  Grows /\ Kept(i)'
BY DEF outboxAdd, Grows, Kept

\* A form that puts an item into the queue.
LEMMA FormQueues ==
  ASSUME IInv, NEW t \in Tabs, NEW f \in FormType, SetForm(t, f), FormGood(form[t])', FormFree(t),
         NEW i \in Ids, NEW w \in BOOLEAN, outboxAdd(t, i, w), w => i \in PhotoIds,
         Follows(i) => w \/ Parent(i) \in db, i \in Reports => i \in drawn,
         UNCHANGED <<formOnly, net, drawn, faults>>,
         NothingLost', accepted' \subseteq Reports \cup Photos
  PROVE  IInv'
<1> USE DEF IInv
<1>1. form' \in [Tabs -> FormType] /\ \A u \in Tabs \ {t} : form'[u] = form[u]
  BY FormSet
<1>2. UNCHANGED <<sync, idmap, db, drawn, net, skipped>>
  BY DEF formOnly
<1>3. Grows
  BY <1>2, QueueGrows
<1>4. Basics'
  <2>1. outbox' \subseteq Ids /\ waits' \subseteq PhotoIds /\ owner' \in [Ids -> Users \cup {None}]
    BY DEF Basics, outboxAdd
  <2> QED BY <2>1 DEF Basics, formOnly, outboxAdd
<1>5. Forms' /\ Flushes' /\ Stored' /\ Awaited' /\ Requests'
  BY <1>1, <1>2, <1>3, FormsMove, FlushesStay, StoredQueue, FormWorks, RequestsStay
<1> QED BY <1>4, <1>5

\* The report is put into the queue.
LEMMA QueueReportKeeps == ASSUME IInv, NEW t \in Tabs, QueueReport(t) PROVE IInv'
<1> DEFINE f == [form[t] EXCEPT !.step = "queuePhotos", !.left = form[t].pics]
<1> PICK r : r = form[t].rep
  OBVIOUS
<1>1. /\ form[t] \in FormType /\ form[t].step = "queueReport" /\ FormGood(form[t]) /\ FormFree(t)
      /\ UNCHANGED <<formOnly, net, drawn, accepted, faults>>
      /\ SetForm(t, f) /\ outboxAdd(t, r, FALSE)
  BY DEF QueueReport, IInv, Forms, FormFree
<1>2. UNCHANGED <<db, drawn, skipped>> /\ r \in Reports /\ r \in drawn /\ r \in Ids /\ ~Follows(r)
  BY <1>1, OutboxAssumption DEF formOnly, FormGood, ReportSteps, Follows, Ids, PhotoIds, Copies
<1>3. Grows /\ Kept(r)'
  BY <1>1, <1>2, QueueGrows
<1>4. f \in FormType
  BY <1>1 DEF FormType, FormSteps, PhotosOf
<1>5. form'[t] = f
  BY <1>1, <1>4, FormSet DEF IInv
<1>6. /\ form'[t].step = "queuePhotos" /\ form'[t].rep = r /\ form'[t].left = form[t].pics
      /\ form'[t].pics = form[t].pics
      /\ form'[t].known = form[t].known
  BY <1>1, <1>5 DEF FormType
<1>7. FormGood(form[t])'
  BY <1>1, <1>2, <1>3, <1>6 DEF FormGood, ReportSteps
<1>8. NothingLost' /\ accepted' \subseteq Reports \cup Photos
  BY <1>1, <1>3, NothingLostStays DEF IInv, Basics
<1> QED BY <1>1, <1>2, <1>4, <1>7, <1>8, FormQueues

\* A photo of a queued or stored report is put into the queue.
LEMMA QueuePhotoKeeps == ASSUME IInv, NEW t \in Tabs, QueuePhoto(t) PROVE IInv'
<1>1. PICK p \in form[t].left, k \in {2, 3} :
        outboxAdd(t, <<p, k>>, ~form[t].known) /\ SetForm(t, [form[t] EXCEPT !.left = @ \ {p}])
  BY DEF QueuePhoto
<1> DEFINE f == [form[t] EXCEPT !.left = @ \ {p}]
<1>2. /\ form[t] \in FormType /\ form[t].step = "queuePhotos" /\ FormGood(form[t]) /\ FormFree(t)
      /\ UNCHANGED <<formOnly, net, drawn, accepted, faults>>
  BY DEF QueuePhoto, IInv, Forms, FormFree
<1>3. UNCHANGED <<db, drawn, skipped>> /\ form[t].rep \in Reports /\ p \in Photos /\ ReportOf[p] = form[t].rep
  BY <1>2 DEF formOnly, FormGood, ReportSteps, PhotosOf
<1>4. k \in Copies /\ <<p, k>> \in PhotoIds /\ <<p, k>> \in Ids /\ <<p, k>> \notin Reports /\ Parent(<<p, k>>) = form[t].rep
  BY <1>1, <1>3, OutboxAssumption DEF Ids, PhotoIds, Parent, Copies
<1>5. PICK w \in BOOLEAN : w = ~form[t].known
  BY <1>2 DEF FormType
<1>6. w \/ form[t].rep \in db
  BY <1>2, <1>5 DEF FormGood
<1>7. outboxAdd(t, <<p, k>>, w)
  BY <1>1, <1>5
<1>8. Grows /\ Copied(p)'
  <2>1. Grows /\ Kept(<<p, k>>)'
    BY <1>3, <1>7, QueueGrows
  <2> QED BY <1>4, <2>1 DEF Copied
<1>9. f \in FormType
  BY <1>2 DEF FormType
<1>10. form'[t] = f
  BY <1>1, <1>9, FormSet DEF IInv
<1>11. /\ form'[t].step = "queuePhotos" /\ form'[t].rep = form[t].rep /\ form'[t].left = form[t].left \ {p}
       /\ form'[t].pics = form[t].pics /\ form'[t].known = form[t].known
  BY <1>2, <1>10 DEF FormType
<1>12. FormGood(form[t])'
  <2>1. \A x : Copied(x) => Copied(x)'
    BY <1>8 DEF Grows, Copied
  <2> QED BY <1>2, <1>3, <1>8, <1>11, <2>1 DEF FormGood, ReportSteps, Grows
<1>13. NothingLost' /\ accepted' \subseteq Reports \cup Photos
  BY <1>2, <1>8, NothingLostStays DEF IInv, Basics
<1> QED BY <1>1, <1>2, <1>4, <1>6, <1>7, <1>9, <1>12, <1>13, FormQueues

\* The photo of an element is put into the queue.
LEMMA QueueCaptureKeeps == ASSUME IInv, NEW t \in Tabs, QueueCapture(t) PROVE IInv'
<1> PICK p : p = form[t].cur
  OBVIOUS
<1>1. /\ form[t].step = "queueCapture" /\ FormGood(form[t]) /\ FormFree(t)
      /\ UNCHANGED <<formOnly, net, drawn, faults>>
      /\ SetForm(t, IdleForm) /\ outboxAdd(t, <<p, 1>>, FALSE) /\ accepted' = accepted \cup {p}
  BY DEF QueueCapture, IInv, Forms, FormFree
<1>2. UNCHANGED <<db, drawn, skipped>> /\ p \in Photos /\ p \notin Reports /\ ReportOf[p] = Asset
  BY <1>1, OutboxAssumption DEF formOnly, FormGood
<1>3. <<p, 1>> \in Ids /\ <<p, 1>> \notin Reports /\ ~Follows(<<p, 1>>)
  BY <1>2, OutboxAssumption DEF Ids, PhotoIds, Copies, Parent, Follows
<1>4. Grows /\ Kept(<<p, 1>>)'
  BY <1>1, <1>2, QueueGrows
<1>5. IdleForm \in FormType
  BY DEF FormType, FormSteps, IdleForm
<1>6. FormGood(form[t])'
  BY <1>1, <1>5, FormSet DEF IInv, FormGood, ReportSteps, IdleForm
<1>7. NothingLost'
  BY <1>1, <1>2, <1>4, NothingLostAccepts DEF IInv
<1>8. accepted' \subseteq Reports \cup Photos
  BY <1>1, <1>2 DEF IInv, Basics
<1> QED BY <1>1, <1>3, <1>5, <1>6, <1>7, <1>8, FormQueues

-----------------------------------------------------------------------------
(* Flushes, and the bin of the queue's card.                                *)

\* flushOutbox: the queue of the user is read.
LEMMA flushOutboxKeeps == ASSUME IInv, NEW t \in Tabs, flushOutbox(t) PROVE IInv'
<1> USE DEF IInv
<1> PICK f : f = [step |-> "next", todo |-> Shown(t), item |-> None]
  OBVIOUS
<1>1. /\ sync[t].step = "idle" /\ SetSync(t, f)
      /\ UNCHANGED <<syncOnly, queueVars, idmap, net, faults>>
  BY DEF flushOutbox
<1>2. UNCHANGED <<form, db, outbox, waits, removed, skipped, drawn, accepted>>
  BY <1>1 DEF syncOnly, queueVars
<1>3. Grows
  BY <1>2 DEF Grows, Kept
<1>4. f \in SyncType
  BY DEF SyncType, Shown, Basics
<1>5. sync' \in [Tabs -> SyncType] /\ sync'[t] = f /\ \A u \in Tabs \ {t} : sync'[u] = sync[u]
  BY <1>1, <1>4, SyncSet
<1>6. SyncGood(sync[t])'
  <2>1. \A i \in f.todo : Sendable(i)'
    BY <1>2 DEF Shown, Stored, Sendable, Kept
  <2> QED BY <1>5, <2>1 DEF SyncGood
<1>7. Flushes' /\ Forms' /\ Requests' /\ Awaited'
  BY <1>1, <1>2, <1>3, <1>5, <1>6, FlushesMove, FormsStay, RequestsStay, FlushWorks
<1>8. Basics' /\ Stored' /\ NothingLost'
  BY <1>1, <1>2, <1>3, StoredStays, NothingLostStays DEF Basics, syncOnly, queueVars
<1> QED BY <1>7, <1>8

\* The next item is sent, or a photo whose report is not there yet is put off.
LEMMA FlushNextKeeps == ASSUME IInv, NEW t \in Tabs, FlushNext(t) PROVE IInv'
<1> USE DEF IInv
<1>1. /\ sync[t] \in SyncType /\ sync[t].step = "next" /\ SyncGood(sync[t])
      /\ UNCHANGED <<syncOnly, queueVars, idmap, faults>>
  BY DEF FlushNext, Flushes
<1>2. UNCHANGED <<form, idmap, db, outbox, waits, removed, skipped, drawn, accepted>>
  BY <1>1 DEF syncOnly, queueVars
<1>3. Grows
  BY <1>2 DEF Grows, Kept
<1>4. PICK i \in sync[t].todo :
        \/ SetSync(t, [sync[t] EXCEPT !.todo = @ \ {i}]) /\ UNCHANGED net
        \/ /\ SetSync(t, [step |-> "send", todo |-> sync[t].todo \ {i}, item |-> i])
           /\ Send(t, "sync", i)
           /\ ~(i \in PhotoIds /\ i \in waits /\ Parent(i) \notin idmap)
  BY DEF FlushNext, Parent
<1>5. i \in Ids /\ Sendable(i) /\ \A x \in sync[t].todo : Sendable(x)
  BY <1>1 DEF SyncType, SyncGood
<1>6. \A x : Sendable(x) => Sendable(x)'
  BY <1>3 DEF Grows, Sendable
<1>7. Basics' /\ Stored' /\ NothingLost' /\ Forms'
  BY <1>1, <1>2, <1>3, StoredStays, NothingLostStays, FormsStay DEF Basics, syncOnly, queueVars
<1>8. CASE SetSync(t, [sync[t] EXCEPT !.todo = @ \ {i}]) /\ UNCHANGED net
  <2> PICK f : f = [sync[t] EXCEPT !.todo = @ \ {i}]
    OBVIOUS
  <2>1. f \in SyncType /\ f.step = "next" /\ f.todo \subseteq sync[t].todo
    BY <1>1 DEF SyncType
  <2>2. sync' \in [Tabs -> SyncType] /\ sync'[t] = f /\ \A u \in Tabs \ {t} : sync'[u] = sync[u]
    BY <1>8, <2>1, SyncSet
  <2>3. SyncGood(sync[t])'
    BY <1>5, <1>6, <2>1, <2>2 DEF SyncGood
  <2>4. Flushes' /\ Requests' /\ Awaited'
    BY <1>1, <1>2, <1>3, <1>8, <2>2, <2>3, FlushesMove, RequestsStay, FlushWorks
  <2> QED BY <1>7, <2>4
<1>9. CASE /\ SetSync(t, [step |-> "send", todo |-> sync[t].todo \ {i}, item |-> i])
           /\ Send(t, "sync", i)
           /\ ~(i \in PhotoIds /\ i \in waits /\ Parent(i) \notin idmap)
  <2> PICK f : f = [step |-> "send", todo |-> sync[t].todo \ {i}, item |-> i]
    OBVIOUS
  <2>1. f \in SyncType /\ f.step = "send" /\ f.item = i /\ f.todo \subseteq sync[t].todo
    BY <1>1, <1>5 DEF SyncType
  <2>2. sync' \in [Tabs -> SyncType] /\ sync'[t] = f /\ \A u \in Tabs \ {t} : sync'[u] = sync[u]
    BY <1>9, <2>1, SyncSet
  <2>3. SyncGood(sync[t])'
    BY <1>5, <1>6, <2>1, <2>2 DEF SyncGood
  <2>4. (Follows(i) => Parent(i) \in db) /\ (i \in Reports => i \in drawn)
    BY <1>5, <1>9 DEF Sendable, Follows, Stored
  <2>5. Requests'
    <3>1. (Follows(i) => Parent(i) \in db)' /\ (i \in Reports => i \in drawn)' /\ "sync" \in Source
      BY <1>2, <2>4 DEF Follows, Parent, Source
    <3> QED BY <1>3, <1>5, <1>9, <3>1, RequestsSend
  <2>6. Flushes' /\ Awaited'
    BY <1>1, <1>2, <1>3, <1>9, <2>1, <2>2, <2>3, FlushesMove, FlushAsks
  <2> QED BY <1>7, <2>5, <2>6
<1> QED BY <1>4, <1>8, <1>9

\* A flush that takes the answer to its request, or goes on after it.
LEMMA FlushGoesOn ==
  ASSUME IInv, NEW t \in Tabs, NEW f \in SyncType, SetSync(t, f), Grows, SyncGood(sync[t])', Basics', Stored',
         \/ Lost(t, "sync")
         \/ \E status \in Answer : Answered(t, "sync", status)
         \/ UNCHANGED net /\ sync[t].step # "send",
         UNCHANGED <<form, accepted>>
  PROVE  IInv'
<1> USE DEF IInv
<1>1. sync' \in [Tabs -> SyncType] /\ \A u \in Tabs \ {t} : sync'[u] = sync[u]
  BY SyncSet
<1>2. Flushes' /\ Forms' /\ NothingLost'
  BY <1>1, FlushesMove, FormsStay, NothingLostStays
<1>3. CASE UNCHANGED net /\ sync[t].step # "send"
  BY <1>1, <1>2, <1>3, RequestsStay, FlushWorks
<1>4. CASE Lost(t, "sync") \/ \E status \in Answer : Answered(t, "sync", status)
  <2>1. Ended(t, "sync")
    BY <1>4, EndedOnce
  <2>2. Requests' /\ Awaited'
    BY <1>1, <2>1, RequestsFewer, FlushEnded DEF Ended
  <2> QED BY <1>2, <2>2
<1> QED BY <1>3, <1>4

\* An item was stored; a report's id is noted for its photos.
LEMMA FlushOkKeeps == ASSUME IInv, NEW t \in Tabs, FlushOk(t) PROVE IInv'
<1> USE DEF IInv
<1> PICK f : f = [sync[t] EXCEPT !.step = "remove"]
  OBVIOUS
<1>1. /\ sync[t] \in SyncType /\ sync[t].step = "send" /\ SyncGood(sync[t])
      /\ Answered(t, "sync", "ok") /\ SetSync(t, f)
      /\ UNCHANGED <<syncOnly, queueVars, faults>>
      /\ idmap' \subseteq idmap \cup ({sync[t].item} \cap Reports)
  BY DEF FlushOk, Flushes
<1>2. UNCHANGED <<form, db, outbox, waits, removed, skipped, drawn, accepted>>
  BY <1>1 DEF syncOnly, queueVars
<1>3. Grows
  BY <1>2 DEF Grows, Kept
<1>4. sync[t].item \in db
  <2>1. PICK q \in net : q.tab = t /\ q.src = "sync" /\ q.status = "ok"
    BY <1>1 DEF Answered
  <2>2. Expected(q) /\ RequestGood(q)
    BY DEF Awaited, Requests
  <2> QED BY <2>1, <2>2 DEF Expected, RequestGood
<1>5. f \in SyncType /\ f.step = "remove" /\ f.item = sync[t].item /\ f.todo = sync[t].todo
  BY <1>1 DEF SyncType
<1>6. sync'[t] = f
  BY <1>1, <1>5, SyncSet
<1>7. SyncGood(sync[t])'
  <2>1. \A x : Sendable(x) => Sendable(x)'
    BY <1>3 DEF Grows, Sendable
  <2> QED BY <1>1, <1>2, <1>4, <1>5, <1>6, <2>1 DEF SyncGood
<1>8. Basics'
  BY <1>1 DEF Basics, syncOnly, queueVars
<1>9. Stored'
  BY <1>1, <1>2, <1>4 DEF Stored, Sendable, Kept
<1> QED BY <1>1, <1>2, <1>3, <1>5, <1>7, <1>8, <1>9, FlushGoesOn DEF Answer

\* An item that was stored is taken out of the queue.
LEMMA FlushRemoveKeeps == ASSUME IInv, NEW t \in Tabs, FlushRemove(t) PROVE IInv'
<1> USE DEF IInv
<1> PICK f : f = [sync[t] EXCEPT !.step = "next", !.item = None]
  OBVIOUS
<1>1. /\ sync[t] \in SyncType /\ sync[t].step = "remove" /\ SyncGood(sync[t]) /\ SetSync(t, f)
      /\ UNCHANGED <<syncOnly, owner, waits, removed, idmap, net, faults>>
      /\ outbox' = outbox \ {sync[t].item} /\ errors' = errors \ {sync[t].item}
  BY DEF FlushRemove, Flushes, outboxRemove
<1>2. UNCHANGED <<form, db, waits, removed, skipped, drawn, accepted>> /\ sync[t].item \in db
  BY <1>1 DEF syncOnly, SyncGood
<1>3. Grows
  BY <1>1, <1>2 DEF Grows, Kept
<1>4. f \in SyncType /\ f.step = "next" /\ f.todo = sync[t].todo
  BY <1>1 DEF SyncType
<1>5. sync'[t] = f
  BY <1>1, <1>4, SyncSet
<1>6. \A x : Sendable(x) => Sendable(x)'
  BY <1>3 DEF Grows, Sendable
<1>7. SyncGood(sync[t])'
  BY <1>1, <1>4, <1>5, <1>6 DEF SyncGood
<1>8. Basics'
  BY <1>1 DEF Basics, syncOnly
<1>9. Stored'
  BY <1>1, <1>2, <1>6 DEF Stored, Kept
<1> QED BY <1>1, <1>2, <1>3, <1>4, <1>7, <1>8, <1>9, FlushGoesOn

\* A refused item is written back with its error.
LEMMA FlushRefusedKeeps == ASSUME IInv, NEW t \in Tabs, FlushRefused(t) PROVE IInv'
<1> USE DEF IInv
<1> PICK f : f = [sync[t] EXCEPT !.step = "next", !.item = None]
  OBVIOUS
<1>1. /\ sync[t] \in SyncType /\ sync[t].step = "send" /\ SyncGood(sync[t]) /\ SetSync(t, f)
      /\ UNCHANGED <<syncOnly, owner, waits, removed, idmap, faults>>
      /\ Answered(t, "sync", "rejected")
      /\ outbox' = outbox \cup {sync[t].item} /\ errors' = errors \cup {sync[t].item}
  BY DEF FlushRefused, Flushes
<1>2. UNCHANGED <<form, db, waits, removed, skipped, drawn, accepted>> /\ sync[t].item \in Ids /\ Sendable(sync[t].item)
  BY <1>1 DEF syncOnly, SyncGood
<1>3. Grows
  BY <1>1, <1>2 DEF Grows, Kept
<1>4. f \in SyncType /\ f.step = "next" /\ f.todo = sync[t].todo
  BY <1>1 DEF SyncType
<1>5. sync'[t] = f
  BY <1>1, <1>4, SyncSet
<1>6. \A x : Sendable(x) => Sendable(x)'
  BY <1>3 DEF Grows, Sendable
<1>7. SyncGood(sync[t])'
  BY <1>1, <1>4, <1>5, <1>6 DEF SyncGood
<1>8. Basics'
  BY <1>1, <1>2 DEF Basics, syncOnly
<1>9. Stored'
  <2>1. \A x : Kept(x)' => Kept(x)
    BY <1>1, <1>2 DEF Kept, Sendable
  <2> QED BY <1>1, <1>2, <1>6, <2>1 DEF Stored
<1> QED BY <1>1, <1>2, <1>3, <1>4, <1>7, <1>8, <1>9, FlushGoesOn DEF Answer

\* The flush ends, whole or broken off.
LEMMA FlushStoppedKeeps == ASSUME IInv, NEW t \in Tabs, FlushStopped(t) \/ FlushEnd(t) PROVE IInv'
<1> USE DEF IInv
<1>1. /\ SetSync(t, IdleSync) /\ UNCHANGED <<syncOnly, queueVars, idmap>> /\ (Fault \/ UNCHANGED faults)
      /\ \/ Lost(t, "sync")
         \/ \E status \in Answer : Answered(t, "sync", status)
         \/ UNCHANGED net /\ sync[t].step # "send"
  BY DEF FlushStopped, FlushBreaks, FlushEnd, Unreachable, Lost, Answer
<1>2. UNCHANGED <<form, db, outbox, waits, removed, skipped, drawn, accepted, idmap>>
  BY <1>1 DEF syncOnly, queueVars
<1>3. Grows
  BY <1>2 DEF Grows, Kept
<1>4. IdleSync \in SyncType
  BY DEF SyncType, IdleSync
<1>5. SyncGood(sync[t])'
  BY <1>1, <1>4, SyncSet DEF SyncGood, IdleSync
<1>6. Basics'
  <2>1. faults' \in 0..MaxFaults
    BY <1>1, OutboxAssumption DEF Basics, Fault
  <2> QED BY <1>1, <2>1 DEF Basics, syncOnly, queueVars
<1>7. Stored'
  BY <1>2, <1>3, StoredStays
<1> QED BY <1>1, <1>2, <1>3, <1>4, <1>5, <1>6, <1>7, FlushGoesOn

\* The user deletes an item from the queue.
LEMMA DeleteItemKeeps == ASSUME IInv, NEW t \in Tabs, NEW i \in Ids, DeleteItem(t, i) PROVE IInv'
<1> USE DEF IInv
<1>1. /\ i \in outbox /\ outbox' = outbox \ {i} /\ errors' = errors \ {i} /\ removed' = removed \cup {i}
      /\ UNCHANGED <<syncOnly, sync, owner, waits, idmap, net, faults>>
  BY DEF DeleteItem, Shown, outboxRemove
<1>2. UNCHANGED <<form, db, drawn, skipped, accepted>>
  BY <1>1 DEF syncOnly
<1>3. Grows
  BY <1>1, <1>2 DEF Grows, Kept
<1>4. Forms' /\ Flushes' /\ Requests' /\ Awaited' /\ NothingLost'
  BY <1>1, <1>2, <1>3, FormsStay, FlushesStay, RequestsStay, AwaitedStays, NothingLostStays
<1>5. Basics'
  BY <1>1 DEF Basics, syncOnly
<1>6. Stored'
  <2>1. \A x : Sendable(x) => Sendable(x)'
    BY <1>3 DEF Grows, Sendable
  <2>2. \A x : Kept(x)' => Kept(x)
    BY <1>1, <1>2 DEF Kept
  <2> QED BY <1>1, <1>2, <2>1, <2>2 DEF Stored
<1> QED BY <1>4, <1>5, <1>6

-----------------------------------------------------------------------------
(* The server, the session and the connection.                              *)

\* The server handles a request, stores its id or not, and answers who waits.
LEMMA ServeKeeps == ASSUME IInv, NEW t \in Tabs, NEW src \in Source, Serve(t, src) PROVE IInv'
<1> USE DEF IInv
<1>1. PICK q \in net, status \in Answer :
        /\ q.tab = t /\ q.src = src /\ q.status = "sent"
        /\ net' = IF q.src = "lost" THEN net \ {q} ELSE (net \ {q}) \cup {[q EXCEPT !.status = status]}
        /\ db' = db \/ db' = db \cup {q.id}
        /\ status = "ok" => db' = db \cup {q.id}
        /\ faults' = faults \/ Fault
  BY DEF Serve, Answer
<1>2. /\ UNCHANGED <<form, sync, outbox, waits, removed, skipped, drawn, accepted, idmap>>
      /\ UNCHANGED <<online, token, user, queueVars>>
  BY DEF Serve, queueVars
<1>3. q \in Request /\ RequestGood(q)
  BY DEF Requests
<1>4. Grows
  BY <1>1, <1>2 DEF Grows, Kept
<1> PICK a : a = [q EXCEPT !.status = status]
  OBVIOUS
<1>5. a \in Request /\ a.tab = q.tab /\ a.src = q.src /\ a.id = q.id /\ a.status = status
  BY <1>3 DEF Request
<1>6. \A x \in net' : x \in net \/ (x = a /\ q.src # "lost" /\ q \notin net')
  BY <1>1, <1>3, <1>5 DEF Answer
<1>7. Requests'
  <2> SUFFICES ASSUME NEW x \in net' PROVE x \in Request /\ RequestGood(x)'
    BY DEF Requests
  <2>1. CASE x \in net
    <3>1. x \in Request /\ RequestGood(x)
      BY <2>1 DEF Requests
    <3> QED BY <1>4, <3>1 DEF RequestGood, Grows
  <2>2. CASE x = a
    BY <1>1, <1>2, <1>3, <1>4, <1>5, <2>2 DEF RequestGood, Grows
  <2> QED BY <1>6, <2>1, <2>2
<1>8. Awaited'
  <2>1. \A x \in net : Expected(x)
    BY DEF Awaited
  <2>2. Expected(a)
    BY <1>5, <2>1 DEF Expected
  <2>3. \A x \in net' : Expected(x)'
    BY <1>2, <1>6, <2>1, <2>2 DEF Expected
  <2>4. Single'
    BY <1>5, <1>6 DEF Awaited, Single
  <2> QED BY <2>3, <2>4 DEF Awaited
<1>9. Forms' /\ Flushes' /\ NothingLost'
  BY <1>2, <1>4, FormsStay, FlushesStay, NothingLostStays
<1>10. Basics'
  <2>1. faults' \in 0..MaxFaults
    BY <1>1, OutboxAssumption DEF Basics, Fault
  <2>2. db' \subseteq Ids
    BY <1>1, <1>3 DEF Basics, Request
  <2> QED BY <1>2, <2>1, <2>2 DEF Basics, queueVars
<1>11. Stored'
  <2>1. \A x : Sendable(x) => Sendable(x)'
    BY <1>4 DEF Grows, Sendable
  <2>2. \A x : Kept(x)' => Kept(x) \/ x = q.id
    BY <1>1, <1>2 DEF Kept
  <2> QED BY <1>1, <1>2, <1>3, <1>4, <2>1, <2>2 DEF Stored, RequestGood, Grows
<1> QED BY <1>7, <1>8, <1>9, <1>10, <1>11

\* A page that goes away takes its form and its flush with it, nothing else.
LEMMA LeaveKeeps ==
  ASSUME IInv, NEW t \in Tabs, NEW u \in Users \cup {None}, Leave(t, u), net' = Abandoned(t),
         token' \in Users \cup {None}, faults' \in 0..MaxFaults
  PROVE  IInv'
<1> USE DEF IInv
<1>1. /\ UNCHANGED <<online, queueVars, idmap, db, drawn, skipped, accepted>>
      /\ user' = [user EXCEPT ![t] = u] /\ SetForm(t, IdleForm) /\ SetSync(t, IdleSync)
  BY DEF Leave, SetForm, SetSync
<1>2. UNCHANGED <<outbox, waits, removed, skipped>>
  BY <1>1 DEF queueVars
<1>3. Grows
  BY <1>1, <1>2 DEF Grows, Kept
<1>4. IdleForm \in FormType /\ IdleSync \in SyncType
  BY DEF FormType, FormSteps, SyncType, IdleForm, IdleSync
<1>5. form' \in [Tabs -> FormType] /\ form'[t] = IdleForm /\ \A x \in Tabs \ {t} : form'[x] = form[x]
  BY <1>1, <1>4, FormSet
<1>6. sync' \in [Tabs -> SyncType] /\ sync'[t] = IdleSync /\ \A x \in Tabs \ {t} : sync'[x] = sync[x]
  BY <1>1, <1>4, SyncSet
<1>7. Forms' /\ Flushes'
  <2>1. FormGood(form[t])' /\ SyncGood(sync[t])'
    BY <1>5, <1>6 DEF FormGood, ReportSteps, SyncGood, IdleForm, IdleSync
  <2> QED BY <1>3, <1>5, <1>6, <2>1, FormsMove, FlushesMove
<1>8. \A q \in net' : \/ q \in net /\ q.tab # t
                      \/ q.src = "lost" /\ \E x \in net : x.status = "sent" /\ q = [x EXCEPT !.src = "lost"]
  <2>1. \A x \in net : [x EXCEPT !.src = "lost"].src = "lost"
    BY DEF Requests, Request
  <2> QED BY <2>1 DEF Abandoned
<1>9. Requests'
  BY <1>3, <1>8, RequestsFewer DEF Fewer
<1>10. Awaited'
  <2>1. Single'
    BY <1>8 DEF Awaited, Single
  <2>2. \A q \in net : q.tab \in Tabs /\ Expected(q)
    BY DEF Awaited, Requests, Request
  <2>3. \A q \in net' : Expected(q)'
    BY <1>5, <1>6, <1>8, <2>2 DEF Expected
  <2> QED BY <2>1, <2>3 DEF Awaited
<1>11. Stored' /\ NothingLost'
  BY <1>1, <1>2, <1>3, StoredStays, NothingLostStays
<1>12. Basics'
  BY <1>1 DEF Basics, queueVars
<1> QED BY <1>7, <1>9, <1>10, <1>11, <1>12

\* Sessions begin and end; a page that is left drops its forms.
LEMMA SessionKeeps ==
  ASSUME IInv, NEW t \in Tabs,
         Logout(t) \/ Reload(t) \/ ReportExpired(t) \/ FlushExpired(t)
  PROVE  IInv'
<1>1. PICK u \in Users \cup {None} :
        Leave(t, u) /\ net' = Abandoned(t) /\ token' \in {token, None} /\ (Fault \/ UNCHANGED faults)
  BY DEF Logout, Reload, ReportExpired, FlushExpired, Expired, IInv, Basics
<1>2. token' \in Users \cup {None} /\ faults' \in 0..MaxFaults
  BY <1>1, OutboxAssumption DEF Fault, IInv, Basics
<1> QED BY <1>1, <1>2, LeaveKeeps

\* The network comes and goes.
LEMMA ConnectionKeeps ==
  ASSUME IInv, GoOffline \/ GoOnline \/ (\E t \in Tabs, u \in Users : Login(t, u)) \/ UNCHANGED vars
  PROVE  IInv'
<1> USE DEF IInv
<1>1. UNCHANGED <<form, sync, queueVars, idmap, net, db, drawn, skipped, accepted>> /\ (Fault \/ UNCHANGED faults)
  BY DEF GoOffline, GoOnline, Login, vars, queueVars
<1>2. UNCHANGED <<outbox, waits, removed, skipped>>
  BY <1>1 DEF queueVars
<1>3. Grows
  BY <1>1, <1>2 DEF Grows, Kept
<1>4. Forms' /\ Flushes' /\ Requests' /\ Awaited' /\ Stored' /\ NothingLost'
  BY <1>1, <1>2, <1>3, FormsStay, FlushesStay, RequestsStay, AwaitedStays, StoredStays, NothingLostStays
<1>5. Basics'
  <2>1. online' \in BOOLEAN /\ token' \in Users \cup {None} /\ user' \in [Tabs -> Users \cup {None}]
    BY DEF Basics, GoOffline, GoOnline, Login, vars
  <2>2. faults' \in 0..MaxFaults
    BY <1>1, OutboxAssumption DEF Basics, Fault
  <2> QED BY <1>1, <2>1, <2>2 DEF Basics, queueVars
<1> QED BY <1>4, <1>5

-----------------------------------------------------------------------------
(* The invariant, and what follows from it.                                 *)

\* The invariant holds at the start.
LEMMA InitKeeps == Init => IInv
<1> SUFFICES ASSUME Init PROVE IInv
  OBVIOUS
<1>1. Basics
  BY OutboxAssumption DEF Init, Basics
<1>2. Forms /\ Flushes
  BY DEF Init, Forms, FormType, FormSteps, FormGood, ReportSteps, IdleForm, Flushes, SyncType, SyncGood, IdleSync
<1>3. Requests /\ Awaited /\ Stored /\ NothingLost
  BY DEF Init, Requests, Awaited, Single, Stored, Kept, NothingLost
<1> QED BY <1>1, <1>2, <1>3 DEF IInv

\* Every step keeps the invariant.
LEMMA NextKeeps == IInv /\ [Next]_vars => IInv'
<1> SUFFICES ASSUME IInv, [Next]_vars PROVE IInv'
  OBVIOUS
<1>1. CASE GoOffline \/ GoOnline \/ (\E t \in Tabs, u \in Users : Login(t, u)) \/ UNCHANGED vars
  BY <1>1, ConnectionKeeps
<1>2. ASSUME NEW t \in Tabs, FormStep(t) PROVE IInv'
  BY <1>2, CompressedKeeps, CaptureCompressedKeeps, QueueFailedKeeps, ReportAnsweredKeeps, SessionKeeps, UploadKeeps, UploadAnsweredKeeps, UploadedKeeps, QueueReportKeeps,
     QueuePhotoKeeps, QueuedKeeps, CaptureAnsweredKeeps, QueueCaptureKeeps DEF FormStep
<1>3. ASSUME NEW t \in Tabs, flushOutbox(t) \/ FlushStep(t) PROVE IInv'
  BY <1>3, flushOutboxKeeps, FlushNextKeeps, FlushOkKeeps, FlushRemoveKeeps, FlushRefusedKeeps, FlushStoppedKeeps,
     SessionKeeps DEF FlushStep
<1>4. ASSUME NEW t \in Tabs,
             \/ Logout(t) \/ Reload(t)
             \/ \E r \in Reports : Submit(t, r)
             \/ \E p \in Photos : capture(t, p)
             \/ \E i \in Ids : DeleteItem(t, i)
             \/ \E src \in Source : Serve(t, src)
      PROVE  IInv'
  BY <1>4, SessionKeeps, SubmitKeeps, captureKeeps, DeleteItemKeeps, ServeKeeps
<1> QED BY <1>1, <1>2, <1>3, <1>4 DEF Next

\* The invariant holds always.
LEMMA Invariance == Spec => []IInv
BY InitKeeps, NextKeeps, PTL DEF Spec

\* Every variable of the queue, its forms, flushes and requests keeps its shape (outbox.ts, Field.tsx).
THEOREM TypeCorrect == Spec => []TypeOK
<1>1. IInv => TypeOK
  BY DEF IInv, Basics, Forms, FormType, Flushes, SyncType, Requests, Request, TypeOK
<1> QED BY <1>1, Invariance, PTL

\* Whatever is lost, refused, reloaded or interleaved, what the page told the user was sent or queued is on the
\* server, in the queue, or was deleted by the user (submit, capture, flushOutbox).
THEOREM NeverLost == Spec => []NothingLost
<1>1. IInv => NothingLost
  BY DEF IInv
<1> QED BY <1>1, Invariance, PTL

\* No photo reaches the server before the report it belongs to, however many tabs flush the queue (flushOutbox).
THEOREM ReportFirst == Spec => []PhotoAfterReport
<1>1. IInv => PhotoAfterReport
  BY DEF IInv, Stored, Follows, Parent, PhotoAfterReport
<1> QED BY <1>1, Invariance, PTL

-----------------------------------------------------------------------------
(* The ledger: what a step does to the status of a report.                  *)

Formed(r) == \E t \in Tabs : form[t].rep = r

Same(r) ==
  /\ r \in db' <=> r \in db
  /\ r \in outbox' <=> r \in outbox
  /\ r \in removed' <=> r \in removed
  /\ Formed(r)' <=> Formed(r)
  /\ r \in drawn' <=> r \in drawn

Statuses == [r \in Reports |-> ReportStatus(r)]

\* One report moves as the ledger allows, the others stay as they are.
Moves(r) ==
  /\ \A x \in Reports \ {r} : Same(x)
  /\ \/ ReportStatus(r)' = ReportStatus(r)
     \/ ReportStatus(r) = "new" /\ ReportStatus(r)' = "form"
     \/ ReportStatus(r) = "form" /\ ReportStatus(r)' = "refused"
     \/ ReportStatus(r) \in {"form", "deleted"} /\ ReportStatus(r)' = "queued"
     \/ ReportStatus(r) \in {"form", "refused", "queued", "deleted"} /\ ReportStatus(r)' = "stored"
     \/ ReportStatus(r) = "queued" /\ ReportStatus(r)' = "deleted"

\* A report whose form, copies and deletion are as before has the status it had.
LEMMA StatusSame == ASSUME NEW r, Same(r) PROVE ReportStatus(r)' = ReportStatus(r)
BY DEF Same, ReportStatus, Formed

\* One report that moves as the ledger allows is a step of the ledger.
LEMMA MovesInLedger == ASSUME NEW r \in Reports, Moves(r) PROVE [Ledger!Next]_Statuses
<1> DEFINE to == ReportStatus(r)'
<1>1. \A x \in Reports \ {r} : ReportStatus(x)' = ReportStatus(x)
  BY StatusSame DEF Moves
<1>2. Statuses' = [Statuses EXCEPT ![r] = to]
  BY <1>1 DEF Statuses
<1>3. Statuses[r] = ReportStatus(r) /\ Statuses = [x \in Reports |-> ReportStatus(x)]
  BY DEF Statuses
<1>4. CASE to = ReportStatus(r)
  BY <1>2, <1>4 DEF Statuses
<1>5. CASE ReportStatus(r) = "new" /\ to = "form"
  BY <1>2, <1>3, <1>5 DEF Statuses, Ledger!Next, Ledger!Press, Ledger!Move
<1>6. CASE ReportStatus(r) = "form" /\ to = "refused"
  BY <1>2, <1>3, <1>6 DEF Statuses, Ledger!Next, Ledger!Refuse, Ledger!Move
<1>7. CASE ReportStatus(r) \in {"form", "deleted"} /\ to = "queued"
  BY <1>2, <1>3, <1>7 DEF Statuses, Ledger!Next, Ledger!Queue, Ledger!Move
<1>8. CASE ReportStatus(r) \in {"form", "refused", "queued", "deleted"} /\ to = "stored"
  BY <1>2, <1>3, <1>8 DEF Statuses, Ledger!Next, Ledger!Store, Ledger!Move
<1>9. CASE ReportStatus(r) = "queued" /\ to = "deleted"
  BY <1>2, <1>3, <1>9 DEF Statuses, Ledger!Next, Ledger!Delete, Ledger!Move
<1> QED BY <1>4, <1>5, <1>6, <1>7, <1>8, <1>9 DEF Moves

\* Reports that all stay are a stutter of the ledger.
LEMMA SameInLedger == ASSUME \A r \in Reports : Same(r) PROVE [Ledger!Next]_Statuses
<1>1. \A r \in Reports : ReportStatus(r)' = ReportStatus(r)
  BY StatusSame
<1> QED BY <1>1 DEF Statuses

\* A form that goes on with its report, or with none.
LEMMA RepStays ==
  ASSUME IInv, NEW t \in Tabs, NEW f, SetForm(t, f), f.rep = form[t].rep
  PROVE  \A r : Formed(r)' <=> Formed(r)
<1>1. form'[t] = f /\ \A u \in Tabs \ {t} : form'[u] = form[u]
  BY DEF IInv, Forms, SetForm
<1> QED BY <1>1 DEF Formed

\* A form that is emptied lets go of its report at most.
LEMMA RepGoes ==
  ASSUME IInv, NEW t \in Tabs, SetForm(t, IdleForm), UNCHANGED <<db, outbox, removed, drawn>>
  PROVE  (\A r \in Reports : Same(r)) \/ \E r \in Reports : Moves(r)
<1>1. form'[t].rep = None /\ \A u \in Tabs \ {t} : form'[u] = form[u]
  BY DEF IInv, Forms, SetForm, IdleForm
<1>2. CASE form[t].rep \notin Reports
  BY <1>1, <1>2, OutboxAssumption DEF Same, Formed
<1>3. CASE form[t].rep \in Reports
  <2> PICK r \in Reports : r = form[t].rep
    BY <1>3
  <2>1. r \in drawn
    BY OutboxAssumption DEF IInv, Forms, FormGood
  <2>2. \A x \in Reports \ {r} : Same(x)
    BY <1>1, OutboxAssumption DEF Same, Formed
  <2>3. ReportStatus(r)' = ReportStatus(r) \/ (ReportStatus(r) = "form" /\ ReportStatus(r)' = "refused")
    BY <1>1, <2>1 DEF ReportStatus
  <2> QED BY <2>2, <2>3 DEF Moves
<1> QED BY <1>2, <1>3

\* A step of the ledger or a step that it does not see.
LedgerStep == (\A r \in Reports : Same(r)) \/ \E r \in Reports : Moves(r)

\* submit: the report is in the form.
LEMMA SubmitLedger == ASSUME IInv, NEW t \in Tabs, NEW r \in Reports, Submit(t, r) PROVE LedgerStep
<1>1. form[t].rep = None /\ r \notin drawn
  BY DEF Submit, Ready, IInv, Forms, FormGood, ReportSteps
<1>2. form'[t].rep = r /\ \A u \in Tabs \ {t} : form'[u] = form[u]
  BY DEF Submit, SetForm, IInv, Forms, IdleForm
<1>3. UNCHANGED <<db, outbox, removed>> /\ drawn' = drawn \cup {r}
  BY DEF Submit, formOnly, queueVars
<1>4. r \notin db \cup outbox \cup removed /\ \A u \in Tabs : form[u].rep # r
  BY <1>1, OutboxAssumption DEF IInv, Stored, Kept, Forms, FormGood, ReportSteps
<1>5. \A x \in Reports \ {r} : Same(x)
  BY <1>1, <1>2, <1>3, OutboxAssumption DEF Same, Formed
<1>6. ReportStatus(r) = "new" /\ ReportStatus(r)' = "form"
  BY <1>1, <1>2, <1>3, <1>4 DEF ReportStatus
<1> QED BY <1>5, <1>6 DEF LedgerStep, Moves

\* capture: no report moves.
LEMMA captureLedger == ASSUME IInv, NEW t \in Tabs, NEW p \in Photos, capture(t, p) PROVE LedgerStep
<1>1. form[t].rep = None
  BY DEF capture, Ready, IInv, Forms, FormGood, ReportSteps
<1> PICK f : f = [IdleForm EXCEPT !.step = "compressPhoto", !.cur = p]
  OBVIOUS
<1>2. SetForm(t, f) /\ f.rep = form[t].rep
  BY <1>1 DEF capture, IdleForm
<1>3. UNCHANGED <<db, outbox, removed>> /\ drawn' = drawn \cup {p} /\ p \notin Reports
  BY OutboxAssumption DEF capture, formOnly, queueVars
<1> QED BY <1>2, <1>3, RepStays DEF LedgerStep, Same

\* Answers and photos of a form: it keeps its report, or lets go of it.
LEMMA FormLedger ==
  ASSUME IInv, NEW t \in Tabs,
         \/ ReportAnswered(t) \/ Upload(t) \/ UploadAnswered(t) \/ Uploaded(t) \/ QueuePhoto(t) \/ Queued(t)
         \/ CaptureAnswered(t) \/ QueueCapture(t) \/ Compressed(t) \/ CaptureCompressed(t) \/ QueueFailed(t)
  PROVE  LedgerStep
<1>1. form[t] \in FormType /\ FormGood(form[t])
  BY DEF IInv, Forms
<1>2. UNCHANGED <<db, removed, drawn>> /\ \A r \in Reports : r \in outbox' <=> r \in outbox
  <2>1. CASE QueuePhoto(t)
    <3>1. PICK p \in form[t].left, k \in {2, 3} : outbox' = outbox \cup {<<p, k>>}
      BY <2>1 DEF QueuePhoto, outboxAdd
    <3>2. p \in Photos
      BY <1>1, <3>1 DEF FormType
    <3> QED BY <2>1, <3>1, <3>2, OutboxAssumption DEF QueuePhoto, outboxAdd, formOnly
  <2>2. CASE QueueCapture(t)
    <3>1. outbox' = outbox \cup {<<form[t].cur, 1>>} /\ form[t].cur \in Photos
      BY <1>1, <2>2 DEF QueueCapture, outboxAdd, FormGood
    <3> QED BY <2>2, <3>1, OutboxAssumption DEF QueueCapture, outboxAdd, formOnly
  <2> QED
    BY <2>1, <2>2 DEF ReportAnswered, Upload, UploadAnswered, Uploaded, Queued, CaptureAnswered, Compressed,
       CaptureCompressed, QueueFailed, formOnly, queueVars
<1>3. CASE SetForm(t, IdleForm) /\ UNCHANGED outbox
  BY <1>2, <1>3, RepGoes DEF LedgerStep
<1>4. CASE \E f : SetForm(t, f) /\ f.rep = form[t].rep
  BY <1>2, <1>4, RepStays DEF LedgerStep, Same
<1>5. (SetForm(t, IdleForm) /\ UNCHANGED outbox) \/ \E f : SetForm(t, f) /\ f.rep = form[t].rep
  <2>1. CASE ReportAnswered(t)
    <3> PICK f : f = [form[t] EXCEPT !.step = "photos", !.known = TRUE, !.left = form[t].pics]
      OBVIOUS
    <3> PICK g : g = [form[t] EXCEPT !.step = "queueReport"]
      OBVIOUS
    <3>1. f.rep = form[t].rep /\ g.rep = form[t].rep
      BY <1>1 DEF FormType
    <3>2. SetForm(t, f) \/ SetForm(t, g) \/ (SetForm(t, IdleForm) /\ UNCHANGED outbox)
      BY <2>1 DEF ReportAnswered, queueVars
    <3> QED BY <3>1, <3>2
  <2>2. CASE Upload(t)
    <3>1. PICK p : SetForm(t, [form[t] EXCEPT !.step = "upload", !.cur = p])
      BY <2>2 DEF Upload
    <3>2. [form[t] EXCEPT !.step = "upload", !.cur = p].rep = form[t].rep
      BY <1>1 DEF FormType
    <3> QED BY <3>1, <3>2
  <2>3. CASE UploadAnswered(t)
    <3> DEFINE next(bad) == [form[t] EXCEPT !.step = "photos", !.left = @ \ {form[t].cur}, !.failed = @ \/ bad]
    <3>1. PICK bad \in BOOLEAN : SetForm(t, next(bad))
      BY <2>3 DEF UploadAnswered
    <3>2. next(bad).rep = form[t].rep
      BY <1>1 DEF FormType
    <3> QED BY <3>1, <3>2
  <2>4. CASE Uploaded(t)
    <3> PICK f : f = [form[t] EXCEPT !.step = "queuePhotos", !.left = form[t].pics]
      OBVIOUS
    <3>1. f.rep = form[t].rep
      BY <1>1 DEF FormType
    <3>2. SetForm(t, f) \/ (SetForm(t, IdleForm) /\ UNCHANGED outbox)
      BY <2>4 DEF Uploaded, queueVars
    <3> QED BY <3>1, <3>2
  <2>5. CASE QueuePhoto(t)
    BY <1>1, <2>5 DEF QueuePhoto, FormType
  <2>6. CASE Queued(t)
    BY <2>6 DEF Queued, queueVars
  <2>7. CASE CaptureAnswered(t)
    BY <1>1, <2>7 DEF CaptureAnswered, FormType, queueVars
  <2>8. CASE QueueCapture(t)
    <3>1. form[t].rep = None
      BY <1>1, <2>8 DEF QueueCapture, FormGood, ReportSteps
    <3> QED BY <2>8, <3>1 DEF QueueCapture, IdleForm
  <2>9. CASE Compressed(t)
    <3>1. PICK pics, step : SetForm(t, [form[t] EXCEPT !.step = step, !.pics = pics])
      BY <2>9 DEF Compressed
    <3>2. [form[t] EXCEPT !.step = step, !.pics = pics].rep = form[t].rep
      BY <1>1 DEF FormType
    <3> QED BY <3>1, <3>2
  <2>10. CASE CaptureCompressed(t)
    <3>1. PICK step : SetForm(t, [form[t] EXCEPT !.step = step]) \/ (SetForm(t, IdleForm) /\ UNCHANGED outbox)
      BY <2>10 DEF CaptureCompressed, queueVars
    <3>2. [form[t] EXCEPT !.step = step].rep = form[t].rep
      BY <1>1 DEF FormType
    <3> QED BY <3>1, <3>2
  <2>11. CASE QueueFailed(t)
    <3> PICK f : f = [form[t] EXCEPT !.step = "queueReport", !.known = FALSE]
      OBVIOUS
    <3>1. f.rep = form[t].rep
      BY <1>1 DEF FormType
    <3>2. SetForm(t, f) \/ (SetForm(t, IdleForm) /\ UNCHANGED outbox)
      BY <2>11 DEF QueueFailed, queueVars
    <3> QED BY <3>1, <3>2
  <2> QED BY <2>1, <2>2, <2>3, <2>4, <2>5, <2>6, <2>7, <2>8, <2>9, <2>10, <2>11
<1> QED BY <1>3, <1>4, <1>5

\* The report in the form becomes queued.
LEMMA QueueReportLedger == ASSUME IInv, NEW t \in Tabs, QueueReport(t) PROVE LedgerStep
<1> PICK r : r = form[t].rep
  OBVIOUS
<1>1. form[t] \in FormType /\ FormGood(form[t]) /\ form[t].step = "queueReport" /\ r \in Reports
  BY DEF QueueReport, IInv, Forms, FormGood, ReportSteps
<1>2. UNCHANGED <<db, removed, drawn>> /\ outbox' = outbox \cup {r}
  BY DEF QueueReport, outboxAdd, formOnly
<1>3. \A x : Formed(x)' <=> Formed(x)
  <2>1. \E f : SetForm(t, f) /\ f.rep = form[t].rep
    <3> PICK f : f = [form[t] EXCEPT !.step = "queuePhotos", !.left = form[t].pics]
      OBVIOUS
    <3>1. f.rep = form[t].rep
      BY <1>1 DEF FormType
    <3>2. SetForm(t, f)
      BY DEF QueueReport
    <3> QED BY <3>1, <3>2
  <2> QED BY <2>1, RepStays
<1>4. \A x \in Reports \ {r} : Same(x)
  BY <1>2, <1>3 DEF Same
<1>5. Formed(r)
  BY DEF Formed
<1>6. \/ ReportStatus(r)' = ReportStatus(r)
      \/ ReportStatus(r) \in {"form", "deleted"} /\ ReportStatus(r)' = "queued"
  BY <1>2, <1>5 DEF ReportStatus, Formed
<1> QED BY <1>1, <1>4, <1>6 DEF LedgerStep, Moves

\* Of the flush, only the item written back after a refusal may show.
LEMMA FlushLedger == ASSUME IInv, NEW t \in Tabs, flushOutbox(t) \/ FlushStep(t), ~FlushExpired(t) PROVE LedgerStep
<1> PICK i : i = sync[t].item
  OBVIOUS
<1>1. UNCHANGED <<form, db, removed, drawn>>
  BY DEF flushOutbox, FlushStep, FlushNext, FlushOk, FlushRemove, FlushRefused, FlushStopped, FlushEnd, syncOnly, queueVars
<1>2. CASE UNCHANGED outbox
  BY <1>1, <1>2 DEF LedgerStep, Same, Formed
<1>3. CASE FlushRemove(t)
  <2>1. i \in db /\ outbox' = outbox \ {i}
    BY <1>3 DEF FlushRemove, outboxRemove, IInv, Flushes, SyncGood
  <2>2. \A r \in Reports \ {i} : Same(r)
    BY <1>1, <2>1 DEF Same, Formed
  <2>3. ReportStatus(i)' = ReportStatus(i)
    BY <1>1, <2>1 DEF ReportStatus
  <2>4. CASE i \in Reports
    BY <2>2, <2>3, <2>4 DEF LedgerStep, Moves
  <2>5. CASE i \notin Reports
    BY <2>2, <2>5 DEF LedgerStep
  <2> QED BY <2>4, <2>5
<1>4. CASE FlushRefused(t)
  <2>1. Kept(i) /\ outbox' = outbox \cup {i}
    BY <1>4 DEF FlushRefused, IInv, Flushes, SyncGood, Sendable
  <2>2. \A r \in Reports \ {i} : Same(r)
    BY <1>1, <2>1 DEF Same, Formed
  <2>3. ReportStatus(i)' = ReportStatus(i) \/ (ReportStatus(i) = "deleted" /\ ReportStatus(i)' = "queued")
    BY <1>1, <2>1 DEF ReportStatus, Kept
  <2>4. CASE i \in Reports
    BY <2>2, <2>3, <2>4 DEF LedgerStep, Moves
  <2>5. CASE i \notin Reports
    BY <2>2, <2>5 DEF LedgerStep
  <2> QED BY <2>4, <2>5
<1>5. UNCHANGED outbox \/ FlushRemove(t) \/ FlushRefused(t)
  BY DEF flushOutbox, FlushStep, FlushNext, FlushOk, FlushStopped, FlushEnd, queueVars
<1> QED BY <1>2, <1>3, <1>4, <1>5

\* A queued report becomes deleted.
LEMMA DeleteItemLedger == ASSUME IInv, NEW t \in Tabs, NEW i \in Ids, DeleteItem(t, i) PROVE LedgerStep
<1>1. /\ i \in outbox /\ outbox' = outbox \ {i} /\ removed' = removed \cup {i}
      /\ UNCHANGED <<form, db, drawn>>
  BY DEF DeleteItem, Shown, outboxRemove, syncOnly
<1>2. \A r \in Reports \ {i} : Same(r)
  BY <1>1 DEF Same, Formed
<1>3. ReportStatus(i)' = ReportStatus(i) \/ (ReportStatus(i) = "queued" /\ ReportStatus(i)' = "deleted")
  BY <1>1 DEF ReportStatus
<1>4. CASE i \in Reports
  BY <1>2, <1>3, <1>4 DEF LedgerStep, Moves
<1>5. CASE i \notin Reports
  BY <1>2, <1>5 DEF LedgerStep
<1> QED BY <1>4, <1>5

\* A report is stored, whether its sender still waits or not.
LEMMA ServeLedger == ASSUME IInv, NEW t \in Tabs, NEW src \in Source, Serve(t, src) PROVE LedgerStep
<1>1. PICK q \in net : db' = db \/ db' = db \cup {q.id}
  BY DEF Serve
<1> PICK i : i = q.id
  OBVIOUS
<1>2. UNCHANGED <<form, outbox, removed, drawn>> /\ (i \in Reports => i \in drawn)
  BY DEF Serve, queueVars, IInv, Requests, RequestGood
<1>3. \A r \in Reports \ {i} : Same(r)
  BY <1>1, <1>2 DEF Same, Formed
<1>4. CASE i \in Reports
  <2>1. \/ ReportStatus(i)' = ReportStatus(i)
        \/ ReportStatus(i) \in {"form", "refused", "queued", "deleted"} /\ ReportStatus(i)' = "stored"
    BY <1>1, <1>2, <1>4 DEF ReportStatus
  <2> QED BY <1>3, <1>4, <2>1 DEF LedgerStep, Moves
<1>5. CASE i \notin Reports
  BY <1>3, <1>5 DEF LedgerStep
<1> QED BY <1>4, <1>5

\* A session that ends takes no report with it but the one in the form.
LEMMA SessionLedger ==
  ASSUME IInv, NEW t \in Tabs, Logout(t) \/ Reload(t) \/ ReportExpired(t) \/ FlushExpired(t)
  PROVE  LedgerStep
<1>1. \E u : Leave(t, u)
  BY DEF Logout, Reload, ReportExpired, FlushExpired, Expired
<1>2. SetForm(t, IdleForm) /\ UNCHANGED <<db, outbox, removed, drawn>>
  BY <1>1 DEF Leave, SetForm, queueVars
<1> QED BY <1>2, RepGoes DEF LedgerStep

\* Network and login move no report.
LEMMA ConnectionLedger ==
  ASSUME GoOffline \/ GoOnline \/ (\E t \in Tabs, u \in Users : Login(t, u)) \/ UNCHANGED vars
  PROVE  LedgerStep
<1>1. UNCHANGED <<form, db, outbox, removed, drawn>>
  BY DEF GoOffline, GoOnline, Login, vars, queueVars
<1> QED BY <1>1 DEF LedgerStep, Same, Formed

\* The queue, with its tabs, faults and late requests, implements the ledger: a report that was queued is in the
\* queue, on the server or deleted by the user ever after, and a stored one stays stored (outbox.ts).
THEOREM ImplementsLedger == Spec => LedgerSpec
<1>1. Init => Ledger!Init
  <2> SUFFICES ASSUME Init PROVE \A r \in Reports : ReportStatus(r) = "new"
    BY DEF Ledger!Init
  <2> QED BY OutboxAssumption DEF Init, ReportStatus, IdleForm
<1>2. IInv /\ [Next]_vars => [Ledger!Next]_Statuses
  <2> SUFFICES ASSUME IInv, [Next]_vars PROVE LedgerStep
    BY SameInLedger, MovesInLedger DEF LedgerStep
  <2>1. CASE GoOffline \/ GoOnline \/ (\E t \in Tabs, u \in Users : Login(t, u)) \/ UNCHANGED vars
    BY <2>1, ConnectionLedger
  <2>2. ASSUME NEW t \in Tabs, FormStep(t) PROVE LedgerStep
    BY <2>2, FormLedger, QueueReportLedger, SessionLedger DEF FormStep
  <2>3. ASSUME NEW t \in Tabs, flushOutbox(t) \/ FlushStep(t) PROVE LedgerStep
    BY <2>3, FlushLedger, SessionLedger
  <2>4. ASSUME NEW t \in Tabs,
               \/ Logout(t) \/ Reload(t)
               \/ \E r \in Reports : Submit(t, r)
               \/ \E p \in Photos : capture(t, p)
               \/ \E i \in Ids : DeleteItem(t, i)
               \/ \E src \in Source : Serve(t, src)
        PROVE  LedgerStep
    BY <2>4, SessionLedger, SubmitLedger, captureLedger, DeleteItemLedger, ServeLedger
  <2> QED BY <2>1, <2>2, <2>3, <2>4 DEF Next
<1> QED BY <1>1, <1>2, Invariance, PTL DEF Spec, LedgerSpec, Ledger!Spec, Statuses
=============================================================================
