---- MODULE FieldPage ----
(***************************************************************************)
(* Two parts of the field page, each with a next-state relation.           *)
(*                                                                         *)
(* The photos of an object (AssetPhotos and usePhotoCapture of             *)
(* src/frontend/components/field/AssetPhotos.tsx), in a panel that stays   *)
(* while another object is chosen (components/power/PowerMonitor.tsx), or  *)
(* in the row of a list, each with its own (Field.tsx).  The outbox that   *)
(* sends what was queued is FieldOutbox.                                   *)
(*                                                                         *)
(* What stands near the user (Nearby of Field.tsx): the list is read again *)
(* when the user moved more than 25 m, or chose another radius or group.   *)
(* A position is one of a grid of 25 m.                                    *)
(***************************************************************************)
EXTENDS Screen

CONSTANTS
  Objects,
  Places, Groups, Radii,
  MaxTurns  \* bound: what the user and the device do

Turn == world.turns < MaxTurns /\ world' = [world EXCEPT !.turns = @ + 1]

----------------------------------------------------------------------------
(* The photos of an object *)

Call(op, a) == [op |-> op, asset |-> a, photo |-> Nil, gone |-> FALSE]
Shut(host, a) == [host |-> host, asset |-> a, open |-> FALSE, items |-> Nil, view |-> Nil, note |-> Nil, busy |-> FALSE]
Held(a) == {p \in world.photos : p.of = a}

PhotosInit ==
  \E host \in {"panel", "row"}, a \in Objects, online \in BOOLEAN :
    /\ world = [photos |-> {[id |-> 0, of |-> b, note |-> Nil] : b \in Objects}, queued |-> {}, told |-> {},
                taken |-> {}, online |-> online, turns |-> 0]
    /\ ui = Shut(host, a)
    /\ calls = {Call("list", a)}

\* mutant: Rows share the photos.
Kept_Always(host) == TRUE

\* The panel keeps its state when another object is chosen; a row has its own.
Kept(host) == host = "panel"

\* Another object, beside the dialog: its list is asked for.  In the panel a note stays;
\* what a row asked for goes on without it.
Select ==
  \E a \in Objects \ {ui.asset} :
    /\ ~ui.open /\ Turn
    /\ ui' = IF Kept(ui.host) THEN [ui EXCEPT !.asset = a, !.items = Nil] ELSE Shut(ui.host, a)
    /\ LET C == IF Kept(ui.host) THEN calls ELSE {[c EXCEPT !.gone = TRUE] : c \in {d \in calls : d.op # "list"}}
       IN Cardinality(C) < MaxCalls /\ calls' = C \cup {Call("list", a)}

\* The answer that is last is shown, whatever object it was asked for.
Listed == \E c \in calls : c.op = "list" /\ Got(c) /\ ui' = [ui EXCEPT !.items = Held(c.asset)] /\ UNCHANGED world
ListFailed == \E c \in calls : c.op = "list" /\ Got(c) /\ ui' = [ui EXCEPT !.items = {}] /\ UNCHANGED world

Open == ~ui.open /\ Show([ui EXCEPT !.open = TRUE])
CloseDialog == ui.open /\ Show([ui EXCEPT !.open = FALSE, !.view = Nil])
View == \E p \in (IF ui.items = Nil THEN {} ELSE ui.items) : ui.open /\ ui.view = Nil /\ Show([ui EXCEPT !.view = p])
Back == ui.view # Nil /\ Show([ui EXCEPT !.view = Nil])

\* A note for the next photo, of the object shown.
SetNote == ui.open /\ ui.view = Nil /\ ui.note # ui.asset /\ Turn /\ ui' = [ui EXCEPT !.note = ui.asset] /\ UNCHANGED calls
Network == world' = [world EXCEPT !.online = ~@] /\ UNCHANGED <<ui, calls>>

----------------------------------------------------------------------------
(* Taking and deleting a photo *)

onFile ==
  LET p == [id |-> world.turns + 1, of |-> ui.asset, note |-> ui.note]
  IN /\ ui.open /\ ui.view = Nil /\ ~ui.busy /\ world.turns < MaxTurns
     /\ Send([Call("capture", ui.asset) EXCEPT !.photo = p])
     /\ ui' = [ui EXCEPT !.busy = TRUE]
     /\ world' = [world EXCEPT !.turns = @ + 1, !.taken = @ \cup {p}]

\* Only a page that is still there learns of it, and reads a list again.
Ended(c, u, again) ==
  /\ ui' = IF c.gone THEN ui ELSE u
  /\ calls' = (calls \ {c}) \cup (IF c.gone THEN {} ELSE {Call("list", a) : a \in again})

\* The photo went; the note is for the next one.
Captured(c, again) == Ended(c, [ui EXCEPT !.busy = FALSE, !.note = Nil], again)

\* The server took it: the list of the object it was taken of is read again.
Uploaded ==
  \E c \in calls :
    /\ c.op = "capture" /\ world.online
    /\ Captured(c, {c.asset}) /\ world' = [world EXCEPT !.photos = @ \cup {c.photo}]

\* The server refused it, and the user is told.
Refused ==
  \E c \in calls :
    /\ c.op = "capture" /\ world.online
    /\ Captured(c, {}) /\ world' = [world EXCEPT !.told = @ \cup {c.photo}]

\* mutant: A photo that did not reach the server is dropped.
Queue_Dropped(p) == world

\* No network, or no answer in order: the outbox takes it.
Queue(p) == [world EXCEPT !.queued = @ \cup {p}]
Queued == \E c \in calls : c.op = "capture" /\ Captured(c, {}) /\ world' = Queue(c.photo)

\* The device can neither compress it nor store it in the outbox, which may come after
\* an answer that got lost: the user is told (catch of usePhotoCapture).
Dropped ==
  \E c \in calls : \E got \in (IF world.online THEN {{}, {c.photo}} ELSE {{}}) :
    /\ c.op = "capture"
    /\ Captured(c, {}) /\ world' = [world EXCEPT !.told = @ \cup {c.photo}, !.photos = @ \cup got]

\* The server took it but its answer got lost: it is queued as well.
Unheard ==
  \E c \in calls :
    /\ c.op = "capture" /\ world.online
    /\ Captured(c, {}) /\ world' = [Queue(c.photo) EXCEPT !.photos = @ \cup {c.photo}]

del == ui.view # Nil /\ Turn /\ Send([Call("delete", ui.asset) EXCEPT !.photo = ui.view]) /\ UNCHANGED ui
Deleted ==
  \E c \in calls :
    /\ c.op = "delete" /\ world.online
    /\ Ended(c, [ui EXCEPT !.view = Nil], {c.asset})
    /\ world' = [world EXCEPT !.photos = @ \ {c.photo}, !.told = @ \cup {c.photo}]
DeleteFailed == \E c \in calls : c.op = "delete" /\ Got(c) /\ UNCHANGED <<ui, world>>

PhotosNext ==
  \/ Select \/ Listed \/ ListFailed \/ Open \/ CloseDialog \/ View \/ Back \/ SetNote \/ Network
  \/ onFile \/ Uploaded \/ Refused \/ Queued \/ Dropped \/ Unheard \/ del \/ Deleted \/ DeleteFailed

----------------------------------------------------------------------------
(* What stands near the user *)

Key(u) == [at |-> u.fix, radius |-> u.radius, group |-> u.group]

NearbyInit ==
  \E g \in Groups, r \in Radii, online \in BOOLEAN :
    /\ ui = [fix |-> Nil, online |-> online, radius |-> r, group |-> g, items |-> Nil, open |-> FALSE, busy |-> FALSE,
             last |-> Nil]
    /\ world = [turns |-> 0]
    /\ calls = {}

\* Nothing is asked without a position or a network.
load(u) ==
  IF u.fix # Nil /\ u.online THEN Send([op |-> "nearby", key |-> Key(u)]) /\ ui' = [u EXCEPT !.busy = TRUE]
  ELSE ui' = u /\ UNCHANGED calls

\* The effect: what is near is asked for once for each place, radius and group, and
\* counts as asked for although there was no network.
Moved(u) == IF u.fix = Nil \/ Key(u) = u.last THEN ui' = u /\ UNCHANGED calls ELSE load([u EXCEPT !.last = Key(u)])

SetFix == \E p \in Places \ {ui.fix} : Turn /\ Moved([ui EXCEPT !.fix = p])
SetRadius == \E r \in Radii \ {ui.radius} : Turn /\ Moved([ui EXCEPT !.radius = r])
SetGroup == \E g \in Groups \ {ui.group} : Turn /\ Moved([ui EXCEPT !.group = g])
SetOnline == Turn /\ Moved([ui EXCEPT !.online = ~@])
Refresh == ui.fix # Nil /\ ui.online /\ Turn /\ load(ui)

\* The answer that is last is shown; one row may be unfolded.
Answered ==
  \E c \in calls : Got(c) /\ ui' = [ui EXCEPT !.items = c.key, !.busy = FALSE] /\ UNCHANGED world
Failed == \E c \in calls : Got(c) /\ ui' = [ui EXCEPT !.busy = FALSE] /\ UNCHANGED world
Unfold == ui.online /\ ui.fix # Nil /\ ui.items # Nil /\ Show([ui EXCEPT !.open = ~@])

NearbyNext == SetFix \/ SetRadius \/ SetGroup \/ SetOnline \/ Refresh \/ Answered \/ Failed \/ Unfold

----------------------------------------------------------------------------
(* Properties *)

\* A photo taken is on its way, on the server or in the outbox, unless the user knows that
\* it is not: told that the server refused it or that the device could not compress or
\* store it, or having deleted it.  So it is whatever object is chosen meanwhile and
\* whatever network there is.
PhotoKept ==
  world.taken \subseteq world.photos \cup world.queued \cup world.told \cup {c.photo : c \in calls}

\* The photos shown are the object's (not so in the panel: answers come in any order, and
\* the list of the object a photo was taken of is read under another one).
PhotosOfObject == ui.items # Nil => \A p \in ui.items : p.of = ui.asset
PhotosOfRow == ui.host = "row" => PhotosOfObject

\* A note is stored with a photo of the object it was typed for (not so: it stays when
\* another object is chosen).
NoteOfObject == \A p \in world.photos \cup world.queued : p.note \in {Nil, p.of}

\* The list is of the place, radius and group chosen (not so: answers come in any order).
ListOfFilter == ui.items # Nil /\ calls = {} => ui.items = Key(ui)

\* With a position and a network, a list is there or on its way (not so: what failed, or
\* was to be asked for without network, is not asked for again when the network is back).
ListAwaited == ui.online /\ ui.fix # Nil => ui.busy \/ ui.items # Nil
====
