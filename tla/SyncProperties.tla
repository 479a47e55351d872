---------------------------- MODULE SyncProperties ----------------------------
(* What the sync of Sync.tla promises. *)
EXTENDS Sync

(* Every variable has its type; the outbox, the versions and the changes    *)
(* kept aside have at most one row for a record, as their key paths say.    *)
OneRowEach(rows) == \A x, y \in rows : x.record = y.record => x = y

TypeOK ==
  /\ clock \in Nat /\ writes \in Nat /\ faults \in Nat
  /\ lastWrite \in [Device -> Nat]
  /\ log \in Seq(Change)
  /\ data \in [Device -> [Record -> Nat]]
  /\ outbox \in [Device -> SUBSET Marker]
  /\ versions \in [Device -> SUBSET Version]
  /\ held \in [Device -> SUBSET Change]
  /\ cursor \in [Device -> Nat]
  /\ run \in [Device -> Run]
  /\ \A d \in Device : /\ OneRowEach(outbox[d])
                       /\ OneRowEach(versions[d])
                       /\ OneRowEach(held[d])

NoSkew == \A d \in Device : Skew[d] = 0

(* A version a device holds is always that of a change the server stored,   *)
(* whatever run failed between the answer and the settling: it never holds  *)
(* its own version of what the server does not have.                        *)
VersionsAreLogged ==
  \A d \in Device : \A v \in versions[d] : \E c \in Logged : VersionOf(c) = v

(* With one time for all, the version a device holds of a record is only    *)
(* ever replaced by a later one, whether it is settled or applied.          *)
VersionsOnlyRise ==
  [][NoSkew => \A d \in Device : \A v \in versions[d] :
       \/ v \in versions'[d]
       \/ \E w \in Of(versions'[d], v.record) : IsLaterVersion(w, v)]_vars

(* A free record (a tag, a catalog) with no marker pending has the content  *)
(* of the change its version names, and none when it has no version: the    *)
(* writes of a row, its version and its marker never come apart.            *)
ContentMatchesVersion ==
  NoSkew => \A d \in Device, r \in Record :
    (Kind[r] = "tag" /\ Of(outbox[d], r) = {}) =>
      IF Of(versions[d], r) = {} THEN data[d][r] = Absent
      ELSE \E c \in Logged : /\ VersionOf(c) \in Of(versions[d], r)
                             /\ data[d][r] = c.data

(* The changes of the log a device has gone past: each of a free record is  *)
(* covered by what the device has of it, by its version, by a marker or by  *)
(* a change kept aside, or it gives way to one the device cannot read.  A   *)
(* run that fails between applying a page and saving its cursor loses none. *)
Covered(d, c) ==
  \/ \E v \in Of(versions[d], c.record) : ~IsLaterVersion(c, v)
  \/ \E m \in Of(outbox[d], c.record) :
       m.id = c.id \/ Beats([id |-> m.id, at |-> m.at, device |-> d], c)
  \/ \E h \in Of(held[d], c.record) : ~Beats(c, h)
  \/ \E e \in Logged : e.record = c.record /\ ~Legible(d, e) /\ ~Beats(c, e)

CursorAccounted ==
  NoSkew => \A d \in Device : \A i \in 1 .. cursor[d] :
    Kind[log[i].record] = "tag" => Covered(d, log[i])

(* The same of any record, as long as the server stores the changes of it   *)
(* in the order they were made in.                                          *)
InOrder(r) ==
  \A i, j \in DOMAIN log :
    (i < j /\ log[i].record = r /\ log[j].record = r) => Beats(log[j], log[i])

OrderedAccounted ==
  NoSkew => \A d \in Device : \A i \in 1 .. cursor[d] :
    InOrder(log[i].record) => Covered(d, log[i])

(* A device can read every change of the record the others made. *)
Reads(d, r) == \A c \in Logged : c.record = r => c.device = d \/ Legible(d, c)

Quiet(d) == run[d].step = "idle" /\ outbox[d] = {} /\ cursor[d] = Len(log)

(* Two devices with nothing to push, that have read the whole log, have the *)
(* same free records, of those they can read: no interleaving of runs,      *)
(* writes and failures leaves them apart for good.                          *)
SameContent ==
  \A d, e \in Device : (Quiet(d) /\ Quiet(e)) =>
    \A r \in Record : (Kind[r] = "tag" /\ Reads(d, r) /\ Reads(e, r))
                        => data[d][r] = data[e][r]

SameWhenQuiet == NoSkew => SameContent

(* The rows of a book that both have on the shelf, with nothing kept aside, *)
(* agree too, when the server stored their changes in the order they were   *)
(* made in: what a download or a book listed too early left behind is       *)
(* repaired by the next change.  A removal by a third device repairs        *)
(* nothing: a book added while the round goes on keeps its row, and loses   *)
(* the marker of it, so that each device has its own.                       *)
RemovedElsewhere(r, d, e) ==
  /\ InReader(r)
  /\ \E c \in Logged :
       /\ c.record = r /\ c.data = Absent /\ c.device \notin {d, e}
       /\ \A o \in Logged : o.record = r => ~Beats(o, c)

SameRowsWhenQuiet ==
  NoSkew => \A d, e \in Device, r \in Record :
    (/\ Quiet(d) /\ Quiet(e) /\ Kind[r] # "tag" /\ InOrder(r)
     /\ Reads(d, r) /\ Reads(e, r) /\ ~RemovedElsewhere(r, d, e)
     /\ OnShelf(d, BookOf[r]) /\ OnShelf(e, BookOf[r])
     /\ Of(held[d], r) = {} /\ Of(held[e], r) = {})
       => data[d][r] = data[e][r]

(* Each record is a register on every device, where the last writer wins:   *)
(* with one time for all, a step writes records of one device, or stores    *)
(* changes of it, or settles some, or takes a later one of another device;  *)
(* what lies between two awaits of a run is not to be seen.                 *)
Separate == {r \in Record : ~InReader(r)}
Values == [d \in Device |-> [r \in Separate |-> data[d][r]]]

Replicas == INSTANCE Registers
  WITH stored <- Logged, pending <- outbox, known <- versions, value <- Values

KeepsRegisters == Replicas!Spec

(* A marker leaves the outbox when its change is on the server, when a new  *)
(* write takes its place, or when a later change is applied over it.  The   *)
(* exception is a write made after the round has read the markers.          *)
Settled(d, m) ==
  \/ \E n \in outbox'[d] : n.record = m.record
  \/ \E c \in Logged : c.record = m.record /\ c.id = m.id
  \/ \E v \in Of(versions'[d], m.record) :
       IsLaterVersion(v, [at |-> m.at, device |-> d])

PendingEditKept ==
  [][\A d \in Device : \A m \in outbox[d] :
       \/ Settled(d, m)
       \/ run[d].step = "apply" /\ m \notin run[d].markers]_vars

(* What pull-changes.spec.ts says of a pending marker newer than the change *)
(* that comes in: it is kept, whenever it was written.                      *)
NewerEditKept == [][\A d \in Device : \A m \in outbox[d] : Settled(d, m)]_vars

(* What the test of a download says: the book and the captures kept aside   *)
(* are attached once the book has arrived.  Where nobody writes, nothing    *)
(* but a change of another device beats them.                               *)
HeldEditAttached ==
  [][\A d \in Device \ Writers : \A c \in held[d] :
       c \notin held'[d] =>
         \/ \E h \in Of(held'[d], c.record) : Beats(h, c)
         \/ \E v \in Of(versions[d], c.record) : ~IsLaterVersion(c, v)
         \/ ~Legible(d, c)]_vars

(* Every device settles: nothing is left to push, for good, and all agree   *)
(* on what they can read.                                                   *)
EventuallySame ==
  <>[](/\ \A d \in Device : outbox[d] = {}
       /\ \A d, e \in Device, r \in Record :
            (Kind[r] = "tag" /\ Reads(d, r) /\ Reads(e, r))
              => data[d][r] = data[e][r])
===============================================================================
