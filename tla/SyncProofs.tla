------------------------------ MODULE SyncProofs ------------------------------
(***************************************************************************)
(* Proofs about Sync.tla, for any devices, records, clocks, pages and      *)
(* bounds: the types, one row for a record, that every version a device    *)
(* holds is that of a change the server stored, and that devices come to   *)
(* the same free records, and to the same rows of the books both have; and *)
(* that it implements Registers.tla.                                       *)
(***************************************************************************)
EXTENDS SyncProperties, SequenceTheorems, WellFoundedInduction, TLAPS

(* What a run has in memory has one row for a record as well, where it came *)
(* from the outbox.                                                         *)
RunRows ==
  \A d \in Device :
    /\ OneRowEach(run[d].markers)
    /\ OneRowEach(run[d].batch)
    /\ run[d].stage = "push" => OneRowEach(run[d].todo)

StagesFit ==
  \A d \in Device :
    run[d].stage = "push" <=> run[d].step \in {"load", "send", "settle"}

(* The changes there are anywhere, and the markers, which are changes of    *)
(* the device they are on.  One id names one change of a record.            *)
Marks(d) ==
  {[record |-> m.record, id |-> m.id, at |-> m.at, device |-> d] :
     m \in outbox[d] \cup run[d].markers}

StampOf(c) == [record |-> c.record, id |-> c.id, at |-> c.at, device |-> c.device]

Changes == Logged \cup
  UNION {run[d].todo \cup run[d].batch \cup held[d] : d \in Device}

Stamps == (UNION {Marks(d) : d \in Device}) \cup {StampOf(c) : c \in Changes}

StampsAgree ==
  /\ \A x \in Stamps : x.id <= writes
  /\ \A x, y \in Stamps : (x.record = y.record /\ x.id = y.id) => x = y

(* What is settled is on the server, and what is reconciled came from it.   *)
InFlight ==
  \A d \in Device :
    /\ run[d].stage = "push" =>
         \A c \in run[d].batch : \E e \in Logged : VersionOf(e) = VersionOf(c)
    /\ run[d].stage # "push" => run[d].todo \subseteq Logged
    /\ held[d] \subseteq Logged

(* What a step of a run that writes no record does to all of these. *)
Moves(d, next) ==
  /\ Become(d, next)
  /\ Logged \subseteq Logged' /\ Logged' \subseteq Logged \cup run[d].todo
  /\ \A e \in Device : outbox'[e] \subseteq outbox[e]
  /\ \A e \in Device :
       \/ held'[e] \subseteq held[e]
       \/ /\ e = d /\ run[d].stage # "push"
          /\ held'[e] \subseteq held[e] \cup run[d].todo
  /\ \A e \in Device : \A v \in versions'[e] :
       \/ v \in versions[e]
       \/ \E c \in IF run[d].stage = "push" THEN run[d].batch ELSE run[d].todo :
            v = VersionOf(c)
  /\ next.markers \subseteq outbox[d] \cup run[d].markers
  /\ \A c \in next.todo \cup next.batch : StampOf(c) \in Stamps
  /\ next.stage = "push" =>
       \A c \in next.batch : \E e \in Logged' : VersionOf(e) = VersionOf(c)
  /\ next.stage # "push" => next.todo \subseteq Logged
  /\ writes' = writes

Inv == TypeOK /\ RunRows /\ StagesFit /\ StampsAgree /\ InFlight /\ VersionsAreLogged
-------------------------------------------------------------------------------
(* The operators. *)

(* The empty run is a run. *)
LEMMA NoRunType == NoRun \in Run
BY DEF NoRun, Run, Stages, Steps

(* What is left of a run between two use cases is a run. *)
LEMMA AtType ==
  ASSUME TypeOK, NEW d \in Device, NEW stage \in Stages, NEW step \in Steps
  PROVE  /\ At(d, stage, step) \in Run
         /\ At(d, stage, step).markers = {}
         /\ At(d, stage, step).todo = {}
         /\ At(d, stage, step).batch = {}
         /\ At(d, stage, step).stage = stage
         /\ At(d, stage, step).step = step
<1>1. run[d] \in Run
  BY DEF TypeOK
<1> QED
  BY <1>1, NoRunType DEF At, NoRun, Run

(* A run that goes on keeps the types, and one row for a record in memory. *)
LEMMA BecomeType ==
  ASSUME TypeOK, RunRows, NEW d \in Device, NEW next \in Run, Become(d, next),
         OneRowEach(next.markers), OneRowEach(next.batch),
         next.stage = "push" => OneRowEach(next.todo)
  PROVE  run' \in [Device -> Run] /\ RunRows'
<1>1. run' = [run EXCEPT ![d] = next] /\ run \in [Device -> Run]
  BY DEF Become, TypeOK
<1>2. run' \in [Device -> Run]
  BY <1>1
<1>3. ASSUME NEW e \in Device
      PROVE  run'[e] = IF e = d THEN next ELSE run[e]
  BY <1>1
<1>4. RunRows'
  BY <1>3 DEF RunRows, OneRowEach
<1> QED
  BY <1>2, <1>4

(* A row put replaces the one its record had. *)
LEMMA OneRowPut ==
  ASSUME NEW rows, OneRowEach(rows), NEW row
  PROVE  OneRowEach(Put(rows, row))
BY DEF OneRowEach, Put, Without

(* Rows taken away leave the others. *)
LEMMA OneRowWithout ==
  ASSUME NEW rows, OneRowEach(rows), NEW R
  PROVE  OneRowEach(Without(rows, R))
BY DEF OneRowEach, Without

(* Some of the rows are rows of different records too. *)
LEMMA OneRowSubset ==
  ASSUME NEW rows, OneRowEach(rows), NEW part, part \subseteq rows
  PROVE  OneRowEach(part)
BY DEF OneRowEach

(* What a sequence has. *)
Elements(s) == {s[i] : i \in DOMAIN s}

(* The log as the server leaves it: what was there, then the new changes. *)
LEMMA AppendType ==
  ASSUME NEW S, NEW l \in Seq(S), NEW n \in Nat, NEW s \in [1..n -> S]
  PROVE  /\ l \o s \in Seq(S)
         /\ Elements(l \o s) = Elements(l) \cup Elements(s)
<1>1. s \in Seq(S) /\ Len(s) = n /\ DOMAIN s = 1..n
  BY SeqDef
<1>2. l \o s \in Seq(S) /\ Len(l \o s) = Len(l) + n
  BY <1>1, ConcatProperties
<1>3. \A i \in 1 .. Len(l) + n :
        (l \o s)[i] = IF i <= Len(l) THEN l[i] ELSE s[i - Len(l)]
  BY <1>1, ConcatProperties
<1>4. DOMAIN l = 1 .. Len(l) /\ Len(l) \in Nat
  BY LenProperties
<1>5. DOMAIN (l \o s) = 1 .. Len(l) + n
  BY <1>2, LenProperties
<1>6. ASSUME NEW i \in 1..n PROVE /\ i + Len(l) \in 1 .. Len(l) + n
                                /\ (l \o s)[i + Len(l)] = s[i]
  BY <1>3, <1>4
<1>7. {(l \o s)[i] : i \in DOMAIN (l \o s)} \subseteq
        {l[i] : i \in DOMAIN l} \cup {s[i] : i \in DOMAIN s}
  <2>1. ASSUME NEW i \in 1 .. Len(l) + n
        PROVE  (l \o s)[i] \in {l[j] : j \in DOMAIN l} \cup {s[j] : j \in DOMAIN s}
    <3>1. CASE i <= Len(l)
      BY <1>3, <1>4, <3>1
    <3>2. CASE ~(i <= Len(l))
      <4>1. i - Len(l) \in DOMAIN s
        BY <1>1, <1>4, <3>2
      <4> QED
        BY <1>3, <3>2, <4>1
    <3> QED
      BY <3>1, <3>2
  <2> QED
    BY <1>5, <2>1
<1>8. {l[i] : i \in DOMAIN l} \subseteq {(l \o s)[i] : i \in DOMAIN (l \o s)}
  <2>1. ASSUME NEW i \in DOMAIN l
        PROVE  i \in DOMAIN (l \o s) /\ l[i] = (l \o s)[i]
    BY <1>3, <1>4, <1>5
  <2> QED
    BY <2>1
<1>9. {s[i] : i \in DOMAIN s} \subseteq {(l \o s)[i] : i \in DOMAIN (l \o s)}
  <2>1. ASSUME NEW i \in DOMAIN s
        PROVE  \E j \in DOMAIN (l \o s) : (l \o s)[j] = s[i]
    BY <1>1, <1>5, <1>6
  <2> QED
    BY <2>1
<1> QED
  BY <1>2, <1>7, <1>8, <1>9 DEF Elements
-------------------------------------------------------------------------------
(* The types and the rows, action by action. *)

(* A write, of the user or of a download. *)
LEMMA WriteType ==
  ASSUME TypeOK, NEW d \in Device, NEW R \in SUBSET Record,
         NEW deleted \in BOOLEAN, NEW at \in Nat, Write(d, R, deleted, at),
         run' \in [Device -> Run]
  PROVE  TypeOK'
<1> DEFINE id == writes + 1
           rows == {[record |-> r, id |-> id, at |-> at + Skew[d],
                     deleted |-> deleted] : r \in R}
           content == [r \in Record |->
             IF r \notin R THEN data[d][r] ELSE IF deleted THEN Absent ELSE id]
<1>1. id \in Nat /\ at + Skew[d] \in Nat
  BY SyncAssumption DEF TypeOK
<1>2. rows \subseteq Marker
  BY <1>1 DEF Marker
<1>3. outbox' = [outbox EXCEPT ![d] = Without(outbox[d], R) \cup rows]
  BY DEF Write
<1>4. outbox' \in [Device -> SUBSET Marker]
  BY <1>2, <1>3 DEF TypeOK, Without
<1>5. OneRowEach(Without(outbox[d], R) \cup rows)
  BY DEF OneRowEach, Without, TypeOK
<1>6. \A e \in Device : OneRowEach(outbox'[e])
  BY <1>3, <1>5 DEF TypeOK
<1>7. content \in [Record -> Nat]
  BY <1>1 DEF TypeOK, Absent
<1>8. data' = [data EXCEPT ![d] = content]
  BY DEF Write
<1>9. data' \in [Device -> [Record -> Nat]]
  BY <1>7, <1>8 DEF TypeOK
<1>10. /\ clock' \in Nat /\ writes' \in Nat /\ lastWrite' \in [Device -> Nat]
       /\ UNCHANGED <<log, versions, held, cursor, faults>>
  BY <1>1 DEF Write, TypeOK
<1> QED
  BY <1>4, <1>6, <1>9, <1>10 DEF TypeOK

(* The rows of a book are records. *)
LEMMA RowsOfType == \A b : RowsOf(b) \in SUBSET Record
BY DEF RowsOf

(* The time of a write is a time. *)
LEMMA NowType ==
  ASSUME TypeOK
  PROVE  Now \subseteq Nat
BY DEF Now, TypeOK

(* A write of the user leaves every run as it is. *)
LEMMA UserRows ==
  ASSUME TypeOK, RunRows, NEW d \in Device, NEW R \in SUBSET Record,
         NEW deleted \in BOOLEAN, UserWrites(d, R, deleted)
  PROVE  TypeOK' /\ RunRows'
<1>1. run' = run /\ run' \in [Device -> Run]
  BY DEF UserWrites, TypeOK
<1>2. PICK at \in Now : Write(d, R, deleted, at)
  BY DEF UserWrites
<1>3. TypeOK'
  BY <1>1, <1>2, NowType, WriteType
<1> QED
  BY <1>1, <1>3 DEF RunRows

(* The steps that change nothing but the run and what is counted. *)
LEMMA OnlyRunRows ==
  ASSUME TypeOK, RunRows, NEW d \in Device, NEW next \in Run, Become(d, next),
         OneRowEach(next.markers), OneRowEach(next.batch),
         next.stage = "push" => OneRowEach(next.todo),
         UNCHANGED <<clock, writes, lastWrite, log, local, cursor>>,
         faults' \in Nat
  PROVE  TypeOK' /\ RunRows'
<1>1. run' \in [Device -> Run] /\ RunRows'
  BY BecomeType
<1> QED
  BY <1>1 DEF TypeOK, local

(* A run that begins or fails has nothing in memory but the outbox. *)
LEMMA StartRows ==
  ASSUME TypeOK, RunRows, NEW d \in Device,
         StartSync(d) \/ StartDownload(d) \/ Fail(d)
  PROVE  TypeOK' /\ RunRows'
<1>1. CASE StartSync(d)
  <2> DEFINE next == [NoRun EXCEPT !.stage = "push", !.step = "load",
                                   !.markers = outbox[d]]
  <2>1. next \in Run /\ next.markers = outbox[d] /\ next.todo = {} /\ next.batch = {}
    BY NoRunType DEF NoRun, Run, Stages, Steps, TypeOK
  <2>2. OneRowEach(next.markers) /\ OneRowEach({})
    BY <2>1 DEF TypeOK, OneRowEach
  <2>3. faults' \in Nat
    BY <1>1 DEF StartSync, TypeOK
  <2> HIDE DEF next
  <2> QED
    BY <1>1, <2>1, <2>2, <2>3, OnlyRunRows DEF StartSync, next
<1>2. CASE StartDownload(d)
  <2> DEFINE next == [NoRun EXCEPT !.step = "download"]
  <2>1. next \in Run /\ next.markers = {} /\ next.todo = {} /\ next.batch = {}
    BY NoRunType DEF NoRun, Run, Stages, Steps
  <2>2. OneRowEach({}) /\ faults' \in Nat
    BY <1>2 DEF StartDownload, TypeOK, OneRowEach
  <2> HIDE DEF next
  <2> QED
    BY <1>2, <2>1, <2>2, OnlyRunRows DEF StartDownload, next
<1>3. CASE Fail(d)
  <2>1. NoRun \in Run /\ NoRun.markers = {} /\ NoRun.todo = {} /\ NoRun.batch = {}
    BY NoRunType DEF NoRun
  <2>2. OneRowEach({}) /\ faults' \in Nat
    BY <1>3 DEF Fail, TypeOK, OneRowEach
  <2> QED
    BY <1>3, <2>1, <2>2, OnlyRunRows DEF Fail
<1> QED
  BY <1>1, <1>2, <1>3

(* What a push has to send comes from the markers it read. *)
LEMMA SendingType ==
  ASSUME TypeOK, NEW d \in Device, NEW todo \in SUBSET Change, OneRowEach(todo)
  PROVE  /\ Sending(d, todo) \in Run
         /\ OneRowEach(Sending(d, todo).markers)
         /\ OneRowEach(Sending(d, todo).batch)
         /\ OneRowEach(Sending(d, todo).todo)
<1>1. OneRowEach({})
  BY DEF OneRowEach
<1>2. CASE todo = {}
  <2>1. Sending(d, todo) = At(d, "retry", "states")
    BY <1>2 DEF Sending
  <2>2. "retry" \in Stages /\ "states" \in Steps
    BY DEF Stages, Steps
  <2>3. At(d, "retry", "states") \in Run
    BY <2>2, AtType
  <2>4. /\ At(d, "retry", "states").markers = {}
        /\ At(d, "retry", "states").batch = {}
        /\ At(d, "retry", "states").todo = {}
    BY <2>2, AtType
  <2> QED
    BY <1>1, <2>1, <2>3, <2>4
<1>3. CASE todo # {}
  <2>1. Sending(d, todo) = [NoRun EXCEPT !.stage = "push", !.step = "send",
                                         !.todo = todo]
    BY <1>3 DEF Sending
  <2> QED
    BY <1>1, <2>1, NoRunType DEF NoRun, Run, Stages, Steps
<1> QED
  BY <1>2, <1>3

(* The changes a push loads are one for a record, as the markers are. *)
LEMMA LoadRows ==
  ASSUME TypeOK, RunRows, NEW d \in Device, Load(d)
  PROVE  TypeOK' /\ RunRows'
<1> DEFINE kept == {k \in run[d].markers : ~Waits(d, k)}
           todo == {ChangeFor(d, m) : m \in kept}
<1>1. run[d] \in Run /\ OneRowEach(run[d].markers)
  BY DEF TypeOK, RunRows
<1>2. kept \subseteq Marker
  BY <1>1 DEF Run
<1>3. \A m \in kept : /\ ChangeFor(d, m) \in Change
                     /\ ChangeFor(d, m).record = m.record
  BY <1>2 DEF ChangeFor, Change, Marker, Absent, TypeOK
<1>4. todo \in SUBSET Change
  BY <1>3
<1>5. OneRowEach(todo)
  BY <1>1, <1>3 DEF OneRowEach
<1>6. Become(d, Sending(d, todo))
  BY DEF Load
<1>7. faults' \in Nat /\ UNCHANGED <<clock, writes, lastWrite, log, local, cursor>>
  BY DEF Load, TypeOK
<1> HIDE DEF todo
<1> QED
  BY <1>4, <1>5, <1>6, <1>7, SendingType, OnlyRunRows

(* The settled part of a batch, and the batch sent, come from what there is *)
(* to send.                                                                 *)
LEMMA SendRows ==
  ASSUME TypeOK, RunRows, NEW d \in Device, Send(d), run[d].stage = "push"
  PROVE  TypeOK' /\ RunRows'
<1>1. PICK B \in NextBatches(run[d].todo) :
        /\ \E s \in OldestFirst({c \in B : ~Stored(c)}) : log' = log \o s
        /\ Become(d, [run[d] EXCEPT !.step = "settle", !.batch = B,
                                    !.todo = @ \ B])
  BY DEF Send
<1> DEFINE next == [run[d] EXCEPT !.step = "settle", !.batch = B,
                                  !.todo = run[d].todo \ B]
<1>2. /\ run[d] \in Run /\ OneRowEach(run[d].markers) /\ OneRowEach(run[d].todo)
      /\ B \subseteq run[d].todo
  BY DEF TypeOK, RunRows, NextBatches
<1>3. /\ next \in Run /\ next.markers = run[d].markers /\ next.batch = B
      /\ next.todo = run[d].todo \ B
  BY <1>2 DEF Run, Steps
<1>4. OneRowEach(B) /\ OneRowEach(run[d].todo \ B)
  BY <1>2, OneRowSubset
<1> HIDE DEF next
<1>5. run' \in [Device -> Run] /\ RunRows'
  BY <1>1, <1>2, <1>3, <1>4, BecomeType DEF next
<1>6. log' \in Seq(Change)
  <2>1. PICK s \in OldestFirst({c \in B : ~Stored(c)}) : log' = log \o s
    BY <1>1
  <2>2. PICK n \in 0..BatchSize : s \in [1..n -> {c \in B : ~Stored(c)}]
    BY DEF OldestFirst
  <2>3. n \in Nat /\ {c \in B : ~Stored(c)} \subseteq Change
    BY <1>2, SyncAssumption DEF Run
  <2>4. s \in [1..n -> Change]
    BY <2>2, <2>3
  <2> QED
    BY <2>1, <2>3, <2>4, AppendType DEF TypeOK
<1>7. clock' \in Nat /\ UNCHANGED <<writes, lastWrite, local, cursor, faults>>
  BY DEF Send, TypeOK
<1> QED
  BY <1>5, <1>6, <1>7 DEF TypeOK, local

(* The versions after a batch is settled are one for a record. *)
LEMMA SettledRows ==
  ASSUME NEW old \in SUBSET Version, NEW changes \in SUBSET Change,
         OneRowEach(old), OneRowEach(changes)
  PROVE  /\ SettledVersions(old, changes) \in SUBSET Version
         /\ OneRowEach(SettledVersions(old, changes))
<1> DEFINE later == {e \in changes : \A v \in Of(old, e.record) : IsLaterVersion(e, v)}
           new == {VersionOf(c) : c \in later}
<1>1. \A c \in changes : VersionOf(c) \in Version /\ VersionOf(c).record = c.record
  BY DEF VersionOf, Version, Change
<1>2. new \subseteq Version /\ OneRowEach(new)
  BY <1>1 DEF OneRowEach
<1>3. SettledVersions(old, changes) = Without(old, {v.record : v \in new}) \cup new
  BY DEF SettledVersions
<1> HIDE DEF new
<1> QED
  BY <1>2, <1>3 DEF OneRowEach, Without

(* The outbox and the versions a settled batch leaves. *)
LEMMA SettleRows ==
  ASSUME TypeOK, RunRows, NEW d \in Device, Settle(d), run[d].stage = "push"
  PROVE  TypeOK' /\ RunRows'
<1> DEFINE part == SettleNext(run[d].batch)
           rest == run[d].batch \ part
           next == IF rest = {} THEN Sending(d, run[d].todo)
                   ELSE [run[d] EXCEPT !.batch = rest]
<1>1. /\ run[d] \in Run /\ OneRowEach(run[d].markers) /\ OneRowEach(run[d].todo)
      /\ OneRowEach(run[d].batch)
  BY DEF TypeOK, RunRows
<1>2. part \subseteq run[d].batch
  BY DEF SettleNext
<1>3. OneRowEach(part) /\ OneRowEach(rest)
  BY <1>1, <1>2, OneRowSubset
<1>4. next \in Run /\ OneRowEach(next.markers) /\ OneRowEach(next.batch)
      /\ OneRowEach(next.todo)
  <2>1. CASE rest = {}
    BY <1>1, <2>1, SendingType DEF Run
  <2>2. CASE rest # {}
    BY <1>1, <1>3, <2>2 DEF Run
  <2> QED
    BY <2>1, <2>2
<1>5. Become(d, next)
  BY DEF Settle
<1> HIDE DEF next
<1>6. run' \in [Device -> Run] /\ RunRows'
  BY <1>4, <1>5, BecomeType
<1>7. outbox' = [outbox EXCEPT ![d] = SettledOutbox(outbox[d], part)]
  BY DEF Settle
<1>8. SettledOutbox(outbox[d], part) \subseteq outbox[d]
  BY DEF SettledOutbox
<1>9. outbox' \in [Device -> SUBSET Marker] /\ \A e \in Device : OneRowEach(outbox'[e])
  BY <1>7, <1>8, OneRowSubset DEF TypeOK
<1>10. versions' = [versions EXCEPT ![d] = SettledVersions(versions[d], part)]
  BY DEF Settle
<1>11. /\ SettledVersions(versions[d], part) \in SUBSET Version
       /\ OneRowEach(SettledVersions(versions[d], part))
  BY <1>1, <1>2, <1>3, SettledRows DEF TypeOK, Run
<1>12. /\ versions' \in [Device -> SUBSET Version]
       /\ \A e \in Device : OneRowEach(versions'[e])
  BY <1>10, <1>11 DEF TypeOK
<1>13. UNCHANGED <<clock, writes, lastWrite, log, data, held, cursor, faults>>
  BY DEF Settle
<1> QED
  BY <1>6, <1>9, <1>12, <1>13 DEF TypeOK

(* A page lies within the log. *)
LEMMA LastPage ==
  ASSUME TypeOK, NEW d \in Device
  PROVE  LET last == IF cursor[d] + PageSize < Len(log)
                     THEN cursor[d] + PageSize ELSE Len(log)
         IN  last \in Nat /\ last <= Len(log)
BY SyncAssumption, LenProperties DEF TypeOK

(* What a page has comes from the log. *)
LEMMA PageLogged ==
  ASSUME TypeOK, NEW d \in Device, NEW last \in Nat, last <= Len(log)
  PROVE  PageUpTo(d, last) \subseteq Logged
<1>1. DOMAIN log = 1 .. Len(log) /\ Len(log) \in Nat
  BY LenProperties DEF TypeOK
<1>2. cursor[d] + 1 .. last \subseteq DOMAIN log
  BY <1>1 DEF TypeOK
<1> QED
  BY <1>2 DEF PageUpTo, Logged

(* What is logged are changes. *)
LEMMA LogType ==
  ASSUME TypeOK
  PROVE  Logged \subseteq Change
<1>1. log \in Seq(Change)
  BY DEF TypeOK
<1> QED
  BY <1>1, ElementOfSeq, LenProperties DEF Logged

(* What a round reads has its type. *)
LEMMA ReadRows ==
  ASSUME TypeOK, RunRows, StagesFit, NEW d \in Device,
         Fetch(d) \/ ReadStates(d) \/ ListBooks(d)
  PROVE  TypeOK' /\ RunRows'
<1>1. /\ run[d] \in Run /\ OneRowEach(run[d].markers) /\ OneRowEach(run[d].batch)
      /\ OneRowEach(outbox[d]) /\ outbox[d] \in SUBSET Marker
      /\ versions[d] \in SUBSET Version /\ held[d] \in SUBSET Change
  BY DEF TypeOK, RunRows
<1>2. run[d].stage # "push"
  BY DEF StagesFit, Fetch, ReadStates, ListBooks
<1>3. faults' \in Nat /\ UNCHANGED <<clock, writes, lastWrite, log, local, cursor>>
  BY DEF Fetch, ReadStates, ListBooks, TypeOK
<1>4. CASE Fetch(d)
  <2> DEFINE last == IF cursor[d] + PageSize < Len(log)
                     THEN cursor[d] + PageSize ELSE Len(log)
             todo == Winners(PageUpTo(d, last))
             more == Len(log) > last
             next == [run[d] EXCEPT !.step = "states", !.todo = todo,
                                    !.next = last, !.more = more]
  <2>1. last \in Nat
    BY LastPage
  <2>3. PageUpTo(d, last) \subseteq Logged
    BY LastPage, PageLogged
  <2>2. todo \subseteq Change /\ more \in BOOLEAN
    BY <2>3, LogType DEF Winners
  <2>4. Become(d, next)
    BY <1>4 DEF Fetch
  <2> HIDE DEF last, todo, more
  <2>5. next \in Run /\ next.markers = run[d].markers /\ next.batch = run[d].batch
        /\ next.stage = run[d].stage
    BY <1>1, <2>1, <2>2 DEF Run, Steps
  <2> HIDE DEF next
  <2> QED
    BY <1>1, <1>2, <1>3, <2>4, <2>5, OnlyRunRows
<1>5. CASE ReadStates(d)
  <2> DEFINE next == [run[d] EXCEPT !.step = "books", !.markers = outbox[d],
                                    !.versions = versions[d]]
  <2>1. next \in Run /\ next.markers = outbox[d] /\ next.batch = run[d].batch
        /\ next.stage = run[d].stage
    BY <1>1 DEF Run, Steps
  <2>2. Become(d, next)
    BY <1>5 DEF ReadStates
  <2> HIDE DEF next
  <2> QED
    BY <1>1, <1>2, <1>3, <2>1, <2>2, OnlyRunRows
<1>6. CASE ListBooks(d)
  <2> DEFINE todo == IF run[d].stage = "pull" THEN run[d].todo ELSE held[d]
             next == [run[d] EXCEPT !.step = "apply", !.shelf = Shelf(d),
                                    !.todo = todo]
  <2>1. Shelf(d) \subseteq Record
    BY DEF Shelf
  <2>2. todo \in SUBSET Change
    BY <1>1 DEF Run
  <2>3. Become(d, next)
    BY <1>6 DEF ListBooks
  <2> HIDE DEF todo
  <2>4. next \in Run /\ next.markers = run[d].markers /\ next.batch = run[d].batch
        /\ next.stage = run[d].stage
    BY <1>1, <2>1, <2>2 DEF Run, Steps
  <2> HIDE DEF next
  <2> QED
    BY <1>1, <1>2, <1>3, <2>3, <2>4, OnlyRunRows
<1> QED
  BY <1>4, <1>5, <1>6

(* The end of a round or of a run. *)
LEMMA EndRows ==
  ASSUME TypeOK, RunRows, NEW d \in Device,
         EndRound(d) \/ SaveCursor(d) \/ DownloadsDone(d)
  PROVE  TypeOK' /\ RunRows'
<1>1. PICK next : /\ Become(d, next)
                  /\ \/ next = NoRun
                     \/ \E stage \in Stages, step \in Steps : next = At(d, stage, step)
  BY DEF EndRound, AfterRound, SaveCursor, DownloadsDone, Stages, Steps
<1>2. /\ next \in Run /\ next.markers = {} /\ next.batch = {} /\ next.todo = {}
  <2>1. CASE next = NoRun
    BY <2>1, NoRunType DEF NoRun
  <2>2. ASSUME NEW stage \in Stages, NEW step \in Steps, next = At(d, stage, step)
        PROVE  next \in Run /\ next.markers = {} /\ next.batch = {} /\ next.todo = {}
    BY <2>2, AtType
  <2> QED
    BY <1>1, <2>1, <2>2
<1>3. OneRowEach({})
  BY DEF OneRowEach
<1>4. run' \in [Device -> Run] /\ RunRows'
  BY <1>1, <1>2, <1>3, BecomeType
<1>5. run[d].next \in Nat
  BY DEF TypeOK, Run
<1>6. cursor' \in [Device -> Nat] /\ faults' \in Nat
      /\ UNCHANGED <<clock, writes, lastWrite, log, local>>
  BY <1>5 DEF EndRound, SaveCursor, DownloadsDone, TypeOK
<1> QED
  BY <1>4, <1>6 DEF TypeOK, local

(* A change reconciled is one of those the run has. *)
LEMMA ReconcileRows ==
  ASSUME TypeOK, RunRows, StagesFit, NEW d \in Device, NEW c \in run[d].todo,
         Drop(d, c) \/ Hold(d, c) \/ Apply(d, c)
  PROVE  TypeOK' /\ RunRows'
<1>1. /\ run[d] \in Run /\ OneRowEach(run[d].markers) /\ OneRowEach(run[d].batch)
      /\ OneRowEach(versions[d]) /\ OneRowEach(outbox[d]) /\ OneRowEach(held[d])
      /\ held[d] \in SUBSET Change /\ versions[d] \in SUBSET Version
      /\ outbox[d] \in SUBSET Marker
  BY DEF TypeOK, RunRows
<1>2. c \in Change
  BY <1>1 DEF Run
<1>3. run[d].stage # "push"
  BY DEF StagesFit, Drop, Hold, Apply, Reconciles
<1>4. /\ OneRowEach(Without(held[d], {c.record})) /\ OneRowEach(Put(held[d], c))
      /\ Without(held[d], {c.record}) \subseteq Change
      /\ Put(held[d], c) \subseteq Change
  BY <1>1, <1>2, OneRowPut, OneRowWithout DEF Put, Without
<1>5. ASSUME Drop(d, c) \/ Hold(d, c)
      PROVE  TypeOK' /\ RunRows'
  <2> DEFINE next == [run[d] EXCEPT !.todo = run[d].todo \ {c}]
  <2>1. next \in Run /\ next.markers = run[d].markers /\ next.batch = run[d].batch
        /\ next.stage = run[d].stage
    BY <1>1 DEF Run
  <2>2. Become(d, next)
    BY <1>5 DEF Drop, Hold, Done
  <2> HIDE DEF next
  <2>3. run' \in [Device -> Run] /\ RunRows'
    BY <1>1, <1>3, <2>1, <2>2, BecomeType
  <2>4. \/ held' = held
        \/ held' = [held EXCEPT ![d] = Without(held[d], {c.record})]
        \/ held' = [held EXCEPT ![d] = Put(held[d], c)]
    BY <1>5 DEF Drop, Hold
  <2>5. held' \in [Device -> SUBSET Change] /\ \A e \in Device : OneRowEach(held'[e])
    BY <1>4, <2>4 DEF TypeOK
  <2>6. UNCHANGED <<clock, writes, lastWrite, log, data, outbox, versions, cursor,
                    faults>>
    BY <1>5 DEF Drop, Hold
  <2> QED
    BY <2>3, <2>5, <2>6 DEF TypeOK
<1>6. ASSUME Apply(d, c)
      PROVE  TypeOK' /\ RunRows'
  <2> DEFINE shelf == IF c.data = Absent THEN run[d].shelf \ {c.record} ELSE run[d].shelf
             kept == Of(held[d], c.record) # {}
             step == IF kept THEN "release" ELSE "apply"
             batch == IF kept THEN {c} ELSE {}
             next == [run[d] EXCEPT !.todo = run[d].todo \ {c}, !.shelf = shelf,
                                    !.step = step, !.batch = batch]
  <2>1. Become(d, next)
    BY <1>6 DEF Apply
  <2>2. /\ shelf \subseteq Record /\ step \in Steps /\ batch \subseteq Change
        /\ OneRowEach(batch)
    BY <1>1, <1>2 DEF Run, Steps, OneRowEach
  <2> HIDE DEF shelf, step, batch, kept
  <2>3. next \in Run /\ next.markers = run[d].markers /\ next.batch = batch
        /\ next.stage = run[d].stage
    BY <1>1, <2>2 DEF Run
  <2> HIDE DEF next
  <2>4. run' \in [Device -> Run] /\ RunRows'
    BY <1>1, <1>3, <2>1, <2>2, <2>3, BecomeType
  <2>5. VersionOf(c) \in Version
    BY <1>2 DEF VersionOf, Version, Change
  <2>6. /\ Put(versions[d], VersionOf(c)) \in SUBSET Version
        /\ OneRowEach(Put(versions[d], VersionOf(c)))
        /\ Without(outbox[d], {c.record}) \in SUBSET Marker
        /\ OneRowEach(Without(outbox[d], {c.record}))
    BY <1>1, <2>5, OneRowPut, OneRowWithout DEF Put, Without
  <2>7. /\ versions' = [versions EXCEPT ![d] = Put(versions[d], VersionOf(c))]
        /\ outbox' = [outbox EXCEPT ![d] = Without(outbox[d], {c.record})]
        /\ data' = [data EXCEPT ![d] = [r \in Record |->
                      IF r \in Touches(d, c) THEN c.data ELSE data[d][r]]]
        /\ UNCHANGED <<clock, writes, lastWrite, log, held, cursor, faults>>
    BY <1>6 DEF Apply
  <2>8. /\ versions' \in [Device -> SUBSET Version]
        /\ \A e \in Device : OneRowEach(versions'[e])
    BY <2>6, <2>7 DEF TypeOK
  <2>9. /\ outbox' \in [Device -> SUBSET Marker]
        /\ \A e \in Device : OneRowEach(outbox'[e])
    BY <2>6, <2>7 DEF TypeOK
  <2>10. c.data \in Nat
    BY <1>2 DEF Change
  <2>11. data' \in [Device -> [Record -> Nat]]
    BY <2>7, <2>10 DEF TypeOK
  <2> QED
    BY <2>4, <2>7, <2>8, <2>9, <2>11 DEF TypeOK
<1> QED
  BY <1>5, <1>6

(* What stays of the changes kept aside. *)
LEMMA ReleaseRows ==
  ASSUME TypeOK, RunRows, StagesFit, NEW d \in Device, Release(d)
  PROVE  TypeOK' /\ RunRows'
<1> DEFINE next == [run[d] EXCEPT !.step = "apply", !.batch = {}]
           R == {c.record : c \in run[d].batch}
<1>1. /\ run[d] \in Run /\ OneRowEach(run[d].markers) /\ OneRowEach({})
      /\ run[d].stage # "push" /\ OneRowEach(held[d])
  BY DEF TypeOK, RunRows, OneRowEach, StagesFit, Release
<1>2. next \in Run /\ next.markers = run[d].markers /\ next.batch = {}
      /\ next.stage = run[d].stage
  BY <1>1 DEF Run, Steps
<1>3. Become(d, next) /\ held' = [held EXCEPT ![d] = Without(held[d], R)]
      /\ UNCHANGED <<clock, writes, lastWrite, log, data, outbox, versions, cursor,
                     faults>>
  BY DEF Release
<1> HIDE DEF next, R
<1>4. run' \in [Device -> Run] /\ RunRows'
  BY <1>1, <1>2, <1>3, BecomeType
<1>5. OneRowEach(Without(held[d], R)) /\ Without(held[d], R) \subseteq held[d]
  BY <1>1, OneRowWithout DEF Without
<1>6. held' \in [Device -> SUBSET Change] /\ \A e \in Device : OneRowEach(held'[e])
  BY <1>3, <1>5 DEF TypeOK
<1> QED
  BY <1>3, <1>4, <1>6 DEF TypeOK

(* A download is a write, and the run remembers it. *)
LEMMA DownloadRows ==
  ASSUME TypeOK, RunRows, StagesFit, NEW d \in Device, NEW b \in Record, Download(d, b)
  PROVE  TypeOK' /\ RunRows'
<1> DEFINE next == [run[d] EXCEPT !.got = TRUE]
<1>1. run[d] \in Run /\ OneRowEach(run[d].markers) /\ OneRowEach(run[d].batch)
      /\ run[d].stage # "push"
  BY DEF TypeOK, RunRows, StagesFit, Download
<1>2. next \in Run /\ next.markers = run[d].markers /\ next.batch = run[d].batch
      /\ next.stage = run[d].stage
  BY <1>1 DEF Run
<1>3. Become(d, next)
  BY DEF Download
<1> HIDE DEF next
<1>4. run' \in [Device -> Run] /\ RunRows'
  BY <1>1, <1>2, <1>3, BecomeType
<1>5. PICK at \in Now : Write(d, RowsOf(b), FALSE, at)
  BY DEF Download
<1> QED
  BY <1>4, <1>5, NowType, RowsOfType, WriteType

(* A run is in the push exactly while it loads, sends or settles. *)
LEMMA StagesFitStep ==
  ASSUME TypeOK, StagesFit, Next
  PROVE  StagesFit'
<1>1. PICK d \in Device :
        UserStep(d) \/ StartSync(d) \/ StartDownload(d) \/ SyncStep(d) \/ Fail(d)
  BY DEF Next
<1>2. ASSUME NEW next, Become(d, next),
             next.stage = "push" <=> next.step \in {"load", "send", "settle"}
      PROVE  StagesFit'
  BY <1>2 DEF Become, StagesFit, TypeOK
<1>3. /\ run[d] \in Run
      /\ run[d].stage = "push" <=> run[d].step \in {"load", "send", "settle"}
  BY DEF TypeOK, StagesFit
<1>4. NoRun.stage = "none" /\ NoRun.step = "idle"
  BY DEF NoRun
<1>5. \A stage \in Stages, step \in Steps :
        At(d, stage, step).stage = stage /\ At(d, stage, step).step = step
  BY AtType
<1>6. CASE UserStep(d)
  BY <1>6 DEF UserStep, Edit, Erase, AddBook, RemoveBook, UserWrites, StagesFit
<1>7. CASE StartSync(d)
  BY <1>2, <1>7 DEF StartSync, NoRun
<1>8. CASE StartDownload(d)
  BY <1>2, <1>8 DEF StartDownload, NoRun
<1>9. CASE Fail(d)
  BY <1>2, <1>4, <1>9 DEF Fail
<1>10. CASE PushStep(d)
  <2>1. CASE Send(d)
    BY <1>2, <1>3, <2>1 DEF Send, Run
  <2>2. CASE Load(d) \/ Settle(d)
    <3>1. \A todo : \/ Sending(d, todo) = At(d, "retry", "states")
                    \/ /\ Sending(d, todo).stage = "push"
                       /\ Sending(d, todo).step = "send"
      BY DEF Sending, NoRun
    <3>2. \A todo : LET n == Sending(d, todo) IN
                    n.stage = "push" <=> n.step \in {"load", "send", "settle"}
      BY <1>5, <3>1 DEF Stages, Steps
    <3>3. CASE Load(d)
      BY <1>2, <3>2, <3>3 DEF Load
    <3>4. CASE Settle(d)
      BY <1>2, <1>3, <3>2, <3>4 DEF Settle, Run
    <3> QED
      BY <2>2, <3>3, <3>4
  <2> QED
    BY <1>10, <2>1, <2>2 DEF PushStep
<1>11. CASE RoundStep(d)
  <2>1. CASE Fetch(d) \/ ReadStates(d) \/ ListBooks(d) \/ Release(d)
    BY <1>2, <1>3, <2>1 DEF Fetch, ReadStates, ListBooks, Release, Run
  <2>2. ASSUME NEW c \in run[d].todo, Drop(d, c) \/ Hold(d, c) \/ Apply(d, c)
        PROVE  StagesFit'
    <3>1. CASE Drop(d, c) \/ Hold(d, c)
      BY <1>2, <1>3, <3>1 DEF Drop, Hold, Done, Reconciles, Run
    <3>2. CASE Apply(d, c)
      BY <1>2, <1>3, <3>2 DEF Apply, Reconciles, Run
    <3> QED
      BY <2>2, <3>1, <3>2
  <2>3. CASE EndRound(d)
    BY <1>2, <1>4, <1>5, <2>3 DEF EndRound, AfterRound, Stages, Steps
  <2>4. CASE SaveCursor(d)
    BY <1>2, <1>5, <2>4 DEF SaveCursor, Stages, Steps
  <2> QED
    BY <1>11, <2>1, <2>2, <2>3, <2>4 DEF RoundStep
<1>12. CASE DownloadStep(d)
  <2>1. CASE DownloadsDone(d)
    BY <1>2, <1>4, <1>5, <2>1 DEF DownloadsDone, Stages, Steps
  <2>2. ASSUME NEW b \in Record, Download(d, b) PROVE StagesFit'
    BY <1>2, <1>3, <2>2 DEF Download, Run
  <2> QED
    BY <1>12, <2>1, <2>2 DEF DownloadStep
<1> QED
  BY <1>1, <1>6, <1>7, <1>8, <1>9, <1>10, <1>11, <1>12 DEF SyncStep
-------------------------------------------------------------------------------
(* One id is one change, and a version held is that of a logged change.     *)

(* What the stamps are: those of the markers and those of the changes.      *)
LEMMA StampMembers ==
  /\ \A e \in Device : Marks(e) \subseteq Stamps
  /\ \A c \in Changes : StampOf(c) \in Stamps
  /\ \A x \in Stamps : \/ \E e \in Device : x \in Marks(e)
                       \/ \E c \in Changes : x = StampOf(c)
BY DEF Stamps

(* What the changes are. *)
LEMMA ChangeMembers ==
  /\ Logged \subseteq Changes
  /\ \A e \in Device : run[e].todo \cup run[e].batch \cup held[e] \subseteq Changes
  /\ \A c \in Changes : \/ c \in Logged
                        \/ \E e \in Device :
                             c \in run[e].todo \cup run[e].batch \cup held[e]
BY DEF Changes

(* A step that writes no record has no stamps but those there were. *)
LEMMA MovesStamps ==
  ASSUME TypeOK, NEW d \in Device, NEW next, Moves(d, next)
  PROVE  Stamps' \subseteq Stamps
<1>1. \A e \in Device : run'[e] = IF e = d THEN next ELSE run[e]
  BY DEF Moves, Become, TypeOK
<1>2. ASSUME NEW e \in Device
      PROVE  Marks(e)' \subseteq Marks(e)
  <2>1. outbox'[e] \cup run'[e].markers \subseteq outbox[e] \cup run[e].markers
    BY <1>1 DEF Moves
  <2> QED
    BY <2>1 DEF Marks
<1>3. ASSUME NEW c \in Changes'
      PROVE  StampOf(c) \in Stamps
  <2>1. CASE c \in Logged'
    <3>1. c \in Changes
      BY <2>1, ChangeMembers DEF Moves
    <3> QED
      BY <3>1, StampMembers
  <2>2. ASSUME NEW e \in Device, c \in run'[e].todo \cup run'[e].batch \cup held'[e]
        PROVE  StampOf(c) \in Stamps
    <3>1. CASE c \in held'[e]
      <4>1. c \in held[e] \cup run[d].todo
        BY <3>1 DEF Moves
      <4> QED
        BY <4>1, ChangeMembers, StampMembers
    <3>2. CASE c \in run'[e].todo \cup run'[e].batch
      <4>1. CASE e = d
        BY <1>1, <3>2, <4>1 DEF Moves
      <4>2. CASE e # d
        <5>1. c \in Changes
          BY <1>1, <3>2, <4>2, ChangeMembers
        <5> QED
          BY <5>1, StampMembers
      <4> QED
        BY <4>1, <4>2
    <3> QED
      BY <2>2, <3>1, <3>2
  <2>3. c \in Logged' \/ \E e \in Device : c \in run'[e].todo \cup run'[e].batch \cup held'[e]
    BY <1>3 DEF Changes
  <2> QED
    BY <2>1, <2>2, <2>3
<1>4. \A c : StampOf(c)' = StampOf(c)
  BY DEF StampOf
<1>5. ASSUME NEW x \in Stamps'
      PROVE  x \in Stamps
  <2>1. (\E e \in Device : x \in Marks(e)') \/ \E c \in Changes' : x = StampOf(c)
    BY <1>5 DEF Stamps, StampOf
  <2> QED
    BY <1>2, <1>3, <2>1, StampMembers
<1> QED
  BY <1>5

(* Such a step keeps one id one change, and every version logged. *)
LEMMA MovesInv ==
  ASSUME Inv, NEW d \in Device, NEW next, Moves(d, next)
  PROVE  StampsAgree' /\ InFlight' /\ VersionsAreLogged'
<1>1. \A e \in Device : run'[e] = IF e = d THEN next ELSE run[e]
  BY DEF Moves, Become, TypeOK, Inv
<1>2. StampsAgree'
  <2>1. Stamps' \subseteq Stamps /\ writes' = writes
    BY MovesStamps DEF Moves, Inv
  <2> QED
    BY <2>1 DEF StampsAgree, Inv
<1>3. ASSUME NEW e \in Device
      PROVE  /\ run'[e].stage = "push" => \A c \in run'[e].batch :
                  \E f \in Logged' : VersionOf(f) = VersionOf(c)
             /\ run'[e].stage # "push" => run'[e].todo \subseteq Logged'
             /\ held'[e] \subseteq Logged'
  <2>1. CASE e = d
    BY <1>1, <2>1 DEF Moves, InFlight, Inv
  <2>2. CASE e # d
    BY <1>1, <2>2 DEF Moves, InFlight, Inv
  <2> QED
    BY <2>1, <2>2
<1>4. ASSUME NEW e \in Device, NEW v \in versions'[e]
      PROVE  \E c \in Logged' : VersionOf(c) = v
  <2>1. CASE v \in versions[e]
    BY <2>1 DEF Moves, VersionsAreLogged, Inv
  <2>2. CASE run[d].stage = "push" /\ \E c \in run[d].batch : v = VersionOf(c)
    BY <2>2 DEF Moves, InFlight, Inv
  <2>3. CASE run[d].stage # "push" /\ \E c \in run[d].todo : v = VersionOf(c)
    BY <2>3 DEF Moves, InFlight, Inv
  <2> QED
    BY <2>1, <2>2, <2>3 DEF Moves
<1> QED
  BY <1>2, <1>3, <1>4 DEF InFlight, VersionsAreLogged

(* The stamps a write makes. *)
FreshStamps(d, R, at) ==
  {[record |-> r, id |-> writes + 1, at |-> at + Skew[d], device |-> d] : r \in R}

(* A write makes these stamps, and no changes. *)
LEMMA WriteStamps ==
  ASSUME Inv, NEW d \in Device, NEW R \in SUBSET Record, NEW deleted \in BOOLEAN,
         NEW at \in Nat, Write(d, R, deleted, at),
         \A e \in Device : /\ run'[e].markers = run[e].markers
                           /\ run'[e].todo = run[e].todo
                           /\ run'[e].batch = run[e].batch
  PROVE  /\ Stamps' \subseteq Stamps \cup FreshStamps(d, R, at)
         /\ Logged' = Logged /\ Changes' = Changes
<1> DEFINE rows == {[record |-> r, id |-> writes + 1, at |-> at + Skew[d],
                     deleted |-> deleted] : r \in R}
           fresh == FreshStamps(d, R, at)
<1>1. Logged' = Logged /\ held' = held
  BY DEF Write, Logged
<1>2. Changes' = Changes
  BY <1>1 DEF Changes
<1>3. outbox' = [outbox EXCEPT ![d] = Without(outbox[d], R) \cup rows]
  BY DEF Write
<1>4. ASSUME NEW e \in Device
      PROVE  Marks(e)' \subseteq Marks(e) \cup fresh
  <2>1. CASE e = d
    <3>1. outbox'[e] \subseteq outbox[e] \cup rows
      BY <1>3, <2>1 DEF Inv, TypeOK, Without
    <3>2. run'[e].markers = run[e].markers
      OBVIOUS
    <3>3. ASSUME NEW m \in outbox'[e] \cup run'[e].markers
          PROVE  [record |-> m.record, id |-> m.id, at |-> m.at, device |-> e]
                   \in Marks(e) \cup fresh
      <4>1. CASE m \in rows
        BY <2>1, <4>1 DEF FreshStamps
      <4>2. CASE m \in outbox[e] \cup run[e].markers
        BY <4>2 DEF Marks
      <4> QED
        BY <3>1, <3>2, <4>1, <4>2
    <3> QED
      BY <3>3 DEF Marks
  <2>2. CASE e # d
    <3>1. outbox'[e] = outbox[e]
      BY <1>3, <2>2 DEF Inv, TypeOK
    <3> QED
      BY <3>1 DEF Marks
  <2> QED
    BY <2>1, <2>2
<1>5. Stamps' \subseteq Stamps \cup fresh
  BY <1>2, <1>4 DEF Stamps, StampOf
<1> QED
  BY <1>1, <1>2, <1>5

(* What a stamp is. *)
LEMMA StampType ==
  ASSUME TypeOK
  PROVE  /\ Changes \subseteq Change
         /\ Stamps \subseteq [record : Record, id : Nat, at : Nat, device : Device]
<1>1. \A e \in Device : outbox[e] \cup run[e].markers \subseteq Marker
  BY DEF TypeOK, Run
<1>2. Changes \subseteq Change
  BY LogType DEF Changes, TypeOK, Run
<1>3. \A e \in Device :
        Marks(e) \subseteq [record : Record, id : Nat, at : Nat, device : Device]
  BY <1>1 DEF Marks, Marker
<1>4. \A c \in Changes :
        StampOf(c) \in [record : Record, id : Nat, at : Nat, device : Device]
  BY <1>2 DEF StampOf, Change
<1> QED
  BY <1>2, <1>3, <1>4, StampMembers

(* A write has an id of its own. *)
LEMMA WriteInv ==
  ASSUME Inv, NEW d \in Device, NEW R \in SUBSET Record, NEW deleted \in BOOLEAN,
         NEW at \in Nat, Write(d, R, deleted, at),
         \A e \in Device : /\ run'[e].markers = run[e].markers
                           /\ run'[e].todo = run[e].todo
                           /\ run'[e].batch = run[e].batch
                           /\ run'[e].stage = run[e].stage
  PROVE  StampsAgree' /\ InFlight' /\ VersionsAreLogged'
<1> DEFINE fresh == FreshStamps(d, R, at)
<1>1. /\ held' = held /\ versions' = versions
      /\ writes' = writes + 1 /\ writes \in Nat
  BY DEF Write, Inv, TypeOK
<1>5. Stamps' \subseteq Stamps \cup fresh /\ Logged' = Logged
  BY WriteStamps
<1>6. \A x \in fresh : x.id = writes + 1
  BY DEF FreshStamps
<1>7. \A x, y \in fresh : x.record = y.record => x = y
  BY DEF FreshStamps
<1>8. \A x \in Stamps : x.id <= writes /\ x.id \in Int
  BY StampType DEF StampsAgree, Inv
<1> HIDE DEF fresh
<1>9. StampsAgree'
  <2>1. \A x \in Stamps' : x.id <= writes'
    BY <1>1, <1>5, <1>6, <1>8
  <2>2. ASSUME NEW x \in Stamps', NEW y \in Stamps', x.record = y.record, x.id = y.id
        PROVE  x = y
    <3>1. CASE x \in Stamps /\ y \in Stamps
      BY <2>2, <3>1 DEF StampsAgree, Inv
    <3>2. CASE x \in fresh /\ y \in fresh
      BY <1>7, <2>2, <3>2
    <3>3. CASE x \in Stamps /\ y \in fresh
      BY <1>1, <1>6, <1>8, <2>2, <3>3
    <3>4. CASE x \in fresh /\ y \in Stamps
      BY <1>1, <1>6, <1>8, <2>2, <3>4
    <3> QED
      BY <1>5, <3>1, <3>2, <3>3, <3>4
  <2> QED
    BY <2>1, <2>2 DEF StampsAgree
<1>10. InFlight'
  BY <1>1, <1>5 DEF InFlight, Inv
<1>11. VersionsAreLogged'
  BY <1>1, <1>5 DEF VersionsAreLogged, Inv
<1> QED
  BY <1>9, <1>10, <1>11
-------------------------------------------------------------------------------
(* Every step that writes no record moves so. *)

(* A change in memory or kept aside, or a marker, has its stamp. *)
LEMMA StampsHere ==
  ASSUME NEW d \in Device
  PROVE  /\ \A c \in run[d].todo \cup run[d].batch \cup held[d] \cup Logged :
              StampOf(c) \in Stamps
         /\ \A m \in outbox[d] \cup run[d].markers :
              StampOf(ChangeFor(d, m)) \in Stamps
<1>1. \A c \in run[d].todo \cup run[d].batch \cup held[d] \cup Logged : c \in Changes
  BY ChangeMembers
<1>2. \A m \in outbox[d] \cup run[d].markers : StampOf(ChangeFor(d, m)) \in Marks(d)
  BY DEF Marks, StampOf, ChangeFor
<1> QED
  BY <1>1, <1>2, StampMembers

(* A step that changes only what the run has in memory. *)
LEMMA QuietMoves ==
  ASSUME Inv, NEW d \in Device, NEW next, Become(d, next),
         UNCHANGED <<log, outbox, versions, held, writes>>,
         next.markers \subseteq outbox[d] \cup run[d].markers,
         \A c \in next.todo \cup next.batch : StampOf(c) \in Stamps,
         next.stage = "push" =>
           next.batch = {} \/ (run[d].stage = "push" /\ next.batch \subseteq run[d].batch),
         next.stage # "push" => next.todo \subseteq Logged
  PROVE  Moves(d, next)
<1>1. Logged' = Logged
  BY DEF Logged
<1>2. next.stage = "push" =>
        \A c \in next.batch : \E e \in Logged' : VersionOf(e) = VersionOf(c)
  BY <1>1 DEF Inv, InFlight
<1> QED
  BY <1>1, <1>2 DEF Moves

(* A run that begins, ends, or goes from one use case to the next. *)
LEMMA FreshMoves ==
  ASSUME Inv, NEW d \in Device,
         \/ StartSync(d) \/ StartDownload(d) \/ Fail(d)
         \/ EndRound(d) \/ SaveCursor(d) \/ DownloadsDone(d)
  PROVE  \E next : Moves(d, next)
<1>1. UNCHANGED <<log, outbox, versions, held, writes>>
  BY DEF StartSync, StartDownload, Fail, EndRound, SaveCursor, DownloadsDone, local
<1>2. PICK next : /\ Become(d, next) /\ next.todo = {} /\ next.batch = {}
                  /\ next.markers \subseteq outbox[d]
  <2>1. CASE StartSync(d)
    <3> DEFINE first == [NoRun EXCEPT !.stage = "push", !.step = "load",
                                      !.markers = outbox[d]]
    <3>1. Become(d, first)
      BY <2>1 DEF StartSync
    <3>2. first.todo = {} /\ first.batch = {} /\ first.markers = outbox[d]
      BY DEF NoRun
    <3> HIDE DEF first
    <3> QED
      BY <3>1, <3>2
  <2>2. CASE StartDownload(d)
    BY <2>2 DEF StartDownload, NoRun
  <2>3. CASE Fail(d)
    BY <2>3 DEF Fail, NoRun
  <2>4. CASE EndRound(d) \/ SaveCursor(d) \/ DownloadsDone(d)
    <3>1. PICK next : /\ Become(d, next)
                      /\ \/ next = NoRun
                         \/ \E stage \in Stages, step \in Steps :
                              next = At(d, stage, step)
      BY <2>4 DEF EndRound, AfterRound, SaveCursor, DownloadsDone, Stages, Steps
    <3>2. NoRun.todo = {} /\ NoRun.batch = {} /\ NoRun.markers = {}
      BY DEF NoRun
    <3> QED
      BY <3>1, <3>2, AtType DEF Inv
  <2> QED
    BY <2>1, <2>2, <2>3, <2>4
<1> QED
  BY <1>1, <1>2, QuietMoves

(* The records a push names are those of markers it read. *)
LEMMA LoadMoves ==
  ASSUME Inv, NEW d \in Device, Load(d)
  PROVE  \E next : Moves(d, next)
<1> DEFINE todo == {ChangeFor(d, m) : m \in {k \in run[d].markers : ~Waits(d, k)}}
           next == Sending(d, todo)
<1>1. /\ Become(d, next)
      /\ UNCHANGED <<log, outbox, versions, held, writes>>
  BY DEF Load, local
<1>2. \A c \in todo : StampOf(c) \in Stamps
  BY StampsHere
<1> HIDE DEF todo
<1>3. CASE todo = {}
  <2>1. next = At(d, "retry", "states") /\ "retry" \in Stages /\ "states" \in Steps
    BY <1>3 DEF Sending, Stages, Steps
  <2>2. next.todo = {} /\ next.batch = {} /\ next.markers = {}
    BY <2>1, AtType DEF Inv
  <2> HIDE DEF next
  <2> QED
    BY <1>1, <2>2, QuietMoves
<1>4. CASE todo # {}
  <2>1. next.todo = todo /\ next.batch = {} /\ next.markers = {} /\ next.stage = "push"
    BY <1>4 DEF Sending, NoRun
  <2> HIDE DEF next
  <2> QED
    BY <1>1, <1>2, <2>1, QuietMoves
<1> QED
  BY <1>3, <1>4

(* What a round reads comes from the log, or was kept aside. *)
LEMMA ReadMoves ==
  ASSUME Inv, NEW d \in Device, Fetch(d) \/ ReadStates(d) \/ ListBooks(d)
  PROVE  \E next : Moves(d, next)
<1>1. run[d] \in Run /\ run[d].stage # "push"
  BY DEF Inv, TypeOK, StagesFit, Fetch, ReadStates, ListBooks
<1>2. UNCHANGED <<log, outbox, versions, held, writes>>
  BY DEF Fetch, ReadStates, ListBooks, local
<1>3. held[d] \subseteq Logged /\ run[d].todo \subseteq Logged
  BY <1>1 DEF Inv, InFlight
<1>4. CASE Fetch(d)
  <2> DEFINE last == IF cursor[d] + PageSize < Len(log)
                     THEN cursor[d] + PageSize ELSE Len(log)
             todo == Winners(PageUpTo(d, last))
             more == Len(log) > last
             next == [run[d] EXCEPT !.step = "states", !.todo = todo,
                                    !.next = last, !.more = more]
  <2>1. todo \subseteq Logged
    BY LastPage, PageLogged DEF Winners, Inv
  <2>2. Become(d, next)
    BY <1>4 DEF Fetch
  <2> HIDE DEF last, todo, more
  <2>3. /\ next.todo = todo /\ next.batch = run[d].batch
        /\ next.markers = run[d].markers /\ next.stage = run[d].stage
    BY <1>1 DEF Run
  <2> HIDE DEF next
  <2> QED
    BY <1>1, <1>2, <2>1, <2>2, <2>3, StampsHere, QuietMoves
<1>5. CASE ReadStates(d)
  <2> DEFINE next == [run[d] EXCEPT !.step = "books", !.markers = outbox[d],
                                    !.versions = versions[d]]
  <2>1. /\ next.todo = run[d].todo /\ next.batch = run[d].batch
        /\ next.markers = outbox[d] /\ next.stage = run[d].stage
    BY <1>1 DEF Run
  <2>2. Become(d, next)
    BY <1>5 DEF ReadStates
  <2> HIDE DEF next
  <2> QED
    BY <1>1, <1>2, <1>3, <2>1, <2>2, StampsHere, QuietMoves
<1>6. CASE ListBooks(d)
  <2> DEFINE todo == IF run[d].stage = "pull" THEN run[d].todo ELSE held[d]
             next == [run[d] EXCEPT !.step = "apply", !.shelf = Shelf(d),
                                    !.todo = todo]
  <2>1. todo \subseteq Logged
    BY <1>3
  <2>2. Become(d, next)
    BY <1>6 DEF ListBooks
  <2> HIDE DEF todo
  <2>3. /\ next.todo = todo /\ next.batch = run[d].batch
        /\ next.markers = run[d].markers /\ next.stage = run[d].stage
    BY <1>1 DEF Run
  <2> HIDE DEF next
  <2> QED
    BY <1>1, <1>2, <2>1, <2>2, <2>3, StampsHere, QuietMoves
<1> QED
  BY <1>4, <1>5, <1>6

(* What a push sends is logged, by this batch or by an earlier one. *)
LEMMA SendMoves ==
  ASSUME Inv, NEW d \in Device, Send(d)
  PROVE  \E next : Moves(d, next)
<1>1. PICK B \in NextBatches(run[d].todo) :
        /\ \E s \in OldestFirst({c \in B : ~Stored(c)}) : log' = log \o s
        /\ Become(d, [run[d] EXCEPT !.step = "settle", !.batch = B,
                                    !.todo = run[d].todo \ B])
  BY DEF Send
<1> DEFINE fresh == {c \in B : ~Stored(c)}
           next == [run[d] EXCEPT !.step = "settle", !.batch = B,
                                  !.todo = run[d].todo \ B]
<1>2. PICK s \in OldestFirst(fresh) : log' = log \o s
  BY <1>1
<1>3. run[d] \in Run /\ run[d].stage = "push"
  BY DEF Inv, TypeOK, StagesFit, Send
<1>4. B \subseteq run[d].todo
  BY DEF NextBatches
<1>5. PICK n \in 0..BatchSize : s \in [1..n -> fresh]
  BY DEF OldestFirst
<1>6. s \in [1..n -> Change] /\ n \in Nat /\ log \in Seq(Change)
  BY <1>3, <1>4, <1>5, SyncAssumption DEF Inv, TypeOK, Run
<1>7. Logged' = Logged \cup Elements(s)
  <2>1. Elements(log \o s) = Elements(log) \cup Elements(s)
    BY <1>6, AppendType
  <2> QED
    BY <1>2, <2>1 DEF Logged, Elements
<1>8. Elements(s) = fresh
  BY <1>5 DEF OldestFirst, Elements
<1>9. \A c \in B : \E e \in Logged' : VersionOf(e) = VersionOf(c)
  <2>1. ASSUME NEW c \in B, Stored(c)
        PROVE  \E e \in Logged' : VersionOf(e) = VersionOf(c)
    <3>1. PICK e \in Logged : e.record = c.record /\ e.id = c.id
      BY <2>1 DEF Stored
    <3>2. StampOf(c) \in Stamps /\ StampOf(e) \in Stamps
      BY <1>4, StampsHere
    <3>3. StampOf(e) = StampOf(c)
      BY <3>1, <3>2 DEF StampOf, Inv, StampsAgree
    <3>4. VersionOf(e) = VersionOf(c)
      BY <3>3 DEF StampOf, VersionOf
    <3> QED
      BY <1>7, <3>4
  <2> QED
    BY <1>7, <1>8, <2>1
<1>10. /\ next.todo = run[d].todo \ B /\ next.batch = B
       /\ next.markers = run[d].markers /\ next.stage = "push"
  BY <1>3 DEF Run
<1>11. Become(d, next)
  BY <1>1
<1> HIDE DEF next
<1>12. \A c \in next.todo \cup next.batch : StampOf(c) \in Stamps
  BY <1>4, <1>10, StampsHere
<1>13. UNCHANGED <<writes, outbox, versions, held>>
  BY DEF Send, local
<1> QED
  BY <1>4, <1>7, <1>8, <1>9, <1>10, <1>11, <1>12, <1>13 DEF Moves

(* What is settled was sent. *)
LEMMA SettleMoves ==
  ASSUME Inv, NEW d \in Device, Settle(d)
  PROVE  \E next : Moves(d, next)
<1> DEFINE part == SettleNext(run[d].batch)
           rest == run[d].batch \ part
           next == IF rest = {} THEN Sending(d, run[d].todo)
                   ELSE [run[d] EXCEPT !.batch = rest]
<1>1. run[d] \in Run /\ run[d].stage = "push"
  BY DEF Inv, TypeOK, StagesFit, Settle
<1>2. part \subseteq run[d].batch
  BY DEF SettleNext
<1>3. Become(d, next)
  BY DEF Settle
<1>4. UNCHANGED <<log, held, writes>> /\ Logged' = Logged
  BY DEF Settle, Logged
<1>5. \A e \in Device : outbox'[e] \subseteq outbox[e]
  <2>1. outbox' = [outbox EXCEPT ![d] = SettledOutbox(outbox[d], part)]
    BY DEF Settle
  <2>2. SettledOutbox(outbox[d], part) \subseteq outbox[d]
    BY DEF SettledOutbox
  <2> QED
    BY <2>1, <2>2 DEF Inv, TypeOK
<1>6. \A e \in Device : \A v \in versions'[e] :
        v \in versions[e] \/ \E c \in run[d].batch : v = VersionOf(c)
  <2>1. versions' = [versions EXCEPT ![d] = SettledVersions(versions[d], part)]
    BY DEF Settle
  <2>2. \A v \in SettledVersions(versions[d], part) :
          v \in versions[d] \/ \E c \in part : v = VersionOf(c)
    BY DEF SettledVersions, Without
  <2> QED
    BY <1>2, <2>1, <2>2 DEF Inv, TypeOK
<1>7. /\ next.markers \subseteq run[d].markers
      /\ next.todo \subseteq run[d].todo /\ next.batch \subseteq run[d].batch
      /\ next.stage # "push" => next.todo = {}
  <2>1. CASE rest = {} /\ run[d].todo = {}
    <3>1. next = At(d, "retry", "states") /\ "retry" \in Stages /\ "states" \in Steps
      BY <2>1 DEF Sending, Stages, Steps
    <3> HIDE DEF next
    <3> QED
      BY <3>1, AtType DEF Inv
  <2>2. CASE rest = {} /\ run[d].todo # {}
    <3>1. next = [NoRun EXCEPT !.stage = "push", !.step = "send", !.todo = run[d].todo]
      BY <2>2 DEF Sending
    <3> HIDE DEF next
    <3> QED
      BY <3>1 DEF NoRun
  <2>3. CASE rest # {}
    <3>1. next = [run[d] EXCEPT !.batch = rest]
      BY <2>3
    <3> HIDE DEF next
    <3> QED
      BY <1>1, <1>2, <3>1 DEF Run
  <2> QED
    BY <2>1, <2>2, <2>3
<1> HIDE DEF next
<1>8. \A c \in next.batch : \E e \in Logged' : VersionOf(e) = VersionOf(c)
  BY <1>1, <1>4, <1>7 DEF Inv, InFlight
<1>9. \A c \in next.todo \cup next.batch : StampOf(c) \in Stamps
  BY <1>7, StampsHere
<1> QED
  BY <1>1, <1>3, <1>4, <1>5, <1>6, <1>7, <1>8, <1>9 DEF Moves

(* A change reconciled was logged: so is what it leaves behind. *)
LEMMA ReconcileMoves ==
  ASSUME Inv, NEW d \in Device, NEW c \in run[d].todo,
         Drop(d, c) \/ Hold(d, c) \/ Apply(d, c)
  PROVE  \E next : Moves(d, next)
<1>1. run[d] \in Run /\ run[d].stage # "push"
  BY DEF Inv, TypeOK, StagesFit, Drop, Hold, Apply, Reconciles
<1>2. run[d].todo \subseteq Logged
  BY <1>1 DEF Inv, InFlight
<1>3. UNCHANGED <<log, writes>> /\ Logged' = Logged
  BY DEF Drop, Hold, Apply, Logged
<1>4. CASE Drop(d, c) \/ Hold(d, c)
  <2> DEFINE next == [run[d] EXCEPT !.todo = run[d].todo \ {c}]
  <2>1. Become(d, next)
    BY <1>4 DEF Drop, Hold, Done
  <2>2. /\ next.todo = run[d].todo \ {c} /\ next.batch = run[d].batch
        /\ next.markers = run[d].markers /\ next.stage = run[d].stage
    BY <1>1 DEF Run
  <2> HIDE DEF next
  <2>3. UNCHANGED <<outbox, versions>>
    BY <1>4 DEF Drop, Hold
  <2>4. \/ held' = held
        \/ held' = [held EXCEPT ![d] = Without(held[d], {c.record})]
        \/ held' = [held EXCEPT ![d] = Put(held[d], c)]
    BY <1>4 DEF Drop, Hold
  <2>5. /\ Without(held[d], {c.record}) \subseteq held[d]
        /\ Put(held[d], c) \subseteq held[d] \cup run[d].todo
    BY DEF Without, Put
  <2>6. \A e \in Device : \/ held'[e] \subseteq held[e]
                          \/ e = d /\ held'[e] \subseteq held[e] \cup run[d].todo
    BY <2>4, <2>5 DEF Inv, TypeOK
  <2>7. \A x \in next.todo \cup next.batch : StampOf(x) \in Stamps
    BY <2>2, StampsHere
  <2>8. next.todo \subseteq Logged /\ next.stage # "push"
    BY <1>1, <1>2, <2>2
  <2> QED
    BY <1>1, <1>3, <2>1, <2>2, <2>3, <2>6, <2>7, <2>8 DEF Moves
<1>5. CASE Apply(d, c)
  <2> DEFINE shelf == IF c.data = Absent THEN run[d].shelf \ {c.record} ELSE run[d].shelf
             kept == Of(held[d], c.record) # {}
             step == IF kept THEN "release" ELSE "apply"
             batch == IF kept THEN {c} ELSE {}
             next == [run[d] EXCEPT !.todo = run[d].todo \ {c}, !.shelf = shelf,
                                    !.step = step, !.batch = batch]
  <2>1. Become(d, next)
    BY <1>5 DEF Apply
  <2>2. batch \subseteq run[d].todo
    OBVIOUS
  <2> HIDE DEF shelf, step, batch, kept
  <2>3. /\ next.todo = run[d].todo \ {c} /\ next.batch = batch
        /\ next.markers = run[d].markers /\ next.stage = run[d].stage
    BY <1>1 DEF Run
  <2> HIDE DEF next
  <2>4. /\ outbox' = [outbox EXCEPT ![d] = Without(outbox[d], {c.record})]
        /\ versions' = [versions EXCEPT ![d] = Put(versions[d], VersionOf(c))]
        /\ held' = held
    BY <1>5 DEF Apply
  <2>5. Without(outbox[d], {c.record}) \subseteq outbox[d]
    BY DEF Without
  <2>6. \A e \in Device : outbox'[e] \subseteq outbox[e]
    BY <2>4, <2>5 DEF Inv, TypeOK
  <2>7. \A v \in Put(versions[d], VersionOf(c)) : v \in versions[d] \/ v = VersionOf(c)
    BY DEF Put, Without
  <2>8. \A e \in Device : \A v \in versions'[e] : v \in versions[e] \/ v = VersionOf(c)
    BY <2>4, <2>7 DEF Inv, TypeOK
  <2>9. \A x \in next.todo \cup next.batch : StampOf(x) \in Stamps
    BY <2>2, <2>3, StampsHere
  <2> QED
    BY <1>1, <1>2, <1>3, <2>1, <2>3, <2>4, <2>6, <2>8, <2>9 DEF Moves
<1> QED
  BY <1>4, <1>5

(* A copy let go leaves only less. *)
LEMMA ReleaseMoves ==
  ASSUME Inv, NEW d \in Device, Release(d)
  PROVE  \E next : Moves(d, next)
<1> DEFINE next == [run[d] EXCEPT !.step = "apply", !.batch = {}]
           R == {c.record : c \in run[d].batch}
<1>1. run[d] \in Run /\ run[d].stage # "push"
  BY DEF Inv, TypeOK, StagesFit, Release
<1>2. /\ Become(d, next) /\ held' = [held EXCEPT ![d] = Without(held[d], R)]
      /\ UNCHANGED <<log, outbox, versions, writes>> /\ Logged' = Logged
  BY DEF Release, Logged
<1>3. /\ next.todo = run[d].todo /\ next.batch = {}
      /\ next.markers = run[d].markers /\ next.stage = run[d].stage
  BY <1>1 DEF Run
<1> HIDE DEF next, R
<1>4. Without(held[d], R) \subseteq held[d]
  BY DEF Without
<1>5. \A e \in Device : held'[e] \subseteq held[e]
  BY <1>2, <1>4 DEF Inv, TypeOK
<1>6. next.todo \subseteq Logged
  BY <1>1, <1>3 DEF Inv, InFlight
<1>7. \A x \in next.todo \cup next.batch : StampOf(x) \in Stamps
  BY <1>3, StampsHere
<1> QED
  BY <1>1, <1>2, <1>3, <1>5, <1>6, <1>7 DEF Moves
-------------------------------------------------------------------------------
(* The theorems. *)

(* Before anything happened there is nothing to agree about. *)
LEMMA InvInit == Init => Inv
<1> SUFFICES ASSUME Init PROVE Inv
  OBVIOUS
<1>1. \A d \in Device : /\ run[d] = NoRun /\ outbox[d] = {} /\ versions[d] = {}
                        /\ held[d] = {} /\ data[d] = [r \in Record |-> Absent]
  BY DEF Init
<1>2. NoRun.todo = {} /\ NoRun.batch = {} /\ NoRun.markers = {}
      /\ NoRun.stage = "none" /\ NoRun.step = "idle"
  BY DEF NoRun
<1>3. OneRowEach({})
  BY DEF OneRowEach
<1>4. TypeOK
  <2>1. log \in Seq(Change)
    BY DEF Init
  <2>2. run \in [Device -> Run]
    BY NoRunType DEF Init
  <2>3. data \in [Device -> [Record -> Nat]]
    BY DEF Init, Absent
  <2> QED
    BY <1>1, <1>3, <2>1, <2>2, <2>3 DEF Init, TypeOK
<1>5. RunRows /\ StagesFit
  BY <1>1, <1>2, <1>3 DEF RunRows, StagesFit
<1>6. Logged = {}
  BY DEF Init, Logged
<1>7. StampsAgree
  <2>1. \A d \in Device : Marks(d) = {}
    BY <1>1, <1>2 DEF Marks
  <2>2. Changes = {}
    BY <1>1, <1>2, <1>6 DEF Changes
  <2>3. Stamps = {}
    BY <2>1, <2>2, StampMembers
  <2> QED
    BY <2>3 DEF StampsAgree
<1>8. InFlight /\ VersionsAreLogged
  BY <1>1, <1>2 DEF InFlight, VersionsAreLogged
<1> QED
  BY <1>4, <1>5, <1>7, <1>8 DEF Inv

(* A step of the user keeps the types, and gives what it writes a new id. *)
LEMMA UserInv ==
  ASSUME Inv, NEW d \in Device, UserStep(d)
  PROVE  Inv'
<1>1. PICK R \in SUBSET Record, deleted \in BOOLEAN : UserWrites(d, R, deleted)
  <2>1. PICK r \in Record :
          Edit(d, r) \/ Erase(d, r) \/ AddBook(d, r) \/ RemoveBook(d, r)
    BY DEF UserStep
  <2>2. {r} \in SUBSET Record /\ RowsOf(r) \in SUBSET Record
    BY RowsOfType
  <2> QED
    BY <2>1, <2>2 DEF Edit, Erase, AddBook, RemoveBook
<1>2. TypeOK' /\ RunRows'
  BY <1>1, UserRows DEF Inv
<1>3. run' = run
  BY <1>1 DEF UserWrites
<1>4. PICK at \in Now : Write(d, R, deleted, at)
  BY <1>1 DEF UserWrites
<1>5. at \in Nat
  BY NowType DEF Inv
<1>6. StampsAgree' /\ InFlight' /\ VersionsAreLogged'
  BY <1>3, <1>4, <1>5, WriteInv
<1>7. StagesFit'
  BY <1>3 DEF StagesFit, Inv
<1> QED
  BY <1>2, <1>6, <1>7 DEF Inv

(* So does a download. *)
LEMMA DownloadInv ==
  ASSUME Inv, NEW d \in Device, NEW b \in Record, Download(d, b)
  PROVE  TypeOK' /\ RunRows' /\ StampsAgree' /\ InFlight' /\ VersionsAreLogged'
<1>1. TypeOK' /\ RunRows'
  BY DownloadRows DEF Inv
<1>2. PICK at \in Now : Write(d, RowsOf(b), FALSE, at)
  BY DEF Download
<1>3. \A e \in Device : /\ run'[e].markers = run[e].markers
                        /\ run'[e].todo = run[e].todo
                        /\ run'[e].batch = run[e].batch
                        /\ run'[e].stage = run[e].stage
  BY DEF Download, Become, Inv, TypeOK, Run
<1>4. at \in Nat
  BY NowType DEF Inv
<1>5. StampsAgree' /\ InFlight' /\ VersionsAreLogged'
  BY <1>2, <1>3, <1>4, RowsOfType, WriteInv
<1> QED
  BY <1>1, <1>5

(* Every step keeps the invariant. *)
LEMMA InvStep == Inv /\ [Next]_vars => Inv'
<1> SUFFICES ASSUME Inv, [Next]_vars PROVE Inv'
  OBVIOUS
<1>1. CASE UNCHANGED vars
  <2>1. UNCHANGED <<clock, writes, lastWrite, log, data, outbox, versions, held,
                    cursor, run, faults>>
    BY <1>1 DEF vars
  <2>2. TypeOK' /\ RunRows' /\ StagesFit'
    BY <2>1 DEF Inv, TypeOK, RunRows, StagesFit
  <2>3. Logged' = Logged
    BY <2>1 DEF Logged
  <2>4. Changes' = Changes /\ \A d \in Device : Marks(d)' = Marks(d)
    BY <2>1, <2>3 DEF Changes, Marks
  <2>5. Stamps' = Stamps
    BY <2>4 DEF Stamps, StampOf
  <2>6. StampsAgree' /\ InFlight' /\ VersionsAreLogged'
    BY <2>1, <2>3, <2>5 DEF Inv, StampsAgree, InFlight, VersionsAreLogged
  <2> QED
    BY <2>2, <2>6 DEF Inv
<1>2. CASE Next
  <2>1. StagesFit'
    BY <1>2, StagesFitStep DEF Inv
  <2>2. PICK d \in Device :
          UserStep(d) \/ StartSync(d) \/ StartDownload(d) \/ SyncStep(d) \/ Fail(d)
    BY <1>2 DEF Next
  <2>3. ASSUME TypeOK' /\ RunRows', \E next : Moves(d, next)
        PROVE  Inv'
    BY <2>1, <2>3, MovesInv DEF Inv
  <2>4. TypeOK /\ RunRows /\ StagesFit
    BY DEF Inv
  <2>5. CASE UserStep(d)
    BY <2>5, UserInv
  <2>6. CASE StartSync(d) \/ StartDownload(d) \/ Fail(d)
    BY <2>3, <2>4, <2>6, StartRows, FreshMoves
  <2>7. CASE PushStep(d)
    <3>1. CASE Load(d)
      BY <2>3, <2>4, <3>1, LoadRows, LoadMoves
    <3>2. CASE Send(d)
      <4>1. run[d].stage = "push"
        BY <2>4, <3>2 DEF StagesFit, Send
      <4> QED
        BY <2>3, <2>4, <3>2, <4>1, SendRows, SendMoves
    <3>3. CASE Settle(d)
      <4>1. run[d].stage = "push"
        BY <2>4, <3>3 DEF StagesFit, Settle
      <4> QED
        BY <2>3, <2>4, <3>3, <4>1, SettleRows, SettleMoves
    <3> QED
      BY <2>7, <3>1, <3>2, <3>3 DEF PushStep
  <2>8. CASE RoundStep(d)
    <3>1. CASE Fetch(d) \/ ReadStates(d) \/ ListBooks(d)
      BY <2>3, <2>4, <3>1, ReadRows, ReadMoves
    <3>2. ASSUME NEW c \in run[d].todo, Drop(d, c) \/ Hold(d, c) \/ Apply(d, c)
          PROVE  Inv'
      BY <2>3, <2>4, <3>2, ReconcileRows, ReconcileMoves
    <3>3. CASE Release(d)
      BY <2>3, <2>4, <3>3, ReleaseRows, ReleaseMoves
    <3>4. CASE EndRound(d) \/ SaveCursor(d)
      BY <2>3, <2>4, <3>4, EndRows, FreshMoves
    <3> QED
      BY <2>8, <3>1, <3>2, <3>3, <3>4 DEF RoundStep
  <2>9. CASE DownloadStep(d)
    <3>1. ASSUME NEW b \in Record, Download(d, b)
          PROVE  Inv'
      BY <2>1, <3>1, DownloadInv DEF Inv
    <3>2. CASE DownloadsDone(d)
      BY <2>3, <2>4, <3>2, EndRows, FreshMoves
    <3> QED
      BY <2>9, <3>1, <3>2 DEF DownloadStep
  <2> QED
    BY <2>2, <2>5, <2>6, <2>7, <2>8, <2>9 DEF SyncStep
<1> QED
  BY <1>1, <1>2

(* What is known of every state a device reaches. *)
LEMMA Invariance == Spec => []Inv
<1> QED
  BY InvInit, InvStep, PTL DEF Spec

(* The outbox, the versions and the changes kept aside of every device have *)
(* at most one row for a record, and every variable its type, whatever the  *)
(* users write, however the runs interleave and wherever they fail          *)
(* (connection.ts: the key paths of the stores).                            *)
THEOREM TypeCorrect == Spec => []TypeOK
<1>1. Inv => TypeOK
  BY DEF Inv
<1> QED
  BY <1>1, Invariance, PTL

(* A device never holds as its version one the server did not store, though *)
(* the answer to a push may be lost and the push be repeated with a marker  *)
(* that was replaced meanwhile (push-changes.ts: settleBatch).              *)
THEOREM VersionsLogged == Spec => []VersionsAreLogged
<1>1. Inv => VersionsAreLogged
  BY DEF Inv
<1> QED
  BY <1>1, Invariance, PTL
-------------------------------------------------------------------------------
(***************************************************************************)
(* What devices hold: a free record has the content its version names,     *)
(* versions only rise, and a pending write is let go only for something    *)
(* that is as good.                                                        *)
(***************************************************************************)

(* A device writes once at a time of its clock, and never in its future,    *)
(* and what it writes has an id.                                            *)
StampsTimed ==
  /\ \A x \in Stamps : x.at <= lastWrite[x.device] + Skew[x.device]
  /\ \A x, y \in Stamps : (x.device = y.device /\ x.at = y.at) => x.id = y.id
  /\ \A x \in Stamps : x.id # NoId

(* The server stores a change of an id once. *)
LoggedOnce ==
  \A c, e \in Logged : (c.record = e.record /\ c.id = e.id) => c = e

(* The marker of a free record is of what the device has, and so is every   *)
(* change that was made of it.                                              *)
MarkersCurrent ==
  \A d \in Device : \A m \in outbox[d] : Kind[m.record] = "tag" =>
    /\ m.deleted => data[d][m.record] = Absent
    /\ \A c \in Changes :
         (c.record = m.record /\ c.id = m.id) => c.data = data[d][m.record]

(* With one time for all, what is logged was written before now, and what   *)
(* waits to be pushed is later than the version it will replace.            *)
InTime ==
  /\ \A d \in Device : lastWrite[d] <= clock
  /\ NoSkew =>
       /\ \A c \in Logged : c.at < clock
       /\ \A d \in Device : \A m \in outbox[d] :
            \A v \in Of(versions[d], m.record) : v.at < m.at

(* What a run has in memory, of a device with these markers.  A push sends  *)
(* one change for a record, of this device, and a record it sends has a     *)
(* marker still: the one that was sent, or a later one.                     *)
PushFits(d, r, marks, logged) ==
  r.stage = "push" =>
    /\ r.step # "load" => r.markers = {}
    /\ OneRowEach(r.todo \cup r.batch) /\ r.todo \cap r.batch = {}
    /\ \A c \in r.todo \cup r.batch : c.device = d
    /\ \A c \in r.batch : \E e \in logged : e.record = c.record /\ e.id = c.id
    /\ \A k \in r.markers \cup r.todo \cup r.batch :
         \E m \in marks : m.record = k.record
    /\ NoSkew => \A k \in r.markers \cup r.todo \cup r.batch, m \in marks :
         k.record = m.record => k.id = m.id \/ k.at < m.at

(* A round has one change for a record, and the versions it has read are    *)
(* those the device has of the records that are left.                       *)
RoundFits(r, vers) ==
  /\ OneRowEach(r.todo)
  /\ r.step = "books" => r.versions = vers
  /\ r.step \in {"apply", "release"} =>
       \A c \in r.todo : Of(r.versions, c.record) = Of(vers, c.record)
  /\ NoSkew => \A k \in r.markers : \A v \in Of(r.versions, k.record) : v.at < k.at

(* A marker a run has read is the one there is, if it has its id. *)
MarkersRead(r, marks) ==
  \A k \in r.markers, m \in marks : (k.record = m.record /\ k.id = m.id) => k = m

RunFits(d, r, marks, vers, logged) ==
  PushFits(d, r, marks, logged) /\ RoundFits(r, vers) /\ MarkersRead(r, marks)

RunsFit == \A d \in Device : RunFits(d, run[d], outbox[d], versions[d], Logged)

Contents ==
  /\ StampsTimed /\ LoggedOnce /\ MarkersCurrent /\ InTime /\ RunsFit
  /\ ContentMatchesVersion

Holds == Inv /\ Contents

(* The changes a push makes of the markers it has read. *)
Loaded(d) == {ChangeFor(d, k) : k \in run[d].markers}
-------------------------------------------------------------------------------
(* Steps that write no record: what they leave as it is. *)

LEMMA MovesFrame ==
  ASSUME Inv, NEW d \in Device, \E next : Moves(d, next)
  PROVE  /\ \A e \in Device \ {d} : run'[e] = run[e]
         /\ Stamps' \subseteq Stamps
         /\ Logged \subseteq Logged'
         /\ \A e \in Device : outbox'[e] \subseteq outbox[e]
<1>1. PICK next : Moves(d, next)
  OBVIOUS
<1>2. Stamps' \subseteq Stamps
  BY <1>1, MovesStamps DEF Inv
<1> QED
  BY <1>1, <1>2 DEF Moves, Become, Inv, TypeOK

(* No change comes up but those a push loads. *)
LEMMA MovesChanges ==
  ASSUME Inv, NEW d \in Device, \E next : Moves(d, next),
         run'[d].todo \cup run'[d].batch \subseteq Changes \cup Loaded(d)
  PROVE  Changes' \subseteq Changes \cup Loaded(d)
<1>1. PICK next : Moves(d, next)
  OBVIOUS
<1>2. ASSUME NEW c \in Changes'
      PROVE  c \in Changes \cup Loaded(d)
  <2>1. CASE c \in Logged'
    BY <1>1, <2>1, ChangeMembers DEF Moves
  <2>2. ASSUME NEW e \in Device, c \in run'[e].todo \cup run'[e].batch \cup held'[e]
        PROVE  c \in Changes \cup Loaded(d)
    <3>1. CASE c \in held'[e]
      <4>1. c \in held[e] \cup run[d].todo
        BY <1>1, <3>1 DEF Moves
      <4> QED
        BY <4>1, ChangeMembers
    <3>2. CASE c \in run'[e].todo \cup run'[e].batch
      <4>1. CASE e = d
        BY <3>2, <4>1
      <4>2. CASE e # d
        <5>1. run'[e] = run[e]
          BY <4>2, MovesFrame
        <5> QED
          BY <3>2, <5>1, ChangeMembers
      <4> QED
        BY <4>1, <4>2
    <3> QED
      BY <2>2, <3>1, <3>2
  <2>3. c \in Logged' \/ \E e \in Device : c \in run'[e].todo \cup run'[e].batch \cup held'[e]
    BY <1>2 DEF Changes
  <2> QED
    BY <2>1, <2>2, <2>3
<1> QED
  BY <1>2

(* Times and ids stay as they are. *)
LEMMA MovesTimed ==
  ASSUME Inv, StampsTimed, NEW d \in Device, \E next : Moves(d, next),
         lastWrite' = lastWrite
  PROVE  StampsTimed'
<1>1. Stamps' \subseteq Stamps
  BY MovesFrame
<1> QED
  BY <1>1 DEF StampsTimed

(* A change made of a marker has what the device has. *)
LEMMA MovesCurrent ==
  ASSUME Holds, NEW d \in Device, \E next : Moves(d, next),
         run'[d].todo \cup run'[d].batch \subseteq Changes \cup Loaded(d),
         \A e \in Device : \A m \in outbox'[e] :
           Kind[m.record] = "tag" => data'[e][m.record] = data[e][m.record]
  PROVE  MarkersCurrent'
<1>1. Changes' \subseteq Changes \cup Loaded(d)
  BY MovesChanges DEF Holds
<1>2. ASSUME NEW e \in Device, NEW m \in outbox'[e], Kind[m.record] = "tag"
      PROVE  /\ m \in outbox[e]
             /\ data'[e][m.record] = data[e][m.record]
             /\ m.deleted => data[e][m.record] = Absent
             /\ \A c \in Changes :
                  (c.record = m.record /\ c.id = m.id) => c.data = data[e][m.record]
  BY <1>2, MovesFrame DEF Holds, Contents, MarkersCurrent
<1>3. ASSUME NEW e \in Device, NEW m \in outbox'[e], Kind[m.record] = "tag",
             NEW c \in Loaded(d), c.record = m.record, c.id = m.id
      PROVE  c.data = data[e][m.record]
  <2>1. PICK k \in run[d].markers : c = ChangeFor(d, k)
    BY DEF Loaded
  <2>2. k.record = m.record /\ k.id = m.id
    BY <1>3, <2>1 DEF ChangeFor
  <2> DEFINE x == [record |-> k.record, id |-> k.id, at |-> k.at, device |-> d]
             y == [record |-> m.record, id |-> m.id, at |-> m.at, device |-> e]
  <2>3. x \in Stamps /\ y \in Stamps
    <3>1. x \in Marks(d) /\ y \in Marks(e)
      BY <1>2, <1>3 DEF Marks
    <3> QED
      BY <3>1, StampMembers
  <2>4. x = y
    BY <2>2, <2>3 DEF Holds, Inv, StampsAgree
  <2>5. e = d
    BY <2>4
  <2>6. k = m
    BY <1>2, <1>3, <2>2, <2>5 DEF Holds, Contents, RunsFit, RunFits, MarkersRead
  <2>7. c.data = IF m.deleted THEN Absent ELSE data[d][m.record]
    BY <2>1, <2>6 DEF ChangeFor
  <2> QED
    BY <1>2, <1>3, <2>5, <2>7
<1> QED
  BY <1>1, <1>2, <1>3 DEF MarkersCurrent

(* The runs of the other devices fit as they did. *)
LEMMA OthersFit ==
  ASSUME Holds, NEW d \in Device, \E next : Moves(d, next),
         \A e \in Device \ {d} : outbox'[e] = outbox[e] /\ versions'[e] = versions[e],
         RunFits(d, run'[d], outbox'[d], versions'[d], Logged')
  PROVE  RunsFit'
<1>1. \A e \in Device \ {d} : run'[e] = run[e]
  BY MovesFrame DEF Holds
<1>2. Logged \subseteq Logged'
  BY MovesFrame DEF Holds
<1>3. ASSUME NEW e \in Device \ {d}
      PROVE  RunFits(e, run'[e], outbox'[e], versions'[e], Logged')
  <2>1. RunFits(e, run[e], outbox[e], versions[e], Logged)
    BY DEF Holds, Contents, RunsFit
  <2>2. RunFits(e, run[e], outbox[e], versions[e], Logged')
    BY <1>2, <2>1 DEF RunFits, PushFits
  <2> QED
    BY <1>1, <2>2
<1> QED
  BY <1>3 DEF RunsFit

(* A step that changes only what the run has in memory and what is kept     *)
(* aside.                                                                   *)
LEMMA QuietContents ==
  ASSUME Holds, NEW d \in Device, \E next : Moves(d, next),
         UNCHANGED <<clock, lastWrite, log, data, outbox, versions>>,
         run'[d].todo \cup run'[d].batch \subseteq Changes \cup Loaded(d),
         RunFits(d, run'[d], outbox[d], versions[d], Logged)
  PROVE  Contents'
<1>1. Logged' = Logged
  BY DEF Logged
<1>2. StampsTimed'
  BY MovesTimed DEF Holds, Contents
<1>3. MarkersCurrent'
  BY MovesCurrent
<1>4. RunsFit'
  BY <1>1, OthersFit
<1>5. LoggedOnce' /\ InTime'
  BY <1>1 DEF LoggedOnce, InTime, Holds, Contents
<1>6. ContentMatchesVersion'
  BY <1>1 DEF ContentMatchesVersion, Holds, Contents
<1> QED
  BY <1>2, <1>3, <1>4, <1>5, <1>6 DEF Contents
-------------------------------------------------------------------------------
(* Writes, of the user or of a download. *)

LEMMA NowIsNext ==
  ASSUME TypeOK, NEW at \in Now
  PROVE  at \in Nat /\ clock <= at
BY DEF Now, TypeOK

(* What a write leaves in the outbox of its device, and in its records. *)
Wrote(d, R, deleted, at) ==
  /\ \A e \in Device \ {d} : outbox'[e] = outbox[e] /\ data'[e] = data[e]
  /\ \A m \in outbox'[d] :
       \/ m \in outbox[d] /\ m.record \notin R
       \/ /\ m.record \in R /\ m.id = writes + 1 /\ m.at = at + Skew[d]
          /\ m.deleted = deleted
  /\ \A m \in outbox[d] : m.record \notin R => m \in outbox'[d]
  /\ \A r \in R : \E m \in outbox'[d] : m.record = r
  /\ \A r \in Record :
       data'[d][r] = IF r \notin R THEN data[d][r]
                     ELSE IF deleted THEN Absent ELSE writes + 1
  /\ UNCHANGED <<log, versions, held, cursor>> /\ Logged' = Logged
  /\ clock' = at /\ lastWrite[d] < at
  /\ lastWrite' = [lastWrite EXCEPT ![d] = at]

LEMMA WriteRows ==
  ASSUME TypeOK, NEW d \in Device, NEW R \in SUBSET Record, NEW deleted \in BOOLEAN,
         NEW at \in Nat, Write(d, R, deleted, at)
  PROVE  Wrote(d, R, deleted, at)
<1> DEFINE rows == {[record |-> r, id |-> writes + 1, at |-> at + Skew[d],
                     deleted |-> deleted] : r \in R}
<1>1. outbox' = [outbox EXCEPT ![d] = Without(outbox[d], R) \cup rows]
  BY DEF Write
<1>2. outbox'[d] = Without(outbox[d], R) \cup rows
      /\ \A e \in Device \ {d} : outbox'[e] = outbox[e]
  BY <1>1 DEF TypeOK
<1>3. \A m \in rows : /\ m.record \in R /\ m.id = writes + 1 /\ m.at = at + Skew[d]
                      /\ m.deleted = deleted
  OBVIOUS
<1>4. ASSUME NEW r \in R PROVE \E m \in rows : m.record = r
  <2>1. [record |-> r, id |-> writes + 1, at |-> at + Skew[d], deleted |-> deleted] \in rows
    OBVIOUS
  <2> QED
    BY <2>1
<1> DEFINE content == [r \in Record |->
             IF r \notin R THEN data[d][r] ELSE IF deleted THEN Absent ELSE writes + 1]
<1>5. data' = [data EXCEPT ![d] = content]
  BY DEF Write
<1>6. data'[d] = content /\ \A e \in Device \ {d} : data'[e] = data[e]
  BY <1>5 DEF TypeOK
<1>7. \A r \in Record :
        data'[d][r] = IF r \notin R THEN data[d][r]
                      ELSE IF deleted THEN Absent ELSE writes + 1
  BY <1>6
<1>8. /\ UNCHANGED <<log, versions, held, cursor>> /\ Logged' = Logged
      /\ clock' = at /\ lastWrite[d] < at
      /\ lastWrite' = [lastWrite EXCEPT ![d] = at]
  BY DEF Write, Logged
<1> HIDE DEF rows, content
<1>9. \A m \in outbox'[d] : m \in rows \/ (m \in outbox[d] /\ m.record \notin R)
  BY <1>2 DEF Without
<1>10. \A m \in outbox[d] : m.record \notin R => m \in outbox'[d]
  BY <1>2 DEF Without
<1> QED
  BY <1>2, <1>3, <1>4, <1>6, <1>7, <1>8, <1>9, <1>10 DEF Wrote

(* A write is later than what its device wrote before, and, with one time   *)
(* for all, than what the server has.                                       *)
LEMMA WriteContents ==
  ASSUME Holds, NEW d \in Device, NEW R \in SUBSET Record, NEW deleted \in BOOLEAN,
         NEW at \in Now, Write(d, R, deleted, at),
         \A e \in Device :
           /\ run'[e].markers = run[e].markers /\ run'[e].todo = run[e].todo
           /\ run'[e].batch = run[e].batch /\ run'[e].versions = run[e].versions
           /\ run'[e].stage = run[e].stage /\ run'[e].step = run[e].step
  PROVE  Contents'
<1> DEFINE fresh == FreshStamps(d, R, at)
<1>0. at \in Nat /\ clock <= at /\ clock \in Nat /\ writes \in Nat
      /\ lastWrite \in [Device -> Nat] /\ Skew \in [Device -> Nat]
  BY NowIsNext, SyncAssumption DEF Holds, Inv, TypeOK
<1>1. Wrote(d, R, deleted, at)
  <2>1. TypeOK
    BY DEF Holds, Inv
  <2> QED
    BY <1>0, <2>1, WriteRows
<1>2. Stamps' \subseteq Stamps \cup fresh /\ Logged' = Logged /\ Changes' = Changes
  BY <1>0, WriteStamps DEF Holds
<1>3. Stamps \subseteq [record : Record, id : Nat, at : Nat, device : Device]
      /\ Changes \subseteq Change
  BY StampType DEF Holds, Inv
<1>4. \A x \in fresh : x.id = writes + 1 /\ x.device = d /\ x.at = at + Skew[d]
  BY DEF FreshStamps
<1>5. /\ \A e \in Device : lastWrite'[e] = IF e = d THEN at ELSE lastWrite[e]
      /\ lastWrite[d] < at
  BY <1>0, <1>1 DEF Wrote
<1>6. \A x \in Stamps : x.at <= lastWrite[x.device] + Skew[x.device] /\ x.id <= writes
  BY DEF Holds, Contents, StampsTimed, Inv, StampsAgree
<1> HIDE DEF fresh
<1>7. StampsTimed'
  <2>1. ASSUME NEW x \in Stamps'
        PROVE  x.at <= lastWrite'[x.device] + Skew[x.device]
    <3>1. CASE x \in Stamps
      <4>1. x.device \in Device /\ x.at \in Nat
        BY <1>3, <3>1
      <4> QED
        BY <1>0, <1>5, <1>6, <3>1, <4>1
    <3>2. CASE x \in fresh
      BY <1>0, <1>4, <1>5, <3>2
    <3> QED
      BY <1>2, <3>1, <3>2
  <2>2. ASSUME NEW x \in Stamps, NEW y \in fresh, x.device = y.device
        PROVE  x.at # y.at
    <3>1. x.at \in Nat /\ x.at <= lastWrite[d] + Skew[d] /\ y.at = at + Skew[d]
      BY <1>3, <1>4, <1>6, <2>2
    <3> QED
      BY <1>0, <1>5, <3>1
  <2>3. ASSUME NEW x \in Stamps', NEW y \in Stamps', x.device = y.device, x.at = y.at
        PROVE  x.id = y.id
    <3>1. CASE x \in Stamps /\ y \in Stamps
      BY <2>3, <3>1 DEF Holds, Contents, StampsTimed
    <3>2. CASE x \in fresh /\ y \in fresh
      BY <1>4, <3>2
    <3> QED
      BY <1>2, <2>2, <2>3, <3>1, <3>2
  <2>4. writes + 1 # NoId
    BY <1>0 DEF NoId
  <2>5. \A x \in Stamps' : x.id # NoId
    BY <1>2, <1>4, <2>4 DEF Holds, Contents, StampsTimed
  <2> QED
    BY <2>1, <2>3, <2>5 DEF StampsTimed
<1>8. LoggedOnce'
  BY <1>2 DEF LoggedOnce, Holds, Contents
<1>9. MarkersCurrent'
  <2>1. ASSUME NEW e \in Device, NEW m \in outbox'[e], Kind[m.record] = "tag"
        PROVE  /\ m.deleted => data'[e][m.record] = Absent
               /\ \A c \in Changes : (c.record = m.record /\ c.id = m.id)
                                       => c.data = data'[e][m.record]
    <3>1. CASE m \in outbox[e] /\ data'[e][m.record] = data[e][m.record]
      BY <2>1, <3>1 DEF Holds, Contents, MarkersCurrent
    <3>2. CASE e = d /\ m.record \in R /\ m.id = writes + 1 /\ m.deleted = deleted
      <4>1. m.deleted => data'[e][m.record] = Absent
        BY <1>0, <3>2, <1>1 DEF Wrote
      <4>2. ASSUME NEW c \in Changes PROVE c.id # m.id
        <5>1. StampOf(c) \in Stamps /\ StampOf(c).id = c.id
          BY StampMembers DEF StampOf
        <5>2. c.id <= writes /\ c.id \in Nat
          BY <1>3, <1>6, <5>1
        <5> QED
          BY <1>0, <3>2, <5>2
      <4> QED
        BY <4>1, <4>2
    <3>3. outbox[e] \subseteq Marker
      BY DEF Holds, Inv, TypeOK
    <3>4. CASE e # d
      BY <1>1, <3>1, <3>4 DEF Wrote
    <3>5. CASE e = d
      BY <1>0, <3>1, <3>2, <3>3, <3>5, <1>1 DEF Marker, Wrote
    <3> QED
      BY <3>4, <3>5
  <2> QED
    BY <1>2, <2>1 DEF MarkersCurrent
<1>10. InTime'
  <2>1. \A e \in Device : lastWrite'[e] <= clock'
    <3>1. clock' = at /\ \A e \in Device : lastWrite[e] <= clock
      BY <1>0, <1>1 DEF Holds, Contents, InTime, Wrote
    <3> QED
      BY <1>0, <1>5, <3>1
  <2>2. ASSUME NoSkew
        PROVE  \A c \in Logged' : c.at < clock'
    <3>1. \A c \in Logged : c.at < clock
      BY <2>2 DEF Holds, Contents, InTime
    <3>2. \A c \in Logged : c.at \in Nat
      BY LogType DEF Holds, Inv, Change
    <3>3. clock' = at
      BY <1>1 DEF Wrote
    <3> QED
      BY <1>0, <1>2, <3>1, <3>2, <3>3
  <2>3. ASSUME NoSkew, NEW e \in Device, NEW m \in outbox'[e],
               NEW v \in Of(versions'[e], m.record)
        PROVE  v.at < m.at
    <3>1. versions' = versions
      BY <1>0, <1>1 DEF Wrote
    <3>2. CASE m \in outbox[e]
      BY <2>3, <3>1, <3>2 DEF Holds, Contents, InTime
    <3>3. CASE e = d /\ m.at = at + Skew[d]
      <4>1. v \in versions[e]
        BY <2>3, <3>1 DEF Of
      <4>2. PICK c \in Logged : VersionOf(c) = v
        BY <4>1 DEF Holds, Inv, VersionsAreLogged
      <4>3. c.at < clock /\ c.at \in Nat /\ v.at = c.at
        BY <2>3, <4>2, LogType DEF Holds, Inv, Contents, InTime, Change, VersionOf
      <4>4. m.at = at
        BY <1>0, <2>3, <3>3 DEF NoSkew
      <4> QED
        BY <1>0, <4>3, <4>4
    <3> QED
      BY <1>0, <3>2, <3>3, <1>1 DEF Wrote
  <2> QED
    BY <2>1, <2>2, <2>3 DEF InTime
<1>11. RunsFit'
  <2>1. ASSUME NEW e \in Device \ {d}
        PROVE  RunFits(e, run'[e], outbox'[e], versions'[e], Logged')
    <3>1. RunFits(e, run[e], outbox[e], versions[e], Logged)
      BY DEF Holds, Contents, RunsFit
    <3>2. outbox'[e] = outbox[e] /\ versions'[e] = versions[e]
      BY <1>0, <1>1 DEF Wrote
    <3> QED
      BY <1>2, <3>1, <3>2 DEF RunFits, PushFits, RoundFits, MarkersRead
  <2>2. RunFits(d, run[d], outbox[d], versions[d], Logged)
    BY DEF Holds, Contents, RunsFit
  <2>3. \A k \in run[d].markers : k.id \in Nat /\ k.id <= writes
                                 /\ k.at \in Nat /\ k.at <= lastWrite[d] + Skew[d]
    <3>1. ASSUME NEW k \in run[d].markers
          PROVE  [record |-> k.record, id |-> k.id, at |-> k.at, device |-> d] \in Stamps
      <4>1. [record |-> k.record, id |-> k.id, at |-> k.at, device |-> d] \in Marks(d)
        BY DEF Marks
      <4> QED
        BY <4>1, StampMembers
    <3>2. \A k \in run[d].markers : k.id \in Nat /\ k.at \in Nat
      BY DEF Holds, Inv, TypeOK, Run, Marker
    <3> QED
      BY <1>6, <3>1, <3>2
  <2>4. \A k \in run[d].todo \cup run[d].batch :
          k.device = d => k.at \in Nat /\ k.at <= lastWrite[d] + Skew[d]
    <3>1. ASSUME NEW k \in run[d].todo \cup run[d].batch
          PROVE  /\ k.at \in Nat
                 /\ k.at <= lastWrite[k.device] + Skew[k.device]
      <4>1. StampOf(k) \in Stamps /\ k \in Change
        BY <1>3, StampMembers, ChangeMembers
      <4> QED
        BY <1>6, <4>1 DEF StampOf, Change
    <3> QED
      BY <3>1
  <2>5. PushFits(d, run'[d], outbox'[d], Logged')
    <3>1. CASE run[d].stage # "push"
      BY <3>1 DEF PushFits
    <3>2. CASE run[d].stage = "push"
      <4>1. PushFits(d, run[d], outbox[d], Logged)
        BY <2>2 DEF RunFits
      <4>2. ASSUME NEW k \in run[d].markers \cup run[d].todo \cup run[d].batch
            PROVE  \E m \in outbox'[d] : m.record = k.record
        <5>1. PICK m \in outbox[d] : m.record = k.record
          BY <3>2, <4>1 DEF PushFits
        <5> QED
          BY <1>0, <5>1, <1>1 DEF Wrote
      <4>3. ASSUME NoSkew, NEW k \in run[d].markers \cup run[d].todo \cup run[d].batch,
                   NEW m \in outbox'[d], k.record = m.record
            PROVE  k.id = m.id \/ k.at < m.at
        <5>1. CASE m \in outbox[d]
          BY <3>2, <4>1, <4>3, <5>1 DEF PushFits
        <5>2. CASE m.at = at + Skew[d]
          <6>1. k.at \in Nat /\ k.at <= lastWrite[d] + Skew[d]
            BY <2>3, <2>4, <3>2, <4>1 DEF PushFits
          <6> QED
            BY <1>0, <1>5, <5>2, <6>1
        <5> QED
          BY <1>0, <5>1, <5>2, <1>1 DEF Wrote
      <4> QED
        BY <1>2, <3>2, <4>1, <4>2, <4>3 DEF PushFits
    <3> QED
      BY <3>1, <3>2
  <2>6. RoundFits(run'[d], versions'[d])
    <3>1. versions'[d] = versions[d]
      BY <1>0, <1>1 DEF Wrote
    <3> QED
      BY <2>2, <3>1 DEF RunFits, RoundFits
  <2>7. MarkersRead(run'[d], outbox'[d])
    <3>1. ASSUME NEW k \in run[d].markers, NEW m \in outbox'[d],
                 k.record = m.record, k.id = m.id
          PROVE  k = m
      <4>1. m \in outbox[d]
        BY <1>0, <2>3, <3>1, <1>1 DEF Wrote
      <4> QED
        BY <2>2, <3>1, <4>1 DEF RunFits, MarkersRead
    <3> QED
      BY <3>1 DEF MarkersRead
  <2> QED
    BY <2>1, <2>5, <2>6, <2>7 DEF RunsFit, RunFits
<1>12. ContentMatchesVersion'
  <2>1. ASSUME NEW e \in Device, NEW r \in Record, Of(outbox'[e], r) = {}
        PROVE  Of(outbox[e], r) = {} /\ data'[e][r] = data[e][r]
    <3>1. CASE e # d
      BY <1>0, <2>1, <3>1, <1>1 DEF Wrote
    <3>2. CASE e = d
      <4>1. r \notin R
        BY <1>0, <2>1, <3>2, <1>1 DEF Of, Wrote
      <4>2. Of(outbox[e], r) = {}
        BY <1>0, <2>1, <3>2, <4>1, <1>1 DEF Of, Wrote
      <4> QED
        BY <1>0, <3>2, <4>1, <4>2, <1>1 DEF Wrote
    <3> QED
      BY <3>1, <3>2
  <2>2. versions' = versions
    BY <1>0, <1>1 DEF Wrote
  <2> QED
    BY <1>2, <2>1, <2>2 DEF Holds, Contents, ContentMatchesVersion
<1> QED
  BY <1>7, <1>8, <1>9, <1>10, <1>11, <1>12 DEF Contents
-------------------------------------------------------------------------------
(* The steps that change only what a run has in memory, or keeps aside. *)

(* What is left of a run between two use cases has read nothing. *)
LEMMA AtFields ==
  ASSUME TypeOK, NEW d \in Device, NEW stage \in Stages, NEW step \in Steps
  PROVE  /\ At(d, stage, step).markers = {} /\ At(d, stage, step).versions = {}
         /\ At(d, stage, step).todo = {} /\ At(d, stage, step).batch = {}
         /\ At(d, stage, step).stage = stage /\ At(d, stage, step).step = step
BY NoRunType DEF At, NoRun, Run

(* A run that has read nothing fits. *)
LEMMA EmptyFits ==
  ASSUME NEW d, NEW r, NEW marks, NEW vers, NEW logged,
         r.markers = {}, r.versions = {}, r.todo = {}, r.batch = {}, r.step # "books"
  PROVE  RunFits(d, r, marks, vers, logged)
BY DEF RunFits, PushFits, RoundFits, MarkersRead, OneRowEach, Of

(* A run that begins, ends, or goes from one use case to the next. *)
LEMMA FreshContents ==
  ASSUME Holds, NEW d \in Device,
         \/ StartSync(d) \/ StartDownload(d) \/ Fail(d)
         \/ EndRound(d) \/ SaveCursor(d) \/ DownloadsDone(d)
  PROVE  Contents'
<1>1. UNCHANGED <<clock, lastWrite, log, data, outbox, versions>>
  BY DEF StartSync, StartDownload, Fail, EndRound, SaveCursor, DownloadsDone, local
<1>2. \E next : Moves(d, next)
  BY FreshMoves DEF Holds
<1>3. run'[d].todo \cup run'[d].batch = {}
      /\ RunFits(d, run'[d], outbox[d], versions[d], Logged)
  <2>1. CASE StartSync(d)
    <3>1. /\ run'[d].stage = "push" /\ run'[d].step = "load" /\ run'[d].markers = outbox[d]
          /\ run'[d].versions = {} /\ run'[d].todo = {} /\ run'[d].batch = {}
      BY <2>1 DEF StartSync, Become, NoRun, Holds, Inv, TypeOK
    <3>2. OneRowEach(outbox[d])
      BY DEF Holds, Inv, TypeOK
    <3> QED
      BY <3>1, <3>2 DEF RunFits, PushFits, RoundFits, MarkersRead, OneRowEach, Of
  <2>2. CASE ~StartSync(d)
    <3>1. PICK next : /\ Become(d, next)
                      /\ \/ next = NoRun
                         \/ next = [NoRun EXCEPT !.step = "download"]
                         \/ \E stage \in Stages, step \in Steps \ {"books"} :
                              next = At(d, stage, step)
      BY <2>2 DEF StartDownload, Fail, EndRound, AfterRound, SaveCursor,
                  DownloadsDone, Stages, Steps
    <3>2. /\ next.markers = {} /\ next.versions = {} /\ next.todo = {} /\ next.batch = {}
          /\ next.step # "books"
      <4>1. CASE next = NoRun \/ next = [NoRun EXCEPT !.step = "download"]
        BY <4>1 DEF NoRun
      <4>2. CASE \E stage \in Stages, step \in Steps \ {"books"} : next = At(d, stage, step)
        BY <4>2, AtFields DEF Holds, Inv
      <4> QED
        BY <3>1, <4>1, <4>2
    <3>3. run'[d] = next
      BY <3>1 DEF Become, Holds, Inv, TypeOK
    <3> QED
      BY <3>2, <3>3, EmptyFits
  <2> QED
    BY <2>1, <2>2
<1> QED
  BY <1>1, <1>2, <1>3, QuietContents

(* What a push goes on with. *)
LEMMA SendingFields ==
  ASSUME TypeOK, NEW d \in Device, NEW todo
  PROVE  /\ Sending(d, todo).markers = {} /\ Sending(d, todo).versions = {}
         /\ Sending(d, todo).batch = {} /\ Sending(d, todo).todo = todo
         /\ Sending(d, todo).step \in {"states", "send"}
<1>1. CASE todo = {}
  <2>1. "retry" \in Stages /\ "states" \in Steps
    BY DEF Stages, Steps
  <2> QED
    BY <1>1, <2>1, AtFields DEF Sending
<1>2. CASE todo # {}
  BY <1>2 DEF Sending, NoRun
<1> QED
  BY <1>1, <1>2

(* A push loads the markers it has read. *)
LEMMA LoadContents ==
  ASSUME Holds, NEW d \in Device, Load(d)
  PROVE  Contents'
<1> DEFINE todo == {ChangeFor(d, m) : m \in {k \in run[d].markers : ~Waits(d, k)}}
<1>1. UNCHANGED <<clock, lastWrite, log, data, outbox, versions>>
  BY DEF Load, local
<1>2. \E next : Moves(d, next)
  BY LoadMoves DEF Holds
<1>3. run'[d] = Sending(d, todo)
  BY DEF Load, Become, Holds, Inv, TypeOK
<1>4. todo \subseteq Loaded(d)
  BY DEF Loaded
<1>5. \A c \in todo : \E k \in run[d].markers :
        c.record = k.record /\ c.id = k.id /\ c.at = k.at /\ c.device = d /\ c = ChangeFor(d, k)
  BY DEF ChangeFor
<1> HIDE DEF todo
<1>6. /\ run'[d].markers = {} /\ run'[d].versions = {} /\ run'[d].batch = {}
      /\ run'[d].todo = todo /\ run'[d].step \in {"states", "send"}
  BY <1>3, SendingFields DEF Holds, Inv
<1>7. PushFits(d, run[d], outbox[d], Logged) /\ run[d].stage = "push"
      /\ OneRowEach(run[d].markers)
  BY DEF Holds, Inv, Contents, RunsFit, RunFits, Load, StagesFit, RunRows
<1>8. OneRowEach(todo)
  BY <1>5, <1>7 DEF OneRowEach
<1>9. PushFits(d, run'[d], outbox[d], Logged)
  <2>1. \A k \in todo : \E m \in outbox[d] : m.record = k.record
    BY <1>5, <1>7 DEF PushFits
  <2>2. NoSkew => \A k \in todo, m \in outbox[d] :
                    k.record = m.record => k.id = m.id \/ k.at < m.at
    BY <1>5, <1>7 DEF PushFits
  <2> QED
    BY <1>5, <1>6, <1>8, <2>1, <2>2 DEF PushFits
<1>10. RoundFits(run'[d], versions[d]) /\ MarkersRead(run'[d], outbox[d])
  BY <1>6, <1>8 DEF RoundFits, MarkersRead
<1> QED
  BY <1>1, <1>2, <1>4, <1>6, <1>9, <1>10, QuietContents DEF RunFits
(* Of two changes of one record one beats the other. *)
LEMMA WinnersOneRow ==
  ASSUME Holds, NEW page \in SUBSET Logged
  PROVE  OneRowEach(Winners(page))
<1>1. ASSUME NEW c \in Winners(page), NEW e \in Winners(page), c.record = e.record
      PROVE  c = e
  <2>1. c \in Logged /\ e \in Logged /\ ~Beats(c, e) /\ ~Beats(e, c)
    BY <1>1 DEF Winners
  <2>2. /\ c.id \in Nat /\ c.at \in Nat /\ c.device \in Nat
        /\ e.id \in Nat /\ e.at \in Nat /\ e.device \in Nat
    BY <2>1, LogType, SyncAssumption DEF Holds, Inv, Change
  <2>3. c.id = e.id
    BY <2>1, <2>2 DEF Beats, IsLaterVersion
  <2> QED
    BY <1>1, <2>1, <2>3 DEF Holds, Contents, LoggedOnce
<1> QED
  BY <1>1 DEF OneRowEach

(* What a round reads fits what it is read from. *)
LEMMA ReadContents ==
  ASSUME Holds, NEW d \in Device, Fetch(d) \/ ReadStates(d) \/ ListBooks(d)
  PROVE  Contents'
<1>1. UNCHANGED <<clock, lastWrite, log, data, outbox, versions>>
  BY DEF Fetch, ReadStates, ListBooks, local
<1>2. \E next : Moves(d, next)
  BY ReadMoves DEF Holds
<1>3. run[d] \in Run /\ run[d].stage # "push" /\ OneRowEach(held[d]) /\ OneRowEach(outbox[d])
  BY DEF Holds, Inv, TypeOK, StagesFit, Fetch, ReadStates, ListBooks
<1>4. RoundFits(run[d], versions[d]) /\ MarkersRead(run[d], outbox[d])
  BY DEF Holds, Contents, RunsFit, RunFits
<1>5. run[d].todo \cup run[d].batch \cup held[d] \cup Logged \subseteq Changes
  BY ChangeMembers
<1>6. CASE Fetch(d)
  <2> DEFINE last == IF cursor[d] + PageSize < Len(log)
                     THEN cursor[d] + PageSize ELSE Len(log)
             todo == Winners(PageUpTo(d, last))
             more == Len(log) > last
             next == [run[d] EXCEPT !.step = "states", !.todo = todo,
                                    !.next = last, !.more = more]
  <2>1. PageUpTo(d, last) \subseteq Logged
    BY LastPage, PageLogged DEF Holds, Inv
  <2>2. OneRowEach(todo) /\ todo \subseteq Logged
    BY <2>1, WinnersOneRow DEF Winners
  <2>3. run'[d] = next
    BY <1>6 DEF Fetch, Become, Holds, Inv, TypeOK
  <2> HIDE DEF last, todo, more
  <2>4. /\ run'[d].todo = todo /\ run'[d].batch = run[d].batch
        /\ run'[d].markers = run[d].markers /\ run'[d].versions = run[d].versions
        /\ run'[d].stage = run[d].stage /\ run'[d].step = "states"
    BY <1>3, <2>3 DEF Run
  <2>5. RunFits(d, run'[d], outbox[d], versions[d], Logged)
    BY <1>3, <1>4, <2>2, <2>4 DEF RunFits, PushFits, RoundFits, MarkersRead
  <2> QED
    BY <1>1, <1>2, <1>5, <2>2, <2>4, <2>5, QuietContents
<1>7. CASE ReadStates(d)
  <2>1. /\ run'[d].todo = run[d].todo /\ run'[d].batch = run[d].batch
        /\ run'[d].markers = outbox[d] /\ run'[d].versions = versions[d]
        /\ run'[d].stage = run[d].stage /\ run'[d].step = "books"
    <3>1. run'[d] = [run[d] EXCEPT !.step = "books", !.markers = outbox[d],
                                   !.versions = versions[d]]
      BY <1>7 DEF ReadStates, Become, Holds, Inv, TypeOK
    <3> QED
      BY <1>3, <3>1 DEF Run
  <2>2. RoundFits(run'[d], versions[d])
    <3>1. NoSkew => \A m \in outbox[d] : \A v \in Of(versions[d], m.record) : v.at < m.at
      BY DEF Holds, Contents, InTime
    <3> QED
      BY <1>4, <2>1, <3>1 DEF RoundFits
  <2>3. MarkersRead(run'[d], outbox[d])
    BY <1>3, <2>1 DEF MarkersRead, OneRowEach
  <2>4. RunFits(d, run'[d], outbox[d], versions[d], Logged)
    BY <1>3, <2>1, <2>2, <2>3 DEF RunFits, PushFits
  <2> QED
    BY <1>1, <1>2, <1>5, <2>1, <2>4, QuietContents
<1>8. CASE ListBooks(d)
  <2> DEFINE todo == IF run[d].stage = "pull" THEN run[d].todo ELSE held[d]
  <2>1. run'[d] = [run[d] EXCEPT !.step = "apply", !.shelf = Shelf(d), !.todo = todo]
    BY <1>8 DEF ListBooks, Become, Holds, Inv, TypeOK
  <2>2. OneRowEach(todo) /\ todo \subseteq run[d].todo \cup held[d]
    BY <1>3, <1>4 DEF RoundFits
  <2> HIDE DEF todo
  <2>3. /\ run'[d].todo = todo /\ run'[d].batch = run[d].batch
        /\ run'[d].markers = run[d].markers /\ run'[d].versions = run[d].versions
        /\ run'[d].stage = run[d].stage /\ run'[d].step = "apply"
    BY <1>3, <2>1 DEF Run
  <2>4. run[d].versions = versions[d]
    BY <1>4, <1>8 DEF RoundFits, ListBooks
  <2>5. RunFits(d, run'[d], outbox[d], versions[d], Logged)
    BY <1>3, <1>4, <2>2, <2>3, <2>4 DEF RunFits, PushFits, RoundFits, MarkersRead
  <2> QED
    BY <1>1, <1>2, <1>5, <2>2, <2>3, <2>5, QuietContents
<1> QED
  BY <1>6, <1>7, <1>8

(* A change that is dropped or kept aside is done with, and so is a copy    *)
(* that is let go.                                                          *)
LEMMA AsideContents ==
  ASSUME Holds, NEW d \in Device,
         Release(d) \/ \E c \in run[d].todo : Drop(d, c) \/ Hold(d, c)
  PROVE  Contents'
<1>1. UNCHANGED <<clock, lastWrite, log, data, outbox, versions>>
  BY DEF Release, Drop, Hold
<1>2. \E next : Moves(d, next)
  BY ReleaseMoves, ReconcileMoves DEF Holds
<1>3. /\ run[d] \in Run /\ run[d].stage # "push" /\ run[d].step \in {"apply", "release"}
      /\ run[d].todo \cup run[d].batch \subseteq Changes
  BY ChangeMembers DEF Holds, Inv, TypeOK, StagesFit, Release, Drop, Hold, Reconciles
<1>4. RoundFits(run[d], versions[d]) /\ MarkersRead(run[d], outbox[d])
  BY DEF Holds, Contents, RunsFit, RunFits
<1>5. /\ run'[d].todo \subseteq run[d].todo /\ run'[d].batch \subseteq run[d].batch
      /\ run'[d].markers = run[d].markers /\ run'[d].versions = run[d].versions
      /\ run'[d].stage = run[d].stage /\ run'[d].step = "apply"
  <2>1. CASE Release(d)
    <3>1. run'[d] = [run[d] EXCEPT !.step = "apply", !.batch = {}]
      BY <2>1 DEF Release, Become, Holds, Inv, TypeOK
    <3> QED
      BY <1>3, <3>1 DEF Run
  <2>2. ASSUME NEW c \in run[d].todo, Drop(d, c) \/ Hold(d, c)
        PROVE  /\ run'[d].todo \subseteq run[d].todo /\ run'[d].batch \subseteq run[d].batch
               /\ run'[d].markers = run[d].markers /\ run'[d].versions = run[d].versions
               /\ run'[d].stage = run[d].stage /\ run'[d].step = "apply"
    <3>1. run'[d] = [run[d] EXCEPT !.todo = run[d].todo \ {c}] /\ run[d].step = "apply"
      BY <2>2 DEF Drop, Hold, Done, Reconciles, Become, Holds, Inv, TypeOK
    <3> QED
      BY <1>3, <3>1 DEF Run
  <2> QED
    BY <2>1, <2>2
<1>6. RunFits(d, run'[d], outbox[d], versions[d], Logged)
  BY <1>3, <1>4, <1>5 DEF RunFits, PushFits, RoundFits, MarkersRead, OneRowEach
<1> QED
  BY <1>1, <1>2, <1>3, <1>5, <1>6, QuietContents
-------------------------------------------------------------------------------
(* The three steps of a run that change what others rely on: a batch is     *)
(* sent, a batch is settled, a change is applied.                           *)

(* The server appends what it does not have.  What a device sends it wrote  *)
(* before now.                                                              *)
LEMMA SendContents ==
  ASSUME Holds, NEW d \in Device, Send(d)
  PROVE  Contents'
<1>1. PICK B \in NextBatches(run[d].todo) :
        /\ \E s \in OldestFirst({c \in B : ~Stored(c)}) : log' = log \o s
        /\ Become(d, [run[d] EXCEPT !.step = "settle", !.batch = B,
                                    !.todo = run[d].todo \ B])
  BY DEF Send
<1> DEFINE fresh == {c \in B : ~Stored(c)}
<1>2. PICK s \in OldestFirst(fresh) : log' = log \o s
  BY <1>1
<1>3. run[d] \in Run /\ run[d].stage = "push"
  BY DEF Holds, Inv, TypeOK, StagesFit, Send
<1>4. B \subseteq run[d].todo
  BY DEF NextBatches
<1>5. PICK n \in 0..BatchSize : s \in [1..n -> fresh]
  BY DEF OldestFirst
<1>6. s \in [1..n -> Change] /\ n \in Nat /\ log \in Seq(Change)
  BY <1>3, <1>4, <1>5, SyncAssumption DEF Holds, Inv, TypeOK, Run
<1>7. Logged' = Logged \cup fresh
  <2>1. Elements(log \o s) = Elements(log) \cup Elements(s)
    BY <1>6, AppendType
  <2>2. Elements(s) = fresh
    BY <1>5 DEF OldestFirst, Elements
  <2> QED
    BY <1>2, <2>1, <2>2 DEF Logged, Elements
<1>8. /\ run'[d].todo = run[d].todo \ B /\ run'[d].batch = B
      /\ run'[d].markers = run[d].markers /\ run'[d].stage = "push"
      /\ run'[d].versions = run[d].versions /\ run'[d].step = "settle"
  <2>1. run'[d] = [run[d] EXCEPT !.step = "settle", !.batch = B, !.todo = run[d].todo \ B]
    BY <1>1 DEF Become, Holds, Inv, TypeOK
  <2> QED
    BY <1>3, <2>1 DEF Run
<1>9. /\ UNCHANGED <<lastWrite, data, outbox, versions>>
      /\ clock' = IF Used THEN clock + 1 ELSE clock
  BY DEF Send, local
<1>10. \E next : Moves(d, next)
  BY SendMoves DEF Holds
<1>11. RunFits(d, run[d], outbox[d], versions[d], Logged)
  BY DEF Holds, Contents, RunsFit
<1>12. OneRowEach(B) /\ \A c \in B : c.device = d /\ c \in Change
  BY <1>3, <1>4, <1>11 DEF RunFits, PushFits, OneRowEach, Run
<1>13. StampsTimed'
  BY <1>9, <1>10, MovesTimed DEF Holds, Contents
<1>14. LoggedOnce'
  BY <1>7, <1>12 DEF LoggedOnce, Holds, Contents, Stored, OneRowEach
<1>15. MarkersCurrent'
  <2>1. run'[d].todo \cup run'[d].batch \subseteq Changes \cup Loaded(d)
    BY <1>4, <1>8, ChangeMembers
  <2> QED
    BY <1>9, <1>10, <2>1, MovesCurrent
<1>16. InTime'
  <2>1. clock \in Nat /\ lastWrite \in [Device -> Nat]
        /\ \A e \in Device : lastWrite[e] <= clock
    BY DEF Holds, Inv, TypeOK, Contents, InTime
  <2>2. \A e \in Device : lastWrite'[e] <= clock' /\ lastWrite[e] < clock'
    BY <1>9, <2>1 DEF Used
  <2>3. ASSUME NoSkew, NEW c \in Logged'
        PROVE  c.at < clock'
    <3>1. CASE c \in Logged
      <4>1. c.at < clock /\ c.at \in Nat
        BY <2>3, <3>1, LogType DEF Holds, Inv, Contents, InTime, Change
      <4> QED
        BY <1>9, <2>1, <4>1
    <3>2. CASE c \in fresh
      <4>1. StampOf(c) \in Stamps /\ c.device = d /\ c.at \in Nat
        BY <1>4, <1>12, <3>2, StampsHere DEF Change
      <4>2. c.at <= lastWrite[d] + Skew[d]
        BY <4>1 DEF StampOf, Holds, Contents, StampsTimed
      <4>3. c.at <= lastWrite[d]
        BY <2>1, <2>3, <4>1, <4>2 DEF NoSkew
      <4> QED
        BY <1>9, <2>1, <2>2, <4>1, <4>3
    <3> QED
      BY <1>7, <3>1, <3>2
  <2>4. NoSkew => \A e \in Device : \A m \in outbox'[e] :
          \A v \in Of(versions'[e], m.record) : v.at < m.at
    BY <1>9 DEF Holds, Contents, InTime
  <2> QED
    BY <2>2, <2>3, <2>4 DEF InTime
<1>17. RunsFit'
  <2>1. PushFits(d, run'[d], outbox[d], Logged')
    <3>1. PushFits(d, run[d], outbox[d], Logged)
      BY <1>11 DEF RunFits
    <3>2. \A c \in B : \E e \in Logged' : e.record = c.record /\ e.id = c.id
      BY <1>7 DEF Stored
    <3>3. OneRowEach(run'[d].todo \cup run'[d].batch)
          /\ run'[d].todo \cap run'[d].batch = {}
      BY <1>3, <1>4, <1>8, <3>1 DEF PushFits, OneRowEach
    <3>4. run[d].markers = {} /\ run'[d].todo \cup run'[d].batch \subseteq run[d].todo
      BY <1>3, <1>4, <1>8, <3>1 DEF PushFits, Send
    <3>5. /\ \A c \in run'[d].todo \cup run'[d].batch : c.device = d
          /\ \A k \in run'[d].todo \cup run'[d].batch : \E m \in outbox[d] : m.record = k.record
          /\ NoSkew => \A k \in run'[d].todo \cup run'[d].batch, m \in outbox[d] :
                         k.record = m.record => k.id = m.id \/ k.at < m.at
      BY <1>3, <3>1, <3>4 DEF PushFits
    <3> QED
      BY <1>8, <3>2, <3>3, <3>4, <3>5 DEF PushFits
  <2>2. RoundFits(run'[d], versions[d]) /\ MarkersRead(run'[d], outbox[d])
    BY <1>8, <1>11 DEF RunFits, RoundFits, MarkersRead, OneRowEach
  <2> QED
    BY <1>9, <1>10, <2>1, <2>2, OthersFit DEF RunFits
<1>18. ContentMatchesVersion'
  <2>1. Logged \subseteq Logged'
    BY <1>7
  <2> QED
    BY <1>9, <2>1 DEF ContentMatchesVersion, Holds, Contents
<1> QED
  BY <1>13, <1>14, <1>15, <1>16, <1>17, <1>18 DEF Contents
(* What a settled part of a batch does to the versions. *)
LEMMA SettledVersionsRise ==
  ASSUME NEW old, NEW part, OneRowEach(part)
  PROVE  /\ \A v \in SettledVersions(old, part) :
              v \in old \/ \E c \in part : v = VersionOf(c)
         /\ \A v \in old :
              \/ v \in SettledVersions(old, part)
              \/ \E w \in Of(SettledVersions(old, part), v.record) : IsLaterVersion(w, v)
         /\ \A c \in part :
              \/ VersionOf(c) \in SettledVersions(old, part)
              \/ \E v \in old : /\ v \in SettledVersions(old, part)
                               /\ v.record = c.record /\ ~IsLaterVersion(c, v)
         /\ \A c \in part : (\A v \in Of(old, c.record) : IsLaterVersion(c, v))
              => VersionOf(c) \in SettledVersions(old, part)
         /\ \A r : (\A c \in part : c.record # r)
              => Of(SettledVersions(old, part), r) = Of(old, r)
<1> DEFINE later == {e \in part : \A v \in Of(old, e.record) : IsLaterVersion(e, v)}
           new == {VersionOf(c) : c \in later}
           result == SettledVersions(old, part)
<1>1. result = Without(old, {v.record : v \in new}) \cup new
  BY DEF SettledVersions
<1>2. \A c : /\ VersionOf(c).record = c.record /\ VersionOf(c).at = c.at
            /\ VersionOf(c).device = c.device
  BY DEF VersionOf
<1>3. \A w \in new : \E c \in later : w = VersionOf(c)
  OBVIOUS
<1>4. \A c \in later : VersionOf(c) \in new /\ c \in part
  OBVIOUS
<1>5. \A c \in part : c \in later <=> \A v \in Of(old, c.record) : IsLaterVersion(c, v)
  OBVIOUS
<1>6. \A v \in result : v \in new \/ (v \in old /\ \A w \in new : w.record # v.record)
  BY <1>1 DEF Without
<1>7. \A v : (v \in new \/ (v \in old /\ \A w \in new : w.record # v.record)) => v \in result
  BY <1>1 DEF Without
<1> HIDE DEF later, new, result
<1>8. \A v \in result : v \in old \/ \E c \in part : v = VersionOf(c)
  BY <1>3, <1>4, <1>6
<1>9. ASSUME NEW v \in old, v \notin result
      PROVE  \E w \in Of(result, v.record) : IsLaterVersion(w, v)
  <2>1. PICK w \in new : w.record = v.record
    BY <1>7, <1>9
  <2>2. PICK c \in later : w = VersionOf(c)
    BY <1>3
  <2>3. v \in Of(old, c.record)
    BY <1>2, <2>1, <2>2 DEF Of
  <2>4. IsLaterVersion(w, v)
    BY <1>2, <1>4, <1>5, <2>2, <2>3 DEF IsLaterVersion
  <2> QED
    BY <1>7, <2>1, <2>4 DEF Of
<1>10. ASSUME NEW c \in part, VersionOf(c) \notin result
       PROVE  \E v \in old : v \in result /\ v.record = c.record /\ ~IsLaterVersion(c, v)
  <2>1. c \notin later
    BY <1>4, <1>7, <1>10
  <2>2. PICK v \in old : v.record = c.record /\ ~IsLaterVersion(c, v)
    BY <1>5, <2>1 DEF Of
  <2>3. ASSUME NEW w \in new PROVE w.record # v.record
    <3>1. PICK e \in later : w = VersionOf(e)
      BY <1>3
    <3>2. CASE e.record = c.record
      BY <1>4, <2>1, <3>1, <3>2 DEF OneRowEach
    <3>3. CASE e.record # c.record
      BY <1>2, <2>2, <3>1, <3>3
    <3> QED
      BY <3>2, <3>3
  <2> QED
    BY <1>7, <2>2, <2>3
<1>11. \A c \in part : (\A v \in Of(old, c.record) : IsLaterVersion(c, v))
         => VersionOf(c) \in result
  BY <1>4, <1>5, <1>7
<1>12. ASSUME NEW r, \A c \in part : c.record # r
       PROVE  Of(result, r) = Of(old, r)
  <2>1. \A w \in new : w.record # r
    BY <1>2, <1>3, <1>4, <1>12
  <2> QED
    BY <1>6, <1>7, <2>1 DEF Of
<1> QED
  BY <1>8, <1>9, <1>10, <1>11, <1>12 DEF result

(* What a step that settles does. *)
LEMMA SettleDoes ==
  ASSUME Holds, NEW d \in Device, Settle(d)
  PROVE  LET part == SettleNext(run[d].batch)
         IN  /\ part \subseteq run[d].batch /\ OneRowEach(part)
             /\ outbox'[d] = SettledOutbox(outbox[d], part)
             /\ versions'[d] = SettledVersions(versions[d], part)
             /\ \A e \in Device \ {d} : outbox'[e] = outbox[e] /\ versions'[e] = versions[e]
             /\ run[d].stage = "push" /\ run[d].step = "settle"
             /\ run'[d].todo = run[d].todo
             /\ run'[d].batch = run[d].batch \ part
             /\ run'[d].markers \subseteq run[d].markers
             /\ \/ run'[d].versions = {} \/ run'[d].versions = run[d].versions
             /\ run'[d].step \in {"states", "send", "settle"}
<1> DEFINE part == SettleNext(run[d].batch)
           rest == run[d].batch \ part
           next == IF rest = {} THEN Sending(d, run[d].todo)
                   ELSE [run[d] EXCEPT !.batch = rest]
<1>1. run[d] \in Run /\ run[d].stage = "push" /\ run[d].step = "settle"
  BY DEF Holds, Inv, TypeOK, StagesFit, Settle
<1>2. part \subseteq run[d].batch
  BY DEF SettleNext
<1>3. OneRowEach(part)
  BY <1>2 DEF Holds, Inv, RunRows, OneRowEach
<1>4. /\ outbox' = [outbox EXCEPT ![d] = SettledOutbox(outbox[d], part)]
      /\ versions' = [versions EXCEPT ![d] = SettledVersions(versions[d], part)]
      /\ Become(d, next)
  BY DEF Settle
<1>5. run'[d] = next
  BY <1>4 DEF Become, Holds, Inv, TypeOK
<1> HIDE DEF part, rest
<1>6. /\ run'[d].todo = run[d].todo /\ run'[d].batch = rest
      /\ run'[d].markers \subseteq run[d].markers
      /\ run'[d].versions = {} \/ run'[d].versions = run[d].versions
      /\ run'[d].step \in {"states", "send", "settle"}
  <2>1. CASE rest = {}
    <3>1. run'[d] = Sending(d, run[d].todo)
      BY <1>5, <2>1
    <3> QED
      BY <2>1, <3>1, SendingFields DEF Holds, Inv
  <2>2. CASE rest # {}
    <3>1. run'[d] = [run[d] EXCEPT !.batch = rest]
      BY <1>5, <2>2
    <3> HIDE DEF next
    <3> QED
      BY <1>1, <3>1 DEF Run
  <2> QED
    BY <2>1, <2>2
<1>7. /\ outbox'[d] = SettledOutbox(outbox[d], part)
      /\ versions'[d] = SettledVersions(versions[d], part)
      /\ \A e \in Device \ {d} : outbox'[e] = outbox[e] /\ versions'[e] = versions[e]
  BY <1>4 DEF Holds, Inv, TypeOK
<1> QED
  BY <1>1, <1>2, <1>3, <1>6, <1>7 DEF part, rest

(* A marker that is settled leaves its version behind, and what the device  *)
(* has is what it sent.                                                     *)
LEMMA SettleContents ==
  ASSUME Holds, NEW d \in Device, Settle(d)
  PROVE  Contents'
<1> DEFINE part == SettleNext(run[d].batch)
<1>1. /\ part \subseteq run[d].batch /\ OneRowEach(part)
      /\ outbox'[d] = SettledOutbox(outbox[d], part)
      /\ versions'[d] = SettledVersions(versions[d], part)
      /\ \A e \in Device \ {d} : outbox'[e] = outbox[e] /\ versions'[e] = versions[e]
      /\ run[d].stage = "push" /\ run[d].step = "settle"
  BY SettleDoes
<1>2. /\ run'[d].todo = run[d].todo
      /\ run'[d].batch = run[d].batch \ part
      /\ run'[d].markers \subseteq run[d].markers
      /\ run'[d].versions = {} \/ run'[d].versions = run[d].versions
      /\ run'[d].step \in {"states", "send", "settle"}
  BY SettleDoes
<1> HIDE DEF part
<1>3. UNCHANGED <<clock, lastWrite, log, data, held>> /\ Logged' = Logged
  BY DEF Settle, Logged
<1>4. \E next : Moves(d, next)
  BY SettleMoves DEF Holds
<1>5. PushFits(d, run[d], outbox[d], Logged) /\ RoundFits(run[d], versions[d])
      /\ MarkersRead(run[d], outbox[d])
  BY DEF Holds, Contents, RunsFit, RunFits
<1>6. \A m \in outbox[d] :
        m \in outbox'[d] <=> ~\E c \in part : c.record = m.record /\ c.id = m.id
  BY <1>1 DEF SettledOutbox
<1>7. outbox'[d] \subseteq outbox[d]
  BY <1>1 DEF SettledOutbox
<1>8. /\ \A v \in versions'[d] : v \in versions[d] \/ \E c \in part : v = VersionOf(c)
      /\ \A c \in part : (\A v \in Of(versions[d], c.record) : IsLaterVersion(c, v))
           => VersionOf(c) \in versions'[d]
      /\ \A r : (\A c \in part : c.record # r) => Of(versions'[d], r) = Of(versions[d], r)
  BY <1>1, SettledVersionsRise
<1>9. StampsTimed'
  BY <1>3, <1>4, MovesTimed DEF Holds, Contents
<1>10. MarkersCurrent'
  <2>1. run'[d].todo \cup run'[d].batch \subseteq Changes \cup Loaded(d)
    BY <1>2, ChangeMembers
  <2> QED
    BY <1>3, <1>4, <2>1, MovesCurrent
<1>11. InTime'
  <2>1. ASSUME NoSkew, NEW e \in Device, NEW m \in outbox'[e],
               NEW v \in Of(versions'[e], m.record)
        PROVE  v.at < m.at
    <3>1. CASE m \in outbox[e] /\ v \in versions[e]
      BY <2>1, <3>1 DEF Holds, Contents, InTime, Of
    <3>2. CASE e # d
      BY <1>1, <2>1, <3>1, <3>2 DEF Of
    <3>3. ASSUME e = d, NEW c \in part, v = VersionOf(c)
          PROVE  v.at < m.at
      <4>1. m \in outbox[d] /\ c.record = m.record /\ v.at = c.at
        BY <1>7, <2>1, <3>3 DEF Of, VersionOf
      <4>2. c.id # m.id
        BY <1>6, <2>1, <3>3, <4>1
      <4>3. c.at < m.at
        BY <1>1, <1>5, <2>1, <4>1, <4>2 DEF PushFits
      <4> QED
        BY <4>1, <4>3
    <3> QED
      BY <1>7, <1>8, <2>1, <3>1, <3>2, <3>3 DEF Of
  <2> QED
    BY <1>3, <2>1 DEF InTime, Holds, Contents
<1>12. RunsFit'
  <2>1. PushFits(d, run'[d], outbox'[d], Logged')
    <3>1. ASSUME NEW k \in run'[d].markers \cup run'[d].todo \cup run'[d].batch,
                 run'[d].stage = "push"
          PROVE  \E m \in outbox'[d] : m.record = k.record
      <4>1. k \in run[d].todo \/ (k \in run[d].batch /\ k \notin part)
        BY <1>1, <1>2, <1>5, <3>1 DEF PushFits
      <4>2. PICK m \in outbox[d] : m.record = k.record
        BY <1>1, <1>5, <4>1 DEF PushFits
      <4>3. ASSUME NEW c \in part PROVE c.record # k.record
        BY <1>1, <1>5, <4>1, <4>3 DEF PushFits, OneRowEach
      <4> QED
        BY <1>6, <4>2, <4>3
    <3>2. OneRowEach(run'[d].todo \cup run'[d].batch)
          /\ run'[d].todo \cap run'[d].batch = {}
      BY <1>1, <1>2, <1>5 DEF PushFits, OneRowEach
    <3> QED
      BY <1>1, <1>2, <1>3, <1>5, <1>7, <3>1, <3>2 DEF PushFits
  <2>2. RoundFits(run'[d], versions'[d])
    BY <1>2, <1>5 DEF RoundFits, Of
  <2>3. MarkersRead(run'[d], outbox'[d])
    BY <1>2, <1>5, <1>7 DEF MarkersRead
  <2> QED
    BY <1>1, <1>4, <2>1, <2>2, <2>3, OthersFit DEF RunFits
<1>13. ContentMatchesVersion'
  <2>1. ASSUME NoSkew, NEW e \in Device, NEW r \in Record, Kind[r] = "tag",
               Of(outbox'[e], r) = {}
        PROVE  IF Of(versions'[e], r) = {} THEN data'[e][r] = Absent
               ELSE \E c \in Logged' : /\ VersionOf(c) \in Of(versions'[e], r)
                                       /\ data'[e][r] = c.data
    <3>1. CASE Of(outbox[e], r) = {} /\ Of(versions'[e], r) = Of(versions[e], r)
      BY <1>3, <2>1, <3>1 DEF Holds, Contents, ContentMatchesVersion
    <3>2. CASE e # d
      BY <1>1, <2>1, <3>1, <3>2
    <3>3. CASE e = d /\ Of(outbox[d], r) = {}
      <4>1. \A c \in part : c.record # r
        BY <1>1, <1>5, <3>3 DEF PushFits, Of
      <4> QED
        BY <1>8, <3>1, <3>3, <4>1
    <3>4. ASSUME e = d, NEW m \in outbox[d], m.record = r
          PROVE  \E c \in Logged' : /\ VersionOf(c) \in Of(versions'[d], r)
                                    /\ data'[d][r] = c.data
      <4>1. PICK c \in part : c.record = r /\ c.id = m.id
        BY <1>6, <2>1, <3>4 DEF Of
      <4>2. PICK f \in Logged : f.record = r /\ f.id = m.id
        BY <1>1, <1>5, <4>1 DEF PushFits
      <4> DEFINE x == [record |-> m.record, id |-> m.id, at |-> m.at, device |-> d]
      <4>3. x \in Stamps /\ StampOf(c) \in Stamps /\ StampOf(f) \in Stamps
        <5>1. x \in Marks(d)
          BY DEF Marks
        <5> QED
          BY <1>1, <4>1, <4>2, <5>1, StampMembers, StampsHere
      <4>4. StampOf(c) = x /\ StampOf(f) = x
        BY <3>4, <4>1, <4>2, <4>3 DEF StampOf, Holds, Inv, StampsAgree
      <4>5. c.at = m.at /\ VersionOf(f) = VersionOf(c) /\ VersionOf(c).record = r
        BY <4>1, <4>4 DEF StampOf, VersionOf
      <4>6. \A v \in Of(versions[d], r) : IsLaterVersion(c, v)
        <5>1. \A v \in Of(versions[d], r) : v.at < m.at
          BY <2>1, <3>4 DEF Holds, Contents, InTime
        <5>2. m.at \in Nat /\ \A v \in versions[d] : v.at \in Nat
          BY DEF Holds, Inv, TypeOK, Marker, Version
        <5> QED
          BY <4>5, <5>1, <5>2 DEF IsLaterVersion, Of
      <4>7. VersionOf(f) \in Of(versions'[d], r)
        BY <1>8, <4>1, <4>5, <4>6 DEF Of
      <4>8. f.data = data[d][r]
        <5>1. f \in Changes
          BY <4>2, ChangeMembers
        <5> QED
          BY <2>1, <3>4, <4>2, <5>1 DEF Holds, Contents, MarkersCurrent
      <4> QED
        BY <1>3, <4>2, <4>7, <4>8
    <3> QED
      BY <3>2, <3>3, <3>4 DEF Of
  <2> QED
    BY <2>1 DEF ContentMatchesVersion
<1> QED
  BY <1>3, <1>9, <1>10, <1>11, <1>12, <1>13 DEF Contents, LoggedOnce, Holds
(* Of the free records an applied change writes its own. *)
LEMMA TouchesOwn ==
  ASSUME NEW d \in Device, NEW c, NEW r \in Record, Kind[r] = "tag"
  PROVE  r \in Touches(d, c) <=> r = c.record
BY DEF Touches, RowsOf

(* What a step that applies a change does. *)
LEMMA ApplyDoes ==
  ASSUME Holds, NEW d \in Device, NEW c \in run[d].todo, Apply(d, c)
  PROVE  /\ UNCHANGED <<clock, writes, lastWrite, log, held, cursor>> /\ Logged' = Logged
         /\ \A e \in Device \ {d} : /\ outbox'[e] = outbox[e] /\ versions'[e] = versions[e]
                                   /\ data'[e] = data[e]
         /\ outbox'[d] = Without(outbox[d], {c.record})
         /\ versions'[d] = Put(versions[d], VersionOf(c))
         /\ \A r \in Record : Kind[r] = "tag" =>
              data'[d][r] = IF r = c.record THEN c.data ELSE data[d][r]
         /\ run[d].stage # "push" /\ run[d].step = "apply" /\ c \in Logged
         /\ run'[d].todo = run[d].todo \ {c} /\ run'[d].batch \subseteq {c}
         /\ run'[d].markers = run[d].markers /\ run'[d].versions = run[d].versions
         /\ run'[d].stage = run[d].stage /\ run'[d].step \in {"apply", "release"}
<1> DEFINE shelf == IF c.data = Absent THEN run[d].shelf \ {c.record} ELSE run[d].shelf
           kept == Of(held[d], c.record) # {}
           step == IF kept THEN "release" ELSE "apply"
           batch == IF kept THEN {c} ELSE {}
           next == [run[d] EXCEPT !.todo = run[d].todo \ {c}, !.shelf = shelf,
                                  !.step = step, !.batch = batch]
           content == [r \in Record |-> IF r \in Touches(d, c) THEN c.data ELSE data[d][r]]
<1>1. /\ run[d] \in Run /\ run[d].stage # "push" /\ run[d].step = "apply"
      /\ run[d].todo \subseteq Logged
  BY DEF Holds, Inv, TypeOK, StagesFit, InFlight, Apply, Reconciles
<1>2. Become(d, next)
  BY DEF Apply
<1>3. run'[d] = next
  BY <1>2 DEF Become, Holds, Inv, TypeOK
<1>4. batch \subseteq {c} /\ step \in {"apply", "release"}
  OBVIOUS
<1> HIDE DEF shelf, kept, step, batch
<1>5. /\ run'[d].todo = run[d].todo \ {c} /\ run'[d].batch = batch
      /\ run'[d].markers = run[d].markers /\ run'[d].versions = run[d].versions
      /\ run'[d].stage = run[d].stage /\ run'[d].step = step
  BY <1>1, <1>3 DEF Run
<1>6. /\ data' = [data EXCEPT ![d] = content]
      /\ outbox' = [outbox EXCEPT ![d] = Without(outbox[d], {c.record})]
      /\ versions' = [versions EXCEPT ![d] = Put(versions[d], VersionOf(c))]
  BY DEF Apply
<1>7. /\ UNCHANGED <<clock, writes, lastWrite, log, held, cursor>> /\ Logged' = Logged
  BY DEF Apply, Logged
<1>8. data'[d] = content
      /\ outbox'[d] = Without(outbox[d], {c.record})
      /\ versions'[d] = Put(versions[d], VersionOf(c))
      /\ \A e \in Device \ {d} : /\ outbox'[e] = outbox[e] /\ versions'[e] = versions[e]
                                /\ data'[e] = data[e]
  BY <1>6 DEF Holds, Inv, TypeOK
<1>9. \A r \in Record : Kind[r] = "tag" =>
        data'[d][r] = IF r = c.record THEN c.data ELSE data[d][r]
  BY <1>8, TouchesOwn
<1> QED
  BY <1>1, <1>4, <1>5, <1>7, <1>8, <1>9

(* An applied change leaves its version, its content and no marker. *)
LEMMA ApplyContents ==
  ASSUME Holds, NEW d \in Device, NEW c \in run[d].todo, Apply(d, c)
  PROVE  Contents'
<1>1. /\ UNCHANGED <<clock, writes, lastWrite, log, held, cursor>> /\ Logged' = Logged
      /\ \A e \in Device \ {d} : /\ outbox'[e] = outbox[e] /\ versions'[e] = versions[e]
                                /\ data'[e] = data[e]
      /\ outbox'[d] = Without(outbox[d], {c.record})
      /\ versions'[d] = Put(versions[d], VersionOf(c))
      /\ \A r \in Record : Kind[r] = "tag" =>
           data'[d][r] = IF r = c.record THEN c.data ELSE data[d][r]
      /\ run[d].stage # "push" /\ run[d].step = "apply" /\ c \in Logged
  BY ApplyDoes
<1>2. /\ run'[d].todo = run[d].todo \ {c} /\ run'[d].batch \subseteq {c}
      /\ run'[d].markers = run[d].markers /\ run'[d].versions = run[d].versions
      /\ run'[d].stage = run[d].stage /\ run'[d].step \in {"apply", "release"}
  BY ApplyDoes
<1>3. \E next : Moves(d, next)
  BY ReconcileMoves DEF Holds
<1>4. RoundFits(run[d], versions[d]) /\ MarkersRead(run[d], outbox[d])
  BY DEF Holds, Contents, RunsFit, RunFits
<1>5. \A m \in outbox'[d] : m \in outbox[d] /\ m.record # c.record
  BY <1>1 DEF Without
<1>6. \A r : r # c.record => /\ Of(versions'[d], r) = Of(versions[d], r)
                            /\ Of(outbox'[d], r) = Of(outbox[d], r)
  BY <1>1 DEF Put, Without, Of, VersionOf
<1>7. VersionOf(c) \in Of(versions'[d], c.record)
  BY <1>1 DEF Put, Of, VersionOf
<1>8. StampsTimed'
  BY <1>1, <1>3, MovesTimed DEF Holds, Contents
<1>9. MarkersCurrent'
  <2>1. run'[d].todo \cup run'[d].batch \subseteq Changes \cup Loaded(d)
    BY <1>2, ChangeMembers
  <2>2. \A e \in Device : \A m \in outbox'[e] :
          Kind[m.record] = "tag" => data'[e][m.record] = data[e][m.record]
    <3>1. ASSUME NEW e \in Device, NEW m \in outbox'[e], Kind[m.record] = "tag"
          PROVE  data'[e][m.record] = data[e][m.record]
      <4>1. CASE e # d
        BY <1>1, <4>1
      <4>2. CASE e = d
        <5>1. m \in outbox[d] /\ m.record # c.record
          BY <1>5, <3>1, <4>2
        <5>2. m.record \in Record
          BY <5>1 DEF Holds, Inv, TypeOK, Marker
        <5> QED
          BY <1>1, <3>1, <4>2, <5>1, <5>2
      <4> QED
        BY <4>1, <4>2
    <3> QED
      BY <3>1
  <2> QED
    BY <1>3, <2>1, <2>2, MovesCurrent
<1>10. InTime'
  <2>1. ASSUME NoSkew, NEW e \in Device, NEW m \in outbox'[e],
               NEW v \in Of(versions'[e], m.record)
        PROVE  v.at < m.at
    <3>1. m \in outbox[e] /\ v \in Of(versions[e], m.record)
      BY <1>1, <1>5, <1>6, <2>1
    <3> QED
      BY <2>1, <3>1 DEF Holds, Contents, InTime
  <2> QED
    BY <1>1, <2>1 DEF InTime, Holds, Contents
<1>11. RunsFit'
  <2>1. PushFits(d, run'[d], outbox'[d], Logged')
    BY <1>1, <1>2 DEF PushFits
  <2>2. RoundFits(run'[d], versions'[d])
    <3>1. \A e \in run'[d].todo : e.record # c.record
      BY <1>2, <1>4 DEF RoundFits, OneRowEach
    <3> QED
      BY <1>1, <1>2, <1>4, <1>6, <3>1 DEF RoundFits, OneRowEach
  <2>3. MarkersRead(run'[d], outbox'[d])
    BY <1>2, <1>4, <1>5 DEF MarkersRead
  <2> QED
    BY <1>1, <1>3, <2>1, <2>2, <2>3, OthersFit DEF RunFits
<1>12. ContentMatchesVersion'
  <2>1. ASSUME NoSkew, NEW e \in Device, NEW r \in Record, Kind[r] = "tag",
               Of(outbox'[e], r) = {}
        PROVE  IF Of(versions'[e], r) = {} THEN data'[e][r] = Absent
               ELSE \E f \in Logged' : /\ VersionOf(f) \in Of(versions'[e], r)
                                       /\ data'[e][r] = f.data
    <3>1. CASE e = d /\ r = c.record
      BY <1>1, <1>7, <2>1, <3>1
    <3>2. CASE e # d \/ r # c.record
      <4>1. /\ Of(outbox[e], r) = {} /\ Of(versions'[e], r) = Of(versions[e], r)
            /\ data'[e][r] = data[e][r]
        BY <1>1, <1>6, <2>1, <3>2
      <4> QED
        BY <1>1, <2>1, <4>1 DEF Holds, Contents, ContentMatchesVersion
    <3> QED
      BY <3>1, <3>2
  <2> QED
    BY <2>1 DEF ContentMatchesVersion
<1> QED
  BY <1>1, <1>8, <1>9, <1>10, <1>11, <1>12 DEF Contents, LoggedOnce, Holds
-------------------------------------------------------------------------------
(* The theorems. *)

(* Nothing is pushed, read or held at first. *)
LEMMA HoldsInit == Init => Holds
<1> SUFFICES ASSUME Init PROVE Holds
  OBVIOUS
<1>1. Inv
  BY InvInit
<1>2. \A d \in Device : /\ run[d] = NoRun /\ outbox[d] = {} /\ versions[d] = {}
                        /\ held[d] = {} /\ data[d] = [r \in Record |-> Absent]
                        /\ lastWrite[d] = 0
  BY DEF Init
<1>3. NoRun.todo = {} /\ NoRun.batch = {} /\ NoRun.markers = {} /\ NoRun.versions = {}
      /\ NoRun.step = "idle"
  BY DEF NoRun
<1>4. Logged = {} /\ clock = 1
  BY DEF Init, Logged
<1>5. Stamps = {}
  <2>1. \A d \in Device : Marks(d) = {}
    BY <1>2, <1>3 DEF Marks
  <2>2. Changes = {}
    BY <1>2, <1>3, <1>4 DEF Changes
  <2> QED
    BY <2>1, <2>2, StampMembers
<1>6. StampsTimed /\ LoggedOnce /\ MarkersCurrent
  BY <1>2, <1>4, <1>5 DEF StampsTimed, LoggedOnce, MarkersCurrent
<1>7. InTime
  BY <1>2, <1>4 DEF InTime
<1>8. RunsFit
  BY <1>2, <1>3, EmptyFits DEF RunsFit
<1>9. ContentMatchesVersion
  BY <1>2 DEF ContentMatchesVersion, Of
<1> QED
  BY <1>1, <1>6, <1>7, <1>8, <1>9 DEF Holds, Contents

(* A write of the user's, or of a download. *)
LEMMA WritingContents ==
  ASSUME Holds, NEW d \in Device,
         UserStep(d) \/ \E b \in Record : Download(d, b)
  PROVE  Contents'
<1>1. PICK R \in SUBSET Record, deleted \in BOOLEAN, at \in Now : Write(d, R, deleted, at)
  BY RowsOfType DEF UserStep, Edit, Erase, AddBook, RemoveBook, UserWrites, Download
<1>2. \A e \in Device :
        /\ run'[e].markers = run[e].markers /\ run'[e].todo = run[e].todo
        /\ run'[e].batch = run[e].batch /\ run'[e].versions = run[e].versions
        /\ run'[e].stage = run[e].stage /\ run'[e].step = run[e].step
  <2>1. CASE UserStep(d)
    BY <2>1 DEF UserStep, Edit, Erase, AddBook, RemoveBook, UserWrites
  <2>2. CASE \E b \in Record : Download(d, b)
    BY <2>2 DEF Download, Become, Holds, Inv, TypeOK, Run
  <2> QED
    BY <2>1, <2>2
<1> QED
  BY <1>1, <1>2, WriteContents

LEMMA HoldsStep == Holds /\ [Next]_vars => Holds'
<1> SUFFICES ASSUME Holds, [Next]_vars PROVE Holds'
  OBVIOUS
<1>1. Inv'
  BY InvStep DEF Holds
<1>2. CASE UNCHANGED vars
  <2>1. UNCHANGED <<clock, writes, lastWrite, log, data, outbox, versions, held,
                    cursor, run, faults>>
    BY <1>2 DEF vars
  <2>2. Logged' = Logged
    BY <2>1 DEF Logged
  <2>3. Changes' = Changes /\ \A d \in Device : Marks(d)' = Marks(d)
    BY <2>1, <2>2 DEF Changes, Marks
  <2>4. Stamps' = Stamps
    BY <2>3 DEF Stamps, StampOf
  <2>5. Contents'
    BY <2>1, <2>2, <2>3, <2>4
    DEF Holds, Contents, StampsTimed, LoggedOnce, MarkersCurrent, InTime, RunsFit,
        ContentMatchesVersion
  <2> QED
    BY <1>1, <2>5 DEF Holds
<1>3. CASE Next
  <2>1. PICK d \in Device :
          UserStep(d) \/ StartSync(d) \/ StartDownload(d) \/ SyncStep(d) \/ Fail(d)
    BY <1>3 DEF Next
  <2>2. CASE UserStep(d)
    BY <1>1, <2>2, WritingContents DEF Holds
  <2>3. CASE StartSync(d) \/ StartDownload(d) \/ Fail(d)
    BY <1>1, <2>3, FreshContents DEF Holds
  <2>4. CASE PushStep(d)
    BY <1>1, <2>4, LoadContents, SendContents, SettleContents DEF Holds, PushStep
  <2>5. CASE RoundStep(d)
    <3>1. CASE Fetch(d) \/ ReadStates(d) \/ ListBooks(d)
      BY <1>1, <3>1, ReadContents DEF Holds
    <3>2. CASE \E c \in run[d].todo : Drop(d, c) \/ Hold(d, c)
      BY <1>1, <3>2, AsideContents DEF Holds
    <3>5. ASSUME NEW c \in run[d].todo, Apply(d, c)
          PROVE  Holds'
      BY <1>1, <3>5, ApplyContents DEF Holds
    <3>3. CASE Release(d)
      BY <1>1, <3>3, AsideContents DEF Holds
    <3>4. CASE EndRound(d) \/ SaveCursor(d)
      BY <1>1, <3>4, FreshContents DEF Holds
    <3> QED
      BY <2>5, <3>1, <3>2, <3>3, <3>4, <3>5 DEF RoundStep
  <2>6. CASE DownloadStep(d)
    BY <1>1, <2>6, WritingContents, FreshContents DEF Holds, DownloadStep
  <2> QED
    BY <2>1, <2>2, <2>3, <2>4, <2>5, <2>6 DEF SyncStep
<1> QED
  BY <1>2, <1>3

(* What is known of every state. *)
LEMMA ContentInvariance == Spec => []Holds
BY HoldsInit, HoldsStep, PTL DEF Spec

(* A free record with no marker has the content of the change its version   *)
(* names: row, version and marker never come apart, however pushes, pulls   *)
(* and writes overlap and wherever a run fails (settleBatch, applyChange).  *)
THEOREM ContentsMatch == Spec => []ContentMatchesVersion
<1>1. Holds => ContentMatchesVersion
  BY DEF Holds, Contents
<1> QED
  BY <1>1, ContentInvariance, PTL
-------------------------------------------------------------------------------
(* The steps that change what is pending or which version is held. *)
Writing(d) == UserStep(d) \/ \E b \in Record : Download(d, b)

LEMMA StepKinds ==
  ASSUME [Next]_vars
  PROVE  \/ UNCHANGED <<outbox, versions>>
         \/ \E d \in Device :
              Writing(d) \/ Settle(d) \/ \E c \in run[d].todo : Apply(d, c)
<1>1. CASE UNCHANGED vars
  BY <1>1 DEF vars
<1>2. CASE Next
  <2>1. PICK d \in Device :
          UserStep(d) \/ StartSync(d) \/ StartDownload(d) \/ SyncStep(d) \/ Fail(d)
    BY <1>2 DEF Next
  <2>2. CASE UserStep(d)
    BY <2>2 DEF Writing
  <2>3. CASE StartSync(d) \/ StartDownload(d) \/ Fail(d)
    BY <2>3 DEF StartSync, StartDownload, Fail, local
  <2>4. CASE PushStep(d)
    BY <2>4 DEF PushStep, Load, Send, local
  <2>5. CASE RoundStep(d)
    BY <2>5
    DEF RoundStep, Fetch, ReadStates, ListBooks, Drop, Hold, Release, EndRound,
        SaveCursor, local
  <2>6. CASE DownloadStep(d)
    BY <2>6 DEF DownloadStep, DownloadsDone, Writing, local
  <2> QED
    BY <2>1, <2>2, <2>3, <2>4, <2>5, <2>6 DEF SyncStep
<1> QED
  BY <1>1, <1>2

(* What a write does to what is pending. *)
LEMMA WritingDoes ==
  ASSUME Holds, NEW d \in Device, Writing(d)
  PROVE  /\ versions' = versions
         /\ \A e \in Device : \A m \in outbox[e] :
              \E n \in outbox'[e] : n.record = m.record
<1>1. PICK R \in SUBSET Record, deleted \in BOOLEAN, at \in Now : Write(d, R, deleted, at)
  BY RowsOfType DEF Writing, UserStep, Edit, Erase, AddBook, RemoveBook, UserWrites, Download
<1>2. Wrote(d, R, deleted, at)
  BY <1>1, NowIsNext, WriteRows DEF Holds, Inv
<1>3. \A e \in Device \ {d} : outbox'[e] = outbox[e]
  BY <1>2 DEF Wrote
<1>4. \A m \in outbox[d] : \E n \in outbox'[d] : n.record = m.record
  BY <1>2 DEF Wrote
<1> QED
  BY <1>2, <1>3, <1>4 DEF Wrote

(* What a wanted change is later than: what the round has read. *)
LEMMA WantedBeats ==
  ASSUME Holds, NEW d \in Device, NEW c \in run[d].todo, Apply(d, c)
  PROVE  /\ c \in Logged /\ c.at \in Nat /\ c.device \in Nat /\ c.id \in Nat
         /\ \A k \in Of(run[d].markers, c.record) :
              c.id # k.id /\ Beats(c, [id |-> k.id, at |-> k.at, device |-> d])
         /\ Of(run[d].markers, c.record) = {} =>
              \A v \in Of(versions[d], c.record) : IsLaterVersion(c, v)
<1>1. c \in Logged
  BY ApplyDoes
<1>2. c.at \in Nat /\ c.device \in Nat /\ c.id \in Nat
  BY <1>1, LogType, SyncAssumption DEF Holds, Inv, Change
<1>3. MergeApplies(LocalChange(Of(run[d].markers, c.record),
                               Of(run[d].versions, c.record), c, d), c)
  BY DEF Apply, Wanted
<1>4. ASSUME NEW k \in Of(run[d].markers, c.record)
      PROVE  c.id # k.id /\ Beats(c, [id |-> k.id, at |-> k.at, device |-> d])
  <2> DEFINE l == [id |-> k.id, at |-> k.at, device |-> d]
  <2>1. l \in LocalChange(Of(run[d].markers, c.record), Of(run[d].versions, c.record), c, d)
    BY DEF LocalChange
  <2>2. l.id # c.id /\ Beats(c, l)
    BY <1>3, <2>1 DEF MergeApplies
  <2> QED
    BY <2>2
<1>5. ASSUME Of(run[d].markers, c.record) = {}, NEW v \in Of(versions[d], c.record)
      PROVE  IsLaterVersion(c, v)
  <2>1. v \in Of(run[d].versions, c.record)
    <3>1. run[d].step = "apply"
      BY DEF Apply, Reconciles
    <3>2. RoundFits(run[d], versions[d])
      BY DEF Holds, Contents, RunsFit, RunFits
    <3> QED
      BY <1>5, <3>1, <3>2 DEF RoundFits
  <2>2. v.at \in Nat /\ v.device \in Nat
    <3>1. v \in versions[d]
      BY <1>5 DEF Of
    <3>2. versions[d] \subseteq Version
      BY DEF Holds, Inv, TypeOK
    <3> QED
      BY <3>1, <3>2, SyncAssumption DEF Version
  <2> DEFINE l == [id |-> IF SameVersion(v, c) THEN c.id ELSE NoId,
                   at |-> v.at, device |-> v.device]
  <2>3. l \in LocalChange(Of(run[d].markers, c.record), Of(run[d].versions, c.record), c, d)
    BY <1>5, <2>1 DEF LocalChange
  <2>4. l.id # c.id /\ Beats(c, l)
    BY <1>3, <2>3 DEF MergeApplies
  <2>5. ~SameVersion(v, c)
    BY <2>4
  <2>6. IsLaterVersion(c, l) \/ ~IsLaterVersion(l, c)
    BY <2>4 DEF Beats
  <2> QED
    BY <1>2, <2>2, <2>5, <2>6 DEF IsLaterVersion, SameVersion
<1> QED
  BY <1>1, <1>2, <1>4, <1>5

(* A version that goes makes place for a later one. *)
Rises(d) ==
  \A v \in versions[d] : \/ v \in versions'[d]
                         \/ \E w \in Of(versions'[d], v.record) : IsLaterVersion(w, v)

LEMMA VersionsRise ==
  ASSUME Holds, [Next]_vars, NoSkew, NEW e \in Device
  PROVE  Rises(e)
<1>1. CASE UNCHANGED <<outbox, versions>>
  BY <1>1 DEF Rises
<1>2. ASSUME NEW d \in Device, Writing(d) PROVE Rises(e)
  BY <1>2, WritingDoes DEF Rises
<1>3. ASSUME NEW d \in Device, Settle(d) PROVE Rises(e)
  <2> DEFINE part == SettleNext(run[d].batch)
  <2>1. /\ OneRowEach(part) /\ versions'[d] = SettledVersions(versions[d], part)
        /\ \A f \in Device \ {d} : versions'[f] = versions[f]
    BY <1>3, SettleDoes
  <2> HIDE DEF part
  <2> QED
    BY <2>1, SettledVersionsRise DEF Rises
<1>4. ASSUME NEW d \in Device, NEW c \in run[d].todo, Apply(d, c) PROVE Rises(e)
  <2>1. /\ versions'[d] = Put(versions[d], VersionOf(c))
        /\ \A f \in Device \ {d} : versions'[f] = versions[f]
        /\ run[d].step = "apply"
    <3>1. /\ versions'[d] = Put(versions[d], VersionOf(c))
          /\ \A f \in Device \ {d} : /\ outbox'[f] = outbox[f] /\ versions'[f] = versions[f]
                                    /\ data'[f] = data[f]
      BY <1>4, ApplyDoes
    <3> QED
      BY <1>4, <3>1 DEF Apply, Reconciles
  <2>2. /\ c.at \in Nat /\ c.device \in Nat /\ c.id \in Nat
        /\ \A k \in Of(run[d].markers, c.record) :
             Beats(c, [id |-> k.id, at |-> k.at, device |-> d])
        /\ Of(run[d].markers, c.record) = {} =>
             \A v \in Of(versions[d], c.record) : IsLaterVersion(c, v)
    BY <1>4, WantedBeats
  <2>3. ASSUME NEW v \in versions[d], v.record = c.record
        PROVE  IsLaterVersion(c, v)
    <3>1. CASE Of(run[d].markers, c.record) = {}
      BY <2>2, <2>3, <3>1 DEF Of
    <3>2. ASSUME NEW k \in Of(run[d].markers, c.record)
          PROVE  IsLaterVersion(c, v)
      <4>1. k \in run[d].markers /\ k.record = c.record /\ k.at \in Nat
        BY <3>2 DEF Of, Holds, Inv, TypeOK, Run, Marker
      <4>2. v.at \in Nat
        BY <2>3 DEF Holds, Inv, TypeOK, Version
      <4>3. v.at < k.at
        <5>1. RoundFits(run[d], versions[d])
          BY DEF Holds, Contents, RunsFit, RunFits
        <5>2. v \in Of(run[d].versions, k.record)
          BY <1>4, <2>1, <2>3, <4>1, <5>1 DEF RoundFits, Of
        <5> QED
          BY <4>1, <5>1, <5>2 DEF RoundFits
      <4>4. c.at >= k.at
        BY <2>2, <3>2, <4>1 DEF Beats, IsLaterVersion
      <4> QED
        BY <2>2, <4>1, <4>2, <4>3, <4>4 DEF IsLaterVersion
    <3> QED
      BY <3>1, <3>2
  <2>4. ASSUME NEW v \in versions[d], v.record # c.record
        PROVE  v \in versions'[d]
    BY <2>1, <2>4 DEF Put, Without, VersionOf
  <2>5. VersionOf(c) \in Of(versions'[d], c.record)
    BY <2>1 DEF Put, Of, VersionOf
  <2>6. \A v : IsLaterVersion(c, v) => IsLaterVersion(VersionOf(c), v)
    BY DEF IsLaterVersion, VersionOf
  <2> QED
    BY <2>1, <2>3, <2>4, <2>5, <2>6 DEF Rises
<1> QED
  BY <1>1, <1>2, <1>3, <1>4, StepKinds

(* With one time for all, a version a device holds gives way only to a      *)
(* later one: what settleBatch puts beside what a newer answer left, and    *)
(* what applyChange writes over what the round has read, never goes back.   *)
THEOREM VersionsRising == Spec => VersionsOnlyRise
<1>1. ASSUME Holds, [Next]_vars
      PROVE  NoSkew => \A d \in Device : \A v \in versions[d] :
               \/ v \in versions'[d]
               \/ \E w \in Of(versions'[d], v.record) : IsLaterVersion(w, v)
  BY <1>1, VersionsRise DEF Rises
<1> QED
  BY <1>1, ContentInvariance, PTL DEF Spec, VersionsOnlyRise

(* What is pending stays, or what takes its place is there. *)
Kept(d) ==
  \A m \in outbox[d] : Settled(d, m) \/ (run[d].step = "apply" /\ m \notin run[d].markers)

LEMMA PendingKept ==
  ASSUME Holds, [Next]_vars, NEW e \in Device
  PROVE  Kept(e)
<1>1. CASE UNCHANGED <<outbox, versions>>
  BY <1>1 DEF Kept, Settled
<1>2. ASSUME NEW d \in Device, Writing(d) PROVE Kept(e)
  BY <1>2, WritingDoes DEF Kept, Settled
<1>3. ASSUME NEW d \in Device, Settle(d) PROVE Kept(e)
  <2> DEFINE part == SettleNext(run[d].batch)
  <2>1. /\ part \subseteq run[d].batch
        /\ outbox'[d] = SettledOutbox(outbox[d], part)
        /\ \A f \in Device \ {d} : outbox'[f] = outbox[f]
        /\ run[d].stage = "push"
    BY <1>3, SettleDoes
  <2> HIDE DEF part
  <2>2. ASSUME NEW m \in outbox[d], m \notin outbox'[d]
        PROVE  \E c \in Logged : c.record = m.record /\ c.id = m.id
    <3>1. PICK c \in part : c.record = m.record /\ c.id = m.id
      BY <2>1, <2>2 DEF SettledOutbox
    <3>2. PushFits(d, run[d], outbox[d], Logged)
      BY DEF Holds, Contents, RunsFit, RunFits
    <3> QED
      BY <2>1, <3>1, <3>2 DEF PushFits
  <2> QED
    BY <2>1, <2>2 DEF Kept, Settled
<1>4. ASSUME NEW d \in Device, NEW c \in run[d].todo, Apply(d, c) PROVE Kept(e)
  <2>1. /\ versions'[d] = Put(versions[d], VersionOf(c))
        /\ outbox'[d] = Without(outbox[d], {c.record})
        /\ \A f \in Device \ {d} : outbox'[f] = outbox[f]
        /\ run[d].step = "apply"
    BY <1>4, ApplyDoes
  <2>2. /\ c \in Logged /\ c.at \in Nat /\ c.device \in Nat /\ c.id \in Nat
        /\ \A k \in Of(run[d].markers, c.record) :
             c.id # k.id /\ Beats(c, [id |-> k.id, at |-> k.at, device |-> d])
    BY <1>4, WantedBeats
  <2>3. ASSUME NEW m \in outbox[d], m.record = c.record, m \in run[d].markers
        PROVE  IsLaterVersion(VersionOf(c), [at |-> m.at, device |-> d])
    <3> DEFINE l == [id |-> m.id, at |-> m.at, device |-> d]
               x == [record |-> c.record, id |-> c.id, at |-> c.at, device |-> c.device]
               y == [record |-> m.record, id |-> m.id, at |-> m.at, device |-> d]
    <3>1. m \in Of(run[d].markers, c.record)
      BY <2>3 DEF Of
    <3>2. c.id # m.id /\ Beats(c, l)
      BY <2>2, <3>1
    <3>3. m.at \in Nat /\ m.id \in Nat /\ d \in Nat
      BY <2>3, SyncAssumption DEF Holds, Inv, TypeOK, Marker
    <3>4. ~(c.at = m.at /\ c.device = d)
      <4>1. x \in Stamps
        BY <2>2, ChangeMembers, StampMembers DEF StampOf
      <4>2. y \in Stamps
        <5>1. y \in Marks(d)
          BY <2>3 DEF Marks
        <5> QED
          BY <5>1, StampMembers
      <4> QED
        BY <3>2, <4>1, <4>2 DEF Holds, Contents, StampsTimed
    <3>5. IsLaterVersion(c, l)
      BY <2>2, <3>2, <3>3, <3>4 DEF Beats, IsLaterVersion
    <3> QED
      BY <3>5 DEF IsLaterVersion, VersionOf
  <2>4. ASSUME NEW m \in outbox[d], m.record # c.record
        PROVE  m \in outbox'[d]
    BY <2>1, <2>4 DEF Without
  <2>5. VersionOf(c) \in Of(versions'[d], c.record)
    BY <2>1 DEF Put, Of, VersionOf
  <2> QED
    BY <2>1, <2>3, <2>4, <2>5 DEF Kept, Settled
<1> QED
  BY <1>1, <1>2, <1>3, <1>4, StepKinds

(* A pending write leaves the outbox when its change is on the server, when *)
(* another write takes its place, or when a later change is applied over    *)
(* it; only a write made after the round has read the markers can be lost.  *)
THEOREM PendingEditsKept == Spec => PendingEditKept
<1>1. ASSUME Holds, [Next]_vars
      PROVE  \A d \in Device : \A m \in outbox[d] :
               \/ Settled(d, m)
               \/ run[d].step = "apply" /\ m \notin run[d].markers
  BY <1>1, PendingKept DEF Kept
<1> QED
  BY <1>1, ContentInvariance, PTL DEF Spec, PendingEditKept
-------------------------------------------------------------------------------
(***************************************************************************)
(* Devices come to the same free records: what a device has gone past in   *)
(* the log is accounted for by what it has, and what it pushed itself is   *)
(* too.                                                                    *)
(***************************************************************************)

Free(c) == Kind[c.record] = "tag"

MarkOf(d, m) == [id |-> m.id, at |-> m.at, device |-> d]

(* A version that is as late, or a marker (or a change made of one) that is *)
(* the change or beats it.                                                  *)
Superseded(rows, c) == \E v \in Of(rows, c.record) : ~IsLaterVersion(c, v)
Outdone(d, rows, c) ==
  \E m \in Of(rows, c.record) : m.id = c.id \/ Beats(MarkOf(d, m), c)

(* A change the device cannot read, that is not beaten by this one. *)
Unread(d, c) ==
  \E e \in Logged : e.record = c.record /\ ~Legible(d, e) /\ ~Beats(c, e)

Accounted(d, marks, vers, c) ==
  Superseded(vers, c) \/ Outdone(d, marks, c) \/ Unread(d, c)

Reached(d, c) == Accounted(d, outbox[d], versions[d], c)

(* What the device has gone past, and the page it works on. *)
Passed(d) == {log[i] : i \in 1 .. cursor[d]}
OnPage(d) ==
  run[d].stage = "pull" /\ run[d].step \in {"states", "books", "apply", "release"}
Page(d) == PageUpTo(d, run[d].next)

(* The round has read what the device has. *)
Reading(d) == run[d].step \in {"books", "apply", "release"}

(* Free records are never kept aside, pages lie within the log, and only a  *)
(* pull reads them.                                                         *)
Plain(d) ==
  /\ \A h \in held[d] : ~Free(h)
  /\ run[d].stage \notin {"push", "pull"} => \A c \in run[d].todo : ~Free(c)
  /\ run[d].step = "fetch" => run[d].stage = "pull"
  /\ run[d].step \in {"load", "send"} => run[d].batch = {}
  /\ run[d].step = "load" => run[d].todo = {}
  /\ cursor[d] <= Len(log)
  /\ OnPage(d) => cursor[d] <= run[d].next /\ run[d].next <= Len(log)

RoundsPlain == \A d \in Device : Plain(d)

PassedKept(d) == \A c \in Passed(d) : Free(c) => Reached(d, c)

(* A change of the page still loses to the one of its record that is left,  *)
(* or is accounted for when none is left.                                   *)
PageKept(d) ==
  OnPage(d) => \A c \in Page(d) : Free(c) =>
    /\ \A k \in run[d].todo : k.record = c.record => ~Beats(c, k)
    /\ (\A k \in run[d].todo : k.record # c.record) => Reached(d, c)

(* What the round has read accounts for what was passed, and a marker it    *)
(* has read is there, or a later one is, as long as its record is left.     *)
AtRead(d, c) == Accounted(d, run[d].markers, run[d].versions, c)
ReadKept(d) ==
  (OnPage(d) /\ run[d].step # "states") =>
    /\ \A c \in Passed(d) : Free(c) => AtRead(d, c)
    /\ \A c \in run[d].todo : \A k \in Of(run[d].markers, c.record) :
         \E m \in Of(outbox[d], c.record) : m.id = k.id \/ k.at < m.at

(* What the device has pushed itself: once the push is over its version     *)
(* accounts for it.                                                         *)
Sent(d) == run[d].markers \cup run[d].todo \cup run[d].batch
OwnKept(d) ==
  \A c \in Logged : (Free(c) /\ c.device = d) =>
    /\ Superseded(versions[d], c) \/ Outdone(d, outbox[d], c)
    /\ run[d].stage = "push" => Superseded(versions[d], c) \/ Outdone(d, Sent(d), c)
    /\ run[d].stage \in {"retry", "pull"} => Superseded(versions[d], c)

Accounts ==
  NoSkew => \A d \in Device : PassedKept(d) /\ PageKept(d) /\ ReadKept(d) /\ OwnKept(d)

Converging == Holds /\ RoundsPlain /\ Accounts
-------------------------------------------------------------------------------
(* The order of changes. *)

Dated(x) == x.at \in Nat /\ x.device \in Nat
Timed(x) == Dated(x) /\ x.id \in Nat

(* Not being later is transitive. *)
LEMMA LaterOrder ==
  ASSUME NEW x, NEW y, NEW z, Dated(x), Dated(y), Dated(z),
         ~IsLaterVersion(x, y), ~IsLaterVersion(y, z)
  PROVE  ~IsLaterVersion(x, z)
BY DEF Dated, IsLaterVersion

(* A change that beats another is not the earlier one; of two, one beats the *)
(* other unless they are one write.                                         *)
LEMMA BeatsLater ==
  ASSUME NEW x, NEW y, Timed(x), Timed(y)
  PROVE  /\ Beats(x, y) => ~IsLaterVersion(y, x)
         /\ ~Beats(x, y) => ~IsLaterVersion(x, y)
         /\ ~Beats(x, y) => Beats(y, x) \/ x.id = y.id
         /\ ~Beats(x, x)
BY DEF Timed, Dated, Beats, IsLaterVersion

(* Of two changes one at most beats the other. *)
LEMMA BeatsOneWay ==
  ASSUME NEW x, NEW y, Timed(x), Timed(y), Beats(x, y)
  PROVE  ~Beats(y, x)
BY DEF Timed, Dated, Beats, IsLaterVersion

(* Not beating is transitive. *)
LEMMA BeatsOrder ==
  ASSUME NEW x, NEW y, NEW z, Timed(x), Timed(y), Timed(z), ~Beats(x, y), ~Beats(y, z)
  PROVE  ~Beats(x, z)
BY DEF Timed, Dated, Beats, IsLaterVersion

(* A set of numbers has a least one. *)
LEMMA LeastNat == \A T \in SUBSET Nat : T # {} => \E x \in T : \A y \in T : x <= y
<1> DEFINE R == OpToRel(<, Nat)
<1>1. IsWellFoundedOn(R, Nat)
  BY NatLessThanWellFounded
<1>2. \A x, y \in Nat : y < x => <<y, x>> \in R
  BY DEF OpToRel
<1> HIDE DEF R
<1>3. ASSUME NEW T \in SUBSET Nat, T # {} PROVE \E x \in T : \A y \in T : x <= y
  <2>1. PICK x \in T : \A y \in T : ~ (<<y, x>> \in R)
    BY <1>1, <1>3, WFMin
  <2>2. ASSUME NEW y \in T PROVE x <= y
    <3>1. x \in Nat /\ y \in Nat
      BY <1>3, <2>1, <2>2
    <3>2. ~(y < x)
      BY <1>2, <2>1, <3>1, Zenon
    <3> QED
      BY <3>1, <3>2
  <2> QED
    BY <2>2
<1> QED
  BY <1>3

(* What is logged, and what a marker is. *)
LEMMA LoggedTimed ==
  ASSUME Holds, NEW c \in Logged
  PROVE  Timed(c) /\ c.record \in Record /\ c \in Changes /\ StampOf(c) \in Stamps
<1>1. c \in Change
  BY LogType DEF Holds, Inv
<1>2. c \in Changes /\ StampOf(c) \in Stamps
  BY ChangeMembers, StampMembers
<1> QED
  BY <1>1, <1>2, SyncAssumption DEF Change, Timed, Dated

LEMMA MarkTimed ==
  ASSUME Holds, NEW d \in Device, NEW m \in outbox[d] \cup run[d].markers
  PROVE  /\ Timed(MarkOf(d, m)) /\ MarkOf(d, m).id = m.id /\ MarkOf(d, m).at = m.at
         /\ m.at \in Nat /\ MarkOf(d, m).device = d
         /\ [record |-> m.record, id |-> m.id, at |-> m.at, device |-> d] \in Stamps
<1>1. m \in Marker
  BY DEF Holds, Inv, TypeOK, Run
<1>2. [record |-> m.record, id |-> m.id, at |-> m.at, device |-> d] \in Marks(d)
  BY DEF Marks
<1>3. [record |-> m.record, id |-> m.id, at |-> m.at, device |-> d] \in Stamps
  BY <1>2, StampMembers
<1> QED
  BY <1>1, <1>3, SyncAssumption DEF Marker, MarkOf, Timed, Dated

LEMMA VersionDated ==
  ASSUME Holds, NEW d \in Device, NEW v \in versions[d] \cup run[d].versions
  PROVE  Dated(v)
<1>1. v \in Version
  BY DEF Holds, Inv, TypeOK, Run
<1> QED
  BY <1>1, SyncAssumption DEF Version, Dated

(* A marker and a change of one id are of one time and device. *)
LEMMA SameStamp ==
  ASSUME Holds, NEW d \in Device, NEW m \in outbox[d] \cup run[d].markers,
         NEW c \in Changes, c.record = m.record, c.id = m.id
  PROVE  c.at = m.at /\ c.device = d
<1> DEFINE x == [record |-> m.record, id |-> m.id, at |-> m.at, device |-> d]
<1>1. x \in Stamps /\ StampOf(c) \in Stamps
  BY MarkTimed, StampMembers
<1>2. StampOf(c).record = x.record /\ StampOf(c).id = x.id
  BY DEF StampOf
<1>3. StampOf(c) = x
  BY <1>1, <1>2 DEF Holds, Inv, StampsAgree
<1> QED
  BY <1>3 DEF StampOf

(* What outdoes a change is no earlier than it. *)
LEMMA OutdoneLater ==
  ASSUME Holds, NEW d \in Device, NEW c \in Logged,
         NEW m \in outbox[d] \cup run[d].markers, m.record = c.record,
         m.id = c.id \/ Beats(MarkOf(d, m), c)
  PROVE  ~IsLaterVersion(c, MarkOf(d, m))
<1>1. Timed(c) /\ Timed(MarkOf(d, m)) /\ c \in Changes
      /\ MarkOf(d, m).at = m.at /\ MarkOf(d, m).device = d
  BY LoggedTimed, MarkTimed
<1>2. CASE m.id = c.id
  <2>1. c.at = m.at /\ c.device = d
    BY <1>1, <1>2, SameStamp
  <2> QED
    BY <1>1, <2>1 DEF IsLaterVersion, Timed, Dated
<1>3. CASE Beats(MarkOf(d, m), c)
  BY <1>1, <1>3, BeatsLater
<1> QED
  BY <1>2, <1>3

(* What is as late as what has its version is superseded. *)
LEMMA SupersededBy ==
  ASSUME NEW rows, NEW c, NEW k, Dated(c), Dated(k), \A v \in rows : Dated(v),
         k.record = c.record, ~IsLaterVersion(c, k),
         VersionOf(k) \in rows \/ Superseded(rows, k)
  PROVE  Superseded(rows, c)
<1>1. CASE VersionOf(k) \in rows
  <2>1. VersionOf(k) \in Of(rows, c.record)
    BY <1>1 DEF Of, VersionOf
  <2>2. ~IsLaterVersion(c, VersionOf(k))
    BY DEF IsLaterVersion, VersionOf
  <2> QED
    BY <2>1, <2>2 DEF Superseded
<1>2. CASE Superseded(rows, k)
  <2>1. PICK v \in Of(rows, k.record) : ~IsLaterVersion(k, v)
    BY <1>2 DEF Superseded
  <2>2. Dated(v)
    BY <2>1 DEF Of
  <2>3. ~IsLaterVersion(c, v)
    BY <2>1, <2>2, LaterOrder
  <2> QED
    BY <2>1, <2>3 DEF Superseded
<1> QED
  BY <1>1, <1>2

(* A page has a winner for every record it has. *)
LEMMA WinnerFound ==
  ASSUME Holds, NEW d \in Device, NEW last \in Nat, last <= Len(log),
         NEW c \in PageUpTo(d, last)
  PROVE  \E w \in Winners(PageUpTo(d, last)) : w.record = c.record
<1> DEFINE Won(n) == \A e \in PageUpTo(d, n) :
                       \E w \in Winners(PageUpTo(d, n)) : w.record = e.record
           lost == {n \in Nat : n <= last /\ ~Won(n)}
<1>1. SUFFICES ASSUME lost # {} PROVE FALSE
  <2>1. last \notin lost
    BY <1>1
  <2> QED
    BY <2>1
<1>2. PICK n \in lost : \A y \in lost : n <= y
  <2>1. lost \in SUBSET Nat
    OBVIOUS
  <2> HIDE DEF lost
  <2> QED
    BY <1>1, <2>1, LeastNat
<1>3. n \in Nat /\ n <= last /\ ~Won(n) /\ cursor[d] \in Nat
  BY <1>2 DEF Holds, Inv, TypeOK
<1>4. cursor[d] + 1 <= n
  <2>1. PageUpTo(d, n) # {}
    BY <1>3
  <2> QED
    BY <1>3, <2>1 DEF PageUpTo
<1> DEFINE P == PageUpTo(d, n - 1)
           x == log[n]
           Q == PageUpTo(d, n)
<1>5. Q = P \cup {x}
  <2>1. cursor[d] + 1 .. n = (cursor[d] + 1 .. n - 1) \cup {n}
    BY <1>3, <1>4
  <2> QED
    BY <2>1 DEF PageUpTo
<1>6. Won(n - 1)
  <2>1. n - 1 \in Nat /\ n - 1 <= last /\ ~(n <= n - 1)
    BY <1>3, <1>4
  <2> HIDE DEF Won
  <2> QED
    BY <1>2, <2>1
<1>7. Q \subseteq Logged
  <2>1. n <= Len(log)
    BY <1>3, LenProperties DEF Holds, Inv, TypeOK
  <2> QED
    BY <1>3, <2>1, PageLogged DEF Holds, Inv
<1>8. \A e \in Q : Timed(e)
  BY <1>7, LoggedTimed
<1>9. \A e \in P : \E w \in Winners(P) : w.record = e.record
  BY <1>6
<1>10. ~ \A e \in Q : \E w \in Winners(Q) : w.record = e.record
  BY <1>3
<1> HIDE DEF Won, lost, P, Q, x
<1>11. x \in Q /\ P \subseteq Q
  BY <1>5
<1>12. ASSUME NEW w \in Winners(P), w.record = x.record => ~Beats(x, w)
       PROVE  w \in Winners(Q)
  BY <1>5, <1>12 DEF Winners
<1>13. ASSUME \A w \in Winners(P) : w.record = x.record => Beats(x, w)
       PROVE  x \in Winners(Q)
  <2>1. ASSUME NEW e \in Q, e.record = x.record PROVE ~Beats(e, x)
    <3>1. CASE e = x
      BY <1>8, <1>11, <3>1, BeatsLater
    <3>2. CASE e \in P
      <4>1. PICK w \in Winners(P) : w.record = e.record
        BY <1>9, <3>2
      <4>2. w \in Q /\ ~Beats(e, w) /\ Beats(x, w)
        BY <1>11, <1>13, <2>1, <3>2, <4>1 DEF Winners
      <4>3. Timed(e) /\ Timed(w) /\ Timed(x)
        BY <1>8, <1>11, <2>1, <4>2
      <4>4. ~Beats(w, x)
        BY <4>2, <4>3, BeatsOneWay
      <4> QED
        BY <4>2, <4>3, <4>4, BeatsOrder
    <3> QED
      BY <1>5, <2>1, <3>1, <3>2
  <2> QED
    BY <1>11, <2>1 DEF Winners
<1>14. ASSUME NEW e \in Q PROVE \E w \in Winners(Q) : w.record = e.record
  <2>1. CASE e.record # x.record
    <3>1. e \in P
      BY <1>5, <1>14, <2>1
    <3>2. PICK w \in Winners(P) : w.record = e.record
      BY <1>9, <3>1
    <3> QED
      BY <1>12, <2>1, <3>2
  <2>2. CASE e.record = x.record
    <3>1. CASE \A w \in Winners(P) : w.record = x.record => Beats(x, w)
      BY <1>13, <2>2, <3>1
    <3>2. CASE \E w \in Winners(P) : w.record = x.record /\ ~Beats(x, w)
      BY <1>12, <2>2, <3>2
    <3> QED
      BY <3>1, <3>2
  <2> QED
    BY <2>1, <2>2
<1> QED
  BY <1>10, <1>14
-------------------------------------------------------------------------------
(* What every kind of step does to the round of its device. *)

Fresh(d) ==
  \/ StartSync(d) \/ StartDownload(d) \/ Fail(d)
  \/ EndRound(d) \/ SaveCursor(d) \/ DownloadsDone(d)

(* A run that begins, ends, or goes on to the next use case. *)
LEMMA FreshDoes ==
  ASSUME Holds, NEW d \in Device, Fresh(d)
  PROVE  /\ UNCHANGED <<log, outbox, versions, held>>
         /\ SaveCursor(d) \/ UNCHANGED cursor
         /\ run'[d].todo = {} /\ run'[d].batch = {} /\ ~OnPage(d)'
         /\ run'[d].stage = "push" => run'[d].markers = outbox[d]
         /\ run'[d].stage # "retry"
         /\ run'[d].stage = "pull" => run[d].stage \in {"retry", "pull"}
         /\ run'[d].step = "fetch" => run'[d].stage = "pull"
         /\ ~Reading(d)'
<1>1. UNCHANGED <<log, outbox, versions, held>> /\ (SaveCursor(d) \/ UNCHANGED cursor)
  BY DEF Fresh, StartSync, StartDownload, Fail, EndRound, SaveCursor, DownloadsDone, local
<1>2. CASE StartSync(d)
  <2>1. /\ run'[d].stage = "push" /\ run'[d].step = "load" /\ run'[d].markers = outbox[d]
        /\ run'[d].todo = {} /\ run'[d].batch = {}
    BY <1>2 DEF StartSync, Become, NoRun, Holds, Inv, TypeOK
  <2> QED
    BY <1>1, <2>1 DEF OnPage, Reading
<1>3. CASE ~StartSync(d)
  <2>1. PICK next : /\ Become(d, next)
                    /\ \/ next = NoRun
                       \/ next = [NoRun EXCEPT !.step = "download"]
                       \/ next = At(d, "none", "download")
                       \/ next = At(d, "settled", "states")
                       \/ next = At(d, "attached", "states")
                       \/ /\ next = At(d, "pull", "fetch")
                          /\ run[d].stage \in {"retry", "pull"}
    BY <1>3 DEF Fresh, StartDownload, Fail, EndRound, AfterRound, SaveCursor, DownloadsDone
  <2>2. run'[d] = next
    BY <2>1 DEF Become, Holds, Inv, TypeOK
  <2>3. CASE next = NoRun \/ next = [NoRun EXCEPT !.step = "download"]
    BY <1>1, <2>2, <2>3 DEF NoRun, OnPage, Reading
  <2>4. CASE next = At(d, "none", "download")
    BY <1>1, <2>2, <2>4, AtFields DEF Holds, Inv, OnPage, Reading, Stages, Steps
  <2>5. CASE next = At(d, "settled", "states")
    BY <1>1, <2>2, <2>5, AtFields DEF Holds, Inv, OnPage, Reading, Stages, Steps
  <2>6. CASE next = At(d, "attached", "states")
    BY <1>1, <2>2, <2>6, AtFields DEF Holds, Inv, OnPage, Reading, Stages, Steps
  <2>7. CASE next = At(d, "pull", "fetch") /\ run[d].stage \in {"retry", "pull"}
    BY <1>1, <2>2, <2>7, AtFields DEF Holds, Inv, OnPage, Reading, Stages, Steps
  <2> QED
    BY <2>1, <2>3, <2>4, <2>5, <2>6, <2>7
<1> QED
  BY <1>2, <1>3

(* What a push goes on with. *)
LEMMA SendingDoes ==
  ASSUME Holds, NEW d \in Device, NEW todo, run'[d] = Sending(d, todo)
  PROVE  /\ run'[d].todo = todo /\ run'[d].batch = {} /\ ~OnPage(d)'
         /\ run'[d].markers = {} /\ run'[d].step \in {"states", "send"}
         /\ todo # {} => run'[d].stage = "push"
         /\ todo = {} => run'[d].stage = "retry"
<1>1. /\ run'[d].todo = todo /\ run'[d].batch = {} /\ run'[d].markers = {}
      /\ run'[d].step \in {"states", "send"}
  BY SendingFields DEF Holds, Inv
<1>2. CASE todo = {}
  <2>1. run'[d].stage = "retry"
    BY <1>2, AtFields DEF Sending, Holds, Inv, Stages, Steps
  <2> QED
    BY <1>1, <1>2, <2>1 DEF OnPage
<1>3. CASE todo # {}
  <2>1. run'[d].stage = "push"
    BY <1>3 DEF Sending, NoRun
  <2> QED
    BY <1>1, <1>3, <2>1 DEF OnPage
<1> QED
  BY <1>2, <1>3

(* A batch is sent. *)
LEMMA SendDoes ==
  ASSUME Holds, NEW d \in Device, Send(d)
  PROVE  /\ \E B \in SUBSET run[d].todo :
              /\ run'[d].todo = run[d].todo \ B /\ run'[d].batch = B
              /\ Logged' = Logged \cup {c \in B : ~Stored(c)}
         /\ run[d].stage = "push" /\ run'[d].stage = "push" /\ run'[d].step = "settle"
         /\ run'[d].markers = run[d].markers
         /\ UNCHANGED <<outbox, versions, held, cursor>>
         /\ Len(log) <= Len(log') /\ \A i \in 1 .. Len(log) : log'[i] = log[i]
<1>1. PICK B \in NextBatches(run[d].todo) :
        /\ \E s \in OldestFirst({c \in B : ~Stored(c)}) : log' = log \o s
        /\ Become(d, [run[d] EXCEPT !.step = "settle", !.batch = B,
                                    !.todo = run[d].todo \ B])
  BY DEF Send
<1> DEFINE fresh == {c \in B : ~Stored(c)}
<1>2. PICK s \in OldestFirst(fresh) : log' = log \o s
  BY <1>1
<1>3. run[d] \in Run /\ run[d].stage = "push"
  BY DEF Holds, Inv, TypeOK, StagesFit, Send
<1>4. B \in SUBSET run[d].todo
  BY DEF NextBatches
<1>5. PICK n \in 0..BatchSize : s \in [1..n -> fresh]
  BY DEF OldestFirst
<1>6. s \in [1..n -> Change] /\ n \in Nat /\ log \in Seq(Change)
  BY <1>3, <1>4, <1>5, SyncAssumption DEF Holds, Inv, TypeOK, Run
<1>7. Logged' = Logged \cup fresh
  <2>1. Elements(log \o s) = Elements(log) \cup Elements(s)
    BY <1>6, AppendType
  <2>2. Elements(s) = fresh
    BY <1>5 DEF OldestFirst, Elements
  <2> QED
    BY <1>2, <2>1, <2>2 DEF Logged, Elements
<1>8. Len(log) <= Len(log') /\ \A i \in 1 .. Len(log) : log'[i] = log[i]
  <2>1. s \in Seq(Change) /\ Len(s) = n
    BY <1>6, SeqDef
  <2>2. Len(log \o s) = Len(log) + n /\ Len(log) \in Nat
    BY <1>6, <2>1, ConcatProperties, LenProperties
  <2>3. \A i \in 1 .. Len(log) + n : (log \o s)[i] = IF i <= Len(log) THEN log[i]
                                                     ELSE s[i - Len(log)]
    BY <1>6, <2>1, ConcatProperties
  <2> QED
    BY <1>2, <1>6, <2>2, <2>3
<1>9. /\ run'[d].todo = run[d].todo \ B /\ run'[d].batch = B
      /\ run'[d].markers = run[d].markers /\ run'[d].stage = "push"
      /\ run'[d].step = "settle"
  <2>1. run'[d] = [run[d] EXCEPT !.step = "settle", !.batch = B, !.todo = run[d].todo \ B]
    BY <1>1 DEF Become, Holds, Inv, TypeOK
  <2> QED
    BY <1>3, <2>1 DEF Run
<1>10. UNCHANGED <<outbox, versions, held, cursor>>
  BY DEF Send, local
<1> QED
  BY <1>3, <1>4, <1>7, <1>8, <1>9, <1>10

(* A page is fetched, the states are read, the books are listed. *)
LEMMA FetchDoes ==
  ASSUME Holds, NEW d \in Device, cursor[d] <= Len(log), Fetch(d)
  PROVE  /\ UNCHANGED <<log, outbox, versions, held, cursor>>
         /\ run'[d].stage = run[d].stage /\ run[d].step = "fetch" /\ run'[d].step = "states"
         /\ run'[d].next \in Nat /\ cursor[d] <= run'[d].next /\ run'[d].next <= Len(log)
         /\ run'[d].todo = Winners(PageUpTo(d, run'[d].next))
<1> DEFINE last == IF cursor[d] + PageSize < Len(log)
                   THEN cursor[d] + PageSize ELSE Len(log)
           todo == Winners(PageUpTo(d, last))
           more == Len(log) > last
           next == [run[d] EXCEPT !.step = "states", !.todo = todo,
                                  !.next = last, !.more = more]
<1>1. UNCHANGED <<log, outbox, versions, held, cursor>> /\ run[d] \in Run /\ run[d].step = "fetch"
  BY DEF Fetch, local, Holds, Inv, TypeOK
<1>2. last \in Nat /\ last <= Len(log)
  BY LastPage DEF Holds, Inv
<1>3. cursor[d] <= last
  BY SyncAssumption, LenProperties DEF Holds, Inv, TypeOK
<1>4. run'[d] = next
  BY DEF Fetch, Become, Holds, Inv, TypeOK
<1> HIDE DEF last, more
<1>5. run'[d].next = last /\ run'[d].stage = run[d].stage /\ run'[d].step = "states"
      /\ run'[d].todo = todo
  BY <1>1, <1>4 DEF Run
<1> QED
  BY <1>1, <1>2, <1>3, <1>5

LEMMA StatesDoes ==
  ASSUME Holds, NEW d \in Device, ReadStates(d)
  PROVE  /\ UNCHANGED <<log, outbox, versions, held, cursor>>
         /\ run[d].step = "states" /\ run'[d].step = "books"
         /\ run'[d].stage = run[d].stage /\ run'[d].todo = run[d].todo
         /\ run'[d].batch = run[d].batch /\ run'[d].next = run[d].next
         /\ run'[d].markers = outbox[d] /\ run'[d].versions = versions[d]
<1>1. UNCHANGED <<log, outbox, versions, held, cursor>> /\ run[d] \in Run /\ run[d].step = "states"
  BY DEF ReadStates, local, Holds, Inv, TypeOK
<1>2. run'[d] = [run[d] EXCEPT !.step = "books", !.markers = outbox[d],
                               !.versions = versions[d]]
  BY DEF ReadStates, Become, Holds, Inv, TypeOK
<1> QED
  BY <1>1, <1>2 DEF Run

LEMMA BooksDoes ==
  ASSUME Holds, NEW d \in Device, ListBooks(d)
  PROVE  /\ UNCHANGED <<log, outbox, versions, held, cursor>>
         /\ run[d].step = "books" /\ run'[d].step = "apply"
         /\ run'[d].stage = run[d].stage /\ run'[d].next = run[d].next
         /\ run'[d].todo = IF run[d].stage = "pull" THEN run[d].todo ELSE held[d]
         /\ run'[d].markers = run[d].markers /\ run'[d].versions = run[d].versions
<1> DEFINE todo == IF run[d].stage = "pull" THEN run[d].todo ELSE held[d]
<1>1. UNCHANGED <<log, outbox, versions, held, cursor>> /\ run[d] \in Run /\ run[d].step = "books"
  BY DEF ListBooks, local, Holds, Inv, TypeOK
<1>2. run'[d] = [run[d] EXCEPT !.step = "apply", !.shelf = Shelf(d), !.todo = todo]
  BY DEF ListBooks, Become, Holds, Inv, TypeOK
<1> HIDE DEF todo
<1>3. /\ run'[d].stage = run[d].stage /\ run'[d].next = run[d].next
      /\ run'[d].todo = todo /\ run'[d].step = "apply"
      /\ run'[d].markers = run[d].markers /\ run'[d].versions = run[d].versions
  BY <1>1, <1>2 DEF Run
<1> QED
  BY <1>1, <1>3 DEF todo

(* A change is dropped or kept aside, or a copy is let go. *)
Asides(d, c) == Drop(d, c) \/ Hold(d, c)

LEMMA AsideDoes ==
  ASSUME Holds, NEW d \in Device, NEW c \in run[d].todo, Asides(d, c)
  PROVE  /\ UNCHANGED <<log, outbox, versions, cursor>>
         /\ run[d].step = "apply" /\ run'[d].step = "apply"
         /\ run'[d].stage = run[d].stage /\ run'[d].next = run[d].next
         /\ run'[d].todo = run[d].todo \ {c} /\ run'[d].batch = run[d].batch
         /\ run'[d].markers = run[d].markers /\ run'[d].versions = run[d].versions
         /\ \A e \in Device \ {d} : held'[e] = held[e]
         /\ \A h \in held'[d] : h \in held[d] \/ ~Free(h)
         /\ Free(c) => Drop(d, c)
<1>1. UNCHANGED <<log, outbox, versions, cursor>> /\ run[d] \in Run /\ run[d].step = "apply"
  BY DEF Asides, Drop, Hold, Reconciles, Holds, Inv, TypeOK
<1>2. run'[d] = [run[d] EXCEPT !.todo = run[d].todo \ {c}]
  BY DEF Asides, Drop, Hold, Done, Become, Holds, Inv, TypeOK
<1>3. /\ \A e \in Device \ {d} : held'[e] = held[e]
      /\ \A h \in held'[d] : h \in held[d] \/ ~Free(h)
      /\ Free(c) => Drop(d, c)
  <2>1. CASE Drop(d, c)
    <3>1. held' = held \/ held' = [held EXCEPT ![d] = Without(held[d], {c.record})]
      BY <2>1 DEF Drop
    <3> QED
      BY <2>1, <3>1 DEF Holds, Inv, TypeOK, Without
  <2>2. CASE Hold(d, c)
    <3>1. held' = held \/ held' = [held EXCEPT ![d] = Put(held[d], c)]
      BY <2>2 DEF Hold
    <3>2. ~Free(c)
      BY <2>2 DEF Hold, NotReady, Free
    <3> QED
      BY <3>1, <3>2 DEF Holds, Inv, TypeOK, Put, Without
  <2> QED
    BY <2>1, <2>2 DEF Asides
<1>4. /\ run'[d].stage = run[d].stage /\ run'[d].next = run[d].next
      /\ run'[d].todo = run[d].todo \ {c} /\ run'[d].batch = run[d].batch
      /\ run'[d].markers = run[d].markers /\ run'[d].versions = run[d].versions
      /\ run'[d].step = run[d].step
  BY <1>1, <1>2 DEF Run
<1> QED
  BY <1>1, <1>3, <1>4

LEMMA ReleaseDoes ==
  ASSUME Holds, NEW d \in Device, Release(d)
  PROVE  /\ UNCHANGED <<log, outbox, versions, cursor>>
         /\ run[d].step = "release" /\ run'[d].step = "apply"
         /\ run'[d].stage = run[d].stage /\ run'[d].next = run[d].next
         /\ run'[d].todo = run[d].todo
         /\ run'[d].markers = run[d].markers /\ run'[d].versions = run[d].versions
         /\ \A e \in Device \ {d} : held'[e] = held[e]
         /\ held'[d] \subseteq held[d]
<1>1. UNCHANGED <<log, outbox, versions, cursor>> /\ run[d] \in Run /\ run[d].step = "release"
  BY DEF Release, Holds, Inv, TypeOK
<1>2. run'[d] = [run[d] EXCEPT !.step = "apply", !.batch = {}]
  BY DEF Release, Become, Holds, Inv, TypeOK
<1>3. held' = [held EXCEPT ![d] = Without(held[d], {c.record : c \in run[d].batch})]
  BY DEF Release
<1>4. (\A e \in Device \ {d} : held'[e] = held[e]) /\ held'[d] \subseteq held[d]
  BY <1>3 DEF Holds, Inv, TypeOK, Without
<1> QED
  BY <1>1, <1>2, <1>4 DEF Run

LEMMA ApplyNext ==
  ASSUME Holds, NEW d \in Device, NEW c \in run[d].todo, Apply(d, c)
  PROVE  run'[d].next = run[d].next
<1> DEFINE shelf == IF c.data = Absent THEN run[d].shelf \ {c.record} ELSE run[d].shelf
           kept == Of(held[d], c.record) # {}
           step == IF kept THEN "release" ELSE "apply"
           batch == IF kept THEN {c} ELSE {}
           next == [run[d] EXCEPT !.todo = run[d].todo \ {c}, !.shelf = shelf,
                                  !.step = step, !.batch = batch]
<1>1. run[d] \in Run
  BY DEF Holds, Inv, TypeOK
<1>2. Become(d, next)
  BY DEF Apply
<1>3. run'[d] = next
  BY <1>2 DEF Become, Holds, Inv, TypeOK
<1> HIDE DEF shelf, step, batch
<1> QED
  BY <1>1, <1>3 DEF Run

(* A push loads what it sends, one change of every free record it read. *)
LEMMA LoadDoes ==
  ASSUME Holds, NEW d \in Device, Load(d)
  PROVE  LET todo == {ChangeFor(d, m) : m \in {k \in run[d].markers : ~Waits(d, k)}}
         IN  /\ UNCHANGED <<log, outbox, versions, held, cursor>>
             /\ run'[d] = Sending(d, todo)
             /\ run[d].stage = "push" /\ run[d].step = "load"
             /\ \A k \in run[d].markers : Kind[k.record] = "tag" =>
                  \E c \in todo : c.record = k.record /\ c.id = k.id /\ c.at = k.at
<1> DEFINE todo == {ChangeFor(d, m) : m \in {k \in run[d].markers : ~Waits(d, k)}}
<1>1. /\ UNCHANGED <<log, outbox, versions, held, cursor>>
      /\ run'[d] = Sending(d, todo)
      /\ run[d].stage = "push" /\ run[d].step = "load"
  BY DEF Load, local, Become, Holds, Inv, TypeOK, StagesFit
<1>2. ASSUME NEW k \in run[d].markers, Kind[k.record] = "tag"
      PROVE  \E c \in todo : c.record = k.record /\ c.id = k.id /\ c.at = k.at
  <2>1. ~Waits(d, k)
    BY <1>2 DEF Waits
  <2>2. ChangeFor(d, k) \in todo
    BY <2>1
  <2> QED
    BY <2>2 DEF ChangeFor
<1> QED
  BY <1>1, <1>2

(* A write leaves the runs as they are. *)
LEMMA WritingRun ==
  ASSUME Holds, NEW d \in Device, Writing(d)
  PROVE  /\ UNCHANGED <<log, versions, held, cursor>>
         /\ \A e \in Device :
              /\ run'[e].markers = run[e].markers /\ run'[e].todo = run[e].todo
              /\ run'[e].batch = run[e].batch /\ run'[e].versions = run[e].versions
              /\ run'[e].stage = run[e].stage /\ run'[e].step = run[e].step
              /\ run'[e].next = run[e].next
         /\ \A e \in Device \ {d} : run'[e] = run[e] /\ outbox'[e] = outbox[e]
<1>1. PICK R \in SUBSET Record, deleted \in BOOLEAN, at \in Now : Write(d, R, deleted, at)
  BY RowsOfType DEF Writing, UserStep, Edit, Erase, AddBook, RemoveBook, UserWrites, Download
<1>2. Wrote(d, R, deleted, at)
  BY <1>1, NowIsNext, WriteRows DEF Holds, Inv
<1>3. run' = run \/ run' = [run EXCEPT ![d] = [run[d] EXCEPT !.got = TRUE]]
  BY DEF Writing, UserStep, Edit, Erase, AddBook, RemoveBook, UserWrites, Download, Become
<1>4. ASSUME NEW e \in Device
      PROVE  /\ run'[e].markers = run[e].markers /\ run'[e].todo = run[e].todo
             /\ run'[e].batch = run[e].batch /\ run'[e].versions = run[e].versions
             /\ run'[e].stage = run[e].stage /\ run'[e].step = run[e].step
             /\ run'[e].next = run[e].next
             /\ e # d => run'[e] = run[e]
  <2>1. run[e] \in Run /\ run \in [Device -> Run]
    BY DEF Holds, Inv, TypeOK
  <2>2. run'[e] = run[e] \/ (e = d /\ run'[e] = [run[e] EXCEPT !.got = TRUE])
    BY <1>3, <2>1
  <2> QED
    BY <2>1, <2>2 DEF Run
<1>5. /\ UNCHANGED <<log, versions, held, cursor>>
      /\ \A e \in Device \ {d} : outbox'[e] = outbox[e]
  BY <1>2 DEF Wrote
<1> QED
  BY <1>4, <1>5

(* The kinds of steps. *)
Acts(d) ==
  \/ Writing(d) \/ Fresh(d) \/ Load(d) \/ Send(d) \/ Settle(d)
  \/ Fetch(d) \/ ReadStates(d) \/ ListBooks(d) \/ Release(d)
  \/ \E c \in run[d].todo : Asides(d, c) \/ Apply(d, c)

LEMMA ActsCover == ASSUME Next PROVE \E d \in Device : Acts(d)
<1>1. PICK d \in Device :
        UserStep(d) \/ StartSync(d) \/ StartDownload(d) \/ SyncStep(d) \/ Fail(d)
  BY DEF Next
<1>2. CASE UserStep(d) \/ StartSync(d) \/ StartDownload(d) \/ Fail(d)
  BY <1>2 DEF Acts, Writing, Fresh
<1>3. CASE PushStep(d)
  BY <1>3 DEF PushStep, Acts
<1>4. CASE RoundStep(d)
  BY <1>4 DEF RoundStep, Acts, Fresh, Asides
<1>5. CASE DownloadStep(d)
  BY <1>5 DEF DownloadStep, Acts, Fresh, Writing
<1> QED
  BY <1>1, <1>2, <1>3, <1>4, <1>5 DEF SyncStep

(* What a settled part does not change. *)
LEMMA SettleKeeps ==
  ASSUME Holds, NEW d \in Device, Settle(d)
  PROVE  /\ UNCHANGED <<log, held, cursor>> /\ ~OnPage(d)' /\ ~Reading(d)'
         /\ run'[d].step \notin {"load", "fetch"}
         /\ run'[d].step = "send" => run'[d].batch = {}
         /\ \/ run'[d].stage = "push"
            \/ run'[d].stage = "retry" /\ run'[d].todo = {} /\ run'[d].batch = {}
               /\ run[d].markers = {}
<1> DEFINE part == SettleNext(run[d].batch)
           rest == run[d].batch \ part
           next == IF rest = {} THEN Sending(d, run[d].todo)
                   ELSE [run[d] EXCEPT !.batch = rest]
<1>1. run[d] \in Run /\ run[d].stage = "push" /\ run[d].step = "settle"
      /\ UNCHANGED <<log, held, cursor>>
  BY DEF Holds, Inv, TypeOK, StagesFit, Settle
<1>2. run'[d] = next
  BY DEF Settle, Become, Holds, Inv, TypeOK
<1>3. run[d].markers = {}
  BY <1>1 DEF Holds, Contents, RunsFit, RunFits, PushFits
<1> HIDE DEF part, rest
<1>4. CASE rest = {}
  <2>1. run'[d] = Sending(d, run[d].todo)
    BY <1>2, <1>4
  <2> QED
    BY <1>1, <1>3, <2>1, SendingDoes DEF Reading
<1>5. CASE rest # {}
  <2>1. run'[d] = [run[d] EXCEPT !.batch = rest]
    BY <1>2, <1>5
  <2> HIDE DEF next
  <2>2. run'[d].stage = "push" /\ run'[d].step = "settle"
    BY <1>1, <2>1 DEF Run
  <2> QED
    BY <1>1, <2>2 DEF OnPage, Reading
<1> QED
  BY <1>4, <1>5

(* The steps of a device leave what the others have. *)
LEMMA Elsewhere ==
  ASSUME Holds, NEW d \in Device, Acts(d), NEW e \in Device \ {d}
  PROVE  /\ run'[e] = run[e] /\ cursor'[e] = cursor[e] /\ held'[e] = held[e]
         /\ outbox'[e] = outbox[e] /\ versions'[e] = versions[e]
<1>1. CASE Writing(d)
  BY <1>1, WritingRun
<1>2. CASE ~Writing(d)
  <2>1. \E next : Moves(d, next)
    BY <1>2, FreshMoves, LoadMoves, SendMoves, SettleMoves, ReadMoves, ReconcileMoves,
       ReleaseMoves
    DEF Acts, Fresh, Asides, Holds
  <2>2. run'[e] = run[e]
    BY <2>1, MovesFrame DEF Holds
  <2>3. CASE Fresh(d)
    <3>1. SaveCursor(d) => cursor'[e] = cursor[e]
      BY DEF SaveCursor, Holds, Inv, TypeOK
    <3> QED
      BY <2>2, <2>3, <3>1, FreshDoes
  <2>4. CASE Load(d) \/ Send(d) \/ Settle(d)
    BY <2>2, <2>4, LoadDoes, SendDoes, SettleDoes, SettleKeeps
  <2>5. CASE Fetch(d) \/ ReadStates(d) \/ ListBooks(d)
    BY <2>2, <2>5 DEF Fetch, ReadStates, ListBooks, local
  <2>6. CASE Release(d)
    BY <2>2, <2>6, ReleaseDoes
  <2>7. ASSUME NEW c \in run[d].todo, Asides(d, c)
        PROVE  /\ cursor'[e] = cursor[e] /\ held'[e] = held[e]
               /\ outbox'[e] = outbox[e] /\ versions'[e] = versions[e]
    BY <2>7, AsideDoes
  <2>8. ASSUME NEW c \in run[d].todo, Apply(d, c)
        PROVE  /\ cursor'[e] = cursor[e] /\ held'[e] = held[e]
               /\ outbox'[e] = outbox[e] /\ versions'[e] = versions[e]
    <3>1. /\ UNCHANGED <<held, cursor>>
          /\ \A f \in Device \ {d} : /\ outbox'[f] = outbox[f] /\ versions'[f] = versions[f]
                                    /\ data'[f] = data[f]
      BY <2>8, ApplyDoes
    <3> QED
      BY <3>1
  <2> QED
    BY <1>2, <2>2, <2>3, <2>4, <2>5, <2>6, <2>7, <2>8 DEF Acts
<1> QED
  BY <1>1, <1>2

(* The log only grows, by changes of the device that sends them. *)
LEMMA LogGrows ==
  ASSUME Holds, NEW d \in Device, Acts(d)
  PROVE  /\ Len(log) <= Len(log') /\ \A i \in 1 .. Len(log) : log'[i] = log[i]
         /\ Logged \subseteq Logged'
         /\ Send(d) \/ Logged' = Logged
         /\ \A c \in Logged' \ Logged : c.device = d /\ Send(d)
<1>1. CASE Send(d)
  <2>1. \A c \in run[d].todo : c.device = d
    BY <1>1, SendDoes DEF Holds, Contents, RunsFit, RunFits, PushFits
  <2>2. Len(log) <= Len(log') /\ \A i \in 1 .. Len(log) : log'[i] = log[i]
    BY <1>1, SendDoes
  <2>3. PICK B \in SUBSET run[d].todo : Logged' = Logged \cup {c \in B : ~Stored(c)}
    BY <1>1, SendDoes
  <2> QED
    BY <1>1, <2>1, <2>2, <2>3
<1>2. CASE ~Send(d)
  <2>1. log' = log
    BY <1>2, WritingRun, FreshDoes, LoadDoes, SettleKeeps, ReleaseDoes, AsideDoes, ApplyDoes
    DEF Acts, Fetch, ReadStates, ListBooks
  <2>2. Logged' = Logged
    BY <2>1 DEF Logged
  <2> QED
    BY <2>1, <2>2, LenProperties DEF Holds, Inv, TypeOK
<1> QED
  BY <1>1, <1>2
-------------------------------------------------------------------------------
(* Free records are never kept aside, and pages lie within the log. *)

LEMMA PlainElsewhere ==
  ASSUME Holds, Holds', RoundsPlain, NEW d \in Device, Acts(d), NEW e \in Device \ {d}
  PROVE  Plain(e)'
<1>1. /\ run'[e] = run[e] /\ cursor'[e] = cursor[e] /\ held'[e] = held[e]
  BY Elsewhere
<1>2. Len(log) <= Len(log') /\ Len(log) \in Nat /\ Len(log') \in Nat
      /\ cursor[e] \in Nat /\ run[e].next \in Nat
  BY LogGrows, LenProperties DEF Holds, Inv, TypeOK, Run
<1>3. Plain(e)
  BY DEF RoundsPlain
<1>4. cursor'[e] <= Len(log')
  BY <1>1, <1>2, <1>3 DEF Plain
<1>5. OnPage(e)' => OnPage(e) /\ run'[e].next <= Len(log') /\ cursor'[e] <= run'[e].next
  BY <1>1, <1>2, <1>3 DEF Plain, OnPage
<1> QED
  BY <1>1, <1>3, <1>4, <1>5 DEF Plain

LEMMA PlainHere ==
  ASSUME Holds, Holds', RoundsPlain, NEW d \in Device, Acts(d)
  PROVE  Plain(d)'
<1>1. /\ \A h \in held[d] : ~Free(h)
      /\ run[d].stage \notin {"push", "pull"} => \A c \in run[d].todo : ~Free(c)
      /\ run[d].step = "fetch" => run[d].stage = "pull"
      /\ run[d].step \in {"load", "send"} => run[d].batch = {}
      /\ run[d].step = "load" => run[d].todo = {}
      /\ cursor[d] <= Len(log)
      /\ OnPage(d) => cursor[d] <= run[d].next /\ run[d].next <= Len(log)
  BY DEF RoundsPlain, Plain
<1>2. CASE Writing(d)
  BY <1>1, <1>2, WritingRun DEF Plain, OnPage
<1>3. CASE Fresh(d)
  <2>1. cursor'[d] <= Len(log)
    <3>1. CASE SaveCursor(d)
      <4>1. OnPage(d) /\ cursor'[d] = run[d].next
        BY <3>1 DEF SaveCursor, OnPage, Holds, Inv, TypeOK
      <4> QED
        BY <1>1, <4>1
    <3> QED
      BY <1>1, <1>3, <3>1, FreshDoes
  <2> QED
    BY <1>1, <1>3, <2>1, FreshDoes DEF Plain
<1>4. CASE Load(d)
  <2>1. PICK todo : run'[d] = Sending(d, todo)
    BY <1>4, LoadDoes
  <2>2. /\ run'[d].todo = todo /\ run'[d].batch = {} /\ ~OnPage(d)'
        /\ run'[d].step \in {"states", "send"}
        /\ todo # {} => run'[d].stage = "push"
    BY <2>1, SendingDoes
  <2>3. UNCHANGED <<log, held, cursor>>
    BY <1>4, LoadDoes
  <2> QED
    BY <1>1, <2>2, <2>3 DEF Plain
<1>5. CASE Send(d)
  <2>1. cursor'[d] <= Len(log')
    <3>1. Len(log) <= Len(log') /\ cursor' = cursor
      BY <1>5, SendDoes
    <3>2. Len(log) \in Nat /\ Len(log') \in Nat /\ cursor[d] \in Nat
      BY LenProperties DEF Holds, Inv, TypeOK
    <3> QED
      BY <1>1, <3>1, <3>2
  <2> QED
    BY <1>1, <1>5, <2>1, SendDoes DEF Plain, OnPage
<1>6. CASE Settle(d)
  BY <1>1, <1>6, SettleKeeps DEF Plain
<1>7. CASE Fetch(d)
  BY <1>1, <1>7, FetchDoes DEF Plain
<1>8. CASE ReadStates(d)
  BY <1>1, <1>8, StatesDoes DEF Plain, OnPage
<1>9. CASE ListBooks(d)
  BY <1>1, <1>9, BooksDoes DEF Plain, OnPage
<1>10. CASE Release(d)
  BY <1>1, <1>10, ReleaseDoes DEF Plain, OnPage
<1>11. ASSUME NEW c \in run[d].todo, Asides(d, c)
       PROVE  Plain(d)'
  BY <1>1, <1>11, AsideDoes DEF Plain, OnPage
<1>12. ASSUME NEW c \in run[d].todo, Apply(d, c)
       PROVE  Plain(d)'
  <2>1. /\ UNCHANGED <<log, held, cursor>>
        /\ run[d].step = "apply" /\ run'[d].step \in {"apply", "release"}
        /\ run'[d].todo = run[d].todo \ {c} /\ run'[d].stage = run[d].stage
    BY <1>12, ApplyDoes
  <2>2. run'[d].next = run[d].next
    BY <1>12, ApplyNext
  <2> QED
    BY <1>1, <2>1, <2>2 DEF Plain, OnPage
<1> QED
  BY <1>2, <1>3, <1>4, <1>5, <1>6, <1>7, <1>8, <1>9, <1>10, <1>11, <1>12 DEF Acts
-------------------------------------------------------------------------------
(* What accounts for a change goes on accounting for it. *)

(* A step of a device, with one time for all. *)
Stepping(d) ==
  Acts(d) /\ [Next]_vars /\ Holds /\ Holds' /\ RoundsPlain /\ NoSkew

LEMMA NextDated ==
  ASSUME Holds', NEW d \in Device
  PROVE  \A v \in versions'[d] : Dated(v)
<1>1. versions' \in [Device -> SUBSET Version]
  BY DEF Holds, Inv, TypeOK
<1>2. versions'[d] \subseteq Version
  BY <1>1
<1> QED
  BY <1>2, SyncAssumption DEF Version, Dated

(* A version that is replaced is replaced by a later one. *)
LEMMA SupersededStays ==
  ASSUME NEW d \in Device, Stepping(d), NEW e \in Device, NEW c \in Logged,
         Superseded(versions[e], c)
  PROVE  Superseded(versions'[e], c)
<1>1. PICK v \in Of(versions[e], c.record) : ~IsLaterVersion(c, v)
  BY DEF Superseded
<1>2. v \in versions[e] /\ v.record = c.record
  BY <1>1 DEF Of
<1>3. Rises(e)
  BY VersionsRise DEF Stepping
<1>4. CASE v \in versions'[e]
  BY <1>1, <1>2, <1>4 DEF Superseded, Of
<1>5. ASSUME NEW w \in Of(versions'[e], c.record), IsLaterVersion(w, v)
      PROVE  Superseded(versions'[e], c)
  <2>1. Dated(c) /\ Dated(v)
    BY <1>2, LoggedTimed, VersionDated DEF Stepping, Timed
  <2>2. Dated(w)
    BY <1>5, NextDated DEF Of, Stepping
  <2>3. ~IsLaterVersion(c, w)
    BY <1>1, <1>5, <2>1, <2>2 DEF IsLaterVersion, Dated
  <2> QED
    BY <1>5, <2>3 DEF Superseded
<1> QED
  BY <1>2, <1>3, <1>4, <1>5 DEF Rises

(* A write leaves, for every record that has a marker, a marker that is     *)
(* that one or later than all its device wrote and than all that is logged. *)
LEMMA WrittenLater ==
  ASSUME NEW d \in Device, Stepping(d), Writing(d), NEW m \in outbox[d]
  PROVE  \E n \in Of(outbox'[d], m.record) :
           \/ n = m
           \/ /\ n.at \in Nat
              /\ \A c \in Logged : c.at < n.at
              /\ \A k \in run[d].markers : k.at < n.at
<1>0. Holds /\ NoSkew
  BY DEF Stepping
<1>1. PICK R \in SUBSET Record, deleted \in BOOLEAN, at \in Now : Write(d, R, deleted, at)
  BY RowsOfType DEF Writing, UserStep, Edit, Erase, AddBook, RemoveBook, UserWrites, Download
<1>2. at \in Nat /\ clock <= at /\ clock \in Nat /\ lastWrite[d] \in Nat /\ Skew[d] = 0
  BY <1>0, NowIsNext DEF Holds, Inv, TypeOK, NoSkew
<1>3. Wrote(d, R, deleted, at)
  BY <1>0, <1>1, <1>2, WriteRows DEF Holds, Inv
<1>4. CASE m.record \notin R
  <2>1. m \in outbox'[d]
    BY <1>3, <1>4 DEF Wrote
  <2> QED
    BY <2>1 DEF Of
<1>5. CASE m.record \in R
  <2>1. PICK n \in outbox'[d] : n.record = m.record
    BY <1>3, <1>5 DEF Wrote
  <2>2. n.at = at + Skew[d] /\ lastWrite[d] < at
    BY <1>3, <1>5, <2>1 DEF Wrote
  <2>3. \A c \in Logged : c.at < n.at
    <3>1. ASSUME NEW c \in Logged PROVE c.at < n.at
      <4>1. c.at < clock /\ c.at \in Nat
        BY <1>0, LoggedTimed DEF Holds, Contents, InTime, Timed, Dated
      <4> QED
        BY <1>2, <2>2, <4>1
    <3> QED
      BY <3>1
  <2>4. ASSUME NEW k \in run[d].markers
        PROVE  k.at < n.at
    <3> DEFINE x == [record |-> k.record, id |-> k.id, at |-> k.at, device |-> d]
    <3>1. x \in Stamps /\ k.at \in Nat
      BY <1>0, MarkTimed
    <3>2. k.at <= lastWrite[d] + Skew[d]
      BY <1>0, <3>1 DEF Holds, Contents, StampsTimed
    <3> QED
      BY <1>2, <2>2, <3>1, <3>2
  <2> QED
    BY <1>2, <2>1, <2>2, <2>3, <2>4 DEF Of
<1> QED
  BY <1>4, <1>5

LEMMA OutdoneWritten ==
  ASSUME NEW d \in Device, Stepping(d), Writing(d), NEW c \in Logged,
         Outdone(d, outbox[d], c)
  PROVE  Outdone(d, outbox'[d], c)
<1>1. PICK m \in Of(outbox[d], c.record) : m.id = c.id \/ Beats(MarkOf(d, m), c)
  BY DEF Outdone
<1>2. m \in outbox[d] /\ m.record = c.record
  BY <1>1 DEF Of
<1>3. PICK n \in Of(outbox'[d], c.record) :
        n = m \/ (n.at \in Nat /\ c.at < n.at)
  BY <1>2, WrittenLater
<1>4. CASE n = m
  BY <1>1, <1>3, <1>4 DEF Outdone
<1>5. CASE n.at \in Nat /\ c.at < n.at
  <2>1. c.at \in Nat
    BY LoggedTimed DEF Stepping, Timed, Dated
  <2>2. Beats(MarkOf(d, n), c)
    BY <1>5, <2>1 DEF MarkOf, Beats, IsLaterVersion
  <2> QED
    BY <1>3, <2>2 DEF Outdone
<1> QED
  BY <1>3, <1>4, <1>5

(* A marker goes for a version that is as late. *)
LEMMA OutdoneSettled ==
  ASSUME NEW d \in Device, Stepping(d), Settle(d), NEW c \in Logged,
         Outdone(d, outbox[d], c)
  PROVE  Superseded(versions'[d], c) \/ Outdone(d, outbox'[d], c)
<1>0. Holds /\ Holds'
  BY DEF Stepping
<1> DEFINE part == SettleNext(run[d].batch)
<1>1. /\ part \subseteq run[d].batch /\ OneRowEach(part)
      /\ outbox'[d] = SettledOutbox(outbox[d], part)
      /\ versions'[d] = SettledVersions(versions[d], part)
  BY <1>0, SettleDoes
<1> HIDE DEF part
<1>2. PICK m \in Of(outbox[d], c.record) : m.id = c.id \/ Beats(MarkOf(d, m), c)
  BY DEF Outdone
<1>3. m \in outbox[d] /\ m.record = c.record
  BY <1>2 DEF Of
<1>4. CASE m \in outbox'[d]
  BY <1>2, <1>3, <1>4 DEF Outdone, Of
<1>5. CASE m \notin outbox'[d]
  <2>1. PICK p \in part : p.record = m.record /\ p.id = m.id
    BY <1>1, <1>3, <1>5 DEF SettledOutbox
  <2>2. p \in Changes
    BY <1>1, <2>1, ChangeMembers
  <2>3. p.at = m.at /\ p.device = d
    BY <1>0, <1>3, <2>1, <2>2, SameStamp
  <2>4. ~IsLaterVersion(c, MarkOf(d, m)) /\ Timed(MarkOf(d, m))
    BY <1>0, <1>2, <1>3, OutdoneLater, MarkTimed
  <2>5. ~IsLaterVersion(c, p) /\ Dated(p) /\ Dated(c)
    BY <1>0, <2>3, <2>4, LoggedTimed DEF IsLaterVersion, MarkOf, Timed, Dated
  <2>6. VersionOf(p) \in versions'[d] \/ Superseded(versions'[d], p)
    BY <1>1, <2>1, SettledVersionsRise DEF Superseded, Of
  <2>7. \A v \in versions'[d] : Dated(v)
    BY <1>0, NextDated
  <2> QED
    BY <1>3, <2>1, <2>5, <2>6, <2>7, SupersededBy
<1> QED
  BY <1>4, <1>5

(* What is logged stays logged. *)
LEMMA UnreadStays ==
  ASSUME NEW d \in Device, Stepping(d), NEW e \in Device, NEW c \in Logged, Unread(e, c)
  PROVE  Unread(e, c)'
<1>1. Logged \subseteq Logged'
  BY LogGrows DEF Stepping
<1>2. PICK f \in Logged : f.record = c.record /\ ~Legible(e, f) /\ ~Beats(c, f)
  BY DEF Unread
<1> QED
  BY <1>1, <1>2 DEF Unread, Legible

LEMMA BackedStays ==
  ASSUME NEW d \in Device, Stepping(d), NEW e \in Device, NEW c \in Logged,
         Superseded(versions[e], c) \/ Outdone(e, outbox[e], c),
         \A k \in run[e].todo : (e = d /\ Apply(d, k)) => k.record # c.record
  PROVE  Superseded(versions'[e], c) \/ Outdone(e, outbox'[e], c)
<1>0. Holds /\ Acts(d)
  BY DEF Stepping
<1>1. CASE Superseded(versions[e], c)
  BY <1>1, SupersededStays
<1>2. CASE Outdone(e, outbox[e], c)
  <2>1. CASE outbox'[e] = outbox[e]
    BY <1>2, <2>1
  <2>2. CASE e = d /\ Writing(d)
    BY <1>2, <2>2, OutdoneWritten
  <2>3. CASE e = d /\ Settle(d)
    BY <1>2, <2>3, OutdoneSettled
  <2>4. ASSUME NEW k \in run[d].todo, Apply(d, k), e = d
        PROVE  Outdone(e, outbox'[e], c)
    <3>1. outbox'[d] = Without(outbox[d], {k.record})
      BY <1>0, <2>4, ApplyDoes
    <3>2. k.record # c.record
      BY <2>4
    <3> QED
      BY <1>2, <2>4, <3>1, <3>2 DEF Outdone, Of, Without
  <2>5. \/ outbox'[e] = outbox[e]
        \/ e = d /\ (Writing(d) \/ Settle(d))
        \/ e = d /\ \E k \in run[d].todo : Apply(d, k)
    <3>1. CASE e # d
      BY <1>0, <3>1, Elsewhere
    <3>2. CASE e = d
      BY <1>0, <3>2, FreshDoes, LoadDoes, SendDoes, ReleaseDoes, AsideDoes
      DEF Acts, Fetch, ReadStates, ListBooks, local
    <3> QED
      BY <3>1, <3>2
  <2> QED
    BY <2>1, <2>2, <2>3, <2>4, <2>5
<1> QED
  BY <1>1, <1>2
LEMMA ReachedStays ==
  ASSUME NEW d \in Device, Stepping(d), NEW e \in Device, NEW c \in Logged, Reached(e, c),
         \A k \in run[e].todo : (e = d /\ Apply(d, k)) => k.record # c.record
  PROVE  Reached(e, c)'
<1>1. CASE Superseded(versions[e], c) \/ Outdone(e, outbox[e], c)
  <2>1. Superseded(versions'[e], c) \/ Outdone(e, outbox'[e], c)
    BY <1>1, BackedStays
  <2> QED
    BY <2>1 DEF Reached, Accounted
<1>2. CASE Unread(e, c)
  BY <1>2, UnreadStays DEF Reached, Accounted
<1> QED
  BY <1>1, <1>2 DEF Reached, Accounted
-------------------------------------------------------------------------------
(* What was passed, and what a round has read. *)

LEMMA SamePage ==
  ASSUME NEW d \in Device, Stepping(d), NEW e \in Device, cursor'[e] = cursor[e]
  PROVE  /\ Passed(e)' = Passed(e) /\ Passed(e) \subseteq Logged
         /\ \A n \in Nat : n <= Len(log) =>
              PageUpTo(e, n)' = PageUpTo(e, n) /\ PageUpTo(e, n) \subseteq Logged
<1>0. Holds /\ Acts(d) /\ cursor[e] \in Nat /\ cursor[e] <= Len(log)
      /\ DOMAIN log = 1 .. Len(log) /\ Len(log) \in Nat
  BY LenProperties DEF Stepping, Holds, Inv, TypeOK, RoundsPlain, Plain
<1>1. \A i \in 1 .. Len(log) : log'[i] = log[i]
  BY <1>0, LogGrows
<1>2. Passed(e)' = Passed(e) /\ Passed(e) \subseteq Logged
  <2>1. \A i \in 1 .. cursor[e] : i \in 1 .. Len(log)
    BY <1>0
  <2> QED
    BY <1>0, <1>1, <2>1 DEF Passed, Logged
<1>3. ASSUME NEW n \in Nat, n <= Len(log)
      PROVE  PageUpTo(e, n)' = PageUpTo(e, n) /\ PageUpTo(e, n) \subseteq Logged
  <2>1. \A i \in cursor[e] + 1 .. n : i \in 1 .. Len(log)
    BY <1>0, <1>3
  <2> QED
    BY <1>0, <1>1, <2>1 DEF PageUpTo, Logged
<1> QED
  BY <1>2, <1>3

(* An applied change accounts for what is not later. *)
LEMMA AppliedSuperseded ==
  ASSUME NEW d \in Device, Stepping(d), NEW k \in run[d].todo, Apply(d, k),
         NEW c \in Logged, c.record = k.record, ~IsLaterVersion(c, k)
  PROVE  Superseded(versions'[d], c)
<1>0. Holds /\ Holds'
  BY DEF Stepping
<1>1. versions'[d] = Put(versions[d], VersionOf(k)) /\ k \in Logged
  BY <1>0, ApplyDoes
<1>2. VersionOf(k) \in versions'[d]
  BY <1>1 DEF Put
<1>3. Dated(c) /\ Dated(k)
  BY <1>0, <1>1, LoggedTimed DEF Timed
<1> QED
  BY <1>0, <1>2, <1>3, NextDated, SupersededBy

(* A free record is only applied on a page of a pull. *)
LEMMA FreeOnPage ==
  ASSUME NEW d \in Device, Stepping(d), NEW k \in run[d].todo, Free(k),
         Apply(d, k) \/ Asides(d, k)
  PROVE  OnPage(d) /\ run[d].step = "apply" /\ k \in Logged
<1>1. run[d].step = "apply" /\ run[d].stage # "push"
  BY DEF Apply, Asides, Drop, Hold, Reconciles, Stepping, Holds, Inv, StagesFit
<1>2. run[d].stage = "pull"
  BY <1>1 DEF Stepping, RoundsPlain, Plain
<1>3. k \in Logged
  BY <1>1 DEF Stepping, Holds, Inv, InFlight
<1> QED
  BY <1>1, <1>2, <1>3 DEF OnPage

(* What the round has read accounts for what was passed, whatever was       *)
(* written since.                                                           *)
LEMMA PassedApplied ==
  ASSUME NEW d \in Device, Stepping(d), ReadKept(d), NEW k \in run[d].todo, Apply(d, k),
         NEW c \in Logged, c \in Passed(d), Free(c), c.record = k.record
  PROVE  Reached(d, c)'
<1>0. Holds /\ Holds'
  BY DEF Stepping
<1>1. Free(k)
  BY DEF Free
<1>2. OnPage(d) /\ run[d].step = "apply" /\ k \in Logged
  BY <1>1, FreeOnPage
<1>3. Accounted(d, run[d].markers, run[d].versions, c)
  BY <1>2 DEF ReadKept, AtRead
<1>4. CASE Superseded(run[d].versions, c)
  <2>1. Of(run[d].versions, k.record) = Of(versions[d], k.record)
    BY <1>0, <1>2 DEF Holds, Contents, RunsFit, RunFits, RoundFits
  <2>2. Superseded(versions[d], c)
    BY <1>4, <2>1 DEF Superseded
  <2> QED
    BY <2>2, SupersededStays DEF Reached, Accounted
<1>5. CASE Outdone(d, run[d].markers, c)
  <2>1. PICK m \in Of(run[d].markers, c.record) : m.id = c.id \/ Beats(MarkOf(d, m), c)
    BY <1>5 DEF Outdone
  <2>2. m \in run[d].markers /\ m.record = c.record
    BY <2>1 DEF Of
  <2>3. ~IsLaterVersion(c, MarkOf(d, m))
    BY <1>0, <2>1, <2>2, OutdoneLater
  <2>4. Beats(k, MarkOf(d, m))
    <3>1. m \in Of(run[d].markers, k.record)
      BY <2>1
    <3> QED
      BY <1>0, <3>1, WantedBeats DEF MarkOf
  <2>5. Timed(c) /\ Timed(k) /\ Timed(MarkOf(d, m))
    BY <1>0, <1>2, <2>2, LoggedTimed, MarkTimed
  <2>6. ~IsLaterVersion(MarkOf(d, m), k)
    BY <2>4, <2>5, BeatsLater
  <2>7. ~IsLaterVersion(c, k)
    BY <2>3, <2>5, <2>6, LaterOrder DEF Timed
  <2> QED
    BY <2>7, AppliedSuperseded DEF Reached, Accounted
<1>6. CASE Unread(d, c)
  BY <1>6, UnreadStays DEF Reached, Accounted
<1> QED
  BY <1>3, <1>4, <1>5, <1>6 DEF Accounted

(* The account of what was passed, over a step. *)
LEMMA PassedStep ==
  ASSUME NEW d \in Device, Stepping(d), NEW e \in Device,
         PassedKept(e), PageKept(e), ReadKept(e)
  PROVE  PassedKept(e)'
<1>0. Holds /\ Holds' /\ Acts(d)
  BY DEF Stepping
<1>1. CASE cursor'[e] = cursor[e]
  <2>1. Passed(e)' = Passed(e) /\ Passed(e) \subseteq Logged
    BY <1>1, SamePage
  <2>2. ASSUME NEW c \in Passed(e), Free(c) PROVE Reached(e, c)'
    <3>1. CASE \E k \in run[e].todo : e = d /\ Apply(d, k) /\ k.record = c.record
      BY <2>1, <2>2, <3>1, PassedApplied
    <3>2. CASE \A k \in run[e].todo : (e = d /\ Apply(d, k)) => k.record # c.record
      <4>1. Reached(e, c) /\ c \in Logged
        BY <2>1, <2>2 DEF PassedKept
      <4> QED
        BY <3>2, <4>1, ReachedStays
    <3> QED
      BY <3>1, <3>2
  <2> QED
    BY <2>1, <2>2 DEF PassedKept, Free
<1>2. CASE e = d /\ SaveCursor(d)
  <2>1. /\ OnPage(d) /\ run[d].todo = {} /\ cursor' = [cursor EXCEPT ![d] = run[d].next]
        /\ log' = log /\ cursor[d] \in Nat /\ run[d].next \in Nat
    BY <1>0, <1>2 DEF SaveCursor, OnPage, Holds, Inv, TypeOK, Run
  <2>2. cursor'[d] = run[d].next /\ cursor[d] <= run[d].next /\ run[d].next <= Len(log)
    BY <2>1 DEF Stepping, RoundsPlain, Plain, Holds, Inv, TypeOK
  <2>3. ASSUME NEW c \in Passed(d)' PROVE c \in Passed(d) \/ c \in Page(d)
    <3>1. PICK i \in 1 .. run[d].next : c = log[i]
      BY <2>1, <2>2, <2>3 DEF Passed
    <3>2. CASE i <= cursor[d]
      <4>1. i \in 1 .. cursor[d]
        BY <2>1, <3>2
      <4> QED
        BY <3>1, <4>1 DEF Passed
    <3>3. CASE ~(i <= cursor[d])
      <4>1. i \in cursor[d] + 1 .. run[d].next
        BY <2>1, <3>3
      <4> QED
        BY <3>1, <4>1 DEF Page, PageUpTo
    <3> QED
      BY <3>2, <3>3
  <2>4. Passed(d) \subseteq Logged /\ Page(d) \subseteq Logged
    <3>1. Page(d) \subseteq Logged
      BY <1>0, <2>1, <2>2, PageLogged DEF Page, Holds, Inv
    <3>2. \A i \in 1 .. cursor[d] : i \in DOMAIN log
      BY <2>1, <2>2, LenProperties DEF Stepping, Holds, Inv, TypeOK
    <3> QED
      BY <3>1, <3>2 DEF Passed, Logged
  <2>5. ASSUME NEW c \in Passed(d)', Free(c) PROVE Reached(d, c)'
    <3>1. Reached(d, c) /\ c \in Logged
      BY <1>2, <2>1, <2>3, <2>4, <2>5 DEF PassedKept, PageKept
    <3> QED
      BY <2>1, <3>1, ReachedStays
  <2> QED
    BY <1>2, <2>5 DEF PassedKept, Free
<1>3. cursor'[e] = cursor[e] \/ (e = d /\ SaveCursor(d))
  <2>1. CASE e # d
    BY <1>0, <2>1, Elsewhere
  <2>2. CASE e = d
    BY <1>0, <2>2, WritingRun, FreshDoes, LoadDoes, SendDoes, SettleKeeps, ReleaseDoes,
       AsideDoes, ApplyDoes
    DEF Acts, Fetch, ReadStates, ListBooks
  <2> QED
    BY <2>1, <2>2
<1> QED
  BY <1>1, <1>2, <1>3

(* What a round has read, over a step. *)
MarkersHeld(todo, marks, outs) ==
  \A c \in todo : \A k \in Of(marks, c.record) :
    \E m \in Of(outs, c.record) : m.id = k.id \/ k.at < m.at

LEMMA ReadFrame ==
  ASSUME NEW d \in Device, Stepping(d), NEW e \in Device, ReadKept(e),
         OnPage(e), run[e].step # "states", cursor'[e] = cursor[e],
         run'[e].markers = run[e].markers, run'[e].versions = run[e].versions,
         MarkersHeld(run'[e].todo, run'[e].markers, outbox'[e])
  PROVE  ReadKept(e)'
<1>1. Passed(e)' = Passed(e) /\ Passed(e) \subseteq Logged
  BY SamePage
<1>2. ASSUME NEW c \in Passed(e), Free(c)
      PROVE  AtRead(e, c)'
  <2>1. AtRead(e, c) /\ c \in Logged
    BY <1>1, <1>2 DEF ReadKept
  <2> QED
    BY <2>1, UnreadStays DEF AtRead, Accounted
<1>3. \A c \in Passed(e)' : Free(c) => AtRead(e, c)'
  BY <1>1, <1>2
<1> QED
  BY <1>3 DEF ReadKept, MarkersHeld, Free

LEMMA ReadStep ==
  ASSUME NEW d \in Device, Stepping(d), NEW e \in Device, PassedKept(e), ReadKept(e)
  PROVE  ReadKept(e)'
<1>0. Holds /\ Holds' /\ Acts(d)
  BY DEF Stepping
<1>1. OnPage(e) /\ run[e].step # "states"
        => MarkersHeld(run[e].todo, run[e].markers, outbox[e])
  BY DEF ReadKept, MarkersHeld
<1>2. CASE e # d
  <2>1. run'[e] = run[e] /\ cursor'[e] = cursor[e] /\ outbox'[e] = outbox[e]
    BY <1>0, <1>2, Elsewhere
  <2>2. CASE OnPage(e) /\ run[e].step # "states"
    BY <1>1, <2>1, <2>2, ReadFrame
  <2> QED
    BY <2>1, <2>2 DEF ReadKept, OnPage
<1>3. CASE e = d /\ Writing(d)
  <2>1. /\ cursor' = cursor /\ run'[d].markers = run[d].markers
        /\ run'[d].versions = run[d].versions /\ run'[d].todo = run[d].todo
        /\ run'[d].stage = run[d].stage /\ run'[d].step = run[d].step
    BY <1>0, <1>3, WritingRun
  <2>2. CASE OnPage(d) /\ run[d].step # "states"
    <3>1. ASSUME NEW c \in run[d].todo, NEW k \in Of(run[d].markers, c.record)
          PROVE  \E n \in Of(outbox'[d], c.record) : n.id = k.id \/ k.at < n.at
      <4>1. PICK m \in Of(outbox[d], c.record) : m.id = k.id \/ k.at < m.at
        BY <1>1, <1>3, <2>2, <3>1 DEF MarkersHeld
      <4>2. m \in outbox[d] /\ m.record = c.record /\ k \in run[d].markers
        BY <3>1, <4>1 DEF Of
      <4>3. \E n \in Of(outbox'[d], m.record) : n = m \/ k.at < n.at
        BY <1>3, <4>2, WrittenLater
      <4> QED
        BY <4>1, <4>2, <4>3
    <3>2. MarkersHeld(run'[d].todo, run'[d].markers, outbox'[d])
      BY <2>1, <3>1 DEF MarkersHeld
    <3> QED
      BY <1>3, <2>1, <2>2, <3>2, ReadFrame
  <2> QED
    BY <1>3, <2>1, <2>2 DEF ReadKept, OnPage
<1>4. CASE e = d /\ (Fresh(d) \/ Settle(d))
  BY <1>0, <1>4, FreshDoes, SettleKeeps DEF ReadKept
<1>5. CASE e = d /\ (Load(d) \/ Send(d) \/ Fetch(d))
  <2>1. CASE Load(d)
    <3>1. \E todo : run'[d] = Sending(d, todo)
      BY <1>0, <2>1, LoadDoes
    <3>2. ~OnPage(d)'
      BY <1>0, <3>1, SendingDoes
    <3> QED
      BY <1>5, <3>2 DEF ReadKept
  <2>2. CASE Send(d)
    BY <1>0, <1>5, <2>2, SendDoes DEF ReadKept, OnPage
  <2>3. CASE Fetch(d)
    <3>1. run'[d].step = "states"
      BY <1>0, <2>3, FetchDoes DEF Stepping, RoundsPlain, Plain
    <3> QED
      BY <1>5, <3>1 DEF ReadKept
  <2> QED
    BY <1>5, <2>1, <2>2, <2>3
<1>6. CASE e = d /\ ReadStates(d)
  <2>1. /\ UNCHANGED <<log, outbox, versions, cursor>>
        /\ run'[d].markers = outbox[d] /\ run'[d].versions = versions[d]
    BY <1>0, <1>6, StatesDoes
  <2>2. Passed(d)' = Passed(d) /\ Logged' = Logged
    BY <2>1 DEF Passed, Logged
  <2>3. \A c \in Passed(d) : Free(c) => AtRead(d, c)'
    BY <1>6, <2>1, <2>2 DEF PassedKept, Reached, AtRead, Accounted, Unread, Legible
  <2>4. MarkersHeld(run'[d].todo, run'[d].markers, outbox'[d])
    BY <2>1 DEF MarkersHeld
  <2>5. \A c \in Passed(d)' : Free(c) => AtRead(d, c)'
    BY <2>2, <2>3
  <2> QED
    BY <1>6, <2>4, <2>5 DEF ReadKept, MarkersHeld, Free
<1>7. CASE e = d /\ (ListBooks(d) \/ Release(d))
  <2>1. /\ UNCHANGED <<outbox, cursor>> /\ run'[d].stage = run[d].stage
        /\ run[d].step \in {"books", "release"}
        /\ run'[d].markers = run[d].markers /\ run'[d].versions = run[d].versions
        /\ run[d].stage = "pull" => run'[d].todo = run[d].todo
    BY <1>0, <1>7, BooksDoes, ReleaseDoes
  <2>2. CASE OnPage(d)
    <3>1. MarkersHeld(run'[d].todo, run'[d].markers, outbox'[d])
      BY <1>1, <1>7, <2>1, <2>2 DEF OnPage
    <3> QED
      BY <1>7, <2>1, <2>2, <3>1, ReadFrame
  <2> QED
    BY <1>7, <2>1, <2>2 DEF ReadKept, OnPage
<1>8. ASSUME e = d, NEW k \in run[d].todo, Asides(d, k) \/ Apply(d, k)
      PROVE  ReadKept(e)'
  <2>1. /\ cursor' = cursor /\ run'[d].stage = run[d].stage /\ run[d].step = "apply"
        /\ run'[d].markers = run[d].markers /\ run'[d].versions = run[d].versions
        /\ run'[d].todo = run[d].todo \ {k}
        /\ outbox'[d] = outbox[d] \/ outbox'[d] = Without(outbox[d], {k.record})
    BY <1>0, <1>8, AsideDoes, ApplyDoes
  <2>2. OneRowEach(run[d].todo)
    BY <1>0 DEF Holds, Contents, RunsFit, RunFits, RoundFits
  <2>3. CASE OnPage(d)
    <3>1. \A c \in run'[d].todo : c \in run[d].todo /\ c.record # k.record
      BY <2>1, <2>2 DEF OneRowEach
    <3>2. \A c \in run'[d].todo : Of(outbox'[d], c.record) = Of(outbox[d], c.record)
      BY <2>1, <3>1 DEF Of, Without
    <3>3. MarkersHeld(run'[d].todo, run'[d].markers, outbox'[d])
      BY <1>1, <1>8, <2>1, <2>3, <3>1, <3>2 DEF MarkersHeld
    <3> QED
      BY <1>8, <2>1, <2>3, <3>3, ReadFrame
  <2> QED
    BY <1>8, <2>1, <2>3 DEF ReadKept, OnPage
<1> QED
  BY <1>0, <1>2, <1>3, <1>4, <1>5, <1>6, <1>7, <1>8 DEF Acts
-------------------------------------------------------------------------------
(* The page. *)

(* What a dropped change gives way to accounts for what gives way to it. *)
LEMMA DropReached ==
  ASSUME NEW d \in Device, Holds, MarkersHeld(run[d].todo, run[d].markers, outbox[d]),
         NEW k \in run[d].todo, Drop(d, k),
         NEW c \in Logged, c.record = k.record, ~Beats(c, k)
  PROVE  Reached(d, c)
<1>0. Holds /\ run[d].step = "apply" /\ k \in Logged
  BY DEF Drop, Reconciles, Holds, Inv, StagesFit, InFlight
<1>1. Timed(c) /\ Timed(k) /\ k \in Changes /\ StampOf(k) \in Stamps
  BY <1>0, LoggedTimed
<1>2. k.id # NoId
  BY <1>0, <1>1 DEF Holds, Contents, StampsTimed, StampOf
<1>3. CASE ~Legible(d, k)
  BY <1>0, <1>3 DEF Reached, Accounted, Unread
<1>4. CASE ~Wanted(d, k)
  <2>1. PICK l \in LocalChange(Of(run[d].markers, k.record), Of(run[d].versions, k.record),
                               k, d) : l.id = k.id \/ ~Beats(k, l)
    BY <1>4 DEF Wanted, MergeApplies
  <2>2. CASE Of(run[d].markers, k.record) # {}
    <3>1. PICK m \in Of(run[d].markers, k.record) : l = MarkOf(d, m)
      BY <2>1, <2>2 DEF LocalChange, MarkOf
    <3>2. m \in run[d].markers /\ m.record = k.record
      BY <3>1 DEF Of
    <3>3. /\ Timed(l) /\ l.id = m.id /\ l.at = m.at /\ l.device = d
      BY <1>0, <3>1, <3>2, MarkTimed
    <3>4. ~Beats(k, l)
      <4>1. CASE m.id = k.id
        <5>1. k.at = m.at /\ k.device = d
          BY <1>0, <1>1, <3>2, <4>1, SameStamp
        <5> QED
          BY <1>1, <3>3, <4>1, <5>1 DEF Beats, IsLaterVersion, Timed, Dated
      <4> QED
        BY <2>1, <3>3, <4>1
    <3>5. ~Beats(c, l)
      BY <1>1, <3>3, <3>4, BeatsOrder
    <3>6. PICK n \in Of(outbox[d], k.record) : n.id = m.id \/ m.at < n.at
      BY <1>0, <3>1 DEF MarkersHeld
    <3>7. n \in outbox[d] /\ n.record = k.record
      BY <3>6 DEF Of
    <3>8. Timed(MarkOf(d, n)) /\ MarkOf(d, n).at = n.at /\ n.at \in Nat
      BY <1>0, <3>7, MarkTimed
    <3>9. CASE n.id = m.id
      <4>1. n = m
        BY <1>0, <3>2, <3>7, <3>9 DEF Holds, Contents, RunsFit, RunFits, MarkersRead
      <4>2. m.id = c.id \/ Beats(MarkOf(d, m), c)
        BY <1>1, <3>1, <3>3, <3>5, BeatsLater
      <4> QED
        BY <3>6, <4>1, <4>2 DEF Reached, Accounted, Outdone
    <3>10. CASE m.at < n.at
      <4>1. c.at <= l.at
        BY <1>1, <3>3, <3>5 DEF Beats, IsLaterVersion, Timed, Dated
      <4>2. Beats(MarkOf(d, n), c)
        BY <1>1, <3>3, <3>8, <3>10, <4>1 DEF Beats, IsLaterVersion, Timed, Dated
      <4> QED
        BY <3>6, <4>2 DEF Reached, Accounted, Outdone
    <3> QED
      BY <3>6, <3>9, <3>10
  <2>3. CASE Of(run[d].markers, k.record) = {}
    <3>1. PICK v \in Of(run[d].versions, k.record) :
            l = [id |-> IF SameVersion(v, k) THEN k.id ELSE NoId,
                 at |-> v.at, device |-> v.device]
      BY <2>1, <2>3 DEF LocalChange
    <3>2. v \in Of(versions[d], k.record)
      BY <1>0, <3>1 DEF Holds, Contents, RunsFit, RunFits, RoundFits
    <3>3. Dated(v)
      BY <1>0, <3>2, VersionDated DEF Of
    <3>4. ~IsLaterVersion(k, v)
      <4>1. CASE SameVersion(v, k)
        BY <1>1, <3>3, <4>1 DEF SameVersion, IsLaterVersion, Timed, Dated
      <4>2. CASE ~SameVersion(v, k)
        <5>1. ~Beats(k, l)
          BY <1>2, <2>1, <3>1, <4>2
        <5>2. ~IsLaterVersion(k, l)
          BY <5>1 DEF Beats
        <5> QED
          BY <3>1, <5>2 DEF IsLaterVersion
      <4> QED
        BY <4>1, <4>2
    <3>5. ~IsLaterVersion(c, k)
      BY <1>1, BeatsLater
    <3>6. ~IsLaterVersion(c, v)
      BY <1>1, <3>3, <3>4, <3>5, LaterOrder DEF Timed
    <3> QED
      BY <3>2, <3>6 DEF Reached, Accounted, Superseded
  <2> QED
    BY <2>2, <2>3
<1> QED
  BY <1>3, <1>4 DEF Drop

(* A page whose changes are left as they were. *)
LEMMA PageFrame ==
  ASSUME NEW d \in Device, Stepping(d), NEW e \in Device, PageKept(e), OnPage(e),
         cursor'[e] = cursor[e], run'[e].next = run[e].next, run'[e].todo = run[e].todo,
         \A k \in run[e].todo : ~(e = d /\ Apply(d, k))
  PROVE  PageKept(e)'
<1>1. PICK n \in Nat : n = run[e].next /\ n = run'[e].next /\ n <= Len(log)
  BY DEF Stepping, Holds, Inv, TypeOK, Run, RoundsPlain, Plain
<1>2. Page(e)' = Page(e) /\ Page(e) \subseteq Logged
  <2>1. PageUpTo(e, n)' = PageUpTo(e, n) /\ PageUpTo(e, n) \subseteq Logged
    BY <1>1, SamePage
  <2> QED
    BY <1>1, <2>1 DEF Page, PageUpTo
<1>3. ASSUME NEW c \in Page(e), Free(c)
      PROVE  /\ \A k \in run[e].todo : k.record = c.record => ~Beats(c, k)
             /\ (\A k \in run[e].todo : k.record # c.record) => Reached(e, c)'
  <2>1. /\ \A k \in run[e].todo : k.record = c.record => ~Beats(c, k)
        /\ (\A k \in run[e].todo : k.record # c.record) => Reached(e, c)
    BY <1>3 DEF PageKept
  <2>2. c \in Logged
    BY <1>2, <1>3
  <2> QED
    BY <2>1, <2>2, ReachedStays
<1>4. \A c \in Page(e)' : Free(c) =>
        /\ \A k \in run'[e].todo : k.record = c.record => ~Beats(c, k)
        /\ (\A k \in run'[e].todo : k.record # c.record) => Reached(e, c)'
  BY <1>2, <1>3
<1> QED
  BY <1>4 DEF PageKept, Free

(* A change of the page is reconciled: what is left is fewer. *)
LEMMA PageReconciled ==
  ASSUME NEW d \in Device, Stepping(d), PageKept(d), ReadKept(d), OnPage(d),
         NEW k \in run[d].todo, Asides(d, k) \/ Apply(d, k)
  PROVE  PageKept(d)'
<1>0. Holds /\ Holds'
  BY DEF Stepping
<1>1. /\ cursor' = cursor /\ run'[d].next = run[d].next
      /\ run'[d].todo = run[d].todo \ {k}
  BY <1>0, AsideDoes, ApplyDoes, ApplyNext
<1>2. PICK n \in Nat : n = run[d].next /\ n = run'[d].next /\ n <= Len(log)
  BY <1>1 DEF Stepping, Holds, Inv, TypeOK, Run, RoundsPlain, Plain
<1>3. Page(d)' = Page(d) /\ Page(d) \subseteq Logged
  <2>1. PageUpTo(d, n)' = PageUpTo(d, n) /\ PageUpTo(d, n) \subseteq Logged
    BY <1>1, <1>2, SamePage
  <2> QED
    BY <1>2, <2>1 DEF Page, PageUpTo
<1>4. OneRowEach(run[d].todo)
  BY <1>0 DEF Holds, Contents, RunsFit, RunFits, RoundFits
<1>5. ASSUME NEW c \in Page(d), Free(c)
      PROVE  /\ \A j \in run'[d].todo : j.record = c.record => ~Beats(c, j)
             /\ (\A j \in run'[d].todo : j.record # c.record) => Reached(d, c)'
  <2>1. /\ \A j \in run[d].todo : j.record = c.record => ~Beats(c, j)
        /\ (\A j \in run[d].todo : j.record # c.record) => Reached(d, c)
    BY <1>5 DEF PageKept
  <2>2. c \in Logged
    BY <1>3, <1>5
  <2>3. CASE k.record # c.record
    <3>1. (\A j \in run'[d].todo : j.record # c.record) => Reached(d, c)
      BY <1>1, <2>1, <2>3
    <3>2. \A j \in run[d].todo : Apply(d, j) => j.record # c.record
      <4>1. ASSUME NEW j \in run[d].todo, Apply(d, j), j.record = c.record
            PROVE  FALSE
        <5>1. run'[d].todo = run[d].todo \ {j}
          BY <1>0, <4>1, ApplyDoes
        <5> QED
          BY <1>1, <2>3, <4>1, <5>1
      <4> QED
        BY <4>1
    <3> QED
      BY <1>1, <2>1, <2>2, <3>1, <3>2, ReachedStays
  <2>4. CASE k.record = c.record
    <3>1. ~Beats(c, k) /\ Free(k)
      BY <1>5, <2>1, <2>4 DEF Free
    <3>2. k \in Logged
      BY <3>1, FreeOnPage
    <3>3. ~IsLaterVersion(c, k)
      BY <1>0, <2>2, <3>1, <3>2, LoggedTimed, BeatsLater
    <3>4. CASE Apply(d, k)
      <4>1. Superseded(versions'[d], c)
        BY <2>2, <2>4, <3>3, <3>4, AppliedSuperseded
      <4> QED
        BY <1>1, <2>1, <4>1 DEF Reached, Accounted
    <3>5. CASE Asides(d, k) /\ ~Apply(d, k)
      <4>1. Drop(d, k)
        BY <1>0, <3>1, <3>5, AsideDoes
      <4>2. Reached(d, c)
        <5>1. run[d].step = "apply"
          BY <4>1 DEF Drop, Reconciles
        <5>2. MarkersHeld(run[d].todo, run[d].markers, outbox[d])
          BY <5>1 DEF ReadKept, MarkersHeld
        <5> QED
          BY <1>0, <2>2, <2>4, <3>1, <4>1, <5>2, DropReached
      <4>3. \A j \in run[d].todo : Apply(d, j) => j.record # c.record
        <5>1. ASSUME NEW j \in run[d].todo, Apply(d, j), j.record = c.record
              PROVE  FALSE
          <6>1. j = k
            BY <1>4, <2>4, <5>1 DEF OneRowEach
          <6> QED
            BY <3>5, <5>1, <6>1
        <5> QED
          BY <5>1
      <4>4. Reached(d, c)'
        BY <2>2, <4>2, <4>3, ReachedStays
      <4> QED
        BY <1>1, <2>1, <4>4
    <3> QED
      BY <3>4, <3>5
  <2> QED
    BY <2>3, <2>4
<1>6. \A c \in Page(d)' : Free(c) =>
        /\ \A j \in run'[d].todo : j.record = c.record => ~Beats(c, j)
        /\ (\A j \in run'[d].todo : j.record # c.record) => Reached(d, c)'
  BY <1>3, <1>5
<1> QED
  BY <1>6 DEF PageKept, Free

(* A page that is fetched: each of its changes gives way to a winner. *)
LEMMA PageFetched ==
  ASSUME NEW d \in Device, Stepping(d), Fetch(d)
  PROVE  PageKept(d)'
<1>0. Holds /\ cursor[d] <= Len(log)
  BY DEF Stepping, RoundsPlain, Plain
<1>1. /\ UNCHANGED <<log, cursor>>
      /\ run'[d].next \in Nat /\ run'[d].next <= Len(log)
      /\ run'[d].todo = Winners(PageUpTo(d, run'[d].next))
  BY <1>0, FetchDoes
<1>2. PICK n \in Nat : n = run'[d].next
  BY <1>1
<1>3. Page(d)' = PageUpTo(d, n) /\ run'[d].todo = Winners(PageUpTo(d, n)) /\ n <= Len(log)
  BY <1>1, <1>2 DEF Page, PageUpTo
<1>4. \A c \in PageUpTo(d, n) :
        /\ \A k \in run'[d].todo : k.record = c.record => ~Beats(c, k)
        /\ \E k \in run'[d].todo : k.record = c.record
  BY <1>0, <1>3, WinnerFound DEF Winners
<1>5. \A c \in Page(d)' :
        /\ \A k \in run'[d].todo : k.record = c.record => ~Beats(c, k)
        /\ \E k \in run'[d].todo : k.record = c.record
  BY <1>3, <1>4
<1> QED
  BY <1>5 DEF PageKept

LEMMA PageStep ==
  ASSUME NEW d \in Device, Stepping(d), NEW e \in Device, PageKept(e), ReadKept(e)
  PROVE  PageKept(e)'
<1>0. Holds /\ Holds' /\ Acts(d)
  BY DEF Stepping
<1>1. CASE e # d
  <2>1. run'[e] = run[e] /\ cursor'[e] = cursor[e]
    BY <1>0, <1>1, Elsewhere
  <2>2. CASE OnPage(e)
    BY <1>1, <2>1, <2>2, PageFrame
  <2> QED
    BY <2>1, <2>2 DEF PageKept, OnPage
<1>2. CASE e = d /\ \E k \in run[d].todo : Asides(d, k) \/ Apply(d, k)
  <2>1. PICK k \in run[d].todo : Asides(d, k) \/ Apply(d, k)
    BY <1>2
  <2>2. CASE OnPage(d)
    BY <1>2, <2>1, <2>2, PageReconciled
  <2>3. CASE ~OnPage(d)
    <3>1. run'[d].stage = run[d].stage /\ run[d].step = "apply"
      BY <1>0, <2>1, AsideDoes, ApplyDoes
    <3> QED
      BY <1>2, <2>3, <3>1 DEF PageKept, OnPage
  <2> QED
    BY <2>2, <2>3
<1>3. CASE e = d /\ (\A k \in run[d].todo : ~Apply(d, k))
           /\ (Writing(d) \/ ReadStates(d) \/ ListBooks(d) \/ Release(d))
  <2>1. /\ cursor' = cursor /\ run'[d].next = run[d].next
        /\ run'[d].stage = run[d].stage
        /\ run[d].stage = "pull" => run'[d].todo = run[d].todo
        /\ OnPage(d)' => OnPage(d)
    <3>1. CASE Writing(d)
      BY <1>0, <3>1, WritingRun DEF OnPage
    <3>2. CASE ReadStates(d)
      BY <1>0, <3>2, StatesDoes DEF OnPage
    <3>3. CASE ListBooks(d)
      BY <1>0, <3>3, BooksDoes DEF OnPage
    <3>4. CASE Release(d)
      BY <1>0, <3>4, ReleaseDoes DEF OnPage
    <3> QED
      BY <1>3, <3>1, <3>2, <3>3, <3>4
  <2>2. CASE OnPage(d)
    <3>1. run'[d].todo = run[d].todo
      BY <2>1, <2>2 DEF OnPage
    <3> QED
      BY <1>3, <2>1, <2>2, <3>1, PageFrame
  <2> QED
    BY <1>3, <2>1, <2>2 DEF PageKept
<1>4. CASE e = d /\ (Fresh(d) \/ Settle(d))
  BY <1>0, <1>4, FreshDoes, SettleKeeps DEF PageKept
<1>5. CASE e = d /\ (Load(d) \/ Send(d))
  <2>1. CASE Load(d)
    <3>1. \E todo : run'[d] = Sending(d, todo)
      BY <1>0, <2>1, LoadDoes
    <3>2. ~OnPage(d)'
      BY <1>0, <3>1, SendingDoes
    <3> QED
      BY <1>5, <3>2 DEF PageKept
  <2>2. CASE Send(d)
    BY <1>0, <1>5, <2>2, SendDoes DEF PageKept, OnPage
  <2> QED
    BY <1>5, <2>1, <2>2
<1>6. CASE e = d /\ Fetch(d)
  BY <1>6, PageFetched
<1> QED
  BY <1>0, <1>1, <1>2, <1>3, <1>4, <1>5, <1>6 DEF Acts
-------------------------------------------------------------------------------
(* What a device has pushed itself. *)

LEMMA OwnWritten ==
  ASSUME NEW d \in Device, Stepping(d), OwnKept(d), NEW c \in Logged, Free(c), c.device = d
  PROVE  Superseded(versions'[d], c) \/ Outdone(d, outbox'[d], c)
<1>1. Superseded(versions[d], c) \/ Outdone(d, outbox[d], c)
  BY DEF OwnKept
<1>2. CASE \E k \in run[d].todo : Apply(d, k) /\ k.record = c.record
  <2>1. PICK k \in run[d].todo : Apply(d, k) /\ k.record = c.record
    BY <1>2
  <2>2. OnPage(d)
    BY <2>1, FreeOnPage DEF Free
  <2>3. Superseded(versions[d], c)
    BY <2>2 DEF OwnKept, OnPage
  <2> QED
    BY <2>3, SupersededStays
<1>3. CASE \A k \in run[d].todo : Apply(d, k) => k.record # c.record
  BY <1>1, <1>3, BackedStays
<1> QED
  BY <1>2, <1>3

(* What is sent and settled accounts for what it was no earlier than. *)
LEMMA OwnSettled ==
  ASSUME NEW d \in Device, Stepping(d), OwnKept(d), NEW c \in Logged, Free(c), c.device = d,
         Settle(d)
  PROVE  \/ Superseded(versions'[d], c)
         \/ Outdone(d, run'[d].todo \cup run'[d].batch, c)
<1>0. Holds /\ Holds' /\ run[d] \in Run
  BY DEF Stepping, Holds, Inv, TypeOK
<1> DEFINE part == SettleNext(run[d].batch)
<1>1. /\ part \subseteq run[d].batch /\ OneRowEach(part)
      /\ versions'[d] = SettledVersions(versions[d], part)
      /\ run[d].stage = "push" /\ run[d].step = "settle"
      /\ run'[d].todo = run[d].todo /\ run'[d].batch = run[d].batch \ part
  BY <1>0, SettleDoes
<1> HIDE DEF part
<1>2. /\ run[d].markers = {}
      /\ \A k \in run[d].todo \cup run[d].batch : k.device = d
  BY <1>0, <1>1 DEF Holds, Contents, RunsFit, RunFits, PushFits
<1>3. CASE Superseded(versions[d], c)
  BY <1>3, SupersededStays
<1>4. CASE Outdone(d, Sent(d), c)
  <2>1. PICK k \in Of(Sent(d), c.record) : k.id = c.id \/ Beats(MarkOf(d, k), c)
    BY <1>4 DEF Outdone
  <2>2. k \in run[d].todo \cup run[d].batch /\ k.record = c.record
    BY <1>2, <2>1 DEF Sent, Of
  <2>3. CASE k \in run[d].todo \cup (run[d].batch \ part)
    BY <1>1, <2>1, <2>2, <2>3 DEF Outdone, Of
  <2>4. CASE k \in part
    <3>1. Timed(k) /\ k \in Changes /\ StampOf(k) \in Stamps /\ k.device = d
      <4>1. k \in Change
        BY <1>0, <2>2 DEF Run
      <4> QED
        BY <1>2, <2>2, <4>1, ChangeMembers, StampMembers, SyncAssumption
        DEF Change, Timed, Dated
    <3>2. Timed(c) /\ StampOf(c) \in Stamps
      BY <1>0, LoggedTimed
    <3>3. ~IsLaterVersion(c, k)
      <4>1. CASE k.id = c.id
        <5>1. StampOf(k) = StampOf(c)
          <6>1. StampOf(k).record = StampOf(c).record /\ StampOf(k).id = StampOf(c).id
            BY <2>2, <4>1 DEF StampOf
          <6> QED
            BY <1>0, <3>1, <3>2, <6>1 DEF Holds, Inv, StampsAgree
        <5>2. k.at = c.at /\ k.device = c.device
          BY <5>1 DEF StampOf
        <5> QED
          BY <3>1, <3>2, <5>2 DEF IsLaterVersion, Timed, Dated
      <4>2. CASE Beats(MarkOf(d, k), c)
        BY <3>1, <3>2, <4>2 DEF MarkOf, Beats, IsLaterVersion, Timed, Dated
      <4> QED
        BY <2>1, <4>1, <4>2
    <3>4. VersionOf(k) \in versions'[d] \/ Superseded(versions'[d], k)
      BY <1>1, <2>4, SettledVersionsRise DEF Superseded, Of
    <3>5. \A v \in versions'[d] : Dated(v)
      BY <1>0, NextDated
    <3> QED
      BY <2>2, <3>1, <3>2, <3>3, <3>4, <3>5, SupersededBy DEF Timed
  <2> QED
    BY <2>2, <2>3, <2>4
<1> QED
  BY <1>1, <1>3, <1>4 DEF OwnKept

(* The push is made of the markers there were, so it accounts for what they *)
(* do; with no marker of a free record there is a version.                  *)
LEMMA OwnLoaded ==
  ASSUME NEW d \in Device, Stepping(d), OwnKept(d), NEW c \in Logged, Free(c), c.device = d,
         Load(d)
  PROVE  Superseded(versions'[d], c) \/ Outdone(d, run'[d].todo, c)
<1>0. Holds
  BY DEF Stepping
<1> DEFINE todo == {ChangeFor(d, m) : m \in {k \in run[d].markers : ~Waits(d, k)}}
<1>1. /\ UNCHANGED <<log, outbox, versions, held, cursor>>
      /\ run'[d] = Sending(d, todo)
      /\ run[d].stage = "push" /\ run[d].step = "load"
      /\ \A k \in run[d].markers : Kind[k.record] = "tag" =>
           \E x \in todo : x.record = k.record /\ x.id = k.id /\ x.at = k.at
  BY <1>0, LoadDoes
<1> HIDE DEF todo
<1>2. run'[d].todo = todo
  BY <1>0, <1>1, SendingDoes
<1>3. Sent(d) = run[d].markers
  BY <1>1 DEF Sent, Stepping, RoundsPlain, Plain
<1>4. CASE Outdone(d, Sent(d), c)
  <2>1. PICK k \in Of(run[d].markers, c.record) : k.id = c.id \/ Beats(MarkOf(d, k), c)
    BY <1>3, <1>4 DEF Outdone
  <2>2. k \in run[d].markers /\ k.record = c.record
    BY <2>1 DEF Of
  <2>3. PICK x \in todo : x.record = k.record /\ x.id = k.id /\ x.at = k.at
    BY <1>1, <2>2 DEF Free
  <2>4. MarkOf(d, x) = MarkOf(d, k)
    BY <2>3 DEF MarkOf
  <2> QED
    BY <1>2, <2>1, <2>2, <2>3, <2>4 DEF Outdone, Of
<1>5. CASE Superseded(versions[d], c)
  BY <1>5, SupersededStays
<1> QED
  BY <1>1, <1>4, <1>5 DEF OwnKept

(* What was logged goes on being accounted for by what is pushed. *)
LEMMA OwnPushed ==
  ASSUME NEW d \in Device, Stepping(d), OwnKept(d), NEW c \in Logged, Free(c), c.device = d
  PROVE  /\ run'[d].stage = "push"
              => Superseded(versions'[d], c) \/ Outdone(d, Sent(d)', c)
         /\ run'[d].stage \in {"retry", "pull"} => Superseded(versions'[d], c)
<1>0. Holds /\ Holds' /\ Acts(d)
  BY DEF Stepping
<1>1. /\ Superseded(versions[d], c) \/ Outdone(d, outbox[d], c)
      /\ run[d].stage = "push" => Superseded(versions[d], c) \/ Outdone(d, Sent(d), c)
      /\ run[d].stage \in {"retry", "pull"} => Superseded(versions[d], c)
  BY DEF OwnKept
<1>2. Superseded(versions[d], c) => Superseded(versions'[d], c)
  BY SupersededStays
<1>3. ASSUME NEW X, NEW Y, X \subseteq Y, Outdone(d, X, c)
      PROVE  Outdone(d, Y, c)
  BY <1>3 DEF Outdone, Of
<1>4. CASE Writing(d)
  <2>1. Sent(d)' = Sent(d) /\ run'[d].stage = run[d].stage
    BY <1>0, <1>4, WritingRun DEF Sent
  <2> QED
    BY <1>1, <1>2, <2>1
<1>5. CASE Fresh(d)
  <2>1. /\ UNCHANGED <<outbox, versions>>
        /\ run'[d].stage = "push" => run'[d].markers = outbox[d]
        /\ run'[d].stage # "retry"
        /\ run'[d].stage = "pull" => run[d].stage \in {"retry", "pull"}
    BY <1>0, <1>5, FreshDoes
  <2>2. run'[d].stage = "push" => outbox[d] \subseteq Sent(d)'
    BY <2>1 DEF Sent
  <2> QED
    BY <1>1, <1>2, <1>3, <2>1, <2>2
<1>6. CASE Load(d)
  <2>1. Superseded(versions'[d], c) \/ Outdone(d, run'[d].todo, c)
    BY <1>6, OwnLoaded
  <2>2. run'[d].todo \subseteq Sent(d)'
    BY DEF Sent
  <2>3. run'[d].stage \in {"retry", "pull"} => run'[d].todo = {}
    <3>1. PICK todo : run'[d] = Sending(d, todo)
      BY <1>0, <1>6, LoadDoes
    <3> QED
      BY <1>0, <3>1, SendingDoes
  <2>4. run'[d].todo = {} => ~Outdone(d, run'[d].todo, c)
    BY DEF Outdone, Of
  <2> QED
    BY <1>3, <2>1, <2>2, <2>3, <2>4
<1>7. CASE Settle(d)
  <2>1. \/ Superseded(versions'[d], c)
        \/ Outdone(d, run'[d].todo \cup run'[d].batch, c)
    BY <1>7, OwnSettled
  <2>2. run'[d].todo \cup run'[d].batch \subseteq Sent(d)'
    BY DEF Sent
  <2>3. run'[d].stage \in {"retry", "pull"} => run'[d].todo \cup run'[d].batch = {}
    BY <1>0, <1>7, SettleKeeps
  <2>4. run'[d].todo \cup run'[d].batch = {}
          => ~Outdone(d, run'[d].todo \cup run'[d].batch, c)
    BY DEF Outdone, Of
  <2> QED
    BY <1>3, <2>1, <2>2, <2>3, <2>4
<1>8. CASE Send(d)
  <2>1. PICK B \in SUBSET run[d].todo :
          run'[d].todo = run[d].todo \ B /\ run'[d].batch = B
    BY <1>0, <1>8, SendDoes
  <2>2. /\ run[d].stage = "push" /\ run'[d].stage = "push"
        /\ run'[d].markers = run[d].markers
    BY <1>0, <1>8, SendDoes
  <2>3. run[d].batch = {}
    BY <1>8 DEF Send, Stepping, RoundsPlain, Plain
  <2>4. Sent(d) \subseteq Sent(d)'
    BY <2>1, <2>2, <2>3 DEF Sent
  <2> QED
    BY <1>1, <1>2, <1>3, <2>2, <2>4
<1>9. ASSUME \/ Fetch(d) \/ ReadStates(d) \/ ListBooks(d) \/ Release(d)
             \/ \E k \in run[d].todo : Asides(d, k) \/ Apply(d, k)
      PROVE  run'[d].stage = run[d].stage /\ run[d].stage # "push"
  <2>1. run'[d].stage = run[d].stage
    <3>1. CASE Fetch(d)
      BY <1>0, <3>1, FetchDoes DEF Stepping, RoundsPlain, Plain
    <3>2. CASE ~Fetch(d)
      BY <1>0, <1>9, <3>2, StatesDoes, BooksDoes, ReleaseDoes, AsideDoes, ApplyDoes
    <3> QED
      BY <3>1, <3>2
  <2>2. run[d].step \in {"fetch", "states", "books", "release", "apply"}
    BY <1>0, <1>9, ReleaseDoes, AsideDoes, ApplyDoes DEF Fetch, ReadStates, ListBooks
  <2>3. run[d].stage # "push"
    BY <1>0, <2>2 DEF Holds, Inv, StagesFit
  <2> QED
    BY <2>1, <2>3
<1> QED
  BY <1>0, <1>1, <1>2, <1>4, <1>5, <1>6, <1>7, <1>8, <1>9 DEF Acts

(* What is logged is in the batch, and its record still has a marker. *)
LEMMA OwnSent ==
  ASSUME NEW d \in Device, Stepping(d), Send(d), NEW c \in Logged', c \notin Logged
  PROVE  /\ Outdone(d, outbox'[d], c) /\ Outdone(d, Sent(d)', c)
         /\ run'[d].stage = "push"
<1>0. Holds
  BY DEF Stepping
<1>1. PICK B \in SUBSET run[d].todo :
        /\ run'[d].batch = B
        /\ Logged' = Logged \cup {x \in B : ~Stored(x)}
  BY <1>0, SendDoes
<1>2. run[d].stage = "push" /\ run'[d].stage = "push" /\ outbox' = outbox
  BY <1>0, SendDoes
<1>3. c \in B /\ c \in run[d].todo
  BY <1>1
<1>4. Outdone(d, Sent(d)', c)
  <2>1. c \in Of(Sent(d)', c.record)
    BY <1>1, <1>3 DEF Sent, Of
  <2> QED
    BY <2>1 DEF Outdone
<1>5. PICK m \in outbox[d] : m.record = c.record
  BY <1>0, <1>2, <1>3 DEF Holds, Contents, RunsFit, RunFits, PushFits
<1>6. c.id = m.id \/ c.at < m.at
  BY <1>0, <1>2, <1>3, <1>5 DEF Holds, Contents, RunsFit, RunFits, PushFits, Stepping
<1>7. c.at \in Nat /\ m.at \in Nat
  <2>1. c \in Change /\ m \in Marker
    BY <1>0, <1>3 DEF Holds, Inv, TypeOK, Run
  <2> QED
    BY <2>1 DEF Change, Marker
<1>8. m.id = c.id \/ Beats(MarkOf(d, m), c)
  BY <1>6, <1>7 DEF MarkOf, Beats, IsLaterVersion
<1>9. Outdone(d, outbox'[d], c)
  BY <1>2, <1>5, <1>8 DEF Outdone, Of
<1> QED
  BY <1>2, <1>4, <1>9

LEMMA OwnStep ==
  ASSUME NEW d \in Device, Stepping(d), NEW e \in Device, OwnKept(e)
  PROVE  OwnKept(e)'
<1>0. Holds /\ Holds' /\ Acts(d)
  BY DEF Stepping
<1>1. CASE e # d
  <2>1. /\ run'[e] = run[e] /\ outbox'[e] = outbox[e] /\ versions'[e] = versions[e]
        /\ Sent(e)' = Sent(e)
    BY <1>0, <1>1, Elsewhere DEF Sent
  <2>2. \A c \in Logged' : c.device = e => c \in Logged
    BY <1>0, <1>1, LogGrows
  <2>3. \A c \in Logged : (Free(c) /\ c.device = e) =>
          /\ Superseded(versions'[e], c) \/ Outdone(e, outbox'[e], c)
          /\ run'[e].stage = "push" => Superseded(versions'[e], c) \/ Outdone(e, Sent(e)', c)
          /\ run'[e].stage \in {"retry", "pull"} => Superseded(versions'[e], c)
    BY <2>1 DEF OwnKept
  <2>4. \A c \in Logged' : (Free(c) /\ c.device = e) =>
          /\ Superseded(versions'[e], c) \/ Outdone(e, outbox'[e], c)
          /\ run'[e].stage = "push" => Superseded(versions'[e], c) \/ Outdone(e, Sent(e)', c)
          /\ run'[e].stage \in {"retry", "pull"} => Superseded(versions'[e], c)
    BY <2>2, <2>3
  <2> QED
    BY <2>4 DEF OwnKept, Free
<1>2. CASE e = d
  <2>1. ASSUME NEW c \in Logged', Free(c), c.device = d
        PROVE  /\ Superseded(versions'[d], c) \/ Outdone(d, outbox'[d], c)
               /\ run'[d].stage = "push"
                    => Superseded(versions'[d], c) \/ Outdone(d, Sent(d)', c)
               /\ run'[d].stage \in {"retry", "pull"} => Superseded(versions'[d], c)
    <3>1. CASE c \in Logged
      BY <1>2, <2>1, <3>1, OwnWritten, OwnPushed
    <3>2. CASE c \notin Logged
      <4>1. Send(d)
        BY <1>0, <2>1, <3>2, LogGrows
      <4> QED
        BY <2>1, <3>2, <4>1, OwnSent
    <3> QED
      BY <3>1, <3>2
  <2> QED
    BY <1>2, <2>1 DEF OwnKept, Free
<1> QED
  BY <1>1, <1>2
-------------------------------------------------------------------------------
(* The invariant, and what it says of devices that have nothing to do. *)

LEMMA ConvergingInit == Init => Converging
<1> SUFFICES ASSUME Init PROVE Converging
  OBVIOUS
<1>1. Holds
  BY HoldsInit
<1>2. log = << >> /\ Len(log) = 0 /\ Logged = {}
  BY DEF Init, Logged
<1>3. \A d \in Device : /\ run[d] = NoRun /\ cursor[d] = 0 /\ held[d] = {}
                        /\ ~OnPage(d) /\ Passed(d) = {}
  <2>1. \A d \in Device : run[d] = NoRun /\ cursor[d] = 0 /\ held[d] = {}
    BY DEF Init
  <2> QED
    BY <2>1 DEF NoRun, OnPage, Passed
<1>4. NoRun.todo = {} /\ NoRun.batch = {} /\ NoRun.step = "idle" /\ NoRun.stage = "none"
  BY DEF NoRun
<1>5. RoundsPlain
  BY <1>2, <1>3, <1>4 DEF RoundsPlain, Plain
<1>6. Accounts
  BY <1>2, <1>3 DEF Accounts, PassedKept, PageKept, ReadKept, OwnKept
<1> QED
  BY <1>1, <1>5, <1>6 DEF Converging

LEMMA ConvergingStep == Converging /\ [Next]_vars => Converging'
<1> SUFFICES ASSUME Converging, [Next]_vars PROVE Converging'
  OBVIOUS
<1>0. Holds /\ RoundsPlain /\ Accounts
  BY DEF Converging
<1>1. Holds'
  BY <1>0, HoldsStep
<1>2. CASE UNCHANGED vars
  <2>1. UNCHANGED <<log, outbox, versions, held, cursor, run>>
    BY <1>2 DEF vars
  <2>2. RoundsPlain'
    BY <1>0, <2>1 DEF RoundsPlain, Plain, OnPage, Free
  <2>3. \A d \in Device :
          /\ Passed(d)' = Passed(d) /\ Page(d)' = Page(d) /\ OnPage(d)' = OnPage(d)
          /\ Sent(d)' = Sent(d)
    BY <2>1 DEF Passed, Page, PageUpTo, OnPage, Sent
  <2>4. Logged' = Logged
    BY <2>1 DEF Logged
  <2>5. \A d \in Device, c \in Logged :
          /\ Reached(d, c)' = Reached(d, c) /\ AtRead(d, c)' = AtRead(d, c)
    BY <2>1, <2>4 DEF Reached, AtRead, Accounted, Unread, Legible
  <2>6. ASSUME NEW d \in Device, PassedKept(d) /\ PageKept(d) /\ ReadKept(d) /\ OwnKept(d)
        PROVE  (PassedKept(d) /\ PageKept(d) /\ ReadKept(d) /\ OwnKept(d))'
    <3>1. Passed(d) \subseteq Logged /\ (OnPage(d) => Page(d) \subseteq Logged)
      <4>1. /\ cursor[d] \in Nat /\ cursor[d] <= Len(log)
            /\ run[d].next \in Nat
            /\ OnPage(d) => run[d].next <= Len(log)
        BY <1>0 DEF Holds, Inv, TypeOK, Run, RoundsPlain, Plain
      <4>2. \A i \in 1 .. cursor[d] : i \in DOMAIN log
        BY <1>0, <4>1, LenProperties DEF Holds, Inv, TypeOK
      <4>3. Passed(d) \subseteq Logged
        BY <4>2 DEF Passed, Logged
      <4>4. ASSUME OnPage(d) PROVE Page(d) \subseteq Logged
        <5>1. run[d].next \in Nat /\ run[d].next <= Len(log) /\ TypeOK
          BY <1>0, <4>1, <4>4 DEF Holds, Inv
        <5> QED
          BY <5>1, PageLogged DEF Page
      <4> QED
        BY <4>3, <4>4
    <3>2. PassedKept(d)'
      BY <2>3, <2>5, <2>6, <3>1 DEF PassedKept, Free
    <3>3. PageKept(d)'
      BY <2>1, <2>3, <2>5, <2>6, <3>1 DEF PageKept, Free
    <3>4. ReadKept(d)'
      BY <2>1, <2>3, <2>5, <2>6, <3>1 DEF ReadKept, Free
    <3>5. OwnKept(d)'
      BY <2>1, <2>3, <2>4, <2>6 DEF OwnKept, Free
    <3> QED
      BY <3>2, <3>3, <3>4, <3>5
  <2>7. Accounts'
    BY <1>0, <2>6 DEF Accounts, NoSkew
  <2> QED
    BY <1>1, <2>2, <2>7 DEF Converging
<1>3. CASE Next
  <2>1. PICK d \in Device : Acts(d)
    BY <1>3, ActsCover
  <2>2. RoundsPlain'
    <3>1. \A e \in Device : Plain(e)'
      BY <1>0, <1>1, <2>1, PlainElsewhere, PlainHere
    <3> QED
      BY <3>1 DEF RoundsPlain
  <2>3. ASSUME NoSkew, NEW e \in Device
        PROVE  (PassedKept(e) /\ PageKept(e) /\ ReadKept(e) /\ OwnKept(e))'
    <3>1. Stepping(d)
      BY <1>0, <1>1, <2>1, <2>3 DEF Stepping
    <3>2. PassedKept(e) /\ PageKept(e) /\ ReadKept(e) /\ OwnKept(e)
      BY <1>0, <2>3 DEF Accounts
    <3> QED
      BY <3>1, <3>2, PassedStep, PageStep, ReadStep, OwnStep
  <2>4. Accounts'
    BY <2>3 DEF Accounts, NoSkew
  <2> QED
    BY <1>1, <2>2, <2>4 DEF Converging
<1> QED
  BY <1>2, <1>3

LEMMA Convergence == Spec => []Converging
BY ConvergingInit, ConvergingStep, PTL DEF Spec

(* What a device has gone past in the log is covered by what it has, for    *)
(* records that need no book: the cursor is saved after the page has been   *)
(* applied, and markers, versions and what cannot be read account for every *)
(* change of it, however writes and failing runs fall between (pullChanges).*)
THEOREM PassedAccounted == Spec => []CursorAccounted
<1>1. Converging => CursorAccounted
  <2> SUFFICES ASSUME Converging, NoSkew, NEW d \in Device, NEW i \in 1 .. cursor[d],
                      Kind[log[i].record] = "tag"
               PROVE  Covered(d, log[i])
    BY DEF CursorAccounted
  <2>1. PassedKept(d)
    BY DEF Converging, Accounts
  <2>2. PICK c \in Passed(d) : c = log[i]
    BY DEF Passed
  <2>3. Reached(d, c)
    BY <2>1, <2>2 DEF PassedKept, Free
  <2>4. Covered(d, c)
    BY <2>3 DEF Reached, Accounted, Superseded, Outdone, MarkOf, Unread, Covered
  <2> QED
    BY <2>2, <2>4
<1> QED
  BY <1>1, Convergence, PTL

(* With nothing to push and the whole log read, a device has a version that *)
(* is as late as every change of a record it can read.                      *)
LEMMA QuietSuperseded ==
  ASSUME Converging, NoSkew, NEW d \in Device, Quiet(d), NEW r \in Record,
         Kind[r] = "tag", Reads(d, r), NEW c \in Logged, c.record = r
  PROVE  Superseded(versions[d], c)
<1>0. Holds /\ PassedKept(d) /\ OwnKept(d)
  BY DEF Converging, Accounts
<1>1. Free(c) /\ \A f \in Logged : ~Outdone(d, outbox[d], f)
  BY DEF Free, Outdone, Of, Quiet
<1>2. c \in Passed(d)
  <2>1. DOMAIN log = 1 .. cursor[d]
    BY <1>0, LenProperties DEF Quiet, Holds, Inv, TypeOK
  <2> QED
    BY <2>1 DEF Passed, Logged
<1>3. Superseded(versions[d], c) \/ Unread(d, c)
  BY <1>0, <1>1, <1>2 DEF PassedKept, Reached, Accounted
<1>4. CASE Unread(d, c)
  <2>1. PICK f \in Logged : f.record = c.record /\ ~Legible(d, f) /\ ~Beats(c, f)
    BY <1>4 DEF Unread
  <2>2. f.device = d
    BY <2>1 DEF Reads
  <2>3. Superseded(versions[d], f)
    BY <1>0, <1>1, <2>1, <2>2 DEF OwnKept, Free
  <2>4. Timed(c) /\ Timed(f)
    BY <1>0, LoggedTimed
  <2>5. ~IsLaterVersion(c, f)
    BY <2>1, <2>4, BeatsLater
  <2>6. \A v \in versions[d] : Dated(v)
    BY <1>0, VersionDated
  <2> QED
    BY <2>1, <2>3, <2>4, <2>5, <2>6, SupersededBy DEF Timed
<1> QED
  BY <1>3, <1>4

(* Two devices with nothing to push, that have read the whole log, have the *)
(* same free records, of those both can read: no interleaving of runs,      *)
(* writes and failures leaves them apart (decideMerge, pullChanges).        *)
THEOREM SameContents == Spec => []SameWhenQuiet
<1>1. Converging => SameWhenQuiet
  <2> SUFFICES ASSUME Converging, NoSkew, NEW d \in Device, NEW e \in Device,
                      Quiet(d), Quiet(e), NEW r \in Record, Kind[r] = "tag",
                      Reads(d, r), Reads(e, r)
               PROVE  data[d][r] = data[e][r]
    BY DEF SameWhenQuiet, SameContent
  <2>0. Holds
    BY DEF Converging
  <2>1. ASSUME NEW f \in {d, e}
        PROVE  /\ f \in Device
               /\ \A c \in Logged : c.record = r => Superseded(versions[f], c)
               /\ Of(versions[f], r) = {} => data[f][r] = Absent
               /\ Of(versions[f], r) # {} =>
                    \E c \in Logged : VersionOf(c) \in Of(versions[f], r) /\ data[f][r] = c.data
               /\ \A v, w \in Of(versions[f], r) : v = w
    <3>1. f \in Device /\ Quiet(f) /\ Reads(f, r)
      BY <2>1
    <3>2. Of(outbox[f], r) = {}
      BY <3>1 DEF Quiet, Of
    <3>3. /\ Of(versions[f], r) = {} => data[f][r] = Absent
          /\ Of(versions[f], r) # {} =>
               \E c \in Logged : VersionOf(c) \in Of(versions[f], r) /\ data[f][r] = c.data
      BY <2>0, <3>1, <3>2 DEF Holds, Contents, ContentMatchesVersion
    <3>4. \A v, w \in Of(versions[f], r) : v = w
      BY <2>0, <3>1 DEF Holds, Inv, TypeOK, OneRowEach, Of
    <3> QED
      BY <3>1, <3>3, <3>4, QuietSuperseded
  <2>2. CASE \A c \in Logged : c.record # r
    <3>1. \A f \in {d, e} : data[f][r] = Absent
      BY <2>1, <2>2 DEF Of, VersionOf
    <3> QED
      BY <3>1
  <2>3. CASE \E c \in Logged : c.record = r
    <3>1. \A f \in {d, e} : Of(versions[f], r) # {}
      BY <2>1, <2>3 DEF Superseded
    <3>2. PICK c \in Logged : VersionOf(c) \in Of(versions[d], r) /\ data[d][r] = c.data
      BY <2>1, <3>1
    <3>3. PICK x \in Logged : VersionOf(x) \in Of(versions[e], r) /\ data[e][r] = x.data
      BY <2>1, <3>1
    <3>4. c.record = r /\ x.record = r
      BY <3>2, <3>3 DEF Of, VersionOf
    <3>5. ~IsLaterVersion(x, c)
      <4>1. PICK v \in Of(versions[d], r) : ~IsLaterVersion(x, v)
        BY <2>1, <3>4 DEF Superseded
      <4>2. v = VersionOf(c)
        BY <2>1, <3>2, <4>1
      <4> QED
        BY <4>1, <4>2 DEF IsLaterVersion, VersionOf
    <3>6. ~IsLaterVersion(c, x)
      <4>1. PICK v \in Of(versions[e], r) : ~IsLaterVersion(c, v)
        BY <2>1, <3>4 DEF Superseded
      <4>2. v = VersionOf(x)
        BY <2>1, <3>3, <4>1
      <4> QED
        BY <4>1, <4>2 DEF IsLaterVersion, VersionOf
    <3>7. /\ Timed(c) /\ Timed(x) /\ StampOf(c) \in Stamps /\ StampOf(x) \in Stamps
      BY <2>0, LoggedTimed
    <3>8. c.at = x.at /\ c.device = x.device
      BY <3>5, <3>6, <3>7 DEF IsLaterVersion, Timed, Dated
    <3>9. c.id = x.id
      <4>1. StampOf(c).at = StampOf(x).at /\ StampOf(c).device = StampOf(x).device
        BY <3>8 DEF StampOf
      <4>2. StampOf(c).id = StampOf(x).id
        BY <2>0, <3>7, <4>1 DEF Holds, Contents, StampsTimed
      <4> QED
        BY <4>2 DEF StampOf
    <3>10. c = x
      BY <2>0, <3>4, <3>9 DEF Holds, Contents, LoggedOnce
    <3> QED
      BY <3>2, <3>3, <3>10
  <2> QED
    BY <2>2, <2>3
<1> QED
  BY <1>1, Convergence, PTL

-----------------------------------------------------------------------------
(* What a device has passed, of a record whose changes the server stored in  *)
(* the order they were made: nothing of it is lost with a round that fails.  *)

KeptAside(d, c) == \E h \in Of(held[d], c.record) : ~Beats(c, h)
Known(d, c) == Reached(d, c) \/ KeptAside(d, c)

(* What no step of the device takes away. *)
Lasting(d, c) == Superseded(versions[d], c) \/ Unread(d, c)

(* The markers a round has read are there, or later ones are, for the       *)
(* records it has left to reconcile.                                        *)
MarkersStand(d) ==
  Reading(d) =>
    MarkersHeld(IF run[d].step = "books" THEN run[d].markers ELSE run[d].todo,
                run[d].markers, outbox[d])

(* A pull reconciles changes of its page, another round what is kept aside. *)
RoundRows(d) ==
  /\ OnPage(d) => run[d].todo \subseteq Page(d)
  /\ (run[d].stage # "pull" /\ run[d].step \in {"apply", "release"})
        => run[d].todo \subseteq held[d]
  /\ run[d].step = "release" =>
       \A k \in run[d].batch, c \in run[d].todo : c.record # k.record

PassedOrdered(d) == \A c \in Passed(d) : InOrder(c.record) => Known(d, c)

PageOrdered(d) ==
  OnPage(d) => \A c \in Page(d) : InOrder(c.record) =>
    /\ \A k \in run[d].todo : k.record = c.record => ~Beats(c, k)
    /\ (\A k \in run[d].todo : k.record # c.record) => Known(d, c)

(* In a round over what is kept aside, what was passed is accounted for by  *)
(* what the round has read, or gives way to what is kept aside of it.       *)
ReadOrdered(d) ==
  run[d].stage # "pull" => \A c \in Passed(d) : InOrder(c.record) =>
    /\ run[d].step = "books" => AtRead(d, c) \/ KeptAside(d, c)
    /\ run[d].step \in {"apply", "release"} =>
         \A k \in run[d].todo : k.record = c.record => AtRead(d, c) \/ ~Beats(c, k)

(* Before the copy kept aside goes, nothing is left that only it accounts   *)
(* for.                                                                     *)
Gone(d) == Passed(d) \cup IF OnPage(d) THEN Page(d) ELSE {}
ReleaseOrdered(d) ==
  run[d].step = "release" => \A k \in run[d].batch, c \in Gone(d) :
    (c.record = k.record /\ InOrder(c.record)) => Lasting(d, c)

OrderKept(d) ==
  /\ MarkersStand(d) /\ RoundRows(d)
  /\ PassedOrdered(d) /\ PageOrdered(d) /\ ReadOrdered(d) /\ ReleaseOrdered(d)

Ordering == Converging /\ (NoSkew => \A d \in Device : OrderKept(d))
-------------------------------------------------------------------------------
(* What is in order was in order. *)
LEMMA OrderStays ==
  ASSUME NEW d \in Device, Stepping(d), NEW r, InOrder(r)'
  PROVE  InOrder(r)
<1>1. /\ DOMAIN log = 1 .. Len(log) /\ DOMAIN log' = 1 .. Len(log')
      /\ Len(log) \in Nat /\ Len(log') \in Nat
  BY LenProperties DEF Stepping, Holds, Inv, TypeOK
<1>2. Len(log) <= Len(log') /\ \A i \in 1 .. Len(log) : log'[i] = log[i]
  BY LogGrows DEF Stepping
<1>3. ASSUME NEW i \in DOMAIN log, NEW j \in DOMAIN log,
             i < j, log[i].record = r, log[j].record = r
      PROVE  Beats(log[j], log[i])
  <2>1. i \in DOMAIN log' /\ j \in DOMAIN log' /\ log'[i] = log[i] /\ log'[j] = log[j]
    BY <1>1, <1>2
  <2>2. Beats(log'[j], log'[i])
    BY <1>3, <2>1 DEF InOrder
  <2> QED
    BY <2>1, <2>2
<1> QED
  BY <1>3 DEF InOrder

(* What was passed and what is on the page is logged. *)
LEMMA PlacesLogged ==
  ASSUME Holds, RoundsPlain, NEW d \in Device
  PROVE  /\ Passed(d) \subseteq Logged
         /\ OnPage(d) => Page(d) \subseteq Logged
         /\ Gone(d) \subseteq Logged
<1>1. /\ cursor[d] \in Nat /\ cursor[d] <= Len(log) /\ DOMAIN log = 1 .. Len(log)
      /\ Len(log) \in Nat /\ run[d].next \in Nat
      /\ OnPage(d) => run[d].next <= Len(log)
  BY LenProperties DEF Holds, Inv, TypeOK, Run, RoundsPlain, Plain
<1>2. \A i \in 1 .. cursor[d] : i \in DOMAIN log
  BY <1>1
<1>3. OnPage(d) => \A i \in cursor[d] + 1 .. run[d].next : i \in DOMAIN log
  BY <1>1
<1>4. Passed(d) \subseteq Logged
  BY <1>2 DEF Passed, Logged
<1>5. OnPage(d) => Page(d) \subseteq Logged
  BY <1>3 DEF Page, PageUpTo, Logged
<1> QED
  BY <1>4, <1>5 DEF Gone

(* In order, what is on the page beats what was passed. *)
LEMMA PageBeatsPassed ==
  ASSUME Holds, RoundsPlain, NEW d \in Device, OnPage(d), NEW c \in Passed(d),
         NEW k \in Page(d), k.record = c.record, InOrder(c.record)
  PROVE  Beats(k, c)
<1>1. /\ cursor[d] \in Nat /\ cursor[d] <= Len(log) /\ DOMAIN log = 1 .. Len(log)
      /\ Len(log) \in Nat /\ run[d].next \in Nat /\ run[d].next <= Len(log)
  BY LenProperties DEF Holds, Inv, TypeOK, Run, RoundsPlain, Plain
<1>2. PICK i \in 1 .. cursor[d] : c = log[i]
  BY DEF Passed
<1>3. PICK j \in cursor[d] + 1 .. run[d].next : k = log[j]
  BY DEF Page, PageUpTo
<1>4. i \in DOMAIN log /\ j \in DOMAIN log /\ i < j
  BY <1>1
<1> QED
  BY <1>2, <1>3, <1>4 DEF InOrder

(* A version and a change that cannot be read stay. *)
LEMMA LastingStays ==
  ASSUME NEW d \in Device, Stepping(d), NEW e \in Device, NEW c \in Logged, Lasting(e, c)
  PROVE  Lasting(e, c)'
<1>1. Superseded(versions[e], c) => Superseded(versions'[e], c)
  BY SupersededStays
<1>2. Unread(e, c) => Unread(e, c)'
  BY UnreadStays
<1> QED
  BY <1>1, <1>2 DEF Lasting

(* What a round has left has one row for a record, and was logged. *)
LEMMA TodoRows ==
  ASSUME Holds, NEW d \in Device
  PROVE  OneRowEach(run[d].todo) /\ OneRowEach(held[d]) /\ held[d] \subseteq Logged
         /\ (run[d].stage # "push" => run[d].todo \subseteq Logged)
         /\ (run[d].step \in {"states", "books", "apply", "release"} => run[d].stage # "push")
BY DEF Holds, Contents, RunsFit, RunFits, RoundFits, Inv, TypeOK, InFlight, StagesFit
-------------------------------------------------------------------------------
(* What is kept aside. *)

(* Keeping a change aside leaves accounted what was, and accounts for what  *)
(* gives way to it.                                                         *)
LEMMA HoldKeeps ==
  ASSUME NEW d \in Device, Stepping(d), NEW k \in run[d].todo, Hold(d, k), NEW c \in Logged,
         KeptAside(d, c) \/ (c.record = k.record /\ ~Beats(c, k))
  PROVE  KeptAside(d, c)'
<1>0. Holds /\ run[d].step = "apply"
  BY DEF Stepping, Hold, Reconciles
<1>1. k \in Logged /\ held[d] \subseteq Logged
  BY <1>0, TodoRows
<1>2. held \in [Device -> SUBSET Change]
  BY <1>0 DEF Holds, Inv, TypeOK
<1>3. \A x \in Logged : Timed(x)
  BY <1>0, LoggedTimed
<1>4. CASE MergeApplies(Of(held[d], k.record), k)
  <2>1. held'[d] = Put(held[d], k)
    BY <1>2, <1>4 DEF Hold
  <2>2. CASE c.record # k.record
    <3>1. PICK h \in Of(held[d], c.record) : ~Beats(c, h)
      BY <2>2 DEF KeptAside
    <3>2. h \in Of(held'[d], c.record)
      BY <2>1, <2>2, <3>1 DEF Of, Put, Without
    <3> QED
      BY <3>1, <3>2 DEF KeptAside
  <2>3. CASE c.record = k.record
    <3>1. k \in Of(held'[d], c.record)
      BY <2>1, <2>3 DEF Of, Put
    <3>2. ~Beats(c, k)
      <4>1. CASE KeptAside(d, c)
        <5>1. PICK h \in Of(held[d], c.record) : ~Beats(c, h)
          BY <4>1 DEF KeptAside
        <5>2. h \in Of(held[d], k.record) /\ h \in Logged
          BY <1>1, <2>3, <5>1 DEF Of
        <5>3. Beats(k, h)
          BY <1>4, <5>2 DEF MergeApplies
        <5>4. ~Beats(h, k)
          BY <1>1, <1>3, <5>2, <5>3, BeatsOneWay
        <5> QED
          BY <1>1, <1>3, <5>1, <5>2, <5>4, BeatsOrder
      <4> QED
        BY <4>1
    <3> QED
      BY <3>1, <3>2 DEF KeptAside
  <2> QED
    BY <2>2, <2>3
<1>5. CASE ~MergeApplies(Of(held[d], k.record), k)
  <2>1. held' = held
    BY <1>5 DEF Hold
  <2>2. CASE KeptAside(d, c)
    BY <2>1, <2>2 DEF KeptAside
  <2>3. CASE c.record = k.record /\ ~Beats(c, k)
    <3>1. PICK l \in Of(held[d], k.record) : l.id = k.id \/ ~Beats(k, l)
      BY <1>5 DEF MergeApplies
    <3>2. l \in Logged /\ l.record = k.record
      BY <1>1, <3>1 DEF Of
    <3>3. CASE l.id = k.id
      <4>1. l = k
        BY <1>0, <1>1, <3>2, <3>3 DEF Holds, Contents, LoggedOnce
      <4> QED
        BY <2>1, <2>3, <3>1, <4>1 DEF KeptAside
    <3>4. CASE ~Beats(k, l)
      <4>1. ~Beats(c, l)
        BY <1>1, <1>3, <2>3, <3>2, <3>4, BeatsOrder
      <4> QED
        BY <2>1, <2>3, <3>1, <4>1 DEF KeptAside
    <3> QED
      BY <3>1, <3>3, <3>4
  <2> QED
    BY <2>2, <2>3
<1> QED
  BY <1>4, <1>5

(* In a round over what is kept aside, what is kept again is there already. *)
LEMMA HoldAgain ==
  ASSUME NEW d \in Device, NEW k \in held[d], Hold(d, k)
  PROVE  held' = held
<1>1. k \in Of(held[d], k.record)
  BY DEF Of
<1>2. ~MergeApplies(Of(held[d], k.record), k)
  BY <1>1 DEF MergeApplies
<1> QED
  BY <1>2 DEF Hold

(* What a device knows of a change, it goes on knowing. *)
LEMMA KnownStays ==
  ASSUME NEW d \in Device, Stepping(d), NEW e \in Device, NEW c \in Logged,
         MarkersStand(e), RoundRows(e), Known(e, c),
         \A k \in run[e].todo : (e = d /\ Apply(d, k)) => k.record # c.record,
         (e = d /\ Release(d)) =>
           \A k \in run[e].batch : k.record = c.record => Lasting(e, c)
  PROVE  Known(e, c)'
<1>0. Holds /\ Acts(d) /\ held \in [Device -> SUBSET Change]
  BY DEF Stepping, Holds, Inv, TypeOK
<1>1. Reached(e, c) => Reached(e, c)'
  BY ReachedStays
<1>2. CASE Reached(e, c)
  BY <1>1, <1>2 DEF Known
<1>3. CASE KeptAside(e, c)
  <2>1. PICK h \in Of(held[e], c.record) : ~Beats(c, h)
    BY <1>3 DEF KeptAside
  <2>2. CASE held'[e] = held[e]
    BY <2>1, <2>2 DEF Known, KeptAside
  <2>3. ASSUME e = d, NEW k \in run[d].todo, Drop(d, k), run[d].stage # "pull"
        PROVE  Known(e, c)'
    <3>1. held'[d] = Without(held[d], {k.record}) /\ run[d].step = "apply"
      BY <1>0, <2>3 DEF Drop, Reconciles
    <3>2. CASE k.record # c.record
      <4>1. h \in Of(held'[d], c.record)
        BY <2>1, <2>3, <3>1, <3>2 DEF Of, Without
      <4> QED
        BY <2>1, <2>3, <4>1 DEF Known, KeptAside
    <3>3. CASE k.record = c.record
      <4>1. k \in held[d]
        BY <2>3, <3>1 DEF RoundRows
      <4>2. k = h
        BY <1>0, <2>1, <2>3, <3>3, <4>1, TodoRows DEF OneRowEach, Of
      <4>3. MarkersHeld(run[d].todo, run[d].markers, outbox[d])
        BY <2>3, <3>1 DEF MarkersStand, Reading
      <4>4. Reached(d, c)
        BY <1>0, <2>1, <2>3, <3>3, <4>2, <4>3, DropReached
      <4> QED
        BY <1>1, <2>3, <4>4 DEF Known
    <3> QED
      BY <3>2, <3>3
  <2>4. ASSUME e = d, NEW k \in run[d].todo, Hold(d, k)
        PROVE  Known(e, c)'
    BY <1>3, <2>4, HoldKeeps DEF Known
  <2>5. CASE e = d /\ Release(d)
    <3>1. held'[d] = Without(held[d], {k.record : k \in run[d].batch})
      BY <1>0, <2>5 DEF Release
    <3>2. CASE \E k \in run[d].batch : k.record = c.record
      <4>1. Lasting(d, c)
        BY <2>5, <3>2
      <4>2. Lasting(d, c)'
        BY <4>1, LastingStays
      <4> QED
        BY <2>5, <4>2 DEF Known, Reached, Accounted, Lasting
    <3>3. CASE \A k \in run[d].batch : k.record # c.record
      <4>1. h \in Of(held'[d], c.record)
        BY <2>1, <2>5, <3>1, <3>3 DEF Of, Without
      <4> QED
        BY <2>1, <2>5, <4>1 DEF Known, KeptAside
    <3> QED
      BY <3>2, <3>3
  <2>6. \/ held'[e] = held[e]
        \/ e = d /\ Release(d)
        \/ e = d /\ \E k \in run[d].todo : Hold(d, k) \/ (Drop(d, k) /\ run[d].stage # "pull")
    <3>1. CASE e # d
      BY <1>0, <3>1, Elsewhere
    <3>2. CASE e = d
      <4>1. ASSUME NEW k \in run[d].todo, Drop(d, k), run[d].stage = "pull"
            PROVE  held' = held
        BY <4>1 DEF Drop
      <4>2. ASSUME NEW k \in run[d].todo, Apply(d, k)
            PROVE  held' = held
        BY <1>0, <4>2, ApplyDoes
      <4> QED
        BY <1>0, <3>2, <4>1, <4>2, WritingRun, FreshDoes, LoadDoes, SendDoes, SettleKeeps
        DEF Acts, Asides, Fetch, ReadStates, ListBooks, local
    <3> QED
      BY <3>1, <3>2
  <2> QED
    BY <2>2, <2>3, <2>4, <2>5, <2>6
<1> QED
  BY <1>2, <1>3 DEF Known
-------------------------------------------------------------------------------
(* What is applied. *)

(* A change applied over what was passed leaves it accounted for: it is no  *)
(* earlier, or what the round has read accounts for it.                     *)
LEMMA AppliedLasting ==
  ASSUME NEW d \in Device, Stepping(d), RoundRows(d), ReadOrdered(d),
         NEW k \in run[d].todo, Apply(d, k), NEW c \in Passed(d),
         c.record = k.record, InOrder(c.record)
  PROVE  Lasting(d, c)'
<1>0. Holds /\ Holds' /\ RoundsPlain
  BY DEF Stepping
<1>1. /\ run[d].step = "apply" /\ k \in Logged /\ c \in Logged
  BY <1>0, ApplyDoes, PlacesLogged
<1>2. Timed(c) /\ Timed(k)
  BY <1>0, <1>1, LoggedTimed
<1>3. ~IsLaterVersion(c, k) => Lasting(d, c)'
  BY <1>1, AppliedSuperseded DEF Lasting
<1>4. CASE run[d].stage = "pull"
  <2>1. OnPage(d) /\ k \in Page(d)
    BY <1>1, <1>4 DEF OnPage, RoundRows
  <2>2. Beats(k, c)
    BY <1>0, <2>1, PageBeatsPassed
  <2> QED
    BY <1>2, <1>3, <2>2, BeatsLater
<1>5. CASE run[d].stage # "pull"
  <2>1. AtRead(d, c) \/ ~Beats(c, k)
    BY <1>1, <1>5 DEF ReadOrdered
  <2>2. CASE ~Beats(c, k)
    BY <1>2, <1>3, <2>2, BeatsLater
  <2>3. CASE Superseded(run[d].versions, c)
    <3>1. Of(run[d].versions, k.record) = Of(versions[d], k.record)
      BY <1>0, <1>1 DEF Holds, Contents, RunsFit, RunFits, RoundFits
    <3>2. Superseded(versions[d], c)
      BY <2>3, <3>1 DEF Superseded
    <3> QED
      BY <1>1, <3>2, SupersededStays DEF Lasting
  <2>4. CASE Outdone(d, run[d].markers, c)
    <3>1. PICK m \in Of(run[d].markers, c.record) : m.id = c.id \/ Beats(MarkOf(d, m), c)
      BY <2>4 DEF Outdone
    <3>2. m \in run[d].markers /\ m.record = c.record /\ m \in Of(run[d].markers, k.record)
      BY <3>1 DEF Of
    <3>3. ~IsLaterVersion(c, MarkOf(d, m))
      BY <1>0, <1>1, <3>1, <3>2, OutdoneLater
    <3>4. Beats(k, MarkOf(d, m))
      BY <1>0, <3>2, WantedBeats DEF MarkOf
    <3>5. Timed(MarkOf(d, m))
      BY <1>0, <3>2, MarkTimed
    <3>6. ~IsLaterVersion(MarkOf(d, m), k)
      BY <1>2, <3>4, <3>5, BeatsLater
    <3> QED
      BY <1>2, <1>3, <3>3, <3>5, <3>6, LaterOrder DEF Timed
  <2>5. CASE Unread(d, c)
    BY <1>1, <2>5, UnreadStays DEF Lasting
  <2> QED
    BY <2>1, <2>2, <2>3, <2>4, <2>5 DEF AtRead, Accounted
<1> QED
  BY <1>4, <1>5
-------------------------------------------------------------------------------
(* What a step leaves of a round. *)

(* The steps after which a device is in a round that has read.              *)
LEMMA ReadingSteps ==
  ASSUME NEW d \in Device, Stepping(d), NEW e \in Device, Reading(e)'
  PROVE  \/ e # d
         \/ e = d /\ (Writing(d) \/ ReadStates(d) \/ ListBooks(d) \/ Release(d))
         \/ e = d /\ \E k \in run[d].todo : Asides(d, k) \/ Apply(d, k)
<1>0. Holds /\ Holds' /\ Acts(d)
  BY DEF Stepping
<1>1. ASSUME e = d, Fresh(d) \/ Load(d) \/ Send(d) \/ Settle(d) \/ Fetch(d)
      PROVE  FALSE
  <2>1. CASE Fresh(d) \/ Settle(d)
    BY <1>0, <1>1, <2>1, FreshDoes, SettleKeeps
  <2>2. CASE Load(d)
    <3>1. PICK todo : run'[d] = Sending(d, todo)
      BY <1>0, <2>2, LoadDoes
    <3> QED
      BY <1>0, <1>1, <3>1, SendingDoes DEF Reading
  <2>3. CASE Send(d)
    BY <1>0, <1>1, <2>3, SendDoes DEF Reading
  <2>4. CASE Fetch(d)
    BY <1>0, <1>1, <2>4, FetchDoes DEF Reading, Stepping, RoundsPlain, Plain
  <2> QED
    BY <1>1, <2>1, <2>2, <2>3, <2>4
<1> QED
  BY <1>0, <1>1 DEF Acts

(* What such a step does to the round. *)
LEMMA ReadingDoes ==
  ASSUME NEW d \in Device, Stepping(d), NEW e \in Device, Reading(e)'
  PROVE  /\ cursor'[e] = cursor[e] /\ run'[e].stage = run[e].stage
         /\ run'[e].next = run[e].next
         /\ run[e].step \in {"states", "books", "apply", "release"}
         /\ ~(e = d /\ ReadStates(d)) =>
              /\ Reading(e) /\ run'[e].markers = run[e].markers
              /\ run'[e].versions = run[e].versions
         /\ ~(e = d /\ ListBooks(d)) => run'[e].todo \subseteq run[e].todo
         /\ ~(e = d /\ (ReadStates(d) \/ ListBooks(d))) =>
              (run'[e].step = "books" => run[e].step = "books")
         /\ e = d /\ ListBooks(d) => run'[e].step = "apply"
<1>0. Holds
  BY DEF Stepping
<1>1. CASE e # d
  BY <1>0, <1>1, Elsewhere DEF Reading, Stepping
<1>2. CASE e = d /\ Writing(d)
  <2>1. /\ cursor' = cursor /\ run'[d].stage = run[d].stage /\ run'[d].next = run[d].next
        /\ run'[d].step = run[d].step /\ run'[d].markers = run[d].markers
        /\ run'[d].versions = run[d].versions /\ run'[d].todo = run[d].todo
    BY <1>0, <1>2, WritingRun
  <2>2. ListBooks(d) => run'[d].step = "apply"
    BY <1>0, BooksDoes
  <2> QED
    BY <1>2, <2>1, <2>2 DEF Reading
<1>3. CASE e = d /\ ReadStates(d)
  <2>1. /\ cursor' = cursor /\ run'[d].stage = run[d].stage /\ run'[d].next = run[d].next
        /\ run[d].step = "states" /\ run'[d].todo = run[d].todo
    BY <1>0, <1>3, StatesDoes
  <2>2. ListBooks(d) => run[d].step = "books"
    BY DEF ListBooks
  <2> QED
    BY <1>3, <2>1, <2>2
<1>4. CASE e = d /\ ListBooks(d)
  BY <1>0, <1>4, BooksDoes DEF Reading
<1>5. CASE e = d /\ Release(d)
  BY <1>0, <1>5, ReleaseDoes DEF Reading
<1>6. ASSUME e = d, NEW k \in run[d].todo, Asides(d, k) \/ Apply(d, k)
      PROVE  /\ cursor'[d] = cursor[d] /\ run'[d].stage = run[d].stage
             /\ run'[d].next = run[d].next /\ run[d].step = "apply"
             /\ run'[d].markers = run[d].markers /\ run'[d].versions = run[d].versions
             /\ run'[d].todo \subseteq run[d].todo /\ run'[d].step # "books"
  <2>1. CASE Asides(d, k)
    BY <1>0, <2>1, AsideDoes
  <2>2. CASE Apply(d, k)
    <3>1. /\ UNCHANGED cursor /\ run'[d].stage = run[d].stage /\ run[d].step = "apply"
          /\ run'[d].markers = run[d].markers /\ run'[d].versions = run[d].versions
          /\ run'[d].todo = run[d].todo \ {k} /\ run'[d].step \in {"apply", "release"}
      BY <1>0, <2>2, ApplyDoes
    <3> QED
      BY <1>0, <2>2, <3>1, ApplyNext
  <2> QED
    BY <1>6, <2>1, <2>2
<1>7. ASSUME e = d, ReadStates(d) \/ ListBooks(d) PROVE run[d].step # "apply"
  BY <1>7 DEF ReadStates, ListBooks
<1> QED
  BY <1>1, <1>2, <1>3, <1>4, <1>5, <1>6, <1>7, ReadingSteps DEF Reading

(* A later marker is one a round has read, or a later one. *)
LEMMA StandsWritten ==
  ASSUME NEW d \in Device, Stepping(d), Writing(d), NEW k \in run[d].markers,
         \E m \in Of(outbox[d], k.record) : m.id = k.id \/ k.at < m.at
  PROVE  \E n \in Of(outbox'[d], k.record) : n.id = k.id \/ k.at < n.at
<1>1. PICK m \in Of(outbox[d], k.record) : m.id = k.id \/ k.at < m.at
  OBVIOUS
<1>2. m \in outbox[d] /\ m.record = k.record
  BY <1>1 DEF Of
<1>3. \E n \in Of(outbox'[d], m.record) : n = m \/ k.at < n.at
  BY <1>2, WrittenLater
<1> QED
  BY <1>1, <1>2, <1>3

LEMMA MarkersStandStep ==
  ASSUME NEW d \in Device, Stepping(d), NEW e \in Device, MarkersStand(e)
  PROVE  MarkersStand(e)'
<1>0. Holds /\ Holds'
  BY DEF Stepping
<1> SUFFICES ASSUME Reading(e)'
             PROVE  MarkersHeld(IF run'[e].step = "books" THEN run'[e].markers
                                ELSE run'[e].todo, run'[e].markers, outbox'[e])
  BY DEF MarkersStand
<1>1. Reading(e) =>
        MarkersHeld(IF run[e].step = "books" THEN run[e].markers ELSE run[e].todo,
                    run[e].markers, outbox[e])
  BY DEF MarkersStand
<1>2. CASE e # d
  <2>1. run'[e] = run[e] /\ outbox'[e] = outbox[e]
    BY <1>0, <1>2, Elsewhere DEF Stepping
  <2> QED
    BY <1>1, <2>1 DEF Reading
<1>3. CASE e = d /\ Writing(d)
  <2>1. /\ run'[d].markers = run[d].markers /\ run'[d].todo = run[d].todo
        /\ run'[d].step = run[d].step
    BY <1>0, <1>3, WritingRun
  <2>2. PICK left : left = IF run[d].step = "books" THEN run[d].markers ELSE run[d].todo
    OBVIOUS
  <2>3. MarkersHeld(left, run[d].markers, outbox[d])
    BY <1>1, <1>3, <2>1, <2>2 DEF Reading
  <2>4. ASSUME NEW c \in left, NEW k \in Of(run[d].markers, c.record)
        PROVE  \E n \in Of(outbox'[d], c.record) : n.id = k.id \/ k.at < n.at
    <3>1. k \in run[d].markers /\ k.record = c.record
      BY DEF Of
    <3>2. \E m \in Of(outbox[d], k.record) : m.id = k.id \/ k.at < m.at
      BY <2>3, <2>4, <3>1 DEF MarkersHeld
    <3> QED
      BY <1>3, <3>1, <3>2, StandsWritten
  <2>5. MarkersHeld(left, run[d].markers, outbox'[d])
    BY <2>4 DEF MarkersHeld
  <2> QED
    BY <1>3, <2>1, <2>2, <2>5
<1>4. CASE e = d /\ ReadStates(d)
  BY <1>0, <1>4, StatesDoes DEF MarkersHeld
<1>5. CASE e = d /\ ListBooks(d)
  <2>1. /\ outbox' = outbox /\ run[d].step = "books" /\ run'[d].step = "apply"
        /\ run'[d].markers = run[d].markers
    BY <1>0, <1>5, BooksDoes
  <2>2. MarkersHeld(run[d].markers, run[d].markers, outbox[d])
    BY <1>1, <1>5, <2>1 DEF Reading
  <2>3. MarkersHeld(run'[d].todo, run[d].markers, outbox[d])
    <3>1. ASSUME NEW c \in run'[d].todo, NEW k \in Of(run[d].markers, c.record)
          PROVE  \E m \in Of(outbox[d], c.record) : m.id = k.id \/ k.at < m.at
      <4>1. k \in run[d].markers /\ k.record = c.record /\ k \in Of(run[d].markers, k.record)
        BY <3>1 DEF Of
      <4>2. \E m \in Of(outbox[d], k.record) : m.id = k.id \/ k.at < m.at
        BY <2>2, <4>1 DEF MarkersHeld
      <4> QED
        BY <4>1, <4>2
    <3> QED
      BY <3>1 DEF MarkersHeld
  <2> QED
    BY <1>5, <2>1, <2>3
<1>6. CASE e = d /\ Release(d)
  BY <1>0, <1>1, <1>6, ReleaseDoes DEF Reading
<1>7. ASSUME e = d, NEW k \in run[d].todo, Asides(d, k) \/ Apply(d, k)
      PROVE  MarkersHeld(IF run'[e].step = "books" THEN run'[e].markers
                         ELSE run'[e].todo, run'[e].markers, outbox'[e])
  <2>1. /\ run[d].step = "apply" /\ run'[d].step # "books"
        /\ run'[d].markers = run[d].markers /\ run'[d].todo = run[d].todo \ {k}
        /\ outbox'[d] = outbox[d] \/ outbox'[d] = Without(outbox[d], {k.record})
    BY <1>0, <1>7, AsideDoes, ApplyDoes
  <2>2. OneRowEach(run[d].todo)
    BY <1>0, TodoRows
  <2>3. \A c \in run'[d].todo : c \in run[d].todo /\ c.record # k.record
    BY <2>1, <2>2 DEF OneRowEach
  <2>4. \A c \in run'[d].todo : Of(outbox'[d], c.record) = Of(outbox[d], c.record)
    BY <2>1, <2>3 DEF Of, Without
  <2>5. MarkersHeld(run[d].todo, run[d].markers, outbox[d])
    BY <1>1, <1>7, <2>1 DEF Reading
  <2>6. MarkersHeld(run'[d].todo, run'[d].markers, outbox'[d])
    BY <2>1, <2>3, <2>4, <2>5 DEF MarkersHeld
  <2> QED
    BY <1>7, <2>1, <2>6
<1> QED
  BY <1>2, <1>3, <1>4, <1>5, <1>6, <1>7, ReadingSteps

(* The page a device is on stays the one it is. *)
LEMMA PageStays ==
  ASSUME NEW d \in Device, Stepping(d), NEW e \in Device, OnPage(e),
         cursor'[e] = cursor[e], run'[e].next = run[e].next
  PROVE  Page(e)' = Page(e) /\ Page(e) \subseteq Logged
<1>1. PICK n \in Nat : n = run[e].next /\ n = run'[e].next /\ n <= Len(log)
  BY DEF Stepping, Holds, Inv, TypeOK, Run, RoundsPlain, Plain
<1>2. PageUpTo(e, n)' = PageUpTo(e, n) /\ PageUpTo(e, n) \subseteq Logged
  BY <1>1, SamePage
<1> QED
  BY <1>1, <1>2 DEF Page, PageUpTo

(* What is left of a page is on it. *)
LEMMA PageRowsStep ==
  ASSUME NEW d \in Device, Stepping(d), NEW e \in Device, RoundRows(e), OnPage(e)'
  PROVE  (run[e].todo \subseteq Page(e))'
<1>0. Holds
  BY DEF Stepping
<1>1. CASE e = d /\ Fetch(d)
  <2>1. /\ UNCHANGED <<log, cursor>> /\ run'[d].todo = Winners(PageUpTo(d, run'[d].next))
    BY <1>0, <1>1, FetchDoes DEF Stepping, RoundsPlain, Plain
  <2>2. Page(d)' = PageUpTo(d, run'[d].next)
    BY <2>1 DEF Page, PageUpTo
  <2> QED
    BY <1>1, <2>1, <2>2 DEF Winners
<1>2. CASE Reading(e)'
  <2>1. OnPage(e) /\ cursor'[e] = cursor[e] /\ run'[e].next = run[e].next
    BY <1>2, ReadingDoes DEF OnPage
  <2>2. Page(e)' = Page(e)
    BY <2>1, PageStays
  <2>3. run'[e].todo \subseteq run[e].todo
    <3>1. CASE e = d /\ ListBooks(d)
      BY <1>0, <2>1, <3>1, BooksDoes DEF OnPage
    <3> QED
      BY <1>2, <3>1, ReadingDoes
  <2> QED
    BY <2>1, <2>2, <2>3 DEF RoundRows
<1>3. CASE ~Reading(e)' /\ ~(e = d /\ Fetch(d))
  <2>1. run'[e].step = "states"
    BY <1>3 DEF OnPage, Reading
  <2>2. e # d \/ (e = d /\ Writing(d))
    <3>1. ASSUME e = d, NEW k \in run[d].todo, Asides(d, k) \/ Apply(d, k) PROVE FALSE
      BY <1>0, <2>1, <3>1, AsideDoes, ApplyDoes
    <3>2. ASSUME e = d, Load(d) PROVE FALSE
      <4>1. PICK todo : run'[d] = Sending(d, todo)
        BY <1>0, <3>2, LoadDoes
      <4> QED
        BY <1>0, <3>2, <4>1, SendingDoes
    <3> QED
      BY <1>0, <1>3, <2>1, <3>1, <3>2, FreshDoes, SendDoes, SettleKeeps, StatesDoes, BooksDoes,
         ReleaseDoes
      DEF Stepping, Acts
  <2>3. /\ run'[e].todo = run[e].todo /\ run'[e].next = run[e].next
        /\ cursor'[e] = cursor[e] /\ OnPage(e)
    <3>1. CASE e # d
      BY <1>0, <3>1, Elsewhere DEF Stepping, OnPage
    <3>2. CASE e = d /\ Writing(d)
      BY <1>0, <3>2, WritingRun DEF OnPage
    <3> QED
      BY <2>2, <3>1, <3>2
  <2>4. Page(e)' = Page(e)
    BY <2>3, PageStays
  <2> QED
    BY <2>3, <2>4 DEF RoundRows
<1> QED
  BY <1>1, <1>2, <1>3

LEMMA RoundRowsStep ==
  ASSUME NEW d \in Device, Stepping(d), NEW e \in Device, RoundRows(e)
  PROVE  RoundRows(e)'
<1>0. Holds /\ Holds' /\ held \in [Device -> SUBSET Change]
  BY DEF Stepping, Holds, Inv, TypeOK
<1> DEFINE Rest == (run[e].stage # "pull" /\ run[e].step \in {"apply", "release"})
                      => run[e].todo \subseteq held[e]
           Apart == run[e].step = "release" =>
                      \A k \in run[e].batch, c \in run[e].todo : c.record # k.record
<1>1. Rest /\ Apart
  BY DEF RoundRows
<1>2. CASE run'[e].step \notin {"apply", "release"}
  BY <1>2, PageRowsStep DEF RoundRows
<1>3. CASE run'[e].step \in {"apply", "release"}
  <2>0. Reading(e)'
    BY <1>3 DEF Reading
  <2>1. CASE e # d
    <3>1. run'[e] = run[e] /\ held'[e] = held[e]
      BY <1>0, <2>1, Elsewhere DEF Stepping
    <3> QED
      BY <1>1, <3>1, PageRowsStep DEF RoundRows
  <2>2. CASE e = d /\ Writing(d)
    <3>1. /\ run'[d].todo = run[d].todo /\ run'[d].batch = run[d].batch
          /\ run'[d].step = run[d].step /\ run'[d].stage = run[d].stage /\ held' = held
      BY <1>0, <2>2, WritingRun
    <3> QED
      BY <1>1, <2>2, <3>1, PageRowsStep DEF RoundRows
  <2>3. CASE e = d /\ ReadStates(d)
    BY <1>0, <1>3, <2>3, StatesDoes
  <2>4. CASE e = d /\ ListBooks(d)
    <3>1. /\ run'[d].step = "apply" /\ run'[d].stage = run[d].stage /\ held' = held
          /\ run'[d].todo = IF run[d].stage = "pull" THEN run[d].todo ELSE held[d]
      BY <1>0, <2>4, BooksDoes
    <3> QED
      BY <2>4, <3>1, PageRowsStep DEF RoundRows
  <2>5. CASE e = d /\ Release(d)
    <3>1. /\ run[d].step = "release" /\ run'[d].step = "apply"
          /\ run'[d].stage = run[d].stage /\ run'[d].todo = run[d].todo
      BY <1>0, <2>5, ReleaseDoes
    <3>2. held'[d] = Without(held[d], {k.record : k \in run[d].batch})
      BY <1>0, <2>5 DEF Release
    <3>3. run[d].stage # "pull" => run'[d].todo \subseteq held'[d]
      BY <1>1, <2>5, <3>1, <3>2 DEF Without
    <3> QED
      BY <2>5, <3>1, <3>3, PageRowsStep DEF RoundRows
  <2>6. ASSUME e = d, NEW k \in run[d].todo, Asides(d, k) \/ Apply(d, k)
        PROVE  RoundRows(e)'
    <3>1. /\ run[d].step = "apply" /\ run'[d].stage = run[d].stage
          /\ run'[d].todo = run[d].todo \ {k}
          /\ run'[d].step = "release" => Apply(d, k) /\ run'[d].batch \subseteq {k}
      BY <1>0, <2>6, AsideDoes, ApplyDoes
    <3>2. OneRowEach(run[d].todo)
      BY <1>0, TodoRows
    <3>3. \A c \in run'[d].todo : c \in run[d].todo /\ c.record # k.record
      BY <3>1, <3>2 DEF OneRowEach
    <3>4. ASSUME run[d].stage # "pull" PROVE run'[d].todo \subseteq held'[d]
      <4>1. run[d].todo \subseteq held[d]
        BY <1>1, <2>6, <3>1, <3>4
      <4>2. CASE Drop(d, k)
        <5>1. held'[d] = Without(held[d], {k.record})
          BY <1>0, <3>4, <4>2 DEF Drop
        <5> QED
          BY <3>3, <4>1, <5>1 DEF Without
      <4>3. CASE Hold(d, k)
        BY <3>1, <4>1, <4>3, HoldAgain
      <4>4. CASE Apply(d, k)
        BY <1>0, <3>1, <4>1, <4>4, ApplyDoes
      <4> QED
        BY <2>6, <4>2, <4>3, <4>4 DEF Asides
    <3>5. run'[d].step = "release" =>
            \A x \in run'[d].batch, c \in run'[d].todo : c.record # x.record
      BY <3>1, <3>3
    <3> QED
      BY <2>6, <3>1, <3>4, <3>5, PageRowsStep DEF RoundRows
  <2> QED
    BY <2>0, <2>1, <2>2, <2>3, <2>4, <2>5, <2>6, ReadingSteps
<1> QED
  BY <1>2, <1>3
-------------------------------------------------------------------------------
(* What was passed, in order. *)

(* What is known of what is gone past stays known over a step that applies  *)
(* nothing of its record.                                                   *)
LEMMA GoneStays ==
  ASSUME NEW d \in Device, Stepping(d), NEW e \in Device, OrderKept(e),
         NEW c \in Gone(e), Known(e, c), InOrder(c.record),
         \A k \in run[e].todo : (e = d /\ Apply(d, k)) => k.record # c.record
  PROVE  Known(e, c)'
<1>1. c \in Logged
  BY PlacesLogged DEF Stepping
<1>2. (e = d /\ Release(d)) => \A k \in run[e].batch : k.record = c.record => Lasting(e, c)
  BY DEF OrderKept, ReleaseOrdered, Release
<1> QED
  BY <1>1, <1>2, KnownStays DEF OrderKept

LEMMA PassedOrderedStep ==
  ASSUME NEW d \in Device, Stepping(d), NEW e \in Device, OrderKept(e)
  PROVE  PassedOrdered(e)'
<1>0. Holds /\ Holds' /\ RoundsPlain
  BY DEF Stepping
<1>1. PassedOrdered(e) /\ PageOrdered(e) /\ ReadOrdered(e) /\ RoundRows(e)
  BY DEF OrderKept
<1>2. CASE cursor'[e] = cursor[e]
  <2>1. Passed(e)' = Passed(e) /\ Passed(e) \subseteq Gone(e)
    BY <1>2, SamePage DEF Gone
  <2>2. ASSUME NEW c \in Passed(e), InOrder(c.record)' PROVE Known(e, c)'
    <3>1. PICK r : r = c.record
      OBVIOUS
    <3>2. InOrder(r)
      BY <2>2, <3>1, OrderStays
    <3>3. InOrder(c.record)
      BY <3>1, <3>2
    <3>4. CASE \E k \in run[e].todo : e = d /\ Apply(d, k) /\ k.record = c.record
      <4>1. Lasting(e, c)'
        BY <1>1, <2>2, <3>3, <3>4, AppliedLasting
      <4> QED
        BY <4>1 DEF Known, Reached, Accounted, Lasting
    <3>5. CASE \A k \in run[e].todo : (e = d /\ Apply(d, k)) => k.record # c.record
      <4>1. Known(e, c)
        BY <1>1, <2>2, <3>3 DEF PassedOrdered
      <4> QED
        BY <2>1, <2>2, <3>3, <3>5, <4>1, GoneStays
    <3> QED
      BY <3>4, <3>5
  <2> QED
    BY <2>1, <2>2 DEF PassedOrdered
<1>3. CASE e = d /\ SaveCursor(d)
  <2>1. /\ OnPage(d) /\ run[d].todo = {} /\ cursor' = [cursor EXCEPT ![d] = run[d].next]
        /\ log' = log /\ cursor[d] \in Nat /\ run[d].next \in Nat
    BY <1>0, <1>3 DEF SaveCursor, OnPage, Holds, Inv, TypeOK, Run
  <2>2. cursor'[d] = run[d].next
    BY <1>0, <2>1 DEF Holds, Inv, TypeOK
  <2>3. ASSUME NEW c \in Passed(d)' PROVE c \in Passed(d) \/ c \in Page(d)
    <3>1. PICK i \in 1 .. run[d].next : c = log[i]
      BY <2>1, <2>2, <2>3 DEF Passed
    <3>2. CASE i <= cursor[d]
      <4>1. i \in 1 .. cursor[d]
        BY <2>1, <3>2
      <4> QED
        BY <3>1, <4>1 DEF Passed
    <3>3. CASE ~(i <= cursor[d])
      <4>1. i \in cursor[d] + 1 .. run[d].next
        BY <2>1, <3>3
      <4> QED
        BY <3>1, <4>1 DEF Page, PageUpTo
    <3> QED
      BY <3>2, <3>3
  <2>4. ASSUME NEW c \in Passed(d)', InOrder(c.record)' PROVE Known(d, c)'
    <3>1. c \in Gone(d)
      BY <2>1, <2>3, <2>4 DEF Gone
    <3>2. InOrder(c.record)
      BY <2>1, <2>4 DEF InOrder
    <3>3. Known(d, c)
      BY <1>1, <1>3, <2>1, <2>3, <2>4, <3>2 DEF PassedOrdered, PageOrdered
    <3> QED
      BY <1>3, <2>1, <3>1, <3>2, <3>3, GoneStays
  <2> QED
    BY <1>3, <2>4 DEF PassedOrdered
<1>4. cursor'[e] = cursor[e] \/ (e = d /\ SaveCursor(d))
  <2>1. CASE e # d
    BY <1>0, <2>1, Elsewhere DEF Stepping
  <2>2. CASE e = d
    BY <1>0, <2>2, WritingRun, FreshDoes, LoadDoes, SendDoes, SettleKeeps, ReleaseDoes,
       AsideDoes, ApplyDoes
    DEF Acts, Fetch, ReadStates, ListBooks, Stepping
  <2> QED
    BY <2>1, <2>2
<1> QED
  BY <1>2, <1>3, <1>4

(* What is on the page, in order. *)
LEMMA PageOrderedStep ==
  ASSUME NEW d \in Device, Stepping(d), NEW e \in Device, OrderKept(e)
  PROVE  PageOrdered(e)'
<1>0. Holds /\ Holds' /\ RoundsPlain
  BY DEF Stepping
<1>1. PageOrdered(e)
  BY DEF OrderKept
<1>2. CASE e = d /\ Fetch(d)
  <2>1. /\ UNCHANGED <<log, cursor>>
        /\ run'[d].next \in Nat /\ run'[d].next <= Len(log)
        /\ run'[d].todo = Winners(PageUpTo(d, run'[d].next))
    BY <1>0, <1>2, FetchDoes DEF RoundsPlain, Plain
  <2>2. PICK n \in Nat : n = run'[d].next
    BY <2>1
  <2>3. Page(d)' = PageUpTo(d, n) /\ run'[d].todo = Winners(PageUpTo(d, n)) /\ n <= Len(log)
    BY <2>1, <2>2 DEF Page, PageUpTo
  <2>4. \A c \in PageUpTo(d, n) :
          /\ \A k \in run'[d].todo : k.record = c.record => ~Beats(c, k)
          /\ \E k \in run'[d].todo : k.record = c.record
    BY <1>0, <2>3, WinnerFound DEF Winners
  <2>5. \A c \in Page(d)' :
          /\ \A k \in run'[d].todo : k.record = c.record => ~Beats(c, k)
          /\ \E k \in run'[d].todo : k.record = c.record
    BY <2>3, <2>4
  <2> QED
    BY <1>2, <2>5 DEF PageOrdered
<1>3. CASE /\ OnPage(e) /\ cursor'[e] = cursor[e] /\ run'[e].next = run[e].next
           /\ run'[e].todo \subseteq run[e].todo
           /\ \A k \in run[e].todo : k \notin run'[e].todo =>
                e = d /\ (Asides(d, k) \/ Apply(d, k))
           /\ \A k \in run[e].todo : (e = d /\ Apply(d, k)) => k \notin run'[e].todo
  <2>1. Page(e)' = Page(e) /\ Page(e) \subseteq Logged /\ Page(e) \subseteq Gone(e)
    BY <1>3, PageStays DEF Gone
  <2>2. ASSUME NEW c \in Page(e), InOrder(c.record)'
        PROVE  /\ \A k \in run'[e].todo : k.record = c.record => ~Beats(c, k)
               /\ (\A k \in run'[e].todo : k.record # c.record) => Known(e, c)'
    <3>1. PICK r : r = c.record
      OBVIOUS
    <3>2. InOrder(r)
      BY <2>2, <3>1, OrderStays
    <3>3. InOrder(c.record)
      BY <3>1, <3>2
    <3>4. /\ \A k \in run[e].todo : k.record = c.record => ~Beats(c, k)
          /\ (\A k \in run[e].todo : k.record # c.record) => Known(e, c)
      BY <1>1, <1>3, <2>2, <3>3 DEF PageOrdered
    <3>5. ASSUME \A k \in run'[e].todo : k.record # c.record
          PROVE  Known(e, c)'
      <4>1. CASE \A k \in run[e].todo : k.record # c.record
        BY <2>1, <2>2, <3>3, <3>4, <4>1, GoneStays
      <4>2. ASSUME NEW k \in run[e].todo, k.record = c.record
            PROVE  Known(e, c)'
        <5>1. k \notin run'[e].todo /\ e = d /\ (Asides(d, k) \/ Apply(d, k))
          BY <1>3, <3>5, <4>2
        <5>2. ~Beats(c, k) /\ c \in Logged
          BY <2>1, <2>2, <3>4, <4>2
        <5>3. run[d].step = "apply"
          BY <1>0, <4>2, <5>1, AsideDoes, ApplyDoes
        <5>4. k \in Logged
          BY <1>0, <4>2, <5>1, <5>3, TodoRows
        <5>5. CASE Apply(d, k)
          <6>1. ~IsLaterVersion(c, k)
            BY <1>0, <5>2, <5>4, LoggedTimed, BeatsLater
          <6>2. Superseded(versions'[d], c)
            BY <4>2, <5>1, <5>2, <5>5, <6>1, AppliedSuperseded
          <6> QED
            BY <5>1, <6>2 DEF Known, Reached, Accounted
        <5>6. CASE Hold(d, k)
          BY <4>2, <5>1, <5>2, <5>6, HoldKeeps DEF Known
        <5>7. CASE Drop(d, k) /\ ~Apply(d, k)
          <6>1. MarkersHeld(run[d].todo, run[d].markers, outbox[d])
            BY <5>1, <5>3 DEF OrderKept, MarkersStand, Reading
          <6>2. Reached(d, c)
            BY <1>0, <4>2, <5>1, <5>2, <5>7, <6>1, DropReached
          <6>3. \A x \in run[d].todo : Apply(d, x) => x.record # c.record
            <7>1. ASSUME NEW x \in run[d].todo, Apply(d, x), x.record = c.record PROVE FALSE
              <8>1. x = k
                BY <1>0, <4>2, <5>1, <7>1, TodoRows DEF OneRowEach
              <8> QED
                BY <5>7, <7>1, <8>1
            <7> QED
              BY <7>1
          <6>4. Reached(d, c)'
            BY <5>2, <6>2, <6>3, ReachedStays
          <6> QED
            BY <5>1, <6>4 DEF Known
        <5> QED
          BY <5>1, <5>5, <5>6, <5>7 DEF Asides
      <4> QED
        BY <4>1, <4>2
    <3> QED
      BY <1>3, <3>4, <3>5
  <2> QED
    BY <2>1, <2>2 DEF PageOrdered
<1>4. ASSUME OnPage(e)', ~(e = d /\ Fetch(d))
      PROVE  /\ OnPage(e) /\ cursor'[e] = cursor[e] /\ run'[e].next = run[e].next
             /\ run'[e].todo \subseteq run[e].todo
             /\ \A k \in run[e].todo : k \notin run'[e].todo =>
                  e = d /\ (Asides(d, k) \/ Apply(d, k))
             /\ \A k \in run[e].todo : (e = d /\ Apply(d, k)) => k \notin run'[e].todo
  <2>1. CASE e # d
    BY <1>0, <1>4, <2>1, Elsewhere DEF OnPage, Stepping
  <2>2. CASE e = d /\ \E k \in run[d].todo : Asides(d, k) \/ Apply(d, k)
    <3>1. PICK k \in run[d].todo : Asides(d, k) \/ Apply(d, k)
      BY <2>2
    <3>2. /\ cursor' = cursor /\ run'[d].stage = run[d].stage /\ run[d].step = "apply"
          /\ run'[d].next = run[d].next /\ run'[d].todo = run[d].todo \ {k}
      BY <1>0, <3>1, AsideDoes, ApplyDoes, ApplyNext
    <3>3. ASSUME NEW x \in run[d].todo, Apply(d, x) PROVE x \notin run'[d].todo
      <4>1. run'[d].todo = run[d].todo \ {x}
        BY <1>0, <3>3, ApplyDoes
      <4> QED
        BY <4>1
    <3> QED
      BY <1>4, <2>2, <3>1, <3>2, <3>3 DEF OnPage
  <2>3. CASE e = d /\ (\A k \in run[d].todo : ~Apply(d, k))
             /\ (Writing(d) \/ ReadStates(d) \/ ListBooks(d) \/ Release(d))
    <3>1. /\ cursor' = cursor /\ run'[d].next = run[d].next
          /\ run'[d].stage = run[d].stage
          /\ run[d].stage = "pull" => run'[d].todo = run[d].todo
          /\ OnPage(d)' => OnPage(d)
      <4>1. CASE Writing(d)
        BY <1>0, <4>1, WritingRun DEF OnPage
      <4>2. CASE ReadStates(d)
        BY <1>0, <4>2, StatesDoes DEF OnPage
      <4>3. CASE ListBooks(d)
        BY <1>0, <4>3, BooksDoes DEF OnPage
      <4>4. CASE Release(d)
        BY <1>0, <4>4, ReleaseDoes DEF OnPage
      <4> QED
        BY <2>3, <4>1, <4>2, <4>3, <4>4
    <3> QED
      BY <1>4, <2>3, <3>1 DEF OnPage
  <2>4. ASSUME e = d, Fresh(d) \/ Load(d) \/ Send(d) \/ Settle(d) PROVE FALSE
    <3>1. ASSUME Load(d) PROVE ~OnPage(d)'
      <4>1. PICK todo : run'[d] = Sending(d, todo)
        BY <1>0, <3>1, LoadDoes
      <4> QED
        BY <1>0, <4>1, SendingDoes
    <3>2. Send(d) => ~OnPage(d)'
      BY <1>0, SendDoes DEF OnPage
    <3> QED
      BY <1>0, <1>4, <2>4, <3>1, <3>2, FreshDoes, SettleKeeps
  <2> QED
    BY <1>4, <2>1, <2>2, <2>3, <2>4 DEF Stepping, Acts
<1> QED
  BY <1>2, <1>3, <1>4 DEF PageOrdered

(* What a round over the changes kept aside has read. *)
LEMMA ReadOrderedStep ==
  ASSUME NEW d \in Device, Stepping(d), NEW e \in Device, OrderKept(e)
  PROVE  ReadOrdered(e)'
<1>0. Holds /\ Holds' /\ RoundsPlain
  BY DEF Stepping
<1>1. PassedOrdered(e) /\ ReadOrdered(e)
  BY DEF OrderKept
<1>2. CASE ~Reading(e)'
  BY <1>2 DEF Reading, ReadOrdered
<1>3. CASE Reading(e)' /\ run'[e].stage # "pull"
  <2>1. cursor'[e] = cursor[e] /\ run[e].stage # "pull"
    BY <1>3, ReadingDoes
  <2>2. Passed(e)' = Passed(e) /\ Passed(e) \subseteq Logged
    BY <2>1, SamePage
  <2>3. ASSUME NEW c \in Passed(e), InOrder(c.record)'
        PROVE  /\ run'[e].step = "books" => AtRead(e, c)' \/ KeptAside(e, c)'
               /\ run'[e].step \in {"apply", "release"} =>
                    \A k \in run'[e].todo : k.record = c.record => AtRead(e, c)' \/ ~Beats(c, k)
    <3>1. PICK r : r = c.record
      OBVIOUS
    <3>2. InOrder(r)
      BY <2>3, <3>1, OrderStays
    <3>3. /\ run[e].step = "books" => AtRead(e, c) \/ KeptAside(e, c)
          /\ run[e].step \in {"apply", "release"} =>
               \A k \in run[e].todo : k.record = c.record => AtRead(e, c) \/ ~Beats(c, k)
          /\ Known(e, c)
      BY <1>1, <2>1, <2>3, <3>1, <3>2 DEF ReadOrdered, PassedOrdered
    <3>4. Unread(e, c) => Unread(e, c)'
      BY <2>2, UnreadStays
    <3>5. (run'[e].markers = run[e].markers /\ run'[e].versions = run[e].versions)
            => (AtRead(e, c) => AtRead(e, c)')
      BY <3>4 DEF AtRead, Accounted
    <3>6. CASE e = d /\ ReadStates(d)
      <4>1. /\ UNCHANGED <<log, held>> /\ run'[d].step = "books"
            /\ run'[d].markers = outbox[d] /\ run'[d].versions = versions[d]
        BY <1>0, <3>6, StatesDoes
      <4>2. Reached(d, c) => AtRead(d, c)'
        BY <3>4, <3>6, <4>1 DEF Reached, AtRead, Accounted
      <4>3. KeptAside(d, c) => KeptAside(d, c)'
        BY <4>1 DEF KeptAside
      <4> QED
        BY <3>3, <3>6, <4>1, <4>2, <4>3 DEF Known
    <3>7. CASE e = d /\ ListBooks(d)
      <4>1. /\ run[d].step = "books" /\ run'[d].step = "apply" /\ run'[d].todo = held[d]
            /\ run'[d].markers = run[d].markers /\ run'[d].versions = run[d].versions
        BY <1>0, <2>1, <3>7, BooksDoes
      <4>2. ASSUME NEW k \in held[d], k.record = c.record, ~AtRead(d, c)
            PROVE  ~Beats(c, k)
        <5>1. PICK h \in Of(held[d], c.record) : ~Beats(c, h)
          BY <3>3, <3>7, <4>1, <4>2 DEF KeptAside
        <5>2. h = k
          BY <1>0, <4>2, <5>1, TodoRows DEF OneRowEach, Of
        <5> QED
          BY <5>1, <5>2
      <4> QED
        BY <3>5, <3>7, <4>1, <4>2
    <3>8. CASE ~(e = d /\ (ReadStates(d) \/ ListBooks(d)))
      <4>1. /\ Reading(e) /\ run'[e].markers = run[e].markers
            /\ run'[e].versions = run[e].versions /\ run'[e].todo \subseteq run[e].todo
            /\ run'[e].step = "books" => run[e].step = "books"
        BY <1>3, <3>8, ReadingDoes
      <4>2. run'[e].step = "books" => held'[e] = held[e]
        <5>1. ASSUME e = d, NEW k \in run[d].todo, Asides(d, k) \/ Apply(d, k)
              PROVE  run[d].step = "apply"
          BY <1>0, <5>1, AsideDoes, ApplyDoes
        <5>2. e = d /\ Release(d) => run[d].step = "release"
          BY DEF Release
        <5> QED
          BY <1>0, <1>3, <3>8, <4>1, <5>1, <5>2, ReadingSteps, Elsewhere, WritingRun DEF Stepping
      <4>3. CASE run'[e].step = "books"
        <5>1. KeptAside(e, c) => KeptAside(e, c)'
          BY <4>2, <4>3 DEF KeptAside
        <5> QED
          BY <3>3, <3>5, <4>1, <4>3, <5>1
      <4>4. CASE run'[e].step # "books"
        <5>1. CASE run[e].step # "books"
          BY <3>3, <3>5, <4>1, <4>4, <5>1 DEF Reading
        <5>2. CASE run[e].step = "books"
          <6>1. e # d => run'[e].step = run[e].step
            BY <1>0, Elsewhere DEF Stepping
          <6>2. e = d /\ Writing(d) => run'[e].step = run[e].step
            BY <1>0, WritingRun
          <6>3. ASSUME e = d, NEW k \in run[d].todo, Asides(d, k) \/ Apply(d, k)
                PROVE  FALSE
            BY <1>0, <5>2, <6>3, AsideDoes, ApplyDoes
          <6>4. ~(e = d /\ Release(d))
            BY <5>2 DEF Release
          <6> QED
            BY <1>3, <3>8, <4>4, <5>2, <6>1, <6>2, <6>3, <6>4, ReadingSteps
        <5> QED
          BY <5>1, <5>2
      <4> QED
        BY <4>3, <4>4
    <3> QED
      BY <3>6, <3>7, <3>8
  <2> QED
    BY <2>2, <2>3 DEF ReadOrdered
<1>4. CASE run'[e].stage = "pull"
  BY <1>4 DEF ReadOrdered
<1> QED
  BY <1>2, <1>3, <1>4

(* What is gone past before a copy is let go. *)
LEMMA ReleaseOrderedStep ==
  ASSUME NEW d \in Device, Stepping(d), NEW e \in Device, OrderKept(e)
  PROVE  ReleaseOrdered(e)'
<1>0. Holds /\ Holds' /\ RoundsPlain
  BY DEF Stepping
<1>1. CASE run'[e].step # "release"
  BY <1>1 DEF ReleaseOrdered
<1>2. CASE run'[e].step = "release"
  <2>1. Reading(e)'
    BY <1>2 DEF Reading
  <2>2. ~(e = d /\ (ReadStates(d) \/ ListBooks(d) \/ Release(d)))
    BY <1>0, <1>2, StatesDoes, BooksDoes, ReleaseDoes
  <2>3. /\ cursor'[e] = cursor[e] /\ run'[e].stage = run[e].stage
        /\ run'[e].next = run[e].next /\ Reading(e)
    BY <2>1, <2>2, ReadingDoes
  <2>4. Gone(e)' = Gone(e) /\ Gone(e) \subseteq Logged /\ (OnPage(e)' <=> OnPage(e))
    <3>1. Passed(e)' = Passed(e)
      BY <2>3, SamePage
    <3>2. OnPage(e)' <=> OnPage(e)
      BY <1>2, <2>3 DEF OnPage, Reading
    <3>3. OnPage(e) => Page(e)' = Page(e)
      BY <2>3, PageStays
    <3> QED
      <4>1. Gone(e)' = Gone(e)
        BY <3>1, <3>2, <3>3 DEF Gone
      <4> QED
        BY <1>0, <3>2, <4>1, PlacesLogged
  <2>5. ASSUME NEW c \in Gone(e), InOrder(c.record)', NEW k \in run'[e].batch,
               c.record = k.record
        PROVE  Lasting(e, c)'
    <3>1. PICK r : r = c.record
      OBVIOUS
    <3>2. InOrder(r)
      BY <2>5, <3>1, OrderStays
    <3>3. InOrder(c.record) /\ c \in Logged
      BY <2>4, <2>5, <3>1, <3>2
    <3>4. CASE e # d \/ (e = d /\ Writing(d))
      <4>1. run'[e].batch = run[e].batch /\ run'[e].step = run[e].step
        BY <1>0, <3>4, Elsewhere, WritingRun DEF Stepping
      <4>2. Lasting(e, c)
        BY <1>2, <2>5, <3>3, <4>1 DEF OrderKept, ReleaseOrdered
      <4> QED
        BY <3>3, <4>2, LastingStays
    <3>5. CASE e = d /\ \E x \in run[d].todo : Asides(d, x) \/ Apply(d, x)
      <4>1. PICK x \in run[d].todo : Apply(d, x)
        BY <1>0, <1>2, <3>5, AsideDoes
      <4>2. k = x /\ x \in Logged
        <5>1. run'[d].batch \subseteq {x} /\ x \in Logged
          BY <1>0, <4>1, ApplyDoes
        <5> QED
          BY <2>5, <3>5, <5>1
      <4>3. CASE c \in Passed(d)
        BY <2>5, <3>3, <3>5, <4>1, <4>2, <4>3, AppliedLasting DEF OrderKept
      <4>4. CASE OnPage(d) /\ c \in Page(d)
        <5>1. ~Beats(c, x)
          BY <2>5, <3>3, <3>5, <4>1, <4>2, <4>4 DEF OrderKept, PageOrdered
        <5>2. ~IsLaterVersion(c, x)
          BY <1>0, <3>3, <4>2, <5>1, LoggedTimed, BeatsLater
        <5> QED
          BY <2>5, <3>3, <3>5, <4>1, <4>2, <5>2, AppliedSuperseded DEF Lasting
      <4> QED
        BY <2>5, <3>5, <4>3, <4>4 DEF Gone
    <3> QED
      BY <2>1, <2>2, <3>4, <3>5, ReadingSteps
  <2> QED
    BY <2>4, <2>5 DEF ReleaseOrdered
<1> QED
  BY <1>1, <1>2
-------------------------------------------------------------------------------
LEMMA OrderingInit == Init => Ordering
<1> SUFFICES ASSUME Init PROVE Ordering
  OBVIOUS
<1>1. \A d \in Device : run[d] = NoRun /\ cursor[d] = 0
  BY DEF Init
<1>2. /\ NoRun.stage = "none" /\ NoRun.step = "idle" /\ NoRun.todo = {}
  BY DEF NoRun
<1>3. ASSUME NEW d \in Device PROVE OrderKept(d)
  <2>1. ~OnPage(d) /\ Passed(d) = {} /\ ~Reading(d)
    BY <1>1, <1>2 DEF OnPage, Passed, Reading
  <2>2. run[d].step = "idle" /\ run[d].stage = "none"
    BY <1>1, <1>2
  <2> QED
    BY <2>1, <2>2
    DEF OrderKept, MarkersStand, RoundRows, PassedOrdered, PageOrdered, ReadOrdered,
        ReleaseOrdered
<1> QED
  BY <1>3, ConvergingInit DEF Ordering

LEMMA OrderingStep == Ordering /\ [Next]_vars => Ordering'
<1> SUFFICES ASSUME Ordering, [Next]_vars PROVE Ordering'
  OBVIOUS
<1>1. Converging /\ Converging'
  BY ConvergingStep DEF Ordering
<1>2. ASSUME NoSkew, NEW e \in Device PROVE OrderKept(e)'
  <2>0. OrderKept(e)
    BY <1>2 DEF Ordering
  <2>1. CASE UNCHANGED vars
    <3>1. UNCHANGED <<log, outbox, versions, held, cursor, run>>
      BY <2>1 DEF vars
    <3>2. /\ Passed(e)' = Passed(e) /\ Page(e)' = Page(e) /\ OnPage(e)' = OnPage(e)
          /\ Gone(e)' = Gone(e) /\ Reading(e)' = Reading(e)
      BY <3>1 DEF Passed, Page, PageUpTo, OnPage, Gone, Reading
    <3>3. Logged' = Logged
      BY <3>1 DEF Logged
    <3>4. \A c : /\ Reached(e, c)' = Reached(e, c) /\ AtRead(e, c)' = AtRead(e, c)
                 /\ KeptAside(e, c)' = KeptAside(e, c) /\ Lasting(e, c)' = Lasting(e, c)
                 /\ InOrder(c.record)' = InOrder(c.record)
      BY <3>1, <3>3
      DEF Reached, AtRead, Accounted, Unread, Legible, KeptAside, Lasting, InOrder
    <3>5. MarkersStand(e)' /\ RoundRows(e)'
      BY <2>0, <3>1, <3>2 DEF OrderKept, MarkersStand, RoundRows
    <3>6. PassedOrdered(e)' /\ PageOrdered(e)'
      BY <2>0, <3>1, <3>2, <3>4 DEF OrderKept, PassedOrdered, PageOrdered, Known
    <3>7. ReadOrdered(e)' /\ ReleaseOrdered(e)'
      BY <2>0, <3>1, <3>2, <3>4 DEF OrderKept, ReadOrdered, ReleaseOrdered
    <3> QED
      BY <3>5, <3>6, <3>7 DEF OrderKept
  <2>2. CASE Next
    <3>1. PICK d \in Device : Acts(d)
      BY <2>2, ActsCover
    <3>2. Stepping(d)
      BY <1>1, <1>2, <3>1 DEF Stepping, Converging
    <3>3. MarkersStand(e)' /\ RoundRows(e)'
      BY <2>0, <3>2, MarkersStandStep, RoundRowsStep DEF OrderKept
    <3>4. PassedOrdered(e)' /\ PageOrdered(e)' /\ ReadOrdered(e)' /\ ReleaseOrdered(e)'
      BY <2>0, <3>2, PassedOrderedStep, PageOrderedStep, ReadOrderedStep, ReleaseOrderedStep
    <3> QED
      BY <3>3, <3>4 DEF OrderKept
  <2> QED
    BY <2>1, <2>2
<1>3. NoSkew' = NoSkew
  BY DEF NoSkew
<1> QED
  BY <1>1, <1>2, <1>3 DEF Ordering

LEMMA OrderInvariance == Spec => []Ordering
BY OrderingInit, OrderingStep, PTL DEF Spec

(* What a device has gone past in the log is covered by what it has, for    *)
(* every record whose changes the server stored in the order they were made *)
(* in: by its version, a marker, what it keeps aside until its book is      *)
(* there, or what it cannot read (pullChanges, applyHeldChanges).           *)
THEOREM PassedInOrder == Spec => []OrderedAccounted
<1>1. Ordering => OrderedAccounted
  <2> SUFFICES ASSUME Ordering, NoSkew, NEW d \in Device, NEW i \in 1 .. cursor[d],
                      InOrder(log[i].record)
               PROVE  Covered(d, log[i])
    BY DEF OrderedAccounted
  <2>1. PassedOrdered(d)
    BY DEF Ordering, OrderKept
  <2>2. PICK c \in Passed(d) : c = log[i]
    BY DEF Passed
  <2>3. Known(d, c)
    BY <2>1, <2>2 DEF PassedOrdered
  <2>4. Covered(d, c)
    BY <2>3
    DEF Known, KeptAside, Reached, Accounted, Superseded, Outdone, MarkOf, Unread, Covered
  <2> QED
    BY <2>2, <2>4
<1> QED
  BY <1>1, OrderInvariance, PTL
-------------------------------------------------------------------------------
(* The rows of a book: with what a device has passed accounted for by its   *)
(* versions, a version is of the one change none beats, and what is left to *)
(* show is that a row has the content its version names.                    *)

(* The changes of its own the server has are accounted for by what a device *)
(* has, and by what its round has read: none of them is applied again.      *)
Mine(d) ==
  \A c \in Logged : c.device = d =>
    /\ Superseded(versions[d], c) \/ Outdone(d, outbox[d], c)
    /\ Reading(d) => Superseded(run[d].versions, c) \/ Outdone(d, run[d].markers, c)

(* A row of a book is one of this device while its book is on the shelf;    *)
(* the captures of a removed book stay.                                     *)
Standing(d, r) == Kind[r] = "capture" \/ (InReader(r) /\ OnShelf(d, BookOf[r]))

(* A book on the shelf has its rows. *)
Whole(d) ==
  \A r \in Record : (InReader(r) /\ OnShelf(d, BookOf[r])) => data[d][r] # Absent

(* The marker of a row is of what the device has, and so is every change    *)
(* that was made of it.                                                     *)
RowsCurrent(d) ==
  \A m \in outbox[d] : Standing(d, m.record) =>
    /\ m.deleted => data[d][m.record] = Absent
    /\ \A c \in Changes :
         (c.record = m.record /\ c.id = m.id) => c.data = data[d][m.record]

(* A row with no marker has the content its version names, but for a        *)
(* removal by another device, which can leave the row of a book there is.   *)
RowMatches(d) ==
  \A r \in Record : (Standing(d, r) /\ Of(outbox[d], r) = {}) =>
    IF Of(versions[d], r) = {} THEN data[d][r] = Absent
    ELSE \E c \in Logged :
           /\ VersionOf(c) \in Of(versions[d], r)
           /\ data[d][r] = c.data \/ (InReader(r) /\ c.data = Absent /\ c.device # d)

RowsKept(d) == Whole(d) /\ RowsCurrent(d) /\ RowMatches(d) /\ Mine(d)
Shelving == Ordering /\ (NoSkew => \A d \in Device : RowsKept(d))
-------------------------------------------------------------------------------
(* What a device made is not applied again. *)

(* A wanted change is later than the version there is. *)
LEMMA AppliedLater ==
  ASSUME NEW d \in Device, Stepping(d), NEW k \in run[d].todo, Apply(d, k),
         NEW v \in Of(versions[d], k.record)
  PROVE  IsLaterVersion(k, v)
<1>0. Holds /\ NoSkew /\ run[d].step = "apply" /\ Dated(k) /\ v \in versions[d]
  BY WantedBeats, ApplyDoes DEF Stepping, Of, Dated
<1>1. CASE Of(run[d].markers, k.record) = {}
  BY <1>0, <1>1, WantedBeats
<1>2. ASSUME NEW m \in Of(run[d].markers, k.record)
      PROVE  IsLaterVersion(k, v)
  <2>1. m \in run[d].markers /\ m.record = k.record
    BY <1>2 DEF Of
  <2>2. Of(run[d].versions, k.record) = Of(versions[d], k.record)
    BY <1>0 DEF Holds, Contents, RunsFit, RunFits, RoundFits
  <2>3. v.at < m.at
    BY <1>0, <2>1, <2>2 DEF Holds, Contents, RunsFit, RunFits, RoundFits
  <2>4. Beats(k, MarkOf(d, m)) /\ MarkOf(d, m).at = m.at /\ m.at \in Nat
    BY <1>0, <1>2, <2>1, WantedBeats, MarkTimed DEF MarkOf
  <2>5. Dated(v)
    BY <1>0, VersionDated
  <2>6. ~(k.at < m.at)
    BY <1>0, <2>4 DEF Beats, IsLaterVersion, Dated
  <2> QED
    BY <1>0, <2>3, <2>4, <2>5, <2>6 DEF IsLaterVersion, Dated
<1> QED
  BY <1>1, <1>2

(* What the round has read accounts for what the device made, whatever is   *)
(* applied.                                                                 *)
LEMMA OwnApplied ==
  ASSUME NEW d \in Device, Stepping(d), Mine(d), NEW k \in run[d].todo, Apply(d, k),
         NEW c \in Logged, c.device = d, c.record = k.record
  PROVE  Superseded(versions'[d], c)
<1>0. Holds /\ Reading(d)
  BY ApplyDoes DEF Stepping, Reading
<1>1. Superseded(run[d].versions, c) \/ Outdone(d, run[d].markers, c)
  BY <1>0 DEF Mine
<1>2. CASE Superseded(run[d].versions, c)
  <2>1. run[d].step = "apply"
    BY <1>0, ApplyDoes
  <2>2. Of(run[d].versions, k.record) = Of(versions[d], k.record)
    BY <1>0, <2>1 DEF Holds, Contents, RunsFit, RunFits, RoundFits
  <2>3. Superseded(versions[d], c)
    BY <1>2, <2>2 DEF Superseded
  <2> QED
    BY <2>3, SupersededStays
<1>3. CASE Outdone(d, run[d].markers, c)
  <2>1. PICK m \in Of(run[d].markers, c.record) : m.id = c.id \/ Beats(MarkOf(d, m), c)
    BY <1>3 DEF Outdone
  <2>2. m \in run[d].markers /\ m.record = c.record /\ m \in Of(run[d].markers, k.record)
    BY <2>1 DEF Of
  <2>3. ~IsLaterVersion(c, MarkOf(d, m))
    BY <1>0, <2>1, <2>2, OutdoneLater
  <2>4. Beats(k, MarkOf(d, m)) /\ k \in Logged
    BY <1>0, <2>2, WantedBeats DEF MarkOf
  <2>5. Timed(MarkOf(d, m)) /\ Timed(c) /\ Timed(k)
    BY <1>0, <2>2, <2>4, MarkTimed, LoggedTimed
  <2>6. ~IsLaterVersion(MarkOf(d, m), k)
    BY <2>4, <2>5, BeatsLater
  <2>7. ~IsLaterVersion(c, k)
    BY <2>3, <2>5, <2>6, LaterOrder DEF Timed
  <2> QED
    BY <2>7, AppliedSuperseded
<1> QED
  BY <1>1, <1>2, <1>3

(* A change that is applied comes from another device. *)
LEMMA AppliedForeign ==
  ASSUME NEW d \in Device, Stepping(d), Mine(d), NEW k \in run[d].todo, Apply(d, k)
  PROVE  k \in Logged /\ k.device # d
<1>0. /\ Holds /\ Reading(d) /\ run[d].step = "apply" /\ k \in Logged
  BY ApplyDoes DEF Stepping, Reading
<1>1. ASSUME Superseded(run[d].versions, k) PROVE FALSE
  <2>1. Of(run[d].versions, k.record) = Of(versions[d], k.record)
    BY <1>0 DEF Holds, Contents, RunsFit, RunFits, RoundFits
  <2> QED
    BY <1>1, <2>1, AppliedLater DEF Superseded
<1>2. ASSUME Outdone(d, run[d].markers, k) PROVE FALSE
  <2>1. PICK m \in Of(run[d].markers, k.record) : m.id = k.id \/ Beats(MarkOf(d, m), k)
    BY <1>2 DEF Outdone
  <2>2. m \in run[d].markers
    BY <2>1 DEF Of
  <2>3. k.id # m.id /\ Beats(k, MarkOf(d, m))
    BY <1>0, <2>1, WantedBeats DEF MarkOf
  <2>4. Timed(k) /\ Timed(MarkOf(d, m))
    BY <1>0, <2>2, LoggedTimed, MarkTimed
  <2> QED
    BY <2>1, <2>3, <2>4, BeatsOneWay
<1> QED
  BY <1>0, <1>1, <1>2 DEF Mine

(* What a device made stays accounted for, over a step of any device. *)
LEMMA MineStep ==
  ASSUME NEW d \in Device, Stepping(d), NEW e \in Device, Mine(e)
  PROVE  Mine(e)'
<1>0. Holds /\ Holds' /\ Acts(d)
  BY DEF Stepping
<1>1. ASSUME NEW c \in Logged', c.device = e
      PROVE  /\ Superseded(versions'[e], c) \/ Outdone(e, outbox'[e], c)
             /\ Reading(e)' => Superseded(run'[e].versions, c)
                                 \/ Outdone(e, run'[e].markers, c)
  <2>1. CASE c \notin Logged
    <3>1. e = d /\ Send(d)
      BY <1>0, <1>1, <2>1, LogGrows
    <3>2. Outdone(d, outbox'[d], c)
      BY <2>1, <3>1, OwnSent
    <3>3. ~Reading(d)'
      BY <1>0, <3>1, SendDoes DEF Reading
    <3> QED
      BY <3>1, <3>2, <3>3
  <2>2. CASE c \in Logged
    <3>1. Superseded(versions[e], c) \/ Outdone(e, outbox[e], c)
      BY <1>1, <2>2 DEF Mine
    <3>2. Superseded(versions'[e], c) \/ Outdone(e, outbox'[e], c)
      <4>1. ASSUME NEW k \in run[e].todo, e = d, Apply(d, k), k.record = c.record
            PROVE  Superseded(versions'[e], c)
        BY <1>1, <2>2, <4>1, OwnApplied
      <4> QED
        BY <2>2, <3>1, <4>1, BackedStays
    <3>3. ASSUME Reading(e)'
          PROVE  Superseded(run'[e].versions, c) \/ Outdone(e, run'[e].markers, c)
      <4>1. CASE e = d /\ ReadStates(d)
        BY <1>0, <3>1, <4>1, StatesDoes
      <4>2. CASE ~(e = d /\ ReadStates(d))
        <5>1. Reading(e) /\ run'[e].markers = run[e].markers
              /\ run'[e].versions = run[e].versions
          BY <3>3, <4>2, ReadingDoes
        <5> QED
          BY <1>1, <2>2, <5>1 DEF Mine
      <4> QED
        BY <4>1, <4>2
    <3> QED
      BY <3>2, <3>3
  <2> QED
    BY <2>1, <2>2
<1> QED
  BY <1>1 DEF Mine
-------------------------------------------------------------------------------
(* The book of a row is a book, and both are among its rows. *)
LEMMA BookRows ==
  ASSUME NEW r \in Record, InReader(r)
  PROVE  /\ BookOf[r] \in Record /\ Kind[BookOf[r]] = "book"
         /\ BookOf[BookOf[r]] = BookOf[r]
         /\ r \in RowsOf(BookOf[r]) /\ BookOf[r] \in RowsOf(BookOf[r])
BY SyncAssumption DEF InReader, RowsOf

(* A write takes a book off the shelf with its rows, and brings it there    *)
(* with its rows.                                                           *)
LEMMA ShelfWritten ==
  ASSUME Holds, NEW d \in Device, Writing(d)
  PROVE  \E R \in SUBSET Record, deleted \in BOOLEAN, at \in Nat :
           /\ Wrote(d, R, deleted, at) /\ Changes' = Changes
           /\ \A r \in Record : (InReader(r) /\ OnShelf(d, BookOf[r])') =>
                IF r \in R THEN ~deleted ELSE OnShelf(d, BookOf[r])
<1>1. PICK R \in SUBSET Record, deleted \in BOOLEAN, at \in Now :
        /\ Write(d, R, deleted, at)
        /\ \/ \E x \in Record : /\ R = {x} /\ ~deleted
                                /\ Kind[x] # "tag" => OnShelf(d, BookOf[x])
           \/ \E x \in Record : R = {x} /\ Kind[x] \in {"tag", "capture"}
           \/ \E b \in Record : R = RowsOf(b) /\ Kind[b] = "book"
  BY RowsOfType
  DEF Writing, UserStep, Edit, Erase, AddBook, RemoveBook, UserWrites, Download, Remote
<1>2. at \in Nat /\ Wrote(d, R, deleted, at)
  BY <1>1, NowIsNext, WriteRows DEF Holds, Inv
<1>3. Changes' = Changes
  BY <1>1, <1>2, WritingRun, WriteStamps DEF Holds
<1>4. ASSUME NEW r \in Record, InReader(r), OnShelf(d, BookOf[r])'
      PROVE  IF r \in R THEN ~deleted ELSE OnShelf(d, BookOf[r])
  <2>1. /\ BookOf[r] \in Record /\ Kind[BookOf[r]] = "book"
        /\ BookOf[BookOf[r]] = BookOf[r]
        /\ r \in RowsOf(BookOf[r]) /\ BookOf[r] \in RowsOf(BookOf[r])
    BY <1>4, BookRows
  <2>2. /\ BookOf[r] \notin R => OnShelf(d, BookOf[r])
        /\ BookOf[r] \in R => ~deleted
    BY <1>2, <1>4, <2>1 DEF Wrote, OnShelf
  <2>3. ASSUME NEW x \in Record, R = {x}, ~deleted,
               Kind[x] # "tag" => OnShelf(d, BookOf[x])
        PROVE  IF r \in R THEN ~deleted ELSE OnShelf(d, BookOf[r])
    BY <2>1, <2>2, <2>3
  <2>4. ASSUME NEW x \in Record, R = {x}, Kind[x] \in {"tag", "capture"}
        PROVE  IF r \in R THEN ~deleted ELSE OnShelf(d, BookOf[r])
    BY <1>4, <2>1, <2>2, <2>4 DEF InReader
  <2>5. ASSUME NEW b \in Record, R = RowsOf(b), Kind[b] = "book"
        PROVE  IF r \in R THEN ~deleted ELSE OnShelf(d, BookOf[r])
    BY <2>1, <2>2, <2>5 DEF RowsOf
  <2> QED
    BY <1>1, <2>3, <2>4, <2>5
<1> QED
  BY <1>2, <1>3, <1>4

(* An applied change writes what it touches. *)
LEMMA ApplyWrites ==
  ASSUME Holds, NEW d \in Device, NEW c \in run[d].todo, Apply(d, c)
  PROVE  \A r \in Record :
           data'[d][r] = IF r \in Touches(d, c) THEN c.data ELSE data[d][r]
<1> DEFINE content == [r \in Record |-> IF r \in Touches(d, c) THEN c.data ELSE data[d][r]]
<1>1. data' = [data EXCEPT ![d] = content]
  BY DEF Apply
<1>2. data'[d] = content
  BY <1>1 DEF Holds, Inv, TypeOK
<1> QED
  BY <1>2

(* What it leaves of the rows that are on the shelf: a row whose book stays *)
(* has the content of the change, unless the change removes it.             *)
LEMMA ShelfApplied ==
  ASSUME Holds, NEW d \in Device, NEW c \in run[d].todo, Apply(d, c),
         NEW r \in Record, Standing(d, r)'
  PROVE  /\ Standing(d, r)
         /\ r # c.record => data'[d][r] = data[d][r]
         /\ r = c.record => \/ data'[d][r] = c.data /\ (InReader(r) => c.data # Absent)
                            \/ /\ InReader(r) /\ c.data = Absent
                               /\ data'[d][r] = data[d][r]
<1>1. \A x \in Record : data'[d][x] = IF x \in Touches(d, c) THEN c.data ELSE data[d][x]
  BY ApplyWrites
<1>2. CASE Kind[r] = "capture"
  <2>1. r \in Touches(d, c) <=> r = c.record
    BY <1>2 DEF Touches, RowsOf
  <2> QED
    BY <1>1, <1>2, <2>1 DEF Standing, InReader
<1>3. CASE InReader(r) /\ OnShelf(d, BookOf[r])'
  <2>1. /\ BookOf[r] \in Record /\ Kind[BookOf[r]] = "book"
        /\ BookOf[BookOf[r]] = BookOf[r]
        /\ r \in RowsOf(BookOf[r]) /\ BookOf[r] \in RowsOf(BookOf[r])
    BY <1>3, BookRows
  <2>2. data'[d][BookOf[r]] # Absent
    BY <1>3 DEF OnShelf
  <2>3. CASE c.data = Absent
    <3>1. BookOf[r] \notin Touches(d, c) /\ data[d][BookOf[r]] # Absent
      BY <1>1, <2>1, <2>2, <2>3
    <3>2. r \notin Touches(d, c)
      BY <1>3, <2>1, <2>3, <3>1 DEF Touches, RowsOf, InReader
    <3> QED
      BY <1>1, <1>3, <2>3, <3>1, <3>2 DEF Standing, OnShelf
  <2>4. CASE c.data # Absent
    <3>1. Touches(d, c) = {c.record}
      BY <2>4 DEF Touches
    <3>2. InReader(c.record) => OnShelf(d, BookOf[c.record])
      BY <2>4 DEF Apply, NotReady, InReader
    <3>3. OnShelf(d, BookOf[r])
      <4>1. CASE BookOf[r] = c.record
        BY <2>1, <3>2, <4>1 DEF InReader
      <4>2. CASE BookOf[r] # c.record
        BY <1>1, <2>1, <2>2, <3>1, <4>2 DEF OnShelf
      <4> QED
        BY <4>1, <4>2
    <3> QED
      BY <1>1, <1>3, <2>4, <3>1, <3>3 DEF Standing
  <2> QED
    BY <2>3, <2>4
<1> QED
  BY <1>2, <1>3 DEF Standing
-------------------------------------------------------------------------------
(* What a step that writes no record has in memory was there, or is loaded. *)
LEMMA LeftChanges ==
  ASSUME Holds, NEW d \in Device, Acts(d), ~Writing(d), RoundsPlain
  PROVE  /\ \E next : Moves(d, next)
         /\ run'[d].todo \cup run'[d].batch \subseteq Changes \cup Loaded(d)
<1>0. /\ run[d].todo \cup run[d].batch \cup held[d] \cup Logged \subseteq Changes
      /\ run[d] \in Run
  BY ChangeMembers DEF Holds, Inv, TypeOK
<1>1. \E next : Moves(d, next)
  BY FreshMoves, LoadMoves, SendMoves, SettleMoves, ReadMoves, ReconcileMoves, ReleaseMoves
  DEF Acts, Fresh, Asides, Holds
<1>2. CASE Fresh(d)
  BY <1>1, <1>2, FreshDoes
<1>3. CASE Load(d)
  <2> DEFINE todo == {ChangeFor(d, m) : m \in {k \in run[d].markers : ~Waits(d, k)}}
  <2>1. run'[d] = Sending(d, todo) /\ todo \subseteq Loaded(d)
    BY <1>3, LoadDoes DEF Loaded
  <2> HIDE DEF todo
  <2>2. run'[d].todo = todo /\ run'[d].batch = {}
    BY <2>1, SendingDoes
  <2> QED
    BY <1>1, <2>1, <2>2
<1>4. CASE Send(d) \/ Settle(d)
  BY <1>0, <1>1, <1>4, SendDoes, SettleDoes
<1>5. CASE Fetch(d)
  <2>1. /\ run'[d].todo = Winners(PageUpTo(d, run'[d].next))
        /\ run'[d].next \in Nat /\ run'[d].next <= Len(log)
    BY <1>5, FetchDoes DEF RoundsPlain, Plain
  <2>2. PageUpTo(d, run'[d].next) \subseteq Logged
    BY <2>1, PageLogged DEF Holds, Inv
  <2>3. run'[d].batch = run[d].batch
    <3> DEFINE last == IF cursor[d] + PageSize < Len(log)
                       THEN cursor[d] + PageSize ELSE Len(log)
               todo == Winners(PageUpTo(d, last))
               more == Len(log) > last
    <3>1. run'[d] = [run[d] EXCEPT !.step = "states", !.todo = todo,
                                   !.next = last, !.more = more]
      BY <1>5 DEF Fetch, Become, Holds, Inv, TypeOK
    <3> HIDE DEF last, todo, more
    <3> QED
      BY <1>0, <3>1 DEF Run
  <2> QED
    BY <1>0, <1>1, <2>1, <2>2, <2>3 DEF Winners
<1>6. CASE ReadStates(d)
  BY <1>0, <1>1, <1>6, StatesDoes
<1>7. CASE ListBooks(d)
  <2>1. run'[d].batch = run[d].batch
    <3> DEFINE todo == IF run[d].stage = "pull" THEN run[d].todo ELSE held[d]
    <3>1. run'[d] = [run[d] EXCEPT !.step = "apply", !.shelf = Shelf(d), !.todo = todo]
      BY <1>7 DEF ListBooks, Become, Holds, Inv, TypeOK
    <3> HIDE DEF todo
    <3> QED
      BY <1>0, <3>1 DEF Run
  <2> QED
    BY <1>0, <1>1, <1>7, <2>1, BooksDoes
<1>8. CASE Release(d)
  <2>1. run'[d] = [run[d] EXCEPT !.step = "apply", !.batch = {}]
    BY <1>8 DEF Release, Become, Holds, Inv, TypeOK
  <2>2. run'[d].batch = {}
    BY <1>0, <2>1 DEF Run
  <2> QED
    BY <1>0, <1>1, <1>8, <2>2, ReleaseDoes
<1>9. ASSUME NEW c \in run[d].todo, Asides(d, c) \/ Apply(d, c)
      PROVE  run'[d].todo \cup run'[d].batch \subseteq Changes \cup Loaded(d)
  <2>1. CASE Asides(d, c)
    BY <1>0, <2>1, AsideDoes
  <2>2. CASE Apply(d, c)
    <3>1. run'[d].todo = run[d].todo \ {c} /\ run'[d].batch \subseteq {c}
      BY <1>0, <2>2, ApplyDoes
    <3> QED
      BY <1>0, <3>1
  <2> QED
    BY <1>9, <2>1, <2>2
<1> QED
  BY <1>1, <1>2, <1>3, <1>4, <1>5, <1>6, <1>7, <1>8, <1>9 DEF Acts

(* A change made of a marker has what the device has. *)
LEMMA RowsMoved ==
  ASSUME NEW d \in Device, Stepping(d), ~Writing(d), NEW e \in Device, RowsCurrent(e),
         \A m \in outbox'[e] : Standing(e, m.record)' =>
           Standing(e, m.record) /\ data'[e][m.record] = data[e][m.record]
  PROVE  RowsCurrent(e)'
<1>0. Holds /\ Acts(d) /\ RoundsPlain
  BY DEF Stepping
<1>1. (\E next : Moves(d, next)) /\ Changes' \subseteq Changes \cup Loaded(d)
  BY <1>0, LeftChanges, MovesChanges DEF Holds
<1>2. ASSUME NEW m \in outbox'[e], Standing(e, m.record)'
      PROVE  /\ m \in outbox[e]
             /\ data'[e][m.record] = data[e][m.record]
             /\ m.deleted => data[e][m.record] = Absent
             /\ \A c \in Changes :
                  (c.record = m.record /\ c.id = m.id) => c.data = data[e][m.record]
  BY <1>0, <1>1, <1>2, MovesFrame DEF Holds, RowsCurrent
<1>3. ASSUME NEW m \in outbox'[e], Standing(e, m.record)',
             NEW c \in Loaded(d), c.record = m.record, c.id = m.id
      PROVE  c.data = data[e][m.record]
  <2>1. PICK k \in run[d].markers : c = ChangeFor(d, k)
    BY DEF Loaded
  <2>2. k.record = m.record /\ k.id = m.id
    BY <1>3, <2>1 DEF ChangeFor
  <2> DEFINE x == [record |-> k.record, id |-> k.id, at |-> k.at, device |-> d]
             y == [record |-> m.record, id |-> m.id, at |-> m.at, device |-> e]
  <2>3. x \in Stamps /\ y \in Stamps
    <3>1. x \in Marks(d) /\ y \in Marks(e)
      BY <1>2, <1>3 DEF Marks
    <3> QED
      BY <3>1, StampMembers
  <2>4. x = y
    BY <1>0, <2>2, <2>3 DEF Holds, Inv, StampsAgree
  <2>5. e = d
    BY <2>4
  <2>6. k = m
    BY <1>0, <1>2, <1>3, <2>2, <2>5 DEF Holds, Contents, RunsFit, RunFits, MarkersRead
  <2>7. c.data = IF m.deleted THEN Absent ELSE data[d][m.record]
    BY <2>1, <2>6 DEF ChangeFor
  <2> QED
    BY <1>2, <1>3, <2>5, <2>7
<1> QED
  BY <1>1, <1>2, <1>3 DEF RowsCurrent
-------------------------------------------------------------------------------
(* A write leaves a book whole, and a marker of what it wrote. *)
LEMMA RowsWritten ==
  ASSUME NEW d \in Device, Stepping(d), Writing(d),
         Whole(d), RowsCurrent(d), RowMatches(d)
  PROVE  Whole(d)' /\ RowsCurrent(d)' /\ RowMatches(d)'
<1>0. Holds /\ writes \in Nat
  BY DEF Stepping, Holds, Inv, TypeOK
<1>1. PICK R \in SUBSET Record, deleted \in BOOLEAN, at \in Nat :
        /\ Wrote(d, R, deleted, at) /\ Changes' = Changes
        /\ \A r \in Record : (InReader(r) /\ OnShelf(d, BookOf[r])') =>
             IF r \in R THEN ~deleted ELSE OnShelf(d, BookOf[r])
  BY <1>0, ShelfWritten
<1>2. /\ \A r \in Record : data'[d][r] = IF r \notin R THEN data[d][r]
                                         ELSE IF deleted THEN Absent ELSE writes + 1
      /\ Logged' = Logged /\ versions' = versions
  BY <1>1 DEF Wrote
<1>3. \A r \in Record : (Standing(d, r)' /\ r \notin R) => Standing(d, r)
  BY <1>1 DEF Standing
<1>4. Whole(d)'
  <2>1. ASSUME NEW r \in Record, InReader(r), OnShelf(d, BookOf[r])'
        PROVE  data'[d][r] # Absent
    <3>1. CASE r \in R
      BY <1>0, <1>1, <1>2, <2>1, <3>1 DEF Absent
    <3>2. CASE r \notin R
      BY <1>1, <1>2, <2>1, <3>2 DEF Whole
    <3> QED
      BY <3>1, <3>2
  <2> QED
    BY <2>1 DEF Whole
<1>5. RowsCurrent(d)'
  <2>1. ASSUME NEW m \in outbox'[d], Standing(d, m.record)'
        PROVE  /\ m.deleted => data'[d][m.record] = Absent
               /\ \A c \in Changes : (c.record = m.record /\ c.id = m.id)
                                       => c.data = data'[d][m.record]
    <3>0. \/ m \in outbox[d] /\ m.record \notin R
          \/ m.record \in R /\ m.id = writes + 1 /\ m.deleted = deleted
      BY <1>1, <2>1 DEF Wrote
    <3>1. CASE m \in outbox[d] /\ m.record \notin R
      <4>1. m.record \in Record
        BY <1>0, <3>1 DEF Holds, Inv, TypeOK, Marker
      <4> QED
        BY <1>2, <1>3, <2>1, <3>1, <4>1 DEF RowsCurrent
    <3>2. CASE m.record \in R /\ m.id = writes + 1 /\ m.deleted = deleted
      <4>1. m.deleted => data'[d][m.record] = Absent
        BY <1>1, <1>2, <3>2
      <4>2. ASSUME NEW c \in Changes PROVE c.id # m.id
        <5>1. StampOf(c) \in Stamps /\ StampOf(c).id = c.id /\ c \in Change
          BY <1>0, StampMembers, StampType DEF StampOf, Holds, Inv
        <5>2. c.id <= writes /\ c.id \in Nat
          BY <1>0, <5>1 DEF Holds, Inv, StampsAgree, Change
        <5> QED
          BY <1>0, <3>2, <5>2
      <4> QED
        BY <4>1, <4>2
    <3> QED
      BY <3>0, <3>1, <3>2
  <2> QED
    BY <1>1, <2>1 DEF RowsCurrent
<1>6. RowMatches(d)'
  <2>1. ASSUME NEW r \in Record, Standing(d, r)', Of(outbox'[d], r) = {}
        PROVE  Standing(d, r) /\ Of(outbox[d], r) = {} /\ data'[d][r] = data[d][r]
    <3>1. r \notin R
      BY <1>1, <2>1 DEF Wrote, Of
    <3>2. Of(outbox[d], r) = {}
      BY <1>1, <2>1, <3>1 DEF Wrote, Of
    <3> QED
      BY <1>2, <1>3, <2>1, <3>1, <3>2
  <2> QED
    BY <1>2, <2>1 DEF RowMatches
<1> QED
  BY <1>4, <1>5, <1>6

(* A marker that is settled leaves the version of what the device has. *)
LEMMA RowsSettled ==
  ASSUME NEW d \in Device, Stepping(d), Settle(d), RowsCurrent(d), RowMatches(d)
  PROVE  RowMatches(d)'
<1>0. Holds /\ NoSkew
  BY DEF Stepping
<1> DEFINE part == SettleNext(run[d].batch)
<1>1. /\ part \subseteq run[d].batch /\ OneRowEach(part)
      /\ outbox'[d] = SettledOutbox(outbox[d], part)
      /\ versions'[d] = SettledVersions(versions[d], part)
      /\ run[d].stage = "push" /\ run[d].step = "settle"
  BY <1>0, SettleDoes
<1> HIDE DEF part
<1>2. data' = data /\ Logged' = Logged
  BY DEF Settle, Logged
<1>3. PushFits(d, run[d], outbox[d], Logged)
  BY <1>0 DEF Holds, Contents, RunsFit, RunFits
<1>4. \A m \in outbox[d] :
        m \in outbox'[d] <=> ~\E c \in part : c.record = m.record /\ c.id = m.id
  BY <1>1 DEF SettledOutbox
<1>5. /\ \A c \in part : (\A v \in Of(versions[d], c.record) : IsLaterVersion(c, v))
           => VersionOf(c) \in versions'[d]
      /\ \A r : (\A c \in part : c.record # r) => Of(versions'[d], r) = Of(versions[d], r)
  BY <1>1, SettledVersionsRise
<1>6. ASSUME NEW r \in Record, Standing(d, r)', Of(outbox'[d], r) = {}
      PROVE  IF Of(versions'[d], r) = {} THEN data'[d][r] = Absent
             ELSE \E c \in Logged' :
                    /\ VersionOf(c) \in Of(versions'[d], r)
                    /\ \/ data'[d][r] = c.data
                       \/ InReader(r) /\ c.data = Absent /\ c.device # d
  <2>0. Standing(d, r)
    BY <1>2, <1>6 DEF Standing, OnShelf
  <2>1. CASE Of(outbox[d], r) = {}
    <3>1. \A c \in part : c.record # r
      BY <1>1, <1>3, <2>1 DEF PushFits, Of
    <3>2. Of(versions'[d], r) = Of(versions[d], r)
      BY <1>5, <3>1
    <3> QED
      BY <1>2, <2>0, <2>1, <3>2 DEF RowMatches
  <2>2. ASSUME NEW m \in outbox[d], m.record = r
        PROVE  \E c \in Logged' : /\ VersionOf(c) \in Of(versions'[d], r)
                                  /\ data'[d][r] = c.data
    <3>1. PICK c \in part : c.record = r /\ c.id = m.id
      BY <1>4, <1>6, <2>2 DEF Of
    <3>2. PICK f \in Logged : f.record = r /\ f.id = m.id
      BY <1>1, <1>3, <3>1 DEF PushFits
    <3>3. c \in Changes /\ f \in Changes
      BY <1>1, <3>2, ChangeMembers
    <3>4. c.at = m.at /\ c.device = d /\ f.at = m.at /\ f.device = d
      BY <1>0, <2>2, <3>1, <3>2, <3>3, SameStamp
    <3>5. VersionOf(f) = VersionOf(c) /\ VersionOf(c).record = r
      BY <3>1, <3>2, <3>4 DEF VersionOf
    <3>6. \A v \in Of(versions[d], r) : IsLaterVersion(c, v)
      <4>1. \A v \in Of(versions[d], r) : v.at < m.at
        BY <1>0, <2>2 DEF Holds, Contents, InTime
      <4>2. m.at \in Nat /\ \A v \in versions[d] : v.at \in Nat
        BY <1>0 DEF Holds, Inv, TypeOK, Marker, Version
      <4> QED
        BY <3>4, <4>1, <4>2 DEF IsLaterVersion, Of
    <3>7. VersionOf(f) \in Of(versions'[d], r)
      BY <1>5, <3>1, <3>5, <3>6 DEF Of
    <3>8. f.data = data[d][r]
      BY <2>0, <2>2, <3>2, <3>3 DEF RowsCurrent
    <3> QED
      BY <1>2, <3>2, <3>7, <3>8
  <2> QED
    BY <2>1, <2>2 DEF Of
<1> QED
  BY <1>6 DEF RowMatches

(* An applied change of another device leaves its version and its content,  *)
(* or, when it removes a row of a book that is there, its version.          *)
LEMMA RowsApplied ==
  ASSUME NEW d \in Device, Stepping(d), NEW k \in run[d].todo, Apply(d, k),
         Mine(d), Whole(d), RowsCurrent(d), RowMatches(d)
  PROVE  Whole(d)' /\ RowsCurrent(d)' /\ RowMatches(d)'
<1>0. Holds
  BY DEF Stepping
<1>1. /\ outbox'[d] = Without(outbox[d], {k.record}) /\ Logged' = Logged
      /\ versions'[d] = Put(versions[d], VersionOf(k))
  BY <1>0, ApplyDoes
<1>2. k \in Logged /\ k.device # d
  BY AppliedForeign
<1>3. \A r \in Record : Standing(d, r)' =>
        /\ Standing(d, r)
        /\ r # k.record => data'[d][r] = data[d][r]
        /\ r = k.record => \/ data'[d][r] = k.data /\ (InReader(r) => k.data # Absent)
                           \/ /\ InReader(r) /\ k.data = Absent
                              /\ data'[d][r] = data[d][r]
  BY <1>0, ShelfApplied
<1>4. Whole(d)'
  <2>1. ASSUME NEW r \in Record, InReader(r), OnShelf(d, BookOf[r])'
        PROVE  data'[d][r] # Absent
    <3>1. Standing(d, r)' /\ Kind[r] # "capture"
      BY <2>1 DEF Standing, InReader
    <3>2. Standing(d, r)
      BY <1>3, <3>1
    <3>3. data[d][r] # Absent
      BY <2>1, <3>1, <3>2 DEF Whole, Standing
    <3> QED
      BY <1>3, <2>1, <3>1, <3>3
  <2> QED
    BY <2>1 DEF Whole
<1>5. RowsCurrent(d)'
  <2>1. ~Writing(d)
    <3>1. ASSUME Writing(d) PROVE FALSE
      <4>1. UNCHANGED run[d].todo
        BY <1>0, <3>1, WritingRun
      <4>2. run'[d].todo = run[d].todo \ {k}
        BY <1>0, ApplyDoes
      <4> QED
        BY <4>1, <4>2
    <3> QED
      BY <3>1
  <2>2. ASSUME NEW m \in outbox'[d], Standing(d, m.record)'
        PROVE  Standing(d, m.record) /\ data'[d][m.record] = data[d][m.record]
    <3>1. m \in outbox[d] /\ m.record # k.record
      BY <1>1 DEF Without
    <3>2. m.record \in Record
      BY <1>0, <3>1 DEF Holds, Inv, TypeOK, Marker
    <3> QED
      BY <1>3, <2>2, <3>1, <3>2
  <2> QED
    BY <2>1, <2>2, RowsMoved
<1>6. RowMatches(d)'
  <2>1. ASSUME NEW r \in Record, Standing(d, r)', Of(outbox'[d], r) = {}
        PROVE  IF Of(versions'[d], r) = {} THEN data'[d][r] = Absent
               ELSE \E c \in Logged' :
                      /\ VersionOf(c) \in Of(versions'[d], r)
                      /\ \/ data'[d][r] = c.data
                         \/ InReader(r) /\ c.data = Absent /\ c.device # d
    <3>1. CASE r = k.record
      <4>1. VersionOf(k) \in Of(versions'[d], r)
        BY <1>1, <3>1 DEF Put, Of, VersionOf
      <4> QED
        BY <1>1, <1>2, <1>3, <2>1, <3>1, <4>1
    <3>2. CASE r # k.record
      <4>1. Of(versions'[d], r) = Of(versions[d], r) /\ Of(outbox[d], r) = {}
        BY <1>1, <2>1, <3>2 DEF Put, Without, Of, VersionOf
      <4> QED
        BY <1>1, <1>3, <2>1, <3>2, <4>1 DEF RowMatches
    <3> QED
      BY <3>1, <3>2
  <2> QED
    BY <2>1 DEF RowMatches
<1> QED
  BY <1>4, <1>5, <1>6

(* The rows of a device over a step of any device. *)
LEMMA RowsStep ==
  ASSUME NEW d \in Device, Stepping(d), NEW e \in Device, RowsKept(e)
  PROVE  RowsKept(e)'
<1>0. Holds /\ Acts(d) /\ Whole(e) /\ RowsCurrent(e) /\ RowMatches(e) /\ Mine(e)
  BY DEF Stepping, RowsKept
<1>1. Mine(e)'
  BY <1>0, MineStep
<1>2. CASE e = d /\ Writing(d)
  BY <1>0, <1>1, <1>2, RowsWritten DEF RowsKept
<1>3. ASSUME e = d, NEW k \in run[d].todo, Apply(d, k) PROVE RowsKept(e)'
  BY <1>0, <1>1, <1>3, RowsApplied DEF RowsKept
<1>4. CASE ~(e = d /\ (Writing(d) \/ \E k \in run[d].todo : Apply(d, k)))
  <2>1. data'[e] = data[e] /\ Logged \subseteq Logged'
    <3>1. Logged \subseteq Logged'
      BY <1>0, LogGrows
    <3>2. CASE e # d /\ Writing(d)
      <4>1. \E R \in SUBSET Record, deleted \in BOOLEAN, at \in Nat :
              Wrote(d, R, deleted, at)
        BY <1>0, <3>2, ShelfWritten
      <4> QED
        BY <3>1, <3>2, <4>1 DEF Wrote
    <3>3. ASSUME e # d, NEW k \in run[d].todo, Apply(d, k) PROVE data'[e] = data[e]
      <4>1. \A f \in Device \ {d} : /\ outbox'[f] = outbox[f] /\ versions'[f] = versions[f]
                                    /\ data'[f] = data[f]
        BY <1>0, <3>3, ApplyDoes
      <4> QED
        BY <3>3, <4>1
    <3>4. CASE ~Writing(d) /\ ~\E k \in run[d].todo : Apply(d, k)
      <4>1. data' = data
        BY <1>0, <3>4
        DEF Acts, Fresh, StartSync, StartDownload, Fail, EndRound, SaveCursor,
            DownloadsDone, Load, Send, Settle, Fetch, ReadStates, ListBooks, Release,
            Asides, Drop, Hold, local
      <4> QED
        BY <3>1, <4>1
    <3> QED
      BY <1>4, <3>1, <3>2, <3>3, <3>4
  <2>2. \A r : Standing(e, r)' <=> Standing(e, r)
    BY <2>1 DEF Standing, OnShelf
  <2>3. Whole(e)'
    BY <1>0, <2>1 DEF Whole, OnShelf
  <2>4. RowsCurrent(e)'
    <3>1. CASE Writing(d)
      <4>1. outbox'[e] = outbox[e] /\ Changes' = Changes
        BY <1>0, <1>4, <3>1, Elsewhere, ShelfWritten
      <4> QED
        BY <1>0, <2>1, <2>2, <4>1 DEF RowsCurrent
    <3>2. CASE ~Writing(d)
      BY <1>0, <2>1, <2>2, <3>2, RowsMoved
    <3> QED
      BY <3>1, <3>2
  <2>5. RowMatches(e)'
    <3>1. CASE e = d /\ Settle(d)
      BY <1>0, <3>1, RowsSettled
    <3>2. CASE outbox'[e] = outbox[e] /\ versions'[e] = versions[e]
      BY <1>0, <2>1, <2>2, <3>2 DEF RowMatches
    <3>3. CASE e = d /\ ~Settle(d)
      BY <1>0, <1>4, <3>2, <3>3, FreshDoes, LoadDoes, SendDoes, ReleaseDoes, AsideDoes
      DEF Acts, Fetch, ReadStates, ListBooks, local
    <3>4. CASE e # d
      BY <1>0, <3>2, <3>4, Elsewhere
    <3> QED
      BY <3>1, <3>3, <3>4
  <2> QED
    BY <1>1, <2>3, <2>4, <2>5 DEF RowsKept
<1> QED
  BY <1>2, <1>3, <1>4
-------------------------------------------------------------------------------
(* The invariant holds at first, and over every step. *)
LEMMA ShelvingInit == Init => Shelving
<1> SUFFICES ASSUME Init PROVE Shelving
  OBVIOUS
<1>1. \A d \in Device : /\ outbox[d] = {} /\ versions[d] = {}
                        /\ data[d] = [r \in Record |-> Absent]
  BY DEF Init
<1>2. Logged = {}
  BY DEF Init, Logged
<1>3. \A d \in Device, r \in Record : data[d][r] = Absent
  BY <1>1
<1>4. ASSUME NEW d \in Device PROVE RowsKept(d)
  <2>1. Whole(d)
    BY <1>3, BookRows DEF Whole, OnShelf
  <2>2. RowsCurrent(d) /\ Mine(d)
    BY <1>1, <1>2 DEF RowsCurrent, Mine
  <2>3. RowMatches(d)
    BY <1>1, <1>3 DEF RowMatches, Of
  <2> QED
    BY <2>1, <2>2, <2>3 DEF RowsKept
<1> QED
  BY <1>4, OrderingInit DEF Shelving

LEMMA ShelvingStep == Shelving /\ [Next]_vars => Shelving'
<1> SUFFICES ASSUME Shelving, [Next]_vars PROVE Shelving'
  OBVIOUS
<1>1. Ordering /\ Ordering'
  BY OrderingStep DEF Shelving
<1>2. ASSUME NoSkew, NEW e \in Device PROVE RowsKept(e)'
  <2>0. RowsKept(e)
    BY <1>2 DEF Shelving
  <2>1. CASE UNCHANGED vars
    <3>1. UNCHANGED <<log, data, outbox, versions, held, run>>
      BY <2>1 DEF vars
    <3>2. Logged' = Logged
      BY <3>1 DEF Logged
    <3>3. Changes' = Changes /\ Reading(e)' = Reading(e)
          /\ \A r : Standing(e, r)' = Standing(e, r)
      BY <3>1, <3>2 DEF Changes, Reading, Standing, OnShelf
    <3>4. Whole(e)' /\ RowsCurrent(e)' /\ RowMatches(e)' /\ Mine(e)'
      BY <2>0, <3>1, <3>2, <3>3 DEF RowsKept, Whole, OnShelf, RowsCurrent, RowMatches, Mine
    <3> QED
      BY <3>4 DEF RowsKept
  <2>2. CASE Next
    <3>1. PICK d \in Device : Acts(d)
      BY <2>2, ActsCover
    <3>2. Stepping(d)
      BY <1>1, <1>2, <3>1 DEF Stepping, Ordering, Converging
    <3> QED
      BY <2>0, <3>2, RowsStep
  <2> QED
    BY <2>1, <2>2
<1>3. NoSkew' = NoSkew
  BY DEF NoSkew
<1> QED
  BY <1>1, <1>2, <1>3 DEF Shelving

LEMMA ShelfInvariance == Spec => []Shelving
BY ShelvingInit, ShelvingStep, PTL DEF Spec

(* A quiet device has, of a record it can read that was stored in order and *)
(* of which it keeps nothing aside, a version as late as every change.      *)
LEMMA QuietInOrder ==
  ASSUME Shelving, NoSkew, NEW d \in Device, Quiet(d), NEW r \in Record,
         InOrder(r), Reads(d, r), Of(held[d], r) = {}, NEW c \in Logged, c.record = r
  PROVE  Superseded(versions[d], c)
<1>0. Holds /\ PassedOrdered(d) /\ Mine(d)
  BY DEF Shelving, Ordering, OrderKept, Converging, RowsKept
<1>1. \A f \in Logged : ~Outdone(d, outbox[d], f)
  BY DEF Outdone, Of, Quiet
<1>2. c \in Passed(d)
  <2>1. DOMAIN log = 1 .. cursor[d]
    BY <1>0, LenProperties DEF Quiet, Holds, Inv, TypeOK
  <2> QED
    BY <2>1 DEF Passed, Logged
<1>3. Superseded(versions[d], c) \/ Unread(d, c)
  <2>1. Known(d, c)
    BY <1>0, <1>2 DEF PassedOrdered
  <2> QED
    BY <1>1, <2>1 DEF Known, KeptAside, Reached, Accounted
<1>4. CASE Unread(d, c)
  <2>1. PICK f \in Logged : f.record = c.record /\ ~Legible(d, f) /\ ~Beats(c, f)
    BY <1>4 DEF Unread
  <2>2. f.device = d
    BY <2>1 DEF Reads
  <2>3. Superseded(versions[d], f)
    BY <1>0, <1>1, <2>2 DEF Mine
  <2>4. Timed(c) /\ Timed(f)
    BY <1>0, LoggedTimed
  <2>5. ~IsLaterVersion(c, f)
    BY <2>1, <2>4, BeatsLater
  <2>6. \A v \in versions[d] : Dated(v)
    BY <1>0, VersionDated
  <2> QED
    BY <2>1, <2>3, <2>4, <2>5, <2>6, SupersededBy DEF Timed
<1> QED
  BY <1>3, <1>4

(* Such a version is of the one change of the record none beats. *)
LEMMA LastOfRecord ==
  ASSUME Holds, NEW d \in Device, NEW r \in Record, NEW c \in Logged,
         VersionOf(c) \in Of(versions[d], r),
         \A o \in Logged : o.record = r => Superseded(versions[d], o)
  PROVE  c.record = r /\ \A o \in Logged : o.record = r => ~Beats(o, c)
<1>1. c.record = r /\ \A v \in Of(versions[d], r) : v = VersionOf(c)
  BY DEF Of, VersionOf, Holds, Inv, TypeOK, OneRowEach
<1>2. ASSUME NEW o \in Logged, o.record = r, Beats(o, c)
      PROVE  FALSE
  <2>1. ~IsLaterVersion(o, VersionOf(c))
    BY <1>1, <1>2 DEF Superseded
  <2>2. ~IsLaterVersion(o, c)
    BY <2>1 DEF IsLaterVersion, VersionOf
  <2>3. Timed(o) /\ Timed(c) /\ StampOf(o) \in Stamps /\ StampOf(c) \in Stamps
    BY LoggedTimed
  <2>4. o.at = c.at /\ o.device = c.device /\ o.id > c.id
    BY <1>2, <2>2, <2>3 DEF Beats, IsLaterVersion, Timed, Dated
  <2>5. StampOf(o).id = StampOf(c).id
    <3>1. StampOf(o).at = StampOf(c).at /\ StampOf(o).device = StampOf(c).device
      BY <2>4 DEF StampOf
    <3> QED
      BY <2>3, <3>1 DEF Holds, Contents, StampsTimed
  <2> QED
    BY <2>3, <2>4, <2>5 DEF StampOf, Timed
<1> QED
  BY <1>1, <1>2

(* Two devices with nothing to push, that have read the whole log and have  *)
(* the book, have the same rows of it, and the same captures, when nothing  *)
(* of them is kept aside and the server stored their changes in the order   *)
(* they were made in, but for a row of the book that a third device removed *)
(* last (applyChange, applyHeldChanges, settleBatch).                       *)
THEOREM SameRows == Spec => []SameRowsWhenQuiet
<1>1. Shelving => SameRowsWhenQuiet
  <2> SUFFICES ASSUME Shelving, NoSkew, NEW d \in Device, NEW e \in Device,
                      NEW r \in Record, Quiet(d), Quiet(e), Kind[r] # "tag", InOrder(r),
                      Reads(d, r), Reads(e, r), ~RemovedElsewhere(r, d, e),
                      OnShelf(d, BookOf[r]), OnShelf(e, BookOf[r]),
                      Of(held[d], r) = {}, Of(held[e], r) = {}
               PROVE  data[d][r] = data[e][r]
    BY DEF SameRowsWhenQuiet
  <2>0. Holds /\ (Kind[r] = "capture" \/ InReader(r))
    BY SyncAssumption DEF Shelving, Ordering, Converging, InReader, Kinds
  <2>1. ASSUME NEW f \in {d, e}
        PROVE  /\ f \in Device
               /\ \A c \in Logged : c.record = r => Superseded(versions[f], c)
               /\ InReader(r) => data[f][r] # Absent
               /\ Of(versions[f], r) = {} => data[f][r] = Absent
               /\ Of(versions[f], r) # {} =>
                    \E c \in Logged :
                      /\ VersionOf(c) \in Of(versions[f], r)
                      /\ data[f][r] = c.data
                         \/ (InReader(r) /\ c.data = Absent /\ c.device # f)
    <3>1. /\ f \in Device /\ Quiet(f) /\ Reads(f, r) /\ OnShelf(f, BookOf[r])
          /\ Of(held[f], r) = {}
      BY <2>1
    <3>2. Whole(f) /\ RowMatches(f)
      BY <3>1 DEF Shelving, RowsKept
    <3>3. Of(outbox[f], r) = {} /\ Standing(f, r)
      BY <2>0, <3>1 DEF Quiet, Of, Standing
    <3>4. /\ Of(versions[f], r) = {} => data[f][r] = Absent
          /\ Of(versions[f], r) # {} =>
               \E c \in Logged :
                 /\ VersionOf(c) \in Of(versions[f], r)
                 /\ data[f][r] = c.data
                    \/ (InReader(r) /\ c.data = Absent /\ c.device # f)
      BY <3>2, <3>3 DEF RowMatches
    <3>5. InReader(r) => data[f][r] # Absent
      BY <3>1, <3>2 DEF Whole
    <3> QED
      BY <3>1, <3>4, <3>5, QuietInOrder
  <2>2. CASE \A c \in Logged : c.record # r
    <3>1. \A f \in {d, e} : data[f][r] = Absent
      BY <2>1, <2>2 DEF Of, VersionOf
    <3> QED
      BY <3>1
  <2>3. CASE \E c \in Logged : c.record = r
    <3>1. \A f \in {d, e} : Of(versions[f], r) # {}
      BY <2>1, <2>3 DEF Superseded
    <3>2. PICK c \in Logged :
            /\ VersionOf(c) \in Of(versions[d], r)
            /\ data[d][r] = c.data \/ (InReader(r) /\ c.data = Absent /\ c.device # d)
      BY <2>1, <3>1
    <3>3. PICK x \in Logged :
            /\ VersionOf(x) \in Of(versions[e], r)
            /\ data[e][r] = x.data \/ (InReader(r) /\ x.data = Absent /\ x.device # e)
      BY <2>1, <3>1
    <3>4. /\ c.record = r /\ x.record = r
          /\ \A o \in Logged : o.record = r => ~Beats(o, c) /\ ~Beats(o, x)
      BY <2>0, <2>1, <3>2, <3>3, LastOfRecord
    <3>5. c = x
      <4>1. Timed(c) /\ Timed(x)
        BY <2>0, LoggedTimed
      <4>2. c.id = x.id
        BY <3>4, <4>1, BeatsLater
      <4> QED
        BY <2>0, <3>4, <4>2 DEF Holds, Contents, LoggedOnce
    <3>6. CASE InReader(r) /\ c.data = Absent
      <4>1. c.device \in {d, e}
        BY <3>4, <3>6 DEF RemovedElsewhere
      <4> QED
        BY <2>1, <3>2, <3>3, <3>5, <3>6, <4>1
    <3> QED
      BY <3>2, <3>3, <3>5, <3>6
  <2> QED
    BY <2>2, <2>3
<1> QED
  BY <1>1, ShelfInvariance, PTL
-------------------------------------------------------------------------------
(* Sync as registers: each of its steps is one of theirs, or a stutter. *)

(* A step of one device changes a function of devices there and nowhere else. *)
LEMMA ThereOnly ==
  ASSUME NEW f, NEW g, f = [e \in Device |-> f[e]], g = [e \in Device |-> g[e]],
         NEW d \in Device, \A e \in Device \ {d} : g[e] = f[e]
  PROVE  g = [f EXCEPT ![d] = g[d]]
OBVIOUS

(* So do the outbox, the versions and the values, over a step of a device. *)
LEMMA ReplicasHere ==
  ASSUME Holds, Holds', NEW d \in Device,
         \A e \in Device \ {d} : /\ outbox'[e] = outbox[e] /\ versions'[e] = versions[e]
                                 /\ data'[e] = data[e]
  PROVE  /\ outbox' = [outbox EXCEPT ![d] = outbox'[d]]
         /\ versions' = [versions EXCEPT ![d] = versions'[d]]
         /\ Values' = [Values EXCEPT ![d] = Values'[d]]
<1>1. /\ outbox = [e \in Device |-> outbox[e]] /\ outbox' = [e \in Device |-> outbox'[e]]
      /\ versions = [e \in Device |-> versions[e]]
      /\ versions' = [e \in Device |-> versions'[e]]
  BY DEF Holds, Inv, TypeOK
<1>2. /\ Values = [e \in Device |-> Values[e]] /\ Values' = [e \in Device |-> Values'[e]]
      /\ \A e \in Device \ {d} : Values'[e] = Values[e]
  BY DEF Values
<1>3. outbox' = [outbox EXCEPT ![d] = outbox'[d]]
  BY <1>1, ThereOnly
<1>4. versions' = [versions EXCEPT ![d] = versions'[d]]
  BY <1>1, ThereOnly
<1>5. Values' = [Values EXCEPT ![d] = Values'[d]]
  BY <1>2, ThereOnly
<1> QED
  BY <1>3, <1>4, <1>5

(* The values are what the records have that go with no other. *)
LEMMA ValuesAre ==
  ASSUME NEW d \in Device, NEW r \in Separate
  PROVE  Values[d][r] = data[d][r] /\ Values'[d][r] = data'[d][r]
BY DEF Values

(* No id is above the number of writes, so the next one is new. *)
LEMMA OldIds ==
  ASSUME Holds, NEW d \in Device
  PROVE  /\ \A c \in Logged : c.id <= writes /\ c.id \in Nat
         /\ \A m \in outbox[d] : m.id <= writes /\ m.id \in Nat
<1>1. ASSUME NEW c \in Logged PROVE c.id <= writes /\ c.id \in Nat
  <2>1. Timed(c) /\ StampOf(c) \in Stamps /\ StampOf(c).id = c.id
    BY LoggedTimed DEF StampOf
  <2> QED
    BY <2>1 DEF Holds, Inv, StampsAgree, Timed
<1>2. ASSUME NEW m \in outbox[d] PROVE m.id <= writes /\ m.id \in Nat
  <2> DEFINE x == [record |-> m.record, id |-> m.id, at |-> m.at, device |-> d]
  <2>1. x \in Stamps /\ x.id = m.id
    BY MarkTimed
  <2>2. m.id \in Nat
    BY DEF Holds, Inv, TypeOK, Marker
  <2> QED
    BY <2>1, <2>2 DEF Holds, Inv, StampsAgree
<1> QED
  BY <1>1, <1>2

(* A write leaves a new marker for each record it writes. *)
LEMMA WriteReplica ==
  ASSUME NEW d \in Device, Stepping(d), Writing(d)
  PROVE  \E R \in SUBSET Record : Replicas!Write(d, R)
<1>0. Holds /\ Holds' /\ writes \in Nat
  BY DEF Stepping, Holds, Inv, TypeOK
<1>1. PICK R \in SUBSET Record, deleted \in BOOLEAN, at \in Nat : Wrote(d, R, deleted, at)
  BY <1>0, ShelfWritten
<1>2. /\ \A e \in Device \ {d} : outbox'[e] = outbox[e] /\ data'[e] = data[e]
      /\ versions' = versions /\ Logged' = Logged
      /\ \A m \in outbox'[d] : \/ m \in outbox[d] /\ m.record \notin R
                               \/ m.record \in R /\ m.id = writes + 1
      /\ \A m \in outbox[d] : m.record \notin R => m \in outbox'[d]
      /\ \A r \in R : \E m \in outbox'[d] : m.record = r
      /\ \A r \in Record : r \notin R => data'[d][r] = data[d][r]
  BY <1>1 DEF Wrote
<1>3. /\ outbox' = [outbox EXCEPT ![d] = outbox'[d]]
      /\ Values' = [Values EXCEPT ![d] = Values'[d]]
  BY <1>0, <1>2, ReplicasHere
<1>4. \A m \in outbox'[d] \ outbox[d] :
        m.record \in R /\ \A c \in Logged : c.record = m.record => c.id # m.id
  BY <1>0, <1>2, OldIds
<1>5. {m \in outbox'[d] : m.record \notin R} = {m \in outbox[d] : m.record \notin R}
  BY <1>2
<1>6. \A r \in R : \E m \in outbox'[d] \ outbox[d] : m.record = r
  BY <1>0, <1>2, OldIds
<1>7. \A r \in Separate \ R : Values'[d][r] = Values[d][r]
  BY <1>2, ValuesAre DEF Separate
<1>8. Replicas!Write(d, R)
  BY <1>2, <1>3, <1>4, <1>5, <1>6, <1>7 DEF Replicas!Write
<1> QED
  BY <1>8

(* What a device sends is what it wrote, and what it has unless it wrote    *)
(* again.                                                                   *)
LEMMA SendReplica ==
  ASSUME NEW d \in Device, Stepping(d), Send(d), RowsCurrent(d)
  PROVE  Replicas!Store(d)
<1>0. Holds /\ Holds' /\ Acts(d)
  BY DEF Stepping
<1>1. Logged \subseteq Logged' /\ \A c \in Logged' \ Logged : c.device = d
  BY <1>0, LogGrows
<1>2. PICK B \in SUBSET run[d].todo : Logged' = Logged \cup {c \in B : ~Stored(c)}
  BY <1>0, SendDoes
<1>3. \A c, o \in Logged' : (o.record = c.record /\ o.id = c.id) => o = c
  BY <1>0 DEF Holds, Contents, LoggedOnce
<1>4. ASSUME NEW c \in Logged' \ Logged, NEW m \in outbox[d],
             m.record = c.record, m.id = c.id
      PROVE  c.at = m.at /\ (c.record \in Separate => c.data = Values[d][c.record])
  <2>1. c \in Changes
    BY <1>2, ChangeMembers
  <2>2. c.at = m.at
    BY <1>0, <1>4, <2>1, SameStamp
  <2>3. ASSUME c.record \in Separate PROVE c.data = data[d][m.record]
    <3>1. CASE Kind[c.record] = "tag"
      BY <1>0, <1>4, <2>1, <3>1 DEF Holds, Contents, MarkersCurrent
    <3>2. CASE Kind[c.record] # "tag"
      <4>1. Standing(d, m.record)
        BY <1>4, <2>3, <3>2, SyncAssumption DEF Separate, InReader, Kinds, Standing
      <4> QED
        BY <1>4, <2>1, <4>1 DEF RowsCurrent
    <3> QED
      BY <3>1, <3>2
  <2> QED
    BY <1>4, <2>2, <2>3, ValuesAre
<1>5. UNCHANGED <<outbox, versions, Values>>
  BY DEF Send, local, Values
<1> QED
  BY <1>1, <1>3, <1>4, <1>5 DEF Replicas!Store

(* What is settled is stored, whichever answer told of it. *)
LEMMA SettleReplica ==
  ASSUME NEW d \in Device, Stepping(d), Settle(d)
  PROVE  Replicas!Settle(d)
<1>0. Holds /\ Holds' /\ NoSkew /\ [Next]_vars
  BY DEF Stepping
<1> DEFINE part == SettleNext(run[d].batch)
<1>1. /\ part \subseteq run[d].batch /\ OneRowEach(part)
      /\ outbox'[d] = SettledOutbox(outbox[d], part)
      /\ versions'[d] = SettledVersions(versions[d], part)
      /\ \A e \in Device \ {d} : outbox'[e] = outbox[e] /\ versions'[e] = versions[e]
      /\ run[d].stage = "push"
  BY <1>0, SettleDoes
<1> HIDE DEF part
<1>2. data' = data /\ Logged' = Logged /\ Values' = Values
  BY DEF Settle, Logged, Values
<1>3. /\ outbox' = [outbox EXCEPT ![d] = outbox'[d]]
      /\ versions' = [versions EXCEPT ![d] = versions'[d]]
  BY <1>0, <1>1, <1>2, ReplicasHere
<1>4. ASSUME NEW c \in part
      PROVE  \E f \in Logged : /\ f.record = c.record /\ f.id = c.id /\ f.device = d
                               /\ VersionOf(f) = VersionOf(c)
  <2>1. PushFits(d, run[d], outbox[d], Logged)
    BY <1>0 DEF Holds, Contents, RunsFit, RunFits
  <2>2. c \in run[d].batch /\ c.device = d
    BY <1>1, <2>1 DEF PushFits
  <2>3. PICK f \in Logged : f.record = c.record /\ f.id = c.id
    BY <1>1, <2>1, <2>2 DEF PushFits
  <2>4. StampOf(c) \in Stamps /\ StampOf(f) \in Stamps
    BY <2>2, ChangeMembers, StampMembers
  <2>5. StampOf(c) = StampOf(f)
    BY <1>0, <2>3, <2>4 DEF Holds, Inv, StampsAgree, StampOf
  <2> QED
    BY <2>2, <2>3, <2>5 DEF StampOf, VersionOf
<1>5. ASSUME NEW m \in outbox[d] \ outbox'[d]
      PROVE  \E c \in Logged : /\ c.record = m.record /\ c.id = m.id
                               /\ Replicas!NameOf(c) \in versions'[d]
  <2>1. PICK c \in part : c.record = m.record /\ c.id = m.id
    BY <1>1, <1>5 DEF SettledOutbox
  <2>2. PICK f \in Logged : /\ f.record = c.record /\ f.id = c.id /\ f.device = d
                            /\ VersionOf(f) = VersionOf(c)
    BY <1>4
  <2>3. c.at = m.at
    <3>1. c \in Changes
      BY <1>1, ChangeMembers
    <3> QED
      BY <1>0, <1>5, <2>1, <3>1, SameStamp
  <2>4. \A v \in Of(versions[d], c.record) : IsLaterVersion(c, v)
    <3>1. \A v \in Of(versions[d], c.record) : v.at < m.at
      BY <1>0, <1>5, <2>1 DEF Holds, Contents, InTime
    <3>2. m.at \in Nat /\ \A v \in versions[d] : v.at \in Nat
      BY <1>0, <1>5 DEF Holds, Inv, TypeOK, Marker, Version
    <3> QED
      BY <2>3, <3>1, <3>2 DEF IsLaterVersion, Of
  <2>5. VersionOf(c) \in versions'[d]
    BY <1>1, <2>4, SettledVersionsRise
  <2> QED
    BY <2>1, <2>2, <2>5 DEF Replicas!NameOf, VersionOf
<1>6. outbox'[d] \subseteq outbox[d]
  BY <1>1 DEF SettledOutbox
<1>7. \A v \in versions'[d] \ versions[d] :
        \E c \in Logged : c.device = d /\ Replicas!NameOf(c) = v
  <2>1. ASSUME NEW v \in versions'[d], v \notin versions[d]
        PROVE  \E c \in Logged : c.device = d /\ Replicas!NameOf(c) = v
    <3>1. PICK c \in part : v = VersionOf(c)
      BY <1>1, <2>1, SettledVersionsRise
    <3> QED
      BY <1>4, <3>1 DEF Replicas!NameOf, VersionOf
  <2> QED
    BY <2>1
<1>8. Replicas!Rises(d)
  BY <1>0, VersionsRise DEF Rises, Of, Replicas!Rises, Replicas!IsLaterVersion, IsLaterVersion
<1> QED
  BY <1>2, <1>3, <1>5, <1>6, <1>7, <1>8 DEF Replicas!Settle

(* What is applied is of another device, and later. *)
LEMMA LearnReplica ==
  ASSUME NEW d \in Device, Stepping(d), Mine(d), NEW k \in run[d].todo, Apply(d, k)
  PROVE  k \in Logged /\ Replicas!Learn(d, k)
<1>0. Holds /\ Holds'
  BY DEF Stepping
<1>1. k \in Logged /\ k.device # d
  BY AppliedForeign
<1>2. /\ Logged' = Logged
      /\ \A e \in Device \ {d} : /\ outbox'[e] = outbox[e] /\ versions'[e] = versions[e]
                                 /\ data'[e] = data[e]
      /\ outbox'[d] = Without(outbox[d], {k.record})
      /\ versions'[d] = Put(versions[d], VersionOf(k))
  BY <1>0, ApplyDoes
<1>3. /\ outbox' = [outbox EXCEPT ![d] = outbox'[d]]
      /\ versions' = [versions EXCEPT ![d] = versions'[d]]
      /\ Values' = [Values EXCEPT ![d] = Values'[d]]
  BY <1>0, <1>2, ReplicasHere
<1>4. outbox'[d] = {m \in outbox[d] : m.record # k.record}
  BY <1>2 DEF Without
<1>5. versions'[d] = {v \in versions[d] : v.record # k.record} \cup {Replicas!NameOf(k)}
  BY <1>2 DEF Put, Without, VersionOf, Replicas!NameOf
<1>6. Values'[d] = [r \in Separate |-> IF r = k.record THEN k.data ELSE Values[d][r]]
  <2>1. ASSUME NEW r \in Separate
        PROVE  data'[d][r] = IF r = k.record THEN k.data ELSE Values[d][r]
    <3>1. r \in Record /\ ~InReader(r)
      BY DEF Separate
    <3>2. r \in Touches(d, k) <=> r = k.record
      BY <3>1 DEF Touches, RowsOf, InReader
    <3>3. data'[d][r] = IF r \in Touches(d, k) THEN k.data ELSE data[d][r]
      BY <1>0, <3>1, ApplyWrites
    <3> QED
      BY <3>2, <3>3, ValuesAre
  <2> QED
    BY <2>1 DEF Values
<1>7. \A v \in versions[d] : v.record = k.record => Replicas!IsLaterVersion(k, v)
  BY AppliedLater DEF Of, Replicas!IsLaterVersion, IsLaterVersion
<1> QED
  BY <1>1, <1>2, <1>3, <1>4, <1>5, <1>6, <1>7 DEF Replicas!Learn

(* Every step of sync is one of the registers, or changes none of them. *)
LEMMA ReplicasStep ==
  ASSUME NoSkew, Shelving, Shelving', [Next]_vars
  PROVE  [Replicas!Next]_<<Logged, outbox, versions, Values>>
<1>0. Holds /\ Holds' /\ \A d \in Device : RowsCurrent(d) /\ Mine(d)
  BY DEF Shelving, Ordering, Converging, RowsKept
<1>1. CASE UNCHANGED vars
  BY <1>1 DEF vars, Logged, Values
<1>2. ASSUME NEW d \in Device, Acts(d)
      PROVE  [Replicas!Next]_<<Logged, outbox, versions, Values>>
  <2>0. Stepping(d)
    BY <1>0, <1>2 DEF Stepping, Shelving, Ordering, Converging
  <2>1. CASE Writing(d)
    BY <2>0, <2>1, WriteReplica DEF Replicas!Next
  <2>2. CASE Send(d)
    BY <1>0, <2>0, <2>2, SendReplica DEF Replicas!Next
  <2>3. CASE Settle(d)
    BY <2>0, <2>3, SettleReplica DEF Replicas!Next
  <2>4. ASSUME NEW k \in run[d].todo, Apply(d, k)
        PROVE  [Replicas!Next]_<<Logged, outbox, versions, Values>>
    BY <1>0, <2>0, <2>4, LearnReplica DEF Replicas!Next
  <2>5. CASE Fresh(d) \/ Load(d) \/ Fetch(d) \/ ReadStates(d) \/ ListBooks(d)
             \/ Release(d) \/ \E c \in run[d].todo : Asides(d, c)
    <3>1. UNCHANGED <<log, data, outbox, versions>>
      BY <2>5
      DEF Fresh, StartSync, StartDownload, Fail, EndRound, SaveCursor, DownloadsDone, Load,
          Fetch, ReadStates, ListBooks, Release, Asides, Drop, Hold, local
    <3> QED
      BY <3>1 DEF Logged, Values
  <2> QED
    BY <1>2, <2>1, <2>2, <2>3, <2>4, <2>5 DEF Acts
<1> QED
  BY <1>1, <1>2, ActsCover

(* With one time for all, sync is a last-writer-wins register for each      *)
(* record: whatever batches, pages, copies in memory and failed runs stand  *)
(* behind it, a step writes on one device, or stores what a device wrote,   *)
(* once, or settles that, or takes a later change of another device         *)
(* (pushChanges, settleBatch, pullChanges, applyChange).                    *)
THEOREM RegistersKept == NoSkew => (Spec => KeepsRegisters)
<1> SUFFICES ASSUME NoSkew PROVE Spec => KeepsRegisters
  OBVIOUS
<1>1. Init => Replicas!Init
  BY DEF Init, Replicas!Init, Replicas!Nothing, Logged, Values, Separate, Absent
<1>2. Shelving /\ Shelving' /\ [Next]_vars
        => [Replicas!Next]_<<Logged, outbox, versions, Values>>
  BY ReplicasStep
<1> QED
  BY <1>1, <1>2, ShelfInvariance, PTL DEF Spec, KeepsRegisters, Replicas!Spec
===============================================================================
