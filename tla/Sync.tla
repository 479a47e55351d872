--------------------------------- MODULE Sync ---------------------------------
(***************************************************************************)
(* The devices of one account that keep their records the same through an  *)
(* ordered log on a server.  Every device has its records, an outbox of    *)
(* markers (one per record that changed here and is not pushed), the       *)
(* version it holds of each record, the changes it keeps aside because     *)
(* their book is not on its shelf, and how far it has read the log.  One   *)
(* sync run at a time works on a device (the dokseo-sync lock), while its  *)
(* user goes on writing.                                                   *)
(*                                                                         *)
(* A record stands for a key (kind, recordId); "tag" stands for catalogs   *)
(* too, which are applied the same way.  Content is abstract: Absent, or   *)
(* the number of the write that made it.  That number is also the change   *)
(* id: a write gives each record it touches a fresh id, so a number and a  *)
(* record together are one id.                                             *)
(***************************************************************************)
EXTENDS Versions, Sequences, FiniteSets

CONSTANTS
  Device,     \* the ids of the devices of the account
  Record,     \* the keys of the records
  Kind,       \* the kind of every record
  BookOf,     \* the book a capture or a position belongs to, or the record
  Writers,    \* the devices whose users write in this instance
  Skew,       \* how far a device's clock is ahead of the time
  Illegible,  \* the writes a device cannot read (made by a newer version)
  BatchSize,  \* changes in one push
  PageSize,   \* changes in one page of a pull
  MaxWrites,  \* bound: how many writes are made
  MaxFaults   \* bound: how many runs fail midway

Kinds == {"tag", "capture", "book", "position"}

ASSUME SyncAssumption ==
  /\ Device \subseteq Nat
  /\ Kind \in [Record -> Kinds]
  /\ BookOf \in [Record -> Record]
  /\ \A r \in Record : Kind[r] # "tag" => Kind[BookOf[r]] = "book"
  /\ \A b \in Record : Kind[b] = "book" => BookOf[b] = b
  /\ Writers \subseteq Device
  /\ Skew \in [Device -> Nat]
  /\ Illegible \in [Device -> SUBSET Nat]
  /\ BatchSize \in Nat \ {0}
  /\ PageSize \in Nat \ {0}
  /\ MaxWrites \in Nat
  /\ MaxFaults \in Nat

VARIABLES
  clock,      \* the time, in milliseconds
  writes,     \* how many writes there have been
  lastWrite,  \* when each device last wrote: one write a millisecond
  log,        \* the server's log of changes
  data,       \* the content of every record on every device
  outbox,     \* the markers of each device, at most one for a record
  versions,   \* the versions each device holds, at most one for a record
  held,       \* the changes each device keeps aside, one for a record
  cursor,     \* how far into the log each device has applied
  run,        \* the sync run of each device
  faults      \* how many runs have failed midway

local == <<data, outbox, versions, held>>
vars == <<clock, writes, lastWrite, log, data, outbox, versions, held, cursor,
          run, faults>>

Absent == 0

Marker == [record : Record, id : Nat, at : Nat, deleted : BOOLEAN]
Version == [record : Record, at : Nat, device : Device]
Change == [record : Record, id : Nat, at : Nat, device : Device, data : Nat]

Stages == {"none", "push", "retry", "pull", "settled", "attached"}
Steps == {"idle", "load", "send", "settle", "fetch", "states", "books",
          "apply", "release", "download"}

(* What a run has in memory: the markers and versions it read, the shelf as *)
(* it listed it, the changes still to send or to reconcile, the batch sent  *)
(* and not settled (or the change whose held copy goes), the cursor of the  *)
(* page and whether there is more, and whether a book was downloaded.       *)
Run == [stage : Stages, step : Steps, markers : SUBSET Marker,
        versions : SUBSET Version, shelf : SUBSET Record,
        todo : SUBSET Change, batch : SUBSET Change, next : Nat,
        more : BOOLEAN, got : BOOLEAN]

NoRun == [stage |-> "none", step |-> "idle", markers |-> {}, versions |-> {},
          shelf |-> {}, todo |-> {}, batch |-> {}, next |-> 0, more |-> FALSE,
          got |-> FALSE]

Of(rows, r) == {row \in rows : row.record = r}
Without(rows, R) == {row \in rows : row.record \notin R}

(* Mutant: a row is added beside the one its record has. *)
PutBeside(rows, row) == rows \cup {row}
Put(rows, row) == Without(rows, {row.record}) \cup {row}

VersionOf(change) ==
  [record |-> change.record, at |-> change.at, device |-> change.device]

Logged == {log[i] : i \in DOMAIN log}

OnShelf(d, b) == data[d][b] # Absent
Shelf(d) == {b \in Record : Kind[b] = "book" /\ OnShelf(d, b)}

(* The rows a book is: its identity and its reading position. *)
RowsOf(b) == {r \in Record : BookOf[r] = b /\ Kind[r] \in {"book", "position"}}

Init ==
  /\ clock = 1 /\ writes = 0 /\ faults = 0
  /\ lastWrite = [d \in Device |-> 0]
  /\ log = << >>
  /\ data = [d \in Device |-> [r \in Record |-> Absent]]
  /\ outbox = [d \in Device |-> {}]
  /\ versions = [d \in Device |-> {}]
  /\ held = [d \in Device |-> {}]
  /\ cursor = [d \in Device |-> 0]
  /\ run = [d \in Device |-> NoRun]
-------------------------------------------------------------------------------
(* What the user does.  The content and the marker of every row written are *)
(* one transaction; the marker replaces the one the record had.             *)

Write(d, R, deleted, at) ==
  LET id == writes + 1
  IN  /\ writes < MaxWrites
      /\ lastWrite[d] < at
      /\ clock' = at /\ writes' = id /\ lastWrite' = [lastWrite EXCEPT ![d] = at]
      /\ data' = [data EXCEPT ![d] = [r \in Record |->
           IF r \notin R THEN @[r] ELSE IF deleted THEN Absent ELSE id]]
      /\ outbox' = [outbox EXCEPT ![d] = Without(@, R) \cup
           {[record |-> r, id |-> id, at |-> at + Skew[d], deleted |-> deleted]
              : r \in R}]
      /\ UNCHANGED <<log, versions, held, cursor, faults>>

(* Only the order of times matters: time moves on when somebody wrote now. *)
Used == \E d \in Device : lastWrite[d] = clock
Now == {clock} \cup IF Used THEN {clock + 1} ELSE {}

UserWrites(d, R, deleted) ==
  /\ d \in Writers
  /\ \E at \in Now : Write(d, R, deleted, at)
  /\ UNCHANGED run

(* A tag is saved at any time; the rest belongs to a book on the shelf. *)
Edit(d, r) ==
  /\ Kind[r] # "tag" => OnShelf(d, BookOf[r])
  /\ UserWrites(d, {r}, FALSE)

Erase(d, r) ==
  /\ Kind[r] \in {"tag", "capture"} /\ data[d][r] # Absent
  /\ UserWrites(d, {r}, TRUE)

AddBook(d, b) ==
  /\ Kind[b] = "book" /\ ~OnShelf(d, b)
  /\ UserWrites(d, RowsOf(b), FALSE)

(* The captures of a removed book stay. *)
RemoveBook(d, b) ==
  /\ Kind[b] = "book" /\ OnShelf(d, b)
  /\ UserWrites(d, RowsOf(b), TRUE)
-------------------------------------------------------------------------------
(* The push: the markers, then the records they name, then batch by batch. *)

Become(d, next) == run' = [run EXCEPT ![d] = next]

(* What a run keeps from one use case to the next: whether it downloaded.   *)
At(d, stage, step) ==
  [NoRun EXCEPT !.stage = stage, !.step = step, !.got = run[d].got]

StartSync(d) ==
  /\ run[d].step = "idle"
  /\ Become(d, [NoRun EXCEPT !.stage = "push", !.step = "load",
                             !.markers = outbox[d]])
  /\ UNCHANGED <<clock, writes, lastWrite, log, local, cursor, faults>>

(* planChange: a marker of a record that is gone is sent as a tombstone, a *)
(* capture whose book is not on the shelf waits in the outbox.             *)
Waits(d, m) ==
  /\ ~m.deleted
  /\ Kind[m.record] = "capture"
  /\ data[d][m.record] # Absent /\ ~OnShelf(d, BookOf[m.record])

ChangeFor(d, m) ==
  [record |-> m.record, id |-> m.id, at |-> m.at, device |-> d,
   data |-> IF m.deleted THEN Absent ELSE data[d][m.record]]

(* Mutant: a run with nothing to send ends there. *)
SendingOnly(d, todo) ==
  IF todo = {} THEN NoRun
  ELSE [NoRun EXCEPT !.stage = "push", !.step = "send", !.todo = todo]

(* With nothing left to send the run goes on to the changes kept aside. *)
Sending(d, todo) ==
  IF todo = {} THEN At(d, "retry", "states")
  ELSE [NoRun EXCEPT !.stage = "push", !.step = "send", !.todo = todo]

Load(d) ==
  /\ run[d].step = "load"
  /\ Become(d, Sending(d,
       {ChangeFor(d, m) : m \in {k \in run[d].markers : ~Waits(d, k)}}))
  /\ UNCHANGED <<clock, writes, lastWrite, log, local, cursor, faults>>

(* batchesOf: the earliest changes, as many as a batch takes. *)
NextBatches(todo) ==
  {B \in SUBSET todo :
     /\ B # {} /\ Cardinality(B) <= BatchSize
     /\ Cardinality(B) = BatchSize \/ B = todo
     /\ \A b \in B, c \in todo \ B : b.at <= c.at}

OldestFirst(changes) ==
  {s \in UNION {[1..n -> changes] : n \in 0..BatchSize} :
     /\ \A c \in changes : \E i \in DOMAIN s : s[i] = c
     /\ \A i, j \in DOMAIN s : i < j => s[i] # s[j] /\ s[i].at <= s[j].at}

(* The server appends a batch as a whole, but for the ids it has stored.    *)
(* The request takes time, so what is pulled was written before now.        *)
Stored(c) == \E e \in Logged : e.record = c.record /\ e.id = c.id

(* Mutant: an answer that is no success is settled all the same. *)
SendUnanswered(d) ==
  /\ run[d].step = "send"
  /\ \E B \in NextBatches(run[d].todo) :
       Become(d, [run[d] EXCEPT !.step = "settle", !.batch = B, !.todo = @ \ B])
  /\ UNCHANGED <<clock, writes, lastWrite, log, local, cursor, faults>>

Send(d) ==
  /\ run[d].step = "send"
  /\ \E B \in NextBatches(run[d].todo) :
       /\ \E s \in OldestFirst({c \in B : ~Stored(c)}) : log' = log \o s
       /\ Become(d, [run[d] EXCEPT !.step = "settle", !.batch = B,
                                   !.todo = @ \ B])
  /\ clock' = IF Used THEN clock + 1 ELSE clock
  /\ UNCHANGED <<writes, lastWrite, local, cursor, faults>>

(* settleBatch: one transaction in the library's database, one in the       *)
(* recognition's.  A marker goes only if it is still the one that was sent, *)
(* and a version is put only if it is later than the one held.              *)
InReader(r) == Kind[r] \in {"book", "position"}

SettleNext(batch) ==
  IF \E c \in batch : InReader(c.record)
  THEN {c \in batch : InReader(c.record)} ELSE batch

(* Mutant: a marker goes whichever write it is of. *)
SettledByRecord(old, changes) == Without(old, {c.record : c \in changes})

SettledOutbox(old, changes) ==
  {m \in old : ~\E c \in changes : c.record = m.record /\ c.id = m.id}

SettledVersions(old, changes) ==
  LET new == {VersionOf(c) : c \in {e \in changes :
                \A v \in Of(old, e.record) : IsLaterVersion(e, v)}}
  IN  Without(old, {v.record : v \in new}) \cup new

Settle(d) ==
  /\ run[d].step = "settle"
  /\ LET part == SettleNext(run[d].batch)
         rest == run[d].batch \ part
     IN  /\ outbox' = [outbox EXCEPT ![d] = SettledOutbox(@, part)]
         /\ versions' = [versions EXCEPT ![d] = SettledVersions(@, part)]
         /\ Become(d, IF rest = {} THEN Sending(d, run[d].todo)
                      ELSE [run[d] EXCEPT !.batch = rest])
  /\ UNCHANGED <<clock, writes, lastWrite, log, data, held, cursor, faults>>
-------------------------------------------------------------------------------
(* A round reconciles a page of the log, or the changes kept aside, with    *)
(* the markers, versions and shelf the device had when the round opened.    *)

(* Mutant: the page starts one change too late. *)
PageAfterNext(d, last) == {log[i] : i \in cursor[d] + 2 .. last}

PageUpTo(d, last) == {log[i] : i \in cursor[d] + 1 .. last}

Fetch(d) ==
  /\ run[d].step = "fetch"
  /\ LET last == IF cursor[d] + PageSize < Len(log)
                 THEN cursor[d] + PageSize ELSE Len(log)
     IN  Become(d, [run[d] EXCEPT !.step = "states",
                      !.todo = Winners(PageUpTo(d, last)),
                      !.next = last, !.more = Len(log) > last])
  /\ UNCHANGED <<clock, writes, lastWrite, log, local, cursor, faults>>

ReadStates(d) ==
  /\ run[d].step = "states"
  /\ Become(d, [run[d] EXCEPT !.step = "books", !.markers = outbox[d],
                              !.versions = versions[d]])
  /\ UNCHANGED <<clock, writes, lastWrite, log, local, cursor, faults>>

ListBooks(d) ==
  /\ run[d].step = "books"
  /\ Become(d, [run[d] EXCEPT !.step = "apply", !.shelf = Shelf(d),
                  !.todo = IF run[d].stage = "pull" THEN @ ELSE held[d]])
  /\ UNCHANGED <<clock, writes, lastWrite, log, local, cursor, faults>>

(* A page is taken in the order its records are first seen in. *)
FirstSeen(d, r) ==
  CHOOSE i \in cursor[d] + 1 .. run[d].next :
    /\ log[i].record = r
    /\ \A j \in cursor[d] + 1 .. i - 1 : log[j].record # r

Reconciles(d, c) ==
  /\ run[d].step = "apply" /\ c \in run[d].todo
  /\ run[d].stage = "pull" =>
       \A e \in run[d].todo : FirstSeen(d, c.record) <= FirstSeen(d, e.record)

Wanted(d, c) ==
  MergeApplies(LocalChange(Of(run[d].markers, c.record),
                           Of(run[d].versions, c.record), c, d), c)

Legible(d, c) == c.data \notin Illegible[d]

(* applyChange finds no book for it, or editBook finds the row gone. *)
NotReady(d, c) ==
  /\ c.data # Absent /\ Kind[c.record] # "tag"
  /\ \/ BookOf[c.record] \notin run[d].shelf
     \/ InReader(c.record) /\ ~OnShelf(d, BookOf[c.record])

Done(d, c) == Become(d, [run[d] EXCEPT !.todo = @ \ {c}])

(* A change that loses, or that cannot be read, is dropped; a round over    *)
(* the held changes also removes it from them.                              *)
Drop(d, c) ==
  /\ Reconciles(d, c)
  /\ Wanted(d, c) => ~Legible(d, c)
  /\ held' = IF run[d].stage = "pull" THEN held
             ELSE [held EXCEPT ![d] = Without(@, {c.record})]
  /\ Done(d, c)
  /\ UNCHANGED <<clock, writes, lastWrite, log, data, outbox, versions, cursor,
                 faults>>

(* Mutant: what is kept aside is not replaced by what beats it. *)
HoldFirst(d, c) ==
  /\ Reconciles(d, c)
  /\ Wanted(d, c) /\ Legible(d, c) /\ NotReady(d, c)
  /\ held' = IF Of(held[d], c.record) = {}
             THEN [held EXCEPT ![d] = Put(@, c)] ELSE held
  /\ Done(d, c)
  /\ UNCHANGED <<clock, writes, lastWrite, log, data, outbox, versions, cursor,
                 faults>>

Hold(d, c) ==
  /\ Reconciles(d, c)
  /\ Wanted(d, c) /\ Legible(d, c) /\ NotReady(d, c)
  /\ held' = IF MergeApplies(Of(held[d], c.record), c)
             THEN [held EXCEPT ![d] = Put(@, c)] ELSE held
  /\ Done(d, c)
  /\ UNCHANGED <<clock, writes, lastWrite, log, data, outbox, versions, cursor,
                 faults>>

(* Mutant: a tombstone takes no row. *)
TouchesLive(d, c) == IF c.data = Absent THEN {} ELSE {c.record}

(* The rows an applied change writes: a tombstone of a book takes both its  *)
(* rows if the round saw the book, one of a position takes none.            *)
Touches(d, c) ==
  CASE c.data = Absent /\ Kind[c.record] = "book" ->
         IF c.record \in run[d].shelf THEN RowsOf(c.record) ELSE {}
    [] c.data = Absent /\ Kind[c.record] = "position" -> {}
    [] OTHER -> {c.record}

(* The content, the version and the end of the marker are one transaction.  *)
Apply(d, c) ==
  /\ Reconciles(d, c)
  /\ Wanted(d, c) /\ Legible(d, c) /\ ~NotReady(d, c)
  /\ data' = [data EXCEPT ![d] = [r \in Record |->
                IF r \in Touches(d, c) THEN c.data ELSE @[r]]]
  /\ versions' = [versions EXCEPT ![d] = Put(@, VersionOf(c))]
  /\ outbox' = [outbox EXCEPT ![d] = Without(@, {c.record})]
  /\ LET shelf == IF c.data = Absent THEN run[d].shelf \ {c.record}
                  ELSE run[d].shelf
         kept == Of(held[d], c.record) # {}
     IN  Become(d, [run[d] EXCEPT !.todo = @ \ {c}, !.shelf = shelf,
                      !.step = IF kept THEN "release" ELSE "apply",
                      !.batch = IF kept THEN {c} ELSE {}])
  /\ UNCHANGED <<clock, writes, lastWrite, log, held, cursor, faults>>

(* releaseHeld: the copy kept aside goes, in a database of its own. *)
Release(d) ==
  /\ run[d].step = "release"
  /\ held' = [held EXCEPT ![d] = Without(@, {c.record : c \in run[d].batch})]
  /\ Become(d, [run[d] EXCEPT !.step = "apply", !.batch = {}])
  /\ UNCHANGED <<clock, writes, lastWrite, log, data, outbox, versions, cursor,
                 faults>>

AfterRound(d) ==
  CASE run[d].stage = "retry" -> At(d, "pull", "fetch")
    [] run[d].stage = "settled" -> At(d, "none", "download")
    [] OTHER -> NoRun

EndRound(d) ==
  /\ run[d].step = "apply" /\ run[d].todo = {} /\ run[d].stage # "pull"
  /\ Become(d, AfterRound(d))
  /\ UNCHANGED <<clock, writes, lastWrite, log, local, cursor, faults>>

SaveCursor(d) ==
  /\ run[d].step = "apply" /\ run[d].todo = {} /\ run[d].stage = "pull"
  /\ cursor' = [cursor EXCEPT ![d] = run[d].next]
  /\ Become(d, IF run[d].more THEN At(d, "pull", "fetch")
               ELSE At(d, "settled", "states"))
  /\ UNCHANGED <<clock, writes, lastWrite, log, local, faults>>
-------------------------------------------------------------------------------
(* The books kept aside that have an origin can be downloaded, by the run   *)
(* or by the user, and then what was kept aside is tried again.             *)

Remote(d, b) == Kind[b] = "book" /\ ~OnShelf(d, b) /\ Of(held[d], b) # {}

StartDownload(d) ==
  /\ run[d].step = "idle" /\ \E b \in Record : Remote(d, b)
  /\ Become(d, [NoRun EXCEPT !.step = "download"])
  /\ UNCHANGED <<clock, writes, lastWrite, log, local, cursor, faults>>

(* The download opens the file through the shelf that marks its writes. *)
Download(d, b) ==
  /\ run[d].step = "download"
  /\ Remote(d, b)
  /\ \E at \in Now : Write(d, RowsOf(b), FALSE, at)
  /\ Become(d, [run[d] EXCEPT !.got = TRUE])

DownloadsDone(d) ==
  /\ run[d].step = "download"
  /\ Become(d, IF run[d].got THEN At(d, "attached", "states") ELSE NoRun)
  /\ UNCHANGED <<clock, writes, lastWrite, log, local, cursor, faults>>

(* The tab closes, the network or the storage fails, an answer is lost:     *)
(* what is stored stays, what the run had in memory is gone.                *)
Fail(d) ==
  /\ run[d].step # "idle" /\ faults < MaxFaults
  /\ faults' = faults + 1
  /\ Become(d, NoRun)
  /\ UNCHANGED <<clock, writes, lastWrite, log, local, cursor>>
-------------------------------------------------------------------------------
UserStep(d) ==
  \E r \in Record : Edit(d, r) \/ Erase(d, r) \/ AddBook(d, r) \/ RemoveBook(d, r)

PushStep(d) == Load(d) \/ Send(d) \/ Settle(d)

RoundStep(d) ==
  \/ Fetch(d) \/ ReadStates(d) \/ ListBooks(d)
  \/ \E c \in run[d].todo : Drop(d, c) \/ Hold(d, c) \/ Apply(d, c)
  \/ Release(d) \/ EndRound(d) \/ SaveCursor(d)

DownloadStep(d) == (\E b \in Record : Download(d, b)) \/ DownloadsDone(d)

SyncStep(d) == PushStep(d) \/ RoundStep(d) \/ DownloadStep(d)

Next ==
  \E d \in Device :
    UserStep(d) \/ StartSync(d) \/ StartDownload(d) \/ SyncStep(d) \/ Fail(d)

Spec == Init /\ [][Next]_vars

(* A started run is carried on by the event loop.  The scheduler starts one *)
(* when a page starts or is shown and some seconds after a local change, so *)
(* that another run comes as long as the user comes back now and then.      *)
Fairness == \A d \in Device : WF_vars(SyncStep(d)) /\ WF_vars(StartSync(d))

FairSpec == Spec /\ Fairness
===============================================================================
