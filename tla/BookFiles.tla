------------------------------- MODULE BookFiles -------------------------------
(***************************************************************************)
(* The books of one browser: a row on the shelf (or among the removed) in  *)
(* IndexedDB, and a source and a cover in OPFS.  No transaction covers     *)
(* both.  Adding a book and replacing its file hold the lock of the book's *)
(* files; removing it and editing its row do not.  An add that succeeded   *)
(* then reclaims the files that no row names.  A task is one operation in  *)
(* some tab; each of its steps ends where the code awaits.                 *)
(*                                                                         *)
(* A file stands for what was uploaded: its content hash in the row, its   *)
(* bytes in the source, its cover image in the cover.                      *)
(* Source: domains/library/adapters/indexeddb-opfs-library.repo.ts,        *)
(* domains/library/use-cases, platform/opfs, platform/locks.               *)
(***************************************************************************)
EXTENDS Naturals, FiniteSets

CONSTANTS
  Task,       \* operations that go on at once, in any tabs
  Book,       \* book ids
  File,       \* the files a user uploads
  Coverless,  \* those that have no cover
  None,       \* no file, no book, no task
  Torn,       \* a file that was not written to its end
  MaxStarts,  \* bound: how many operations are started
  MaxFaults   \* bound: how many of them fail or are cut off

ASSUME BookFilesAssumption ==
  /\ Coverless \subseteq File
  /\ None \notin Task \cup Book \cup File /\ Torn \notin File /\ Torn # None
  /\ MaxStarts \in Nat /\ MaxFaults \in Nat

VARIABLES
  rows,       \* the file a shelved book's row names
  retired,    \* the file the row of a removed book names
  source, cover,          \* what is stored for each book
  nextSource, nextCover,  \* what is staged to take their place
  lock,       \* the task that holds the lock of each book's files
  task,       \* what each task does
  used,       \* the ids that were given to books
  touched,    \* history: shelved books whose files are no longer vouched for
  cutOff,     \* history: books and the operation on them that was cut off
  starts,     \* how many operations were started
  faults      \* how many operations failed or were cut off

stored == <<rows, retired, source, cover, nextSource, nextCover>>
history == <<used, touched, cutOff, faults>>
vars == <<stored, lock, task, history, starts>>

Ops == {"none", "open", "replace", "reclaim", "remove", "erase", "edit"}
Stages == {"idle", "restorable", "lock", "source", "cover", "stage", "stageCover",
           "move", "moveCover", "row", "rows", "files", "strays", "dropSource",
           "dropCover", "retire", "store"}

(* The book and the file a task is about, and for a reclaim the shelf as it *)
(* listed it and the strays it has still to look at.                        *)
Idle == [op |-> "none", at |-> "idle", book |-> None, file |-> None,
         shelved |-> {}, strays |-> {}]

CoverOf(f) == IF f \in Coverless THEN None ELSE f
OnShelf == {b \in Book : rows[b] # None}

Init ==
  /\ rows = [b \in Book |-> None] /\ retired = [b \in Book |-> None]
  /\ source = [b \in Book |-> None] /\ cover = [b \in Book |-> None]
  /\ nextSource = [b \in Book |-> None] /\ nextCover = [b \in Book |-> None]
  /\ lock = [b \in Book |-> None]
  /\ task = [t \in Task |-> Idle]
  /\ used = {} /\ touched = {} /\ cutOff = {} /\ starts = 0 /\ faults = 0

At(t, op, at) == task[t].op = op /\ task[t].at = at
Goes(t, at) == task' = [task EXCEPT ![t].at = at]
Starts(t, op, at, b, f) ==
  /\ task[t] = Idle /\ starts < MaxStarts /\ starts' = starts + 1
  /\ task' = [task EXCEPT ![t] = [Idle EXCEPT !.op = op, !.at = at,
                                              !.book = b, !.file = f]]
Ends(t) == task' = [task EXCEPT ![t] = Idle]
Releases(t) == lock' = [b \in Book |-> IF lock[b] = t THEN None ELSE lock[b]]
-------------------------------------------------------------------------------
(* Opening a file.  One that a shelved book has is not stored again.  The   *)
(* book takes the id of a removed book it matches: by content first, else   *)
(* by name or title, which any removed book may have.                       *)

StartOpen(t, f) ==
  /\ \A b \in Book : rows[b] # f
  /\ Starts(t, "open", "restorable", None, f)
  /\ UNCHANGED <<stored, lock, history>>

Restorable(f) ==
  LET same == {b \in Book : retired[b] = f}
  IN  IF same # {} THEN same
      ELSE {b \in Book : retired[b] # None} \cup (Book \ used)

Identify(t) ==
  /\ At(t, "open", "restorable")
  /\ \E b \in Restorable(task[t].file) :
       /\ task' = [task EXCEPT ![t].book = b, ![t].at = "lock"]
       /\ used' = used \cup {b}
  /\ UNCHANGED <<stored, lock, touched, cutOff, faults, starts>>

(* A file whose pages cannot be read is not stored. *)
Refuse(t) ==
  /\ At(t, "open", "restorable") /\ Ends(t)
  /\ UNCHANGED <<stored, lock, history, starts>>

Lock(t) ==
  LET b == task[t].book
  IN  /\ task[t].at = "lock" /\ lock[b] = None
      /\ lock' = [lock EXCEPT ![b] = t]
      /\ Goes(t, IF task[t].op = "open" THEN "source" ELSE "stage")
      /\ UNCHANGED <<stored, history, starts>>

Removing(b) == \E t \in Task : task[t].op \in {"remove", "erase"} /\ task[t].book = b

(* With the source written anew the files are vouched for again, unless a   *)
(* removal is under way.                                                    *)
PutSource(t) ==
  LET b == task[t].book
  IN  /\ At(t, "open", "source")
      /\ source' = [source EXCEPT ![b] = task[t].file]
      /\ touched' = IF Removing(b) THEN touched ELSE touched \ {b}
      /\ Goes(t, "cover")
      /\ UNCHANGED <<rows, retired, cover, nextSource, nextCover, lock, used, cutOff, faults, starts>>

PutCover(t) ==
  /\ At(t, "open", "cover")
  /\ cover' = [cover EXCEPT ![task[t].book] = CoverOf(task[t].file)]
  /\ Goes(t, "row")
  /\ UNCHANGED <<rows, retired, source, nextSource, nextCover, lock, history, starts>>

\* Mutant: the removed record of a book added again is kept.
ShelveKept(t) ==
  LET b == task[t].book
  IN  /\ task[t].at = "row"
      /\ rows' = [rows EXCEPT ![b] = task[t].file]
      /\ Releases(t)
      /\ IF task[t].op = "open"
         THEN task' = [task EXCEPT ![t] = [Idle EXCEPT !.op = "reclaim", !.at = "rows"]]
         ELSE Ends(t)
      /\ UNCHANGED <<retired, source, cover, nextSource, nextCover, history, starts>>

(* The row is written and a removed one of the id deleted in a transaction. *)
Shelve(t) ==
  LET b == task[t].book
  IN  /\ task[t].at = "row"
      /\ rows' = [rows EXCEPT ![b] = task[t].file]
      /\ retired' = [retired EXCEPT ![b] = None]
      /\ Releases(t)
      /\ IF task[t].op = "open"
         THEN task' = [task EXCEPT ![t] = [Idle EXCEPT !.op = "reclaim", !.at = "rows"]]
         ELSE Ends(t)
      /\ UNCHANGED <<source, cover, nextSource, nextCover, history, starts>>
-------------------------------------------------------------------------------
(* Replacing the file of a book, by one that no shelved book has. *)

StartReplace(t, b, f) ==
  /\ rows[b] # None
  /\ \A other \in Book : rows[other] # f
  /\ Starts(t, "replace", "lock", b, f)
  /\ UNCHANGED <<stored, lock, history>>

Stage(t) ==
  /\ At(t, "replace", "stage")
  /\ nextSource' = [nextSource EXCEPT ![task[t].book] = task[t].file]
  /\ Goes(t, "stageCover")
  /\ UNCHANGED <<rows, retired, source, cover, nextCover, lock, history, starts>>

StageCover(t) ==
  LET f == task[t].file
  IN  /\ At(t, "replace", "stageCover")
      /\ nextCover' = IF f \in Coverless THEN nextCover
                      ELSE [nextCover EXCEPT ![task[t].book] = f]
      /\ Goes(t, "move")
      /\ UNCHANGED <<rows, retired, source, cover, nextSource, lock, history, starts>>

Move(t) ==
  LET b == task[t].book
  IN  /\ At(t, "replace", "move")
      /\ source' = [source EXCEPT ![b] = nextSource[b]]
      /\ nextSource' = [nextSource EXCEPT ![b] = None]
      /\ touched' = IF Removing(b) THEN touched ELSE touched \ {b}
      /\ Goes(t, "moveCover")
      /\ UNCHANGED <<rows, retired, cover, nextCover, lock, used, cutOff, faults, starts>>

MoveCover(t) ==
  LET b == task[t].book
  IN  /\ At(t, "replace", "moveCover")
      /\ IF task[t].file \in Coverless
         THEN cover' = [cover EXCEPT ![b] = None] /\ UNCHANGED nextCover
         ELSE /\ cover' = [cover EXCEPT ![b] = nextCover[b]]
              /\ nextCover' = [nextCover EXCEPT ![b] = None]
      /\ Goes(t, "row")
      /\ UNCHANGED <<rows, retired, source, nextSource, lock, history, starts>>
-------------------------------------------------------------------------------
(* Reclaiming: the shelf is listed, then the files, then the files of each  *)
(* book not on the listed shelf are removed, if its lock is free and it has *)
(* still no row.  Staged files belong to no book here.                      *)
ListRows(t) ==
  /\ At(t, "reclaim", "rows")
  /\ task' = [task EXCEPT ![t].shelved = OnShelf, ![t].at = "files"]
  /\ UNCHANGED <<stored, lock, history, starts>>

Filed == {b \in Book : source[b] # None \/ cover[b] # None}

ListFiles(t) ==
  /\ At(t, "reclaim", "files")
  /\ task' = [task EXCEPT ![t].strays = Filed \ task[t].shelved, ![t].at = "strays"]
  /\ UNCHANGED <<stored, lock, history, starts>>

\* Mutant: the row of a stray is not looked at again under its lock.
TryStrayListed(t, b) ==
  /\ At(t, "reclaim", "strays") /\ b \in task[t].strays
  /\ IF lock[b] = None
     THEN /\ lock' = [lock EXCEPT ![b] = t]
          /\ task' = [task EXCEPT ![t].strays = @ \ {b}, ![t].book = b,
                                  ![t].at = "dropSource"]
     ELSE /\ task' = [task EXCEPT ![t].strays = @ \ {b}]
          /\ UNCHANGED lock
  /\ UNCHANGED <<stored, history, starts>>

(* What may change a row between the lock and the reading of it takes no    *)
(* lock, so that the two are one step.                                      *)
TryStray(t, b) ==
  /\ At(t, "reclaim", "strays") /\ b \in task[t].strays
  /\ IF lock[b] = None /\ rows[b] = None
     THEN /\ lock' = [lock EXCEPT ![b] = t]
          /\ task' = [task EXCEPT ![t].strays = @ \ {b}, ![t].book = b,
                                  ![t].at = "dropSource"]
     ELSE /\ task' = [task EXCEPT ![t].strays = @ \ {b}]
          /\ UNCHANGED lock
  /\ UNCHANGED <<stored, history, starts>>

EndReclaim(t) ==
  /\ At(t, "reclaim", "strays") /\ task[t].strays = {}
  /\ Ends(t)
  /\ UNCHANGED <<stored, lock, history, starts>>

\* Mutant: only the source of a stray is removed.
DropCoverNot(t) ==
  LET b == task[t].book
  IN  /\ task[t].op \in {"open", "reclaim"} /\ task[t].at = "dropCover"
      /\ Releases(t)
      /\ IF task[t].op = "open" THEN Ends(t)
         ELSE task' = [task EXCEPT ![t].book = None, ![t].at = "strays"]
      /\ cutOff' = cutOff \ {<<b, "open">>}
      /\ UNCHANGED <<rows, retired, source, cover, nextSource, nextCover, used, touched, faults, starts>>

\* Mutant: the lock is let go only by a reclaim.
DropCoverHolding(t) ==
  LET b == task[t].book
  IN  /\ task[t].op \in {"open", "reclaim"} /\ task[t].at = "dropCover"
      /\ cover' = [cover EXCEPT ![b] = None]
      /\ IF task[t].op = "open" THEN Ends(t) /\ UNCHANGED lock
         ELSE task' = [task EXCEPT ![t].book = None, ![t].at = "strays"] /\ Releases(t)
      /\ cutOff' = cutOff \ {<<b, "open">>}
      /\ UNCHANGED <<rows, retired, source, nextSource, nextCover, used, touched, faults, starts>>

(* discard: of a stray, and of an add that failed. *)
DropSource(t) ==
  /\ task[t].op \in {"open", "reclaim"} /\ task[t].at = "dropSource"
  /\ source' = [source EXCEPT ![task[t].book] = None]
  /\ Goes(t, "dropCover")
  /\ UNCHANGED <<rows, retired, cover, nextSource, nextCover, lock, history, starts>>

DropCover(t) ==
  LET b == task[t].book
  IN  /\ task[t].op \in {"open", "reclaim"} /\ task[t].at = "dropCover"
      /\ cover' = [cover EXCEPT ![b] = None]
      /\ Releases(t)
      /\ IF task[t].op = "open" THEN Ends(t)
         ELSE task' = [task EXCEPT ![t].book = None, ![t].at = "strays"]
      /\ cutOff' = cutOff \ {<<b, "open">>}
      /\ UNCHANGED <<rows, retired, source, nextSource, nextCover, used, touched, faults, starts>>
-------------------------------------------------------------------------------
(* Removing and erasing: the files go first, then the row, without a lock.  *)
(* A removed book keeps its row among the removed; an erased one does not.  *)

StartRemove(t, b) ==
  /\ rows[b] # None
  /\ Starts(t, "remove", "dropSource", b, None)
  /\ UNCHANGED <<stored, lock, history>>

StartErase(t, b) ==
  /\ rows[b] # None \/ retired[b] # None
  /\ Starts(t, "erase", "dropSource", b, None)
  /\ UNCHANGED <<stored, lock, history>>

RemoveSource(t) ==
  LET b == task[t].book
  IN  /\ task[t].op \in {"remove", "erase"} /\ task[t].at = "dropSource"
      /\ source' = [source EXCEPT ![b] = None]
      /\ touched' = touched \cup {b}
      /\ Goes(t, "dropCover")
      /\ UNCHANGED <<rows, retired, cover, nextSource, nextCover, lock, used, cutOff, faults, starts>>

RemoveCover(t) ==
  LET b == task[t].book
  IN  /\ task[t].op \in {"remove", "erase"} /\ task[t].at = "dropCover"
      /\ cover' = [cover EXCEPT ![b] = None]
      /\ touched' = touched \cup {b}
      /\ Goes(t, "retire")
      /\ UNCHANGED <<rows, retired, source, nextSource, nextCover, lock, used, cutOff, faults, starts>>

Retire(t) ==
  LET b == task[t].book
  IN  /\ task[t].at = "retire"
      /\ rows' = [rows EXCEPT ![b] = None]
      /\ retired' = [retired EXCEPT ![b] = IF task[t].op = "erase" THEN None
                                           ELSE IF rows[b] = None THEN @ ELSE rows[b]]
      /\ Ends(t)
      /\ UNCHANGED <<source, cover, nextSource, nextCover, lock, history, starts>>
-------------------------------------------------------------------------------
(* Editing a row (its place, title, reading state), for the user or a sync: *)
(* it is read in a transaction and written back whole in another.           *)

StartEdit(t, b) ==
  /\ rows[b] # None
  /\ Starts(t, "edit", "store", b, rows[b])
  /\ UNCHANGED <<stored, lock, history>>

StoreEdit(t) ==
  LET b == task[t].book
  IN  /\ At(t, "edit", "store")
      /\ rows' = [rows EXCEPT ![b] = task[t].file]
      /\ touched' = IF rows[b] = task[t].file THEN touched ELSE touched \cup {b}
      /\ Ends(t)
      /\ UNCHANGED <<retired, source, cover, nextSource, nextCover, lock, used, cutOff, faults, starts>>
-------------------------------------------------------------------------------
(* Failures.  An add discards its files, a replacement what it staged; a    *)
(* replacement whose row cannot be written undoes nothing, nor does any     *)
(* task of a tab that is closed, which may leave a file half written.       *)

Swapping(t) == task[t].at \in {"moveCover", "row", "cover"}

FailAdding(t) ==
  /\ task[t].op = "open" /\ task[t].at \in {"source", "cover", "row"}
  /\ faults < MaxFaults /\ faults' = faults + 1
  /\ touched' = touched \cup ({task[t].book} \cap OnShelf)
  /\ Goes(t, "dropSource")
  /\ UNCHANGED <<stored, lock, used, cutOff, starts>>

\* Mutant: a replacement that fails leaves what it staged.
FailReplacingKept(t) ==
  LET b == task[t].book
  IN  /\ task[t].op = "replace" /\ task[t].at \in {"stage", "stageCover", "move", "moveCover"}
      /\ faults < MaxFaults /\ faults' = faults + 1
      /\ touched' = IF Swapping(t) THEN touched \cup {b} ELSE touched
      /\ Releases(t) /\ Ends(t)
      /\ UNCHANGED <<stored, used, cutOff, starts>>

FailReplacing(t) ==
  LET b == task[t].book
  IN  /\ task[t].op = "replace" /\ task[t].at \in {"stage", "stageCover", "move", "moveCover"}
      /\ faults < MaxFaults /\ faults' = faults + 1
      /\ nextSource' = [nextSource EXCEPT ![b] = None]
      /\ nextCover' = [nextCover EXCEPT ![b] = None]
      /\ touched' = IF Swapping(t) THEN touched \cup {b} ELSE touched
      /\ Releases(t) /\ Ends(t)
      /\ UNCHANGED <<rows, retired, source, cover, used, cutOff, starts>>

TornBy(t, at, file) ==
  IF task[t].at # at THEN {file}
  ELSE {file, [file EXCEPT ![task[t].book] = Torn]}

CutOff(t) ==
  LET b == task[t].book
  IN  /\ task[t] # Idle /\ faults < MaxFaults /\ faults' = faults + 1
      /\ source' \in TornBy(t, "source", source)
      /\ cover' \in TornBy(t, "cover", cover)
      /\ nextSource' \in TornBy(t, "stage", nextSource)
      /\ nextCover' \in TornBy(t, "stageCover", nextCover)
      /\ touched' = IF task[t].op = "replace" /\ Swapping(t) THEN touched \cup {b}
                    ELSE IF Swapping(t) \/ task[t].at = "source"
                    THEN touched \cup ({b} \cap OnShelf) ELSE touched
      /\ cutOff' = cutOff \cup ({<<b, task[t].op>>} \cap (Book \X Ops))
      /\ Releases(t) /\ Ends(t)
      /\ UNCHANGED <<rows, retired, used, starts>>
-------------------------------------------------------------------------------
Begin(t) ==
  \/ \E f \in File : StartOpen(t, f)
  \/ \E b \in Book, f \in File : StartReplace(t, b, f)
  \/ \E b \in Book : StartRemove(t, b) \/ StartErase(t, b) \/ StartEdit(t, b)

GoOn(t) ==
  \/ Identify(t) \/ Refuse(t) \/ PutSource(t) \/ PutCover(t) \/ Shelve(t)
  \/ Stage(t) \/ StageCover(t) \/ Move(t) \/ MoveCover(t)
  \/ ListRows(t) \/ ListFiles(t) \/ (\E b \in Book : TryStray(t, b)) \/ EndReclaim(t)
  \/ DropSource(t) \/ DropCover(t)
  \/ RemoveSource(t) \/ RemoveCover(t) \/ Retire(t) \/ StoreEdit(t)

Next == \E t \in Task : \/ Begin(t) \/ Lock(t) \/ GoOn(t)
                        \/ FailAdding(t) \/ FailReplacing(t) \/ CutOff(t)

Spec == Init /\ [][Next]_vars

(* A task goes on; a lock is granted in the order it was asked for. *)
Fairness == \A t \in Task : WF_vars(GoOn(t)) /\ SF_vars(Lock(t))
FairSpec == Spec /\ Fairness
-------------------------------------------------------------------------------
Stored == File \cup {None, Torn}

TypeOK ==
  /\ rows \in [Book -> File \cup {None}] /\ retired \in [Book -> File \cup {None}]
  /\ source \in [Book -> Stored] /\ cover \in [Book -> Stored]
  /\ nextSource \in [Book -> Stored] /\ nextCover \in [Book -> Stored]
  /\ lock \in [Book -> Task \cup {None}]
  /\ task \in [Task -> [op : Ops, at : Stages, book : Book \cup {None},
                        file : File \cup {None}, shelved : SUBSET Book,
                        strays : SUBSET Book]]
  /\ used \subseteq Book /\ touched \subseteq Book /\ cutOff \subseteq Book \X Ops
  /\ starts \in 0..MaxStarts /\ faults \in 0..MaxFaults

Swapped(b) ==
  \E t \in Task : lock[b] = t /\ task[t].op \in {"open", "replace"} /\ Swapping(t)

(* A book on the shelf has the source and the cover of the file its row     *)
(* names.  Excepted are a book whose files are being replaced under the     *)
(* lock, and one touched: by a removal or an edit that overlapped another   *)
(* operation (neither takes the lock), or by a replacement, or an add under *)
(* an id that is shelved, that failed halfway.  So a reclaim of another tab *)
(* never takes a shelved book's files, nor does an add that was waited for. *)
RowsHaveFiles ==
  \A b \in Book : rows[b] # None /\ b \notin touched /\ ~Swapped(b)
                    => source[b] = rows[b] /\ cover[b] = CoverOf(rows[b])

(* No book is both on the shelf and among the removed, unless an edit wrote *)
(* back the row of a book that was removed meanwhile.                       *)
ShelvedOrRetired ==
  \A b \in Book : rows[b] # None /\ retired[b] # None => b \in touched \/ Swapped(b)

(* Staged files belong to the replacement that holds the lock of the book,  *)
(* or were left by one that was cut off: a failure leaves none behind.      *)
StagedInUse ==
  \A b \in Book : nextSource[b] # None \/ nextCover[b] # None
     => \/ <<b, "replace">> \in cutOff
        \/ \E t \in Task : lock[b] = t /\ task[t].op = "replace"

(* Files of a book without a row are being worked on under its lock, or     *)
(* were left by an add that was cut off and not reclaimed since, or are of  *)
(* a book touched as above: no failure of an add leaves a file.             *)
StraysKnown ==
  \A b \in Book : rows[b] = None /\ b \in Filed
     => \/ b \in touched \/ <<b, "open">> \in cutOff
        \/ \E t \in Task : lock[b] = t

(* Every operation comes to an end: whatever way one ends, the lock it held *)
(* is free for the next.                                                    *)
Finishes == \A t \in Task : task[t] # Idle ~> task[t] = Idle
===============================================================================
