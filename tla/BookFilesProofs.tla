---------------------------- MODULE BookFilesProofs ----------------------------
(***************************************************************************)
(* That rows and files fit, for any books, files and operations at once.   *)
(* An operation works on what it put in place some steps ago; what makes   *)
(* that safe is that whoever holds the lock of a book's files finds them   *)
(* as it left them, or the book has been touched.  The invariant says so   *)
(* of every task at every stage under the lock (FilesFit), and that a lock *)
(* is held by the one task that is at such a stage (LocksFit).             *)
(***************************************************************************)
EXTENDS BookFiles, TLAPS

StagesOf(op) ==
  CASE op = "none" -> {"idle"}
    [] op = "open" -> {"restorable", "lock", "source", "cover", "row", "dropSource",
        "dropCover"}
    [] op = "replace" -> {"lock", "stage", "stageCover", "move", "moveCover", "row"}
    [] op = "reclaim" -> {"rows", "files", "strays", "dropSource", "dropCover"}
    [] op = "edit" -> {"store"}
    [] OTHER -> {"dropSource", "dropCover", "retire"}

StagesFit ==
  \A t \in Task :
    /\ task[t].at \in StagesOf(task[t].op)
    /\ task[t].op \in {"open", "replace", "edit"} => task[t].file \in File
    /\ task[t].book \in Book \/ task[t].at \in {"idle", "restorable", "rows", "files",
        "strays"}

InLock(t) ==
  /\ task[t].op \in {"open", "replace", "reclaim"}
  /\ task[t].at \in {"source", "cover", "row", "dropSource", "dropCover",
                     "stage", "stageCover", "move", "moveCover"}

LocksFit ==
  /\ \A t \in Task : InLock(t) => task[t].book \in Book /\ lock[task[t].book] = t
  /\ \A t \in Task, b \in Book : lock[b] = t => InLock(t) /\ task[t].book = b

(* What each stage can rely on. *)
AddFits(t) ==
  LET b == task[t].book
      f == task[t].file
  IN  /\ task[t].at = "cover" => source[b] = f \/ b \in touched
      /\ task[t].at = "row" => (source[b] = f /\ cover[b] = CoverOf(f)) \/ b \in touched

ReplaceFits(t) ==
  LET b == task[t].book
      f == task[t].file
  IN  /\ task[t].at \in {"stageCover", "move"} => nextSource[b] = f
      /\ task[t].at \in {"move", "moveCover"} /\ f \notin Coverless => nextCover[b] = f
      /\ task[t].at = "moveCover" => source[b] = f \/ b \in touched
      /\ task[t].at = "row" => (source[b] = f /\ cover[b] = CoverOf(f)) \/ b \in touched
      /\ task[t].at \in {"moveCover", "row"} => nextSource[b] = None
      /\ task[t].at = "row" \/ (task[t].at # "lock" /\ f \in Coverless)
           => nextCover[b] = None \/ <<b, "replace">> \in cutOff

DropFits(t) ==
  LET b == task[t].book
  IN  /\ task[t].at \in {"dropSource", "dropCover"} => rows[b] = None \/ b \in touched
      /\ task[t].at = "dropCover" => source[b] = None

FilesFit ==
  \A t \in Task : /\ task[t].op = "open" => AddFits(t)
                  /\ task[t].op = "replace" => ReplaceFits(t)
                  /\ task[t].op \in {"open", "reclaim"} => DropFits(t)

(* A removal past its first step has touched its book. *)
RemovalsTouch ==
  \A t \in Task : task[t].op \in {"remove", "erase"} /\ task[t].at # "dropSource"
                    => task[t].book \in touched

(* StraysKnown, with what the holder of the lock does. *)
StraysHeld ==
  \A b \in Book : rows[b] = None /\ b \in Filed
     => \/ b \in touched \/ <<b, "open">> \in cutOff
        \/ \E t \in Task : /\ lock[b] = t
                           /\ \/ task[t].op = "open" /\ task[t].at # "source"
                              \/ task[t].op = "replace" /\ task[t].at \in
                                  {"moveCover", "row"}

Inv == /\ TypeOK /\ StagesFit /\ LocksFit /\ FilesFit /\ RemovalsTouch
       /\ RowsHaveFiles /\ ShelvedOrRetired /\ StagedInUse /\ StraysHeld
-------------------------------------------------------------------------------
Tasks == [op : Ops, at : Stages, book : Book \cup {None}, file : File \cup {None},
          shelved : SUBSET Book, strays : SUBSET Book]

(* What a task does next; the others keep all they have. *)
Becomes(t, op, at, book, file) ==
  /\ task'[t].op = op /\ task'[t].at = at
  /\ task'[t].book = book /\ task'[t].file = file
  /\ \A u \in Task \ {t} : task'[u] = task[u]
  /\ task' \in [Task -> Tasks]

(* How the helpers of the actions change a task. *)
LEMMA GoesTo ==
  ASSUME TypeOK, NEW t \in Task, NEW at \in Stages, Goes(t, at)
  PROVE  Becomes(t, task[t].op, at, task[t].book, task[t].file)
  BY DEF TypeOK, Goes, Becomes, Tasks

LEMMA EndsAt ==
  ASSUME TypeOK, NEW t \in Task, Ends(t)
  PROVE  Becomes(t, "none", "idle", None, None)
  BY DEF TypeOK, Ends, Idle, Ops, Stages, Becomes, Tasks

LEMMA StartsAt ==
  ASSUME TypeOK, NEW t \in Task, NEW op \in Ops, NEW at \in Stages,
         NEW book \in Book \cup {None}, NEW file \in File \cup {None},
         Starts(t, op, at, book, file)
  PROVE  /\ Becomes(t, op, at, book, file)
         /\ task[t].op = "none" /\ task[t].at = "idle"
         /\ starts' \in 0..MaxStarts
<1>1. task[t] = Idle /\ task' = [task EXCEPT ![t] = [Idle EXCEPT !.op = op, !.at = at,
    !.book = book, !.file = file]]
  BY DEF Starts
<1>2. PICK new : new = [Idle EXCEPT !.op = op, !.at = at, !.book = book, !.file = file]
  OBVIOUS
<1>3. Becomes(t, op, at, book, file)
  <2>1. /\ new.op = op /\ new.at = at /\ new.book = book /\ new.file = file
        /\ new \in Tasks
    BY <1>2 DEF Idle, Tasks
  <2> QED BY <1>1, <1>2, <2>1 DEF TypeOK, Becomes, Tasks
<1>4. task[t].op = "none" /\ task[t].at = "idle"
  BY <1>1 DEF Idle
<1>5. starts' \in 0..MaxStarts
  BY BookFilesAssumption DEF Starts, TypeOK
<1> QED BY <1>3, <1>4, <1>5

LEMMA NewReclaim ==
  ASSUME TypeOK, NEW t \in Task,
         task' = [task EXCEPT ![t] = [Idle EXCEPT !.op = "reclaim", !.at = "rows"]]
  PROVE  Becomes(t, "reclaim", "rows", None, None)
<1>1. PICK new : new = [Idle EXCEPT !.op = "reclaim", !.at = "rows"]
  OBVIOUS
<1>2. /\ new.op = "reclaim" /\ new.at = "rows" /\ new.book = None /\ new.file = None
      /\ new \in Tasks
  BY <1>1 DEF Idle, Tasks, Ops, Stages
<1> QED BY <1>1, <1>2 DEF TypeOK, Becomes, Tasks

(* A lock that is taken, and one that is let go. *)
LEMMA Locks ==
  ASSUME TypeOK, NEW t \in Task, NEW c \in Book, lock' = [lock EXCEPT ![c] = t]
  PROVE  /\ lock' \in [Book -> Task \cup {None}]
         /\ lock'[c] = t /\ \A d \in Book \ {c} : lock'[d] = lock[d]
  BY DEF TypeOK

LEMMA Unlocks ==
  ASSUME TypeOK, LocksFit, NEW t \in Task, InLock(t), Releases(t)
  PROVE  /\ lock' \in [Book -> Task \cup {None}]
         /\ lock'[task[t].book] = None
         /\ \A d \in Book \ {task[t].book} : lock'[d] = lock[d]
  BY DEF TypeOK, LocksFit, Releases

(* A step of one task, outside the locks, that stores nothing. *)
LEMMA QuietKeeps ==
  ASSUME Inv, NEW t \in Task, NEW op, NEW at, NEW book, NEW file,
         Becomes(t, op, at, book, file), ~InLock(t),
         UNCHANGED <<stored, lock, touched>>,
         cutOff \subseteq cutOff', cutOff' \subseteq Book \X Ops, faults' \in
             0..MaxFaults,
         used' \subseteq Book, starts' \in 0..MaxStarts,
         at \in StagesOf(op),
         \/ at \in {"idle", "restorable", "rows", "files", "strays"}
         \/ at \in {"lock", "store"} /\ book \in Book
         \/ op \in {"remove", "erase"} /\ at = "dropSource" /\ book \in Book,
         op \in {"open", "replace", "edit"} => file \in File
  PROVE  Inv'
<1>1. TypeOK
  BY DEF Inv
<1>2. ~InLock(t)' /\ \A u \in Task \ {t} : InLock(u)' <=> InLock(u)
  BY DEF Becomes, InLock
<1>3. \A c \in Book : lock[c] # t
  BY DEF Inv, LocksFit
<1>4. TypeOK'
  BY <1>1 DEF TypeOK, Tasks, Becomes, stored
<1>5. StagesFit'
  BY <1>1 DEF StagesFit, Inv, Becomes
<1>6. LocksFit'
  BY <1>2, <1>3 DEF LocksFit, Inv, Becomes
<1>7. FilesFit'
  <2> SUFFICES ASSUME NEW u \in Task
               PROVE  /\ task'[u].op = "open" => AddFits(u)'
                      /\ task'[u].op = "replace" => ReplaceFits(u)'
                      /\ task'[u].op \in {"open", "reclaim"} => DropFits(u)'
    BY DEF FilesFit
  <2>1. CASE u = t
    BY <2>1 DEF Becomes, AddFits, ReplaceFits, DropFits, StagesOf
  <2>2. CASE u # t
    BY <2>2 DEF Becomes, AddFits, ReplaceFits, DropFits, stored, Inv, FilesFit
  <2> QED BY <2>1, <2>2
<1>8. RemovalsTouch'
  BY DEF RemovalsTouch, Inv, Becomes, StagesOf
<1>9. RowsHaveFiles' /\ ShelvedOrRetired'
  BY <1>3 DEF RowsHaveFiles, ShelvedOrRetired, Swapped, Swapping, Inv, Becomes, stored
<1>10. StagedInUse' /\ StraysHeld'
  BY <1>3 DEF StagedInUse, StraysHeld, Filed, Inv, Becomes, stored
<1> QED BY <1>4, <1>5, <1>6, <1>7, <1>8, <1>9, <1>10 DEF Inv

(* The same when nothing fails either. *)
LEMMA OutsideKeeps ==
  ASSUME Inv, NEW t \in Task, NEW op, NEW at, NEW book, NEW file,
         Becomes(t, op, at, book, file), ~InLock(t),
         UNCHANGED <<stored, lock, touched, cutOff, faults>>,
         used' \subseteq Book, starts' \in 0..MaxStarts,
         at \in StagesOf(op),
         \/ at \in {"idle", "restorable", "rows", "files", "strays"}
         \/ at \in {"lock", "store"} /\ book \in Book
         \/ op \in {"remove", "erase"} /\ at = "dropSource" /\ book \in Book,
         op \in {"open", "replace", "edit"} => file \in File
  PROVE  Inv'
  BY QuietKeeps DEF Inv, TypeOK

(* An add writes the source; from here on a shelved row of the id is        *)
(* excepted, as its files are being replaced.                               *)
LEMMA PutSourceKeeps ==
  ASSUME Inv, NEW t \in Task, PutSource(t)
  PROVE  Inv'
<1> DEFINE b == task[t].book
<1>1. TypeOK
  BY DEF Inv
<1>2. task[t].op = "open" /\ task[t].at = "source"
  BY DEF PutSource, At
<1>3. Becomes(t, "open", "cover", b, task[t].file)
  BY <1>1, <1>2, GoesTo DEF PutSource, Stages
<1>4. b \in Book /\ task[t].file \in File /\ lock[b] = t
  BY <1>2 DEF Inv, StagesFit, LocksFit, InLock
<1>5. /\ source' = [source EXCEPT ![b] = task[t].file]
      /\ touched' = (IF Removing(b) THEN touched ELSE touched \ {b})
      /\ UNCHANGED <<rows, retired, cover, nextSource, nextCover, lock, used, cutOff,
                        faults, starts>>
  BY DEF PutSource, stored, history
<1>6. TypeOK'
  BY <1>1, <1>2, <1>3, <1>4, <1>5 DEF Inv, Becomes, TypeOK, Tasks, Stored
<1>7. StagesFit'
  BY <1>1, <1>2, <1>3, <1>4, <1>5 DEF Inv, Becomes, StagesFit, StagesOf
<1>8. LocksFit'
  BY <1>1, <1>2, <1>3, <1>4, <1>5 DEF Inv, Becomes, LocksFit, InLock
<1>9. FilesFit'
  BY <1>1, <1>2, <1>3, <1>4, <1>5 DEF Inv, Becomes, FilesFit, AddFits, ReplaceFits,
     DropFits, StagesFit, StagesOf, LocksFit, InLock, TypeOK
<1>10. RemovalsTouch'
  BY <1>1, <1>2, <1>3, <1>4, <1>5 DEF Inv, Becomes, RemovalsTouch, Removing
<1>11. RowsHaveFiles'
  BY <1>1, <1>2, <1>3, <1>4, <1>5 DEF Inv, Becomes, RowsHaveFiles, Swapped, Swapping,
     TypeOK
<1>12. ShelvedOrRetired'
  BY <1>1, <1>2, <1>3, <1>4, <1>5 DEF Inv, Becomes, ShelvedOrRetired, Swapped,
     Swapping, TypeOK
<1>13. StagedInUse'
  BY <1>1, <1>2, <1>3, <1>4, <1>5 DEF Inv, Becomes, StagedInUse, TypeOK
<1>14. StraysHeld'
  BY <1>1, <1>2, <1>3, <1>4, <1>5 DEF Inv, Becomes, StraysHeld, Filed, TypeOK
<1> QED BY <1>6, <1>7, <1>8, <1>9, <1>10, <1>11, <1>12, <1>13, <1>14 DEF Inv

(* An add writes the cover. *)
LEMMA PutCoverKeeps ==
  ASSUME Inv, NEW t \in Task, PutCover(t)
  PROVE  Inv'
<1> DEFINE b == task[t].book
<1>1. TypeOK
  BY DEF Inv
<1>2. task[t].op = "open" /\ task[t].at = "cover"
  BY DEF PutCover, At
<1>3. Becomes(t, "open", "row", b, task[t].file)
  BY <1>1, <1>2, GoesTo DEF PutCover, Stages
<1>4. b \in Book /\ task[t].file \in File /\ lock[b] = t
  BY <1>2 DEF Inv, StagesFit, LocksFit, InLock
<1>5. /\ cover' = [cover EXCEPT ![b] = CoverOf(task[t].file)]
      /\ UNCHANGED <<rows, retired, source, nextSource, nextCover, lock, used,
                        touched, cutOff, faults, starts>>
  BY DEF PutCover, stored, history
<1>6. TypeOK'
  BY <1>1, <1>2, <1>3, <1>4, <1>5 DEF Inv, Becomes, TypeOK, Tasks, Stored, CoverOf
<1>7. StagesFit'
  BY <1>1, <1>2, <1>3, <1>4, <1>5 DEF Inv, Becomes, StagesFit, StagesOf
<1>8. LocksFit'
  BY <1>1, <1>2, <1>3, <1>4, <1>5 DEF Inv, Becomes, LocksFit, InLock
<1>9. FilesFit'
  BY <1>1, <1>2, <1>3, <1>4, <1>5 DEF Inv, Becomes, FilesFit, AddFits, ReplaceFits,
     DropFits, StagesFit, StagesOf, LocksFit, InLock, TypeOK
<1>10. RemovalsTouch'
  BY <1>1, <1>2, <1>3, <1>4, <1>5 DEF Inv, Becomes, RemovalsTouch
<1>11. RowsHaveFiles'
  BY <1>1, <1>2, <1>3, <1>4, <1>5 DEF Inv, Becomes, RowsHaveFiles, Swapped, Swapping,
     TypeOK
<1>12. ShelvedOrRetired'
  BY <1>1, <1>2, <1>3, <1>4, <1>5 DEF Inv, Becomes, ShelvedOrRetired, Swapped,
     Swapping, TypeOK
<1>13. StagedInUse'
  BY <1>1, <1>2, <1>3, <1>4, <1>5 DEF Inv, Becomes, StagedInUse, TypeOK
<1>14. StraysHeld'
  BY <1>1, <1>2, <1>3, <1>4, <1>5 DEF Inv, Becomes, StraysHeld, Filed, TypeOK
<1> QED BY <1>6, <1>7, <1>8, <1>9, <1>10, <1>11, <1>12, <1>13, <1>14 DEF Inv

(* A replacement stages the new source: what is shelved is as before. *)
LEMMA StageKeeps ==
  ASSUME Inv, NEW t \in Task, Stage(t)
  PROVE  Inv'
<1> DEFINE b == task[t].book
<1>1. TypeOK
  BY DEF Inv
<1>2. task[t].op = "replace" /\ task[t].at = "stage"
  BY DEF Stage, At
<1>3. Becomes(t, "replace", "stageCover", b, task[t].file)
  BY <1>1, <1>2, GoesTo DEF Stage, Stages
<1>4. b \in Book /\ task[t].file \in File /\ lock[b] = t
  BY <1>2 DEF Inv, StagesFit, LocksFit, InLock
<1>5. /\ nextSource' = [nextSource EXCEPT ![b] = task[t].file]
      /\ UNCHANGED <<rows, retired, source, cover, nextCover, lock, used, touched,
                        cutOff, faults, starts>>
  BY DEF Stage, stored, history
<1>6. TypeOK'
  BY <1>1, <1>2, <1>3, <1>4, <1>5 DEF Inv, Becomes, TypeOK, Tasks, Stored
<1>7. StagesFit'
  BY <1>1, <1>2, <1>3, <1>4, <1>5 DEF Inv, Becomes, StagesFit, StagesOf
<1>8. LocksFit'
  BY <1>1, <1>2, <1>3, <1>4, <1>5 DEF Inv, Becomes, LocksFit, InLock
<1>9. FilesFit'
  BY <1>1, <1>2, <1>3, <1>4, <1>5 DEF Inv, Becomes, FilesFit, AddFits, ReplaceFits,
     DropFits, StagesFit, StagesOf, LocksFit, InLock, TypeOK
<1>10. RemovalsTouch'
  BY <1>1, <1>2, <1>3, <1>4, <1>5 DEF Inv, Becomes, RemovalsTouch
<1>11. RowsHaveFiles'
  BY <1>1, <1>2, <1>3, <1>4, <1>5 DEF Inv, Becomes, RowsHaveFiles, Swapped, Swapping,
     TypeOK
<1>12. ShelvedOrRetired'
  BY <1>1, <1>2, <1>3, <1>4, <1>5 DEF Inv, Becomes, ShelvedOrRetired, Swapped,
     Swapping, TypeOK
<1>13. StagedInUse'
  BY <1>1, <1>2, <1>3, <1>4, <1>5 DEF Inv, Becomes, StagedInUse, TypeOK
<1>14. StraysHeld'
  BY <1>1, <1>2, <1>3, <1>4, <1>5 DEF Inv, Becomes, StraysHeld, Filed, TypeOK
<1> QED BY <1>6, <1>7, <1>8, <1>9, <1>10, <1>11, <1>12, <1>13, <1>14 DEF Inv

(* A replacement stages the new cover, if there is one. *)
LEMMA StageCoverKeeps ==
  ASSUME Inv, NEW t \in Task, StageCover(t)
  PROVE  Inv'
<1> DEFINE b == task[t].book
<1>1. TypeOK
  BY DEF Inv
<1>2. task[t].op = "replace" /\ task[t].at = "stageCover"
  BY DEF StageCover, At
<1>3. Becomes(t, "replace", "move", b, task[t].file)
  BY <1>1, <1>2, GoesTo DEF StageCover, Stages
<1>4. b \in Book /\ task[t].file \in File /\ lock[b] = t
  BY <1>2 DEF Inv, StagesFit, LocksFit, InLock
<1>5. /\ nextCover' = (IF task[t].file \in Coverless THEN nextCover
                       ELSE [nextCover EXCEPT ![b] = task[t].file])
      /\ UNCHANGED <<rows, retired, source, cover, nextSource, lock, used, touched,
                        cutOff, faults, starts>>
  BY DEF StageCover, stored, history
<1>6. TypeOK'
  BY <1>1, <1>2, <1>3, <1>4, <1>5 DEF Inv, Becomes, TypeOK, Tasks, Stored
<1>7. StagesFit'
  BY <1>1, <1>2, <1>3, <1>4, <1>5 DEF Inv, Becomes, StagesFit, StagesOf
<1>8. LocksFit'
  BY <1>1, <1>2, <1>3, <1>4, <1>5 DEF Inv, Becomes, LocksFit, InLock
<1>9. FilesFit'
  BY <1>1, <1>2, <1>3, <1>4, <1>5 DEF Inv, Becomes, FilesFit, AddFits, ReplaceFits,
     DropFits, StagesFit, StagesOf, LocksFit, InLock, TypeOK
<1>10. RemovalsTouch'
  BY <1>1, <1>2, <1>3, <1>4, <1>5 DEF Inv, Becomes, RemovalsTouch
<1>11. RowsHaveFiles'
  BY <1>1, <1>2, <1>3, <1>4, <1>5 DEF Inv, Becomes, RowsHaveFiles, Swapped, Swapping,
     TypeOK
<1>12. ShelvedOrRetired'
  BY <1>1, <1>2, <1>3, <1>4, <1>5 DEF Inv, Becomes, ShelvedOrRetired, Swapped,
     Swapping, TypeOK
<1>13. StagedInUse'
  BY <1>1, <1>2, <1>3, <1>4, <1>5 DEF Inv, Becomes, StagedInUse, TypeOK
<1>14. StraysHeld'
  BY <1>1, <1>2, <1>3, <1>4, <1>5 DEF Inv, Becomes, StraysHeld, Filed, TypeOK
<1> QED BY <1>6, <1>7, <1>8, <1>9, <1>10, <1>11, <1>12, <1>13, <1>14 DEF Inv

(* The staged source takes the place of the old one. *)
LEMMA MoveKeeps ==
  ASSUME Inv, NEW t \in Task, Move(t)
  PROVE  Inv'
<1> DEFINE b == task[t].book
<1>1. TypeOK
  BY DEF Inv
<1>2. task[t].op = "replace" /\ task[t].at = "move"
  BY DEF Move, At
<1>3. Becomes(t, "replace", "moveCover", b, task[t].file)
  BY <1>1, <1>2, GoesTo DEF Move, Stages
<1>4. b \in Book /\ task[t].file \in File /\ lock[b] = t
  BY <1>2 DEF Inv, StagesFit, LocksFit, InLock
<1>5. /\ source' = [source EXCEPT ![b] = nextSource[b]]
      /\ nextSource' = [nextSource EXCEPT ![b] = None]
      /\ touched' = (IF Removing(b) THEN touched ELSE touched \ {b})
      /\ UNCHANGED <<rows, retired, cover, nextCover, lock, used, cutOff, faults,
                        starts>>
  BY DEF Move, stored, history
<1>6. TypeOK'
  BY <1>1, <1>2, <1>3, <1>4, <1>5 DEF Inv, Becomes, TypeOK, Tasks, Stored
<1>7. StagesFit'
  BY <1>1, <1>2, <1>3, <1>4, <1>5 DEF Inv, Becomes, StagesFit, StagesOf
<1>8. LocksFit'
  BY <1>1, <1>2, <1>3, <1>4, <1>5 DEF Inv, Becomes, LocksFit, InLock
<1>9. FilesFit'
  BY <1>1, <1>2, <1>3, <1>4, <1>5 DEF Inv, Becomes, FilesFit, AddFits, ReplaceFits,
     DropFits, StagesFit, StagesOf, LocksFit, InLock, TypeOK
<1>10. RemovalsTouch'
  BY <1>1, <1>2, <1>3, <1>4, <1>5 DEF Inv, Becomes, RemovalsTouch, Removing
<1>11. RowsHaveFiles'
  BY <1>1, <1>2, <1>3, <1>4, <1>5 DEF Inv, Becomes, RowsHaveFiles, Swapped, Swapping,
     TypeOK
<1>12. ShelvedOrRetired'
  BY <1>1, <1>2, <1>3, <1>4, <1>5 DEF Inv, Becomes, ShelvedOrRetired, Swapped,
     Swapping, TypeOK
<1>13. StagedInUse'
  BY <1>1, <1>2, <1>3, <1>4, <1>5 DEF Inv, Becomes, StagedInUse, TypeOK
<1>14. StraysHeld'
  BY <1>1, <1>2, <1>3, <1>4, <1>5 DEF Inv, Becomes, StraysHeld, Filed, TypeOK
<1> QED BY <1>6, <1>7, <1>8, <1>9, <1>10, <1>11, <1>12, <1>13, <1>14 DEF Inv

(* The staged cover does, or the old one goes. *)
LEMMA MoveCoverKeeps ==
  ASSUME Inv, NEW t \in Task, MoveCover(t)
  PROVE  Inv'
<1> DEFINE b == task[t].book
<1>1. TypeOK
  BY DEF Inv
<1>2. task[t].op = "replace" /\ task[t].at = "moveCover"
  BY DEF MoveCover, At
<1>3. Becomes(t, "replace", "row", b, task[t].file)
  BY <1>1, <1>2, GoesTo DEF MoveCover, Stages
<1>4. b \in Book /\ task[t].file \in File /\ lock[b] = t
  BY <1>2 DEF Inv, StagesFit, LocksFit, InLock
<1>5. /\ cover' = [cover EXCEPT ![b] = IF task[t].file \in Coverless THEN None
                                       ELSE nextCover[b]]
      /\ nextCover' = (IF task[t].file \in Coverless THEN nextCover
                       ELSE [nextCover EXCEPT ![b] = None])
      /\ UNCHANGED <<rows, retired, source, nextSource, lock, used, touched, cutOff,
                        faults, starts>>
  BY DEF MoveCover, stored, history
<1>6. TypeOK'
  BY <1>1, <1>2, <1>3, <1>4, <1>5 DEF Inv, Becomes, TypeOK, Tasks, Stored
<1>7. StagesFit'
  BY <1>1, <1>2, <1>3, <1>4, <1>5 DEF Inv, Becomes, StagesFit, StagesOf
<1>8. LocksFit'
  BY <1>1, <1>2, <1>3, <1>4, <1>5 DEF Inv, Becomes, LocksFit, InLock
<1>9. FilesFit'
  BY <1>1, <1>2, <1>3, <1>4, <1>5 DEF Inv, Becomes, FilesFit, AddFits, ReplaceFits,
     DropFits, StagesFit, StagesOf, LocksFit, InLock, TypeOK, CoverOf
<1>10. RemovalsTouch'
  BY <1>1, <1>2, <1>3, <1>4, <1>5 DEF Inv, Becomes, RemovalsTouch
<1>11. RowsHaveFiles'
  BY <1>1, <1>2, <1>3, <1>4, <1>5 DEF Inv, Becomes, RowsHaveFiles, Swapped, Swapping,
     TypeOK
<1>12. ShelvedOrRetired'
  BY <1>1, <1>2, <1>3, <1>4, <1>5 DEF Inv, Becomes, ShelvedOrRetired, Swapped,
     Swapping, TypeOK
<1>13. StagedInUse'
  BY <1>1, <1>2, <1>3, <1>4, <1>5 DEF Inv, Becomes, StagedInUse, TypeOK
<1>14. StraysHeld'
  BY <1>1, <1>2, <1>3, <1>4, <1>5 DEF Inv, Becomes, StraysHeld, Filed, TypeOK
<1> QED BY <1>6, <1>7, <1>8, <1>9, <1>10, <1>11, <1>12, <1>13, <1>14 DEF Inv

(* An add takes the lock: nobody else is at a stage that needs it. *)
LEMMA LockSourceKeeps ==
  ASSUME Inv, NEW t \in Task, Lock(t), task[t].op = "open"
  PROVE  Inv'
<1> DEFINE b == task[t].book
<1>1. TypeOK
  BY DEF Inv
<1>2. task[t].at = "lock" /\ lock[b] = None
  BY DEF Lock
<1>3. Becomes(t, "open", "source", b, task[t].file)
  BY <1>1, GoesTo DEF Lock, Stages
<1>4. b \in Book /\ task[t].file \in File
  BY <1>2 DEF Inv, StagesFit
<1>5. /\ lock' \in [Book -> Task \cup {None}]
      /\ lock'[b] = t /\ \A d \in Book \ {b} : lock'[d] = lock[d]
  BY <1>1, <1>4, Locks DEF Lock
<1>6. UNCHANGED <<rows, retired, source, cover, nextSource, nextCover, used, touched,
    cutOff, faults, starts>>
  BY DEF Lock, stored, history
<1>7. None \notin Task
  BY BookFilesAssumption
<1>8. \A d \in Book : lock[d] # t
  BY <1>2 DEF Inv, LocksFit, InLock
<1>9. TypeOK'
  BY <1>1, <1>2, <1>3, <1>4, <1>5, <1>6, <1>7, <1>8 DEF Inv, Becomes, TypeOK, Tasks,
     Stored
<1>10. StagesFit'
  BY <1>1, <1>2, <1>3, <1>4, <1>5, <1>6, <1>7, <1>8 DEF Inv, Becomes, StagesFit,
     StagesOf
<1>11. LocksFit'
  BY <1>1, <1>2, <1>3, <1>4, <1>5, <1>6, <1>7, <1>8 DEF Inv, Becomes, LocksFit, InLock
<1>12. FilesFit'
  BY <1>1, <1>2, <1>3, <1>4, <1>5, <1>6, <1>7, <1>8 DEF Inv, Becomes, FilesFit,
     AddFits, ReplaceFits, DropFits, StagesFit, StagesOf, LocksFit, InLock, TypeOK,
     StagedInUse
<1>13. RemovalsTouch'
  BY <1>1, <1>2, <1>3, <1>4, <1>5, <1>6, <1>7, <1>8 DEF Inv, Becomes, RemovalsTouch
<1>14. RowsHaveFiles'
  BY <1>1, <1>2, <1>3, <1>4, <1>5, <1>6, <1>7, <1>8 DEF Inv, Becomes, RowsHaveFiles,
     Swapped, Swapping, TypeOK
<1>15. ShelvedOrRetired'
  BY <1>1, <1>2, <1>3, <1>4, <1>5, <1>6, <1>7, <1>8 DEF Inv, Becomes,
     ShelvedOrRetired, Swapped, Swapping, TypeOK
<1>16. StagedInUse'
  BY <1>1, <1>2, <1>3, <1>4, <1>5, <1>6, <1>7, <1>8 DEF Inv, Becomes, StagedInUse,
     TypeOK
<1>17. StraysHeld'
  BY <1>1, <1>2, <1>3, <1>4, <1>5, <1>6, <1>7, <1>8 DEF Inv, Becomes, StraysHeld,
     Filed, TypeOK
<1> QED BY <1>9, <1>10, <1>11, <1>12, <1>13, <1>14, <1>15, <1>16, <1>17 DEF Inv

(* A replacement takes the lock: what is staged was left by one cut off. *)
LEMMA LockStageKeeps ==
  ASSUME Inv, NEW t \in Task, Lock(t), task[t].op = "replace"
  PROVE  Inv'
<1> DEFINE b == task[t].book
<1>1. TypeOK
  BY DEF Inv
<1>2. task[t].at = "lock" /\ lock[b] = None
  BY DEF Lock
<1>3. Becomes(t, "replace", "stage", b, task[t].file)
  BY <1>1, GoesTo DEF Lock, Stages
<1>4. b \in Book /\ task[t].file \in File
  BY <1>2 DEF Inv, StagesFit
<1>5. /\ lock' \in [Book -> Task \cup {None}]
      /\ lock'[b] = t /\ \A d \in Book \ {b} : lock'[d] = lock[d]
  BY <1>1, <1>4, Locks DEF Lock
<1>6. UNCHANGED <<rows, retired, source, cover, nextSource, nextCover, used, touched,
    cutOff, faults, starts>>
  BY DEF Lock, stored, history
<1>7. None \notin Task
  BY BookFilesAssumption
<1>8. \A d \in Book : lock[d] # t
  BY <1>2 DEF Inv, LocksFit, InLock
<1>9. TypeOK'
  BY <1>1, <1>2, <1>3, <1>4, <1>5, <1>6, <1>7, <1>8 DEF Inv, Becomes, TypeOK, Tasks,
     Stored
<1>10. StagesFit'
  BY <1>1, <1>2, <1>3, <1>4, <1>5, <1>6, <1>7, <1>8 DEF Inv, Becomes, StagesFit,
     StagesOf
<1>11. LocksFit'
  BY <1>1, <1>2, <1>3, <1>4, <1>5, <1>6, <1>7, <1>8 DEF Inv, Becomes, LocksFit, InLock
<1>12. FilesFit'
  BY <1>1, <1>2, <1>3, <1>4, <1>5, <1>6, <1>7, <1>8 DEF Inv, Becomes, FilesFit,
     AddFits, ReplaceFits, DropFits, StagesFit, StagesOf, LocksFit, InLock, TypeOK,
     StagedInUse
<1>13. RemovalsTouch'
  BY <1>1, <1>2, <1>3, <1>4, <1>5, <1>6, <1>7, <1>8 DEF Inv, Becomes, RemovalsTouch
<1>14. RowsHaveFiles'
  BY <1>1, <1>2, <1>3, <1>4, <1>5, <1>6, <1>7, <1>8 DEF Inv, Becomes, RowsHaveFiles,
     Swapped, Swapping, TypeOK
<1>15. ShelvedOrRetired'
  BY <1>1, <1>2, <1>3, <1>4, <1>5, <1>6, <1>7, <1>8 DEF Inv, Becomes,
     ShelvedOrRetired, Swapped, Swapping, TypeOK
<1>16. StagedInUse'
  BY <1>1, <1>2, <1>3, <1>4, <1>5, <1>6, <1>7, <1>8 DEF Inv, Becomes, StagedInUse,
     TypeOK
<1>17. StraysHeld'
  BY <1>1, <1>2, <1>3, <1>4, <1>5, <1>6, <1>7, <1>8 DEF Inv, Becomes, StraysHeld,
     Filed, TypeOK
<1> QED BY <1>9, <1>10, <1>11, <1>12, <1>13, <1>14, <1>15, <1>16, <1>17 DEF Inv

(* An add writes its row: source and cover are of the file, or were         *)
(* touched.                                                                 *)
LEMMA ShelveOpenKeeps ==
  ASSUME Inv, NEW t \in Task, Shelve(t), task[t].op = "open"
  PROVE  Inv'
<1> DEFINE b == task[t].book
<1>1. TypeOK
  BY DEF Inv
<1>2. task[t].at = "row"
  BY DEF Shelve
<1>3. Becomes(t, "reclaim", "rows", None, None)
  BY <1>1, NewReclaim DEF Shelve, TypeOK
<1>4. b \in Book /\ task[t].file \in File /\ lock[b] = t
  BY <1>2 DEF Inv, StagesFit, LocksFit, InLock
<1>5. /\ rows' = [rows EXCEPT ![b] = task[t].file]
      /\ retired' = [retired EXCEPT ![b] = None]
      /\ UNCHANGED <<source, cover, nextSource, nextCover, used, touched, cutOff,
                        faults, starts>>
  BY DEF Shelve, history
<1>6. /\ lock' \in [Book -> Task \cup {None}]
      /\ lock'[b] = None /\ \A d \in Book \ {b} : lock'[d] = lock[d]
  BY <1>1, <1>2, Unlocks DEF Shelve, InLock, Inv
<1>7. None \notin Task \cup File
  BY BookFilesAssumption
<1>8. \A d \in Book \ {b} : lock[d] # t
  BY DEF Inv, LocksFit
<1>9. TypeOK'
  BY <1>1, <1>2, <1>3, <1>4, <1>5, <1>6, <1>7, <1>8 DEF Inv, Becomes, TypeOK, Tasks,
     Stored
<1>10. StagesFit'
  BY <1>1, <1>2, <1>3, <1>4, <1>5, <1>6, <1>7, <1>8 DEF Inv, Becomes, StagesFit,
     StagesOf
<1>11. LocksFit'
  BY <1>1, <1>2, <1>3, <1>4, <1>5, <1>6, <1>7, <1>8 DEF Inv, Becomes, LocksFit, InLock
<1>12. FilesFit'
  BY <1>1, <1>2, <1>3, <1>4, <1>5, <1>6, <1>7, <1>8 DEF Inv, Becomes, FilesFit,
     AddFits, ReplaceFits, DropFits, StagesFit, StagesOf, LocksFit, InLock, TypeOK
<1>13. RemovalsTouch'
  BY <1>1, <1>2, <1>3, <1>4, <1>5, <1>6, <1>7, <1>8 DEF Inv, Becomes, RemovalsTouch
<1>14. RowsHaveFiles'
  <2> SUFFICES ASSUME NEW c \in Book
               PROVE  rows'[c] # None /\ c \notin touched' /\ ~Swapped(c)'
                          => source'[c] = rows'[c] /\ cover'[c] = CoverOf(rows'[c])
    BY DEF RowsHaveFiles
  <2>1. CASE c = b
    BY <2>1, <1>1, <1>2, <1>3, <1>4, <1>5, <1>6, <1>7, <1>8 DEF Inv, Becomes,
       RowsHaveFiles, Swapped, Swapping, TypeOK, FilesFit, AddFits, ReplaceFits
  <2>2. CASE c # b
    BY <2>2, <1>1, <1>2, <1>3, <1>4, <1>5, <1>6, <1>7, <1>8 DEF Inv, Becomes,
       RowsHaveFiles, Swapped, Swapping, TypeOK, LocksFit
  <2> QED BY <2>1, <2>2
<1>15. ShelvedOrRetired'
  BY <1>1, <1>2, <1>3, <1>4, <1>5, <1>6, <1>7, <1>8 DEF Inv, Becomes,
     ShelvedOrRetired, Swapped, Swapping, TypeOK
<1>16. StagedInUse'
  <2> SUFFICES ASSUME NEW c \in Book
               PROVE  nextSource'[c] # None \/ nextCover'[c] # None
                          => \/ <<c, "replace">> \in cutOff'
                             \/ \E u \in Task : lock'[c] = u /\ task'[u].op = "replace"
    BY DEF StagedInUse
  <2>1. CASE c = b
    BY <2>1, <1>1, <1>2, <1>3, <1>4, <1>5, <1>6, <1>7, <1>8 DEF Inv, Becomes,
       StagedInUse, TypeOK, FilesFit, AddFits, ReplaceFits
  <2>2. CASE c # b
    BY <2>2, <1>1, <1>2, <1>3, <1>4, <1>5, <1>6, <1>7, <1>8 DEF Inv, Becomes,
       StagedInUse, TypeOK, LocksFit
  <2> QED BY <2>1, <2>2
<1>17. StraysHeld'
  BY <1>1, <1>2, <1>3, <1>4, <1>5, <1>6, <1>7, <1>8 DEF Inv, Becomes, StraysHeld,
     Filed, TypeOK
<1> QED BY <1>9, <1>10, <1>11, <1>12, <1>13, <1>14, <1>15, <1>16, <1>17 DEF Inv

(* A replacement writes its row. *)
LEMMA ShelveReplaceKeeps ==
  ASSUME Inv, NEW t \in Task, Shelve(t), task[t].op = "replace"
  PROVE  Inv'
<1> DEFINE b == task[t].book
<1>1. TypeOK
  BY DEF Inv
<1>2. task[t].at = "row"
  BY DEF Shelve
<1>3. Becomes(t, "none", "idle", None, None)
  BY <1>1, EndsAt DEF Shelve
<1>4. b \in Book /\ task[t].file \in File /\ lock[b] = t
  BY <1>2 DEF Inv, StagesFit, LocksFit, InLock
<1>5. /\ rows' = [rows EXCEPT ![b] = task[t].file]
      /\ retired' = [retired EXCEPT ![b] = None]
      /\ UNCHANGED <<source, cover, nextSource, nextCover, used, touched, cutOff,
                        faults, starts>>
  BY DEF Shelve, history
<1>6. /\ lock' \in [Book -> Task \cup {None}]
      /\ lock'[b] = None /\ \A d \in Book \ {b} : lock'[d] = lock[d]
  BY <1>1, <1>2, Unlocks DEF Shelve, InLock, Inv
<1>7. None \notin Task \cup File
  BY BookFilesAssumption
<1>8. \A d \in Book \ {b} : lock[d] # t
  BY DEF Inv, LocksFit
<1>9. TypeOK'
  BY <1>1, <1>2, <1>3, <1>4, <1>5, <1>6, <1>7, <1>8 DEF Inv, Becomes, TypeOK, Tasks,
     Stored
<1>10. StagesFit'
  BY <1>1, <1>2, <1>3, <1>4, <1>5, <1>6, <1>7, <1>8 DEF Inv, Becomes, StagesFit,
     StagesOf
<1>11. LocksFit'
  BY <1>1, <1>2, <1>3, <1>4, <1>5, <1>6, <1>7, <1>8 DEF Inv, Becomes, LocksFit, InLock
<1>12. FilesFit'
  BY <1>1, <1>2, <1>3, <1>4, <1>5, <1>6, <1>7, <1>8 DEF Inv, Becomes, FilesFit,
     AddFits, ReplaceFits, DropFits, StagesFit, StagesOf, LocksFit, InLock, TypeOK
<1>13. RemovalsTouch'
  BY <1>1, <1>2, <1>3, <1>4, <1>5, <1>6, <1>7, <1>8 DEF Inv, Becomes, RemovalsTouch
<1>14. RowsHaveFiles'
  <2> SUFFICES ASSUME NEW c \in Book
               PROVE  rows'[c] # None /\ c \notin touched' /\ ~Swapped(c)'
                          => source'[c] = rows'[c] /\ cover'[c] = CoverOf(rows'[c])
    BY DEF RowsHaveFiles
  <2>1. CASE c = b
    BY <2>1, <1>1, <1>2, <1>3, <1>4, <1>5, <1>6, <1>7, <1>8 DEF Inv, Becomes,
       RowsHaveFiles, Swapped, Swapping, TypeOK, FilesFit, AddFits, ReplaceFits
  <2>2. CASE c # b
    BY <2>2, <1>1, <1>2, <1>3, <1>4, <1>5, <1>6, <1>7, <1>8 DEF Inv, Becomes,
       RowsHaveFiles, Swapped, Swapping, TypeOK, LocksFit
  <2> QED BY <2>1, <2>2
<1>15. ShelvedOrRetired'
  BY <1>1, <1>2, <1>3, <1>4, <1>5, <1>6, <1>7, <1>8 DEF Inv, Becomes,
     ShelvedOrRetired, Swapped, Swapping, TypeOK
<1>16. StagedInUse'
  <2> SUFFICES ASSUME NEW c \in Book
               PROVE  nextSource'[c] # None \/ nextCover'[c] # None
                          => \/ <<c, "replace">> \in cutOff'
                             \/ \E u \in Task : lock'[c] = u /\ task'[u].op = "replace"
    BY DEF StagedInUse
  <2>1. CASE c = b
    BY <2>1, <1>1, <1>2, <1>3, <1>4, <1>5, <1>6, <1>7, <1>8 DEF Inv, Becomes,
       StagedInUse, TypeOK, FilesFit, AddFits, ReplaceFits
  <2>2. CASE c # b
    BY <2>2, <1>1, <1>2, <1>3, <1>4, <1>5, <1>6, <1>7, <1>8 DEF Inv, Becomes,
       StagedInUse, TypeOK, LocksFit
  <2> QED BY <2>1, <2>2
<1>17. StraysHeld'
  BY <1>1, <1>2, <1>3, <1>4, <1>5, <1>6, <1>7, <1>8 DEF Inv, Becomes, StraysHeld,
     Filed, TypeOK
<1> QED BY <1>9, <1>10, <1>11, <1>12, <1>13, <1>14, <1>15, <1>16, <1>17 DEF Inv

(* What only starts an operation or looks at what is stored. *)
LEMMA StartOpenKeeps ==
  ASSUME Inv, NEW t \in Task, NEW f \in File, StartOpen(t, f)
  PROVE  Inv'
<1>1. TypeOK
  BY DEF Inv
<1>2. Starts(t, "open", "restorable", None, f)
  BY DEF StartOpen
<1>3. /\ Becomes(t, "open", "restorable", None, f) /\ starts' \in 0..MaxStarts
      /\ ~InLock(t)
  BY <1>1, <1>2, StartsAt DEF Ops, Stages, InLock
<1>4. UNCHANGED <<stored, lock, touched, cutOff, faults, used>>
  BY DEF StartOpen, history
<1> QED BY <1>1, <1>2, <1>3, <1>4, OutsideKeeps DEF StagesOf, TypeOK

LEMMA StartReplaceKeeps ==
  ASSUME Inv, NEW t \in Task, NEW c \in Book, NEW f \in File, StartReplace(t, c, f)
  PROVE  Inv'
<1>1. TypeOK
  BY DEF Inv
<1>2. Starts(t, "replace", "lock", c, f)
  BY DEF StartReplace
<1>3. /\ Becomes(t, "replace", "lock", c, f) /\ starts' \in 0..MaxStarts
      /\ ~InLock(t)
  BY <1>1, <1>2, StartsAt DEF Ops, Stages, InLock
<1>4. UNCHANGED <<stored, lock, touched, cutOff, faults, used>>
  BY DEF StartReplace, history
<1> QED BY <1>1, <1>2, <1>3, <1>4, OutsideKeeps DEF StagesOf, TypeOK

LEMMA StartRemoveKeeps ==
  ASSUME Inv, NEW t \in Task, NEW c \in Book, StartRemove(t, c)
  PROVE  Inv'
<1>1. TypeOK
  BY DEF Inv
<1>2. Starts(t, "remove", "dropSource", c, None)
  BY DEF StartRemove
<1>3. /\ Becomes(t, "remove", "dropSource", c, None) /\ starts' \in 0..MaxStarts
      /\ ~InLock(t)
  BY <1>1, <1>2, StartsAt DEF Ops, Stages, InLock
<1>4. UNCHANGED <<stored, lock, touched, cutOff, faults, used>>
  BY DEF StartRemove, history
<1> QED BY <1>1, <1>2, <1>3, <1>4, OutsideKeeps DEF StagesOf, TypeOK

LEMMA StartEraseKeeps ==
  ASSUME Inv, NEW t \in Task, NEW c \in Book, StartErase(t, c)
  PROVE  Inv'
<1>1. TypeOK
  BY DEF Inv
<1>2. Starts(t, "erase", "dropSource", c, None)
  BY DEF StartErase
<1>3. /\ Becomes(t, "erase", "dropSource", c, None) /\ starts' \in 0..MaxStarts
      /\ ~InLock(t)
  BY <1>1, <1>2, StartsAt DEF Ops, Stages, InLock
<1>4. UNCHANGED <<stored, lock, touched, cutOff, faults, used>>
  BY DEF StartErase, history
<1> QED BY <1>1, <1>2, <1>3, <1>4, OutsideKeeps DEF StagesOf, TypeOK

LEMMA StartEditKeeps ==
  ASSUME Inv, NEW t \in Task, NEW c \in Book, StartEdit(t, c)
  PROVE  Inv'
<1>1. TypeOK
  BY DEF Inv
<1>2. Starts(t, "edit", "store", c, rows[c]) /\ rows[c] \in File
  BY <1>1 DEF StartEdit, TypeOK
<1>3. /\ Becomes(t, "edit", "store", c, rows[c]) /\ starts' \in 0..MaxStarts
      /\ ~InLock(t)
  BY <1>1, <1>2, StartsAt DEF Ops, Stages, InLock
<1>4. UNCHANGED <<stored, lock, touched, cutOff, faults, used>>
  BY DEF StartEdit, history
<1> QED BY <1>1, <1>2, <1>3, <1>4, OutsideKeeps DEF StagesOf, TypeOK

LEMMA IdentifyKeeps ==
  ASSUME Inv, NEW t \in Task, Identify(t)
  PROVE  Inv'
<1>1. TypeOK
  BY DEF Inv
<1>2. PICK c \in Book : /\ task' = [task EXCEPT ![t].book = c, ![t].at = "lock"]
                      /\ used' = used \cup {c}
  BY DEF Identify, Restorable
<1>3. task[t].op = "open" /\ task[t].at = "restorable"
  BY DEF Identify, At
<1>4. Becomes(t, "open", "lock", c, task[t].file)
  BY <1>1, <1>2, <1>3 DEF Becomes, TypeOK, Tasks, Stages
<1>5. task[t].file \in File /\ used' \subseteq Book /\ ~InLock(t)
  BY <1>1, <1>2, <1>3 DEF Inv, StagesFit, TypeOK, InLock
<1>6. UNCHANGED <<stored, lock, touched, cutOff, faults>> /\ starts' \in 0..MaxStarts
  BY <1>1 DEF Identify, TypeOK
<1> QED BY <1>4, <1>5, <1>6, OutsideKeeps DEF StagesOf

LEMMA RefuseKeeps ==
  ASSUME Inv, NEW t \in Task, Refuse(t)
  PROVE  Inv'
<1>1. TypeOK
  BY DEF Inv
<1>2. Becomes(t, "none", "idle", None, None)
  BY <1>1, EndsAt DEF Refuse
<1>3. ~InLock(t) /\ UNCHANGED <<stored, lock, touched, cutOff, faults, used, starts>>
  BY DEF Refuse, At, InLock, history
<1> QED BY <1>1, <1>2, <1>3, OutsideKeeps DEF StagesOf, TypeOK

LEMMA EndReclaimKeeps ==
  ASSUME Inv, NEW t \in Task, EndReclaim(t)
  PROVE  Inv'
<1>1. TypeOK
  BY DEF Inv
<1>2. Becomes(t, "none", "idle", None, None)
  BY <1>1, EndsAt DEF EndReclaim
<1>3. ~InLock(t) /\ UNCHANGED <<stored, lock, touched, cutOff, faults, used, starts>>
  BY DEF EndReclaim, At, InLock, history
<1> QED BY <1>1, <1>2, <1>3, OutsideKeeps DEF StagesOf, TypeOK

LEMMA ListRowsKeeps ==
  ASSUME Inv, NEW t \in Task, ListRows(t)
  PROVE  Inv'
<1>1. TypeOK
  BY DEF Inv
<1>2. Becomes(t, "reclaim", "files", task[t].book, task[t].file)
  <2> DEFINE listed == OnShelf
  <2>1. listed \in SUBSET Book
    BY DEF Filed, OnShelf
  <2>2. task' = [task EXCEPT ![t].shelved = listed, ![t].at = "files"]
    BY DEF ListRows
  <2> HIDE DEF listed
  <2> QED BY <1>1, <2>1, <2>2 DEF ListRows, At, Becomes, TypeOK, Tasks, Stages
<1>3. ~InLock(t) /\ UNCHANGED <<stored, lock, touched, cutOff, faults, used, starts>>
  BY DEF ListRows, At, InLock, history
<1> QED BY <1>1, <1>2, <1>3, OutsideKeeps DEF StagesOf, TypeOK

LEMMA ListFilesKeeps ==
  ASSUME Inv, NEW t \in Task, ListFiles(t)
  PROVE  Inv'
<1>1. TypeOK
  BY DEF Inv
<1>2. Becomes(t, "reclaim", "strays", task[t].book, task[t].file)
  <2> DEFINE listed == Filed \ task[t].shelved
  <2>1. listed \in SUBSET Book
    BY DEF Filed, OnShelf
  <2>2. task' = [task EXCEPT ![t].strays = listed, ![t].at = "strays"]
    BY DEF ListFiles
  <2> HIDE DEF listed
  <2> QED BY <1>1, <2>1, <2>2 DEF ListFiles, At, Becomes, TypeOK, Tasks, Stages
<1>3. ~InLock(t) /\ UNCHANGED <<stored, lock, touched, cutOff, faults, used, starts>>
  BY DEF ListFiles, At, InLock, history
<1> QED BY <1>1, <1>2, <1>3, OutsideKeeps DEF StagesOf, TypeOK

(* A stray that is locked, or has a row by now, is skipped. *)
LEMMA SkipKeeps ==
  ASSUME Inv, NEW t \in Task, NEW c \in Book, TryStray(t, c),
         ~(lock[c] = None /\ rows[c] = None)
  PROVE  Inv'
<1>1. TypeOK
  BY DEF Inv
<1>2. Becomes(t, "reclaim", "strays", task[t].book, task[t].file)
  BY <1>1 DEF TryStray, At, Becomes, TypeOK, Tasks, Stages
<1>3. ~InLock(t) /\ UNCHANGED <<stored, lock, touched, cutOff, faults, used, starts>>
  BY DEF TryStray, At, InLock, history
<1> QED BY <1>1, <1>2, <1>3, OutsideKeeps DEF StagesOf, TypeOK

(* A stray is taken: it has no row, and only the holder of the lock shelves *)
(* one.                                                                     *)
LEMMA TakeKeeps ==
  ASSUME Inv, NEW t \in Task, NEW b \in Book, TryStray(t, b),
         lock[b] = None /\ rows[b] = None
  PROVE  Inv'
<1>1. TypeOK
  BY DEF Inv
<1>2. task[t].op = "reclaim" /\ task[t].at = "strays"
  BY DEF TryStray, At
<1>3. Becomes(t, "reclaim", "dropSource", b, task[t].file)
  BY <1>1, <1>2 DEF TryStray, Becomes, TypeOK, Tasks, Stages
<1>4. /\ lock' \in [Book -> Task \cup {None}]
      /\ lock'[b] = t /\ \A d \in Book \ {b} : lock'[d] = lock[d]
  BY <1>1, Locks DEF TryStray
<1>5. UNCHANGED <<rows, retired, source, cover, nextSource, nextCover, used, touched,
    cutOff, faults, starts>>
  BY DEF TryStray, stored, history
<1>6. None \notin Task
  BY BookFilesAssumption
<1>7. \A d \in Book : lock[d] # t
  BY <1>2 DEF Inv, LocksFit, InLock
<1>8. TypeOK'
  BY <1>1, <1>2, <1>3, <1>4, <1>5, <1>6, <1>7 DEF Inv, Becomes, TypeOK, Tasks, Stored
<1>9. StagesFit'
  BY <1>1, <1>2, <1>3, <1>4, <1>5, <1>6, <1>7 DEF Inv, Becomes, StagesFit, StagesOf
<1>10. LocksFit'
  BY <1>1, <1>2, <1>3, <1>4, <1>5, <1>6, <1>7 DEF Inv, Becomes, LocksFit, InLock
<1>11. FilesFit'
  BY <1>1, <1>2, <1>3, <1>4, <1>5, <1>6, <1>7 DEF Inv, Becomes, FilesFit, AddFits,
     ReplaceFits, DropFits, StagesFit, StagesOf, LocksFit, InLock, TypeOK, StagedInUse
<1>12. RemovalsTouch'
  BY <1>1, <1>2, <1>3, <1>4, <1>5, <1>6, <1>7 DEF Inv, Becomes, RemovalsTouch
<1>13. RowsHaveFiles'
  BY <1>1, <1>2, <1>3, <1>4, <1>5, <1>6, <1>7 DEF Inv, Becomes, RowsHaveFiles,
     Swapped, Swapping, TypeOK
<1>14. ShelvedOrRetired'
  BY <1>1, <1>2, <1>3, <1>4, <1>5, <1>6, <1>7 DEF Inv, Becomes, ShelvedOrRetired,
     Swapped, Swapping, TypeOK
<1>15. StagedInUse'
  BY <1>1, <1>2, <1>3, <1>4, <1>5, <1>6, <1>7 DEF Inv, Becomes, StagedInUse, TypeOK
<1>16. StraysHeld'
  BY <1>1, <1>2, <1>3, <1>4, <1>5, <1>6, <1>7 DEF Inv, Becomes, StraysHeld, Filed,
     TypeOK
<1> QED BY <1>8, <1>9, <1>10, <1>11, <1>12, <1>13, <1>14, <1>15, <1>16 DEF Inv

(* An add that failed drops the source it wrote. *)
LEMMA DropSourceOpenKeeps ==
  ASSUME Inv, NEW t \in Task, DropSource(t), task[t].op = "open"
  PROVE  Inv'
<1> DEFINE b == task[t].book
<1>1. TypeOK
  BY DEF Inv
<1>2. task[t].at = "dropSource"
  BY DEF DropSource
<1>3. Becomes(t, "open", "dropCover", b, task[t].file)
  BY <1>1, GoesTo DEF DropSource, Stages
<1>4. b \in Book /\ lock[b] = t
  BY <1>2 DEF Inv, LocksFit, InLock
<1>5. /\ source' = [source EXCEPT ![b] = None]
      /\ UNCHANGED <<rows, retired, cover, nextSource, nextCover, lock, used, touched,
                        cutOff, faults, starts>>
  BY DEF DropSource, history
<1>6. \A d \in Book \ {b} : lock[d] # t
  BY DEF Inv, LocksFit
<1>7. TypeOK'
  BY <1>1, <1>2, <1>3, <1>4, <1>5, <1>6 DEF Inv, Becomes, TypeOK, Tasks, Stored
<1>8. StagesFit'
  BY <1>1, <1>2, <1>3, <1>4, <1>5, <1>6 DEF Inv, Becomes, StagesFit, StagesOf
<1>9. LocksFit'
  BY <1>1, <1>2, <1>3, <1>4, <1>5, <1>6 DEF Inv, Becomes, LocksFit, InLock
<1>10. FilesFit'
  BY <1>1, <1>2, <1>3, <1>4, <1>5, <1>6 DEF Inv, Becomes, FilesFit, AddFits,
     ReplaceFits, DropFits, StagesFit, StagesOf, LocksFit, InLock, TypeOK
<1>11. RemovalsTouch'
  BY <1>1, <1>2, <1>3, <1>4, <1>5, <1>6 DEF Inv, Becomes, RemovalsTouch
<1>12. RowsHaveFiles'
  <2> SUFFICES ASSUME NEW c \in Book
               PROVE  rows'[c] # None /\ c \notin touched' /\ ~Swapped(c)'
                          => source'[c] = rows'[c] /\ cover'[c] = CoverOf(rows'[c])
    BY DEF RowsHaveFiles
  <2>1. CASE c = b
    BY <2>1, <1>1, <1>2, <1>3, <1>4, <1>5, <1>6 DEF Inv, Becomes, RowsHaveFiles,
       Swapped, Swapping, TypeOK, FilesFit, DropFits
  <2>2. CASE c # b
    BY <2>2, <1>1, <1>2, <1>3, <1>4, <1>5, <1>6 DEF Inv, Becomes, RowsHaveFiles,
       Swapped, Swapping, TypeOK, LocksFit
  <2> QED BY <2>1, <2>2
<1>13. ShelvedOrRetired'
  BY <1>1, <1>2, <1>3, <1>4, <1>5, <1>6 DEF Inv, Becomes, ShelvedOrRetired, Swapped,
     Swapping, TypeOK
<1>14. StagedInUse'
  BY <1>1, <1>2, <1>3, <1>4, <1>5, <1>6 DEF Inv, Becomes, StagedInUse, TypeOK
<1>15. StraysHeld'
  BY <1>1, <1>2, <1>3, <1>4, <1>5, <1>6 DEF Inv, Becomes, StraysHeld, Filed, TypeOK
<1> QED BY <1>7, <1>8, <1>9, <1>10, <1>11, <1>12, <1>13, <1>14, <1>15 DEF Inv

(* It drops the cover and ends. *)
LEMMA DropCoverOpenKeeps ==
  ASSUME Inv, NEW t \in Task, DropCover(t), task[t].op = "open"
  PROVE  Inv'
<1> DEFINE b == task[t].book
<1>1. TypeOK
  BY DEF Inv
<1>2. task[t].at = "dropCover"
  BY DEF DropCover
<1>3. Becomes(t, "none", "idle", None, None)
  BY <1>1, EndsAt DEF DropCover
<1>4. b \in Book /\ lock[b] = t
  BY <1>2 DEF Inv, LocksFit, InLock
<1>5. /\ cover' = [cover EXCEPT ![b] = None]
      /\ cutOff' = cutOff \ {<<b, "open">>}
      /\ UNCHANGED <<rows, retired, source, nextSource, nextCover, used, touched,
                        faults, starts>>
  BY DEF DropCover
<1>6. /\ lock' \in [Book -> Task \cup {None}]
      /\ lock'[b] = None /\ \A d \in Book \ {b} : lock'[d] = lock[d]
  BY <1>1, <1>2, Unlocks DEF DropCover, InLock, Inv
<1>7. None \notin Task \cup File
  BY BookFilesAssumption
<1>8. \A d \in Book \ {b} : lock[d] # t
  BY DEF Inv, LocksFit
<1>9. TypeOK'
  BY <1>1, <1>2, <1>3, <1>4, <1>5, <1>6, <1>7, <1>8 DEF Inv, Becomes, TypeOK, Tasks,
     Stored
<1>10. StagesFit'
  BY <1>1, <1>2, <1>3, <1>4, <1>5, <1>6, <1>7, <1>8 DEF Inv, Becomes, StagesFit,
     StagesOf
<1>11. LocksFit'
  BY <1>1, <1>2, <1>3, <1>4, <1>5, <1>6, <1>7, <1>8 DEF Inv, Becomes, LocksFit, InLock
<1>12. FilesFit'
  BY <1>1, <1>2, <1>3, <1>4, <1>5, <1>6, <1>7, <1>8 DEF Inv, Becomes, FilesFit,
     AddFits, ReplaceFits, DropFits, StagesFit, StagesOf, LocksFit, InLock, TypeOK
<1>13. RemovalsTouch'
  BY <1>1, <1>2, <1>3, <1>4, <1>5, <1>6, <1>7, <1>8 DEF Inv, Becomes, RemovalsTouch
<1>14. RowsHaveFiles'
  <2> SUFFICES ASSUME NEW c \in Book
               PROVE  rows'[c] # None /\ c \notin touched' /\ ~Swapped(c)'
                          => source'[c] = rows'[c] /\ cover'[c] = CoverOf(rows'[c])
    BY DEF RowsHaveFiles
  <2>1. CASE c = b
    BY <2>1, <1>1, <1>2, <1>3, <1>4, <1>5, <1>6, <1>7, <1>8 DEF Inv, Becomes,
       RowsHaveFiles, Swapped, Swapping, TypeOK, FilesFit, DropFits
  <2>2. CASE c # b
    BY <2>2, <1>1, <1>2, <1>3, <1>4, <1>5, <1>6, <1>7, <1>8 DEF Inv, Becomes,
       RowsHaveFiles, Swapped, Swapping, TypeOK, LocksFit
  <2> QED BY <2>1, <2>2
<1>15. ShelvedOrRetired'
  BY <1>1, <1>2, <1>3, <1>4, <1>5, <1>6, <1>7, <1>8 DEF Inv, Becomes,
     ShelvedOrRetired, Swapped, Swapping, TypeOK
<1>16. StagedInUse'
  <2> SUFFICES ASSUME NEW c \in Book
               PROVE  nextSource'[c] # None \/ nextCover'[c] # None
                          => \/ <<c, "replace">> \in cutOff'
                             \/ \E u \in Task : lock'[c] = u /\ task'[u].op = "replace"
    BY DEF StagedInUse
  <2>1. CASE c = b
    BY <2>1, <1>1, <1>2, <1>3, <1>4, <1>5, <1>6, <1>7, <1>8 DEF Inv, Becomes,
       StagedInUse, TypeOK, FilesFit, DropFits
  <2>2. CASE c # b
    BY <2>2, <1>1, <1>2, <1>3, <1>4, <1>5, <1>6, <1>7, <1>8 DEF Inv, Becomes,
       StagedInUse, TypeOK, LocksFit
  <2> QED BY <2>1, <2>2
<1>17. StraysHeld'
  <2> SUFFICES ASSUME NEW c \in Book
               PROVE  rows'[c] = None /\ c \in Filed'
                          => \/ c \in touched' \/ <<c, "open">> \in cutOff'
                             \/ \E u \in Task :
                                  /\ lock'[c] = u
                                  /\ \/ task'[u].op = "open" /\ task'[u].at # "source"
                                     \/ task'[u].op = "replace" /\ task'[u].at \in
                                         {"moveCover", "row"}
    BY DEF StraysHeld
  <2>1. CASE c = b
    BY <2>1, <1>1, <1>2, <1>3, <1>4, <1>5, <1>6, <1>7, <1>8 DEF Inv, Becomes,
       StraysHeld, Filed, TypeOK, FilesFit, DropFits
  <2>2. CASE c # b
    BY <2>2, <1>1, <1>2, <1>3, <1>4, <1>5, <1>6, <1>7, <1>8 DEF Inv, Becomes,
       StraysHeld, Filed, TypeOK, LocksFit
  <2> QED BY <2>1, <2>2
<1> QED BY <1>9, <1>10, <1>11, <1>12, <1>13, <1>14, <1>15, <1>16, <1>17 DEF Inv

(* A reclaim drops the source of a stray. *)
LEMMA DropSourceReclaimKeeps ==
  ASSUME Inv, NEW t \in Task, DropSource(t), task[t].op = "reclaim"
  PROVE  Inv'
<1> DEFINE b == task[t].book
<1>1. TypeOK
  BY DEF Inv
<1>2. task[t].at = "dropSource"
  BY DEF DropSource
<1>3. Becomes(t, "reclaim", "dropCover", b, task[t].file)
  BY <1>1, GoesTo DEF DropSource, Stages
<1>4. b \in Book /\ lock[b] = t
  BY <1>2 DEF Inv, LocksFit, InLock
<1>5. /\ source' = [source EXCEPT ![b] = None]
      /\ UNCHANGED <<rows, retired, cover, nextSource, nextCover, lock, used, touched,
                        cutOff, faults, starts>>
  BY DEF DropSource, history
<1>6. \A d \in Book \ {b} : lock[d] # t
  BY DEF Inv, LocksFit
<1>7. TypeOK'
  BY <1>1, <1>2, <1>3, <1>4, <1>5, <1>6 DEF Inv, Becomes, TypeOK, Tasks, Stored
<1>8. StagesFit'
  BY <1>1, <1>2, <1>3, <1>4, <1>5, <1>6 DEF Inv, Becomes, StagesFit, StagesOf
<1>9. LocksFit'
  BY <1>1, <1>2, <1>3, <1>4, <1>5, <1>6 DEF Inv, Becomes, LocksFit, InLock
<1>10. FilesFit'
  BY <1>1, <1>2, <1>3, <1>4, <1>5, <1>6 DEF Inv, Becomes, FilesFit, AddFits,
     ReplaceFits, DropFits, StagesFit, StagesOf, LocksFit, InLock, TypeOK
<1>11. RemovalsTouch'
  BY <1>1, <1>2, <1>3, <1>4, <1>5, <1>6 DEF Inv, Becomes, RemovalsTouch
<1>12. RowsHaveFiles'
  <2> SUFFICES ASSUME NEW c \in Book
               PROVE  rows'[c] # None /\ c \notin touched' /\ ~Swapped(c)'
                          => source'[c] = rows'[c] /\ cover'[c] = CoverOf(rows'[c])
    BY DEF RowsHaveFiles
  <2>1. CASE c = b
    BY <2>1, <1>1, <1>2, <1>3, <1>4, <1>5, <1>6 DEF Inv, Becomes, RowsHaveFiles,
       Swapped, Swapping, TypeOK, FilesFit, DropFits
  <2>2. CASE c # b
    BY <2>2, <1>1, <1>2, <1>3, <1>4, <1>5, <1>6 DEF Inv, Becomes, RowsHaveFiles,
       Swapped, Swapping, TypeOK, LocksFit
  <2> QED BY <2>1, <2>2
<1>13. ShelvedOrRetired'
  BY <1>1, <1>2, <1>3, <1>4, <1>5, <1>6 DEF Inv, Becomes, ShelvedOrRetired, Swapped,
     Swapping, TypeOK
<1>14. StagedInUse'
  BY <1>1, <1>2, <1>3, <1>4, <1>5, <1>6 DEF Inv, Becomes, StagedInUse, TypeOK
<1>15. StraysHeld'
  BY <1>1, <1>2, <1>3, <1>4, <1>5, <1>6 DEF Inv, Becomes, StraysHeld, Filed, TypeOK
<1> QED BY <1>7, <1>8, <1>9, <1>10, <1>11, <1>12, <1>13, <1>14, <1>15 DEF Inv

(* It drops the cover and goes on to the next stray. *)
LEMMA DropCoverReclaimKeeps ==
  ASSUME Inv, NEW t \in Task, DropCover(t), task[t].op = "reclaim"
  PROVE  Inv'
<1> DEFINE b == task[t].book
<1>1. TypeOK
  BY DEF Inv
<1>2. task[t].at = "dropCover"
  BY DEF DropCover
<1>3. Becomes(t, "reclaim", "strays", None, task[t].file)
  BY <1>1, <1>2 DEF DropCover, Becomes, TypeOK, Tasks, Stages, Releases
<1>4. b \in Book /\ lock[b] = t
  BY <1>2 DEF Inv, LocksFit, InLock
<1>5. /\ cover' = [cover EXCEPT ![b] = None]
      /\ cutOff' = cutOff \ {<<b, "open">>}
      /\ UNCHANGED <<rows, retired, source, nextSource, nextCover, used, touched,
                        faults, starts>>
  BY DEF DropCover
<1>6. /\ lock' \in [Book -> Task \cup {None}]
      /\ lock'[b] = None /\ \A d \in Book \ {b} : lock'[d] = lock[d]
  BY <1>1, <1>2, Unlocks DEF DropCover, InLock, Inv
<1>7. None \notin Task \cup File
  BY BookFilesAssumption
<1>8. \A d \in Book \ {b} : lock[d] # t
  BY DEF Inv, LocksFit
<1>9. TypeOK'
  BY <1>1, <1>2, <1>3, <1>4, <1>5, <1>6, <1>7, <1>8 DEF Inv, Becomes, TypeOK, Tasks,
     Stored
<1>10. StagesFit'
  BY <1>1, <1>2, <1>3, <1>4, <1>5, <1>6, <1>7, <1>8 DEF Inv, Becomes, StagesFit,
     StagesOf
<1>11. LocksFit'
  BY <1>1, <1>2, <1>3, <1>4, <1>5, <1>6, <1>7, <1>8 DEF Inv, Becomes, LocksFit, InLock
<1>12. FilesFit'
  BY <1>1, <1>2, <1>3, <1>4, <1>5, <1>6, <1>7, <1>8 DEF Inv, Becomes, FilesFit,
     AddFits, ReplaceFits, DropFits, StagesFit, StagesOf, LocksFit, InLock, TypeOK
<1>13. RemovalsTouch'
  BY <1>1, <1>2, <1>3, <1>4, <1>5, <1>6, <1>7, <1>8 DEF Inv, Becomes, RemovalsTouch
<1>14. RowsHaveFiles'
  <2> SUFFICES ASSUME NEW c \in Book
               PROVE  rows'[c] # None /\ c \notin touched' /\ ~Swapped(c)'
                          => source'[c] = rows'[c] /\ cover'[c] = CoverOf(rows'[c])
    BY DEF RowsHaveFiles
  <2>1. CASE c = b
    BY <2>1, <1>1, <1>2, <1>3, <1>4, <1>5, <1>6, <1>7, <1>8 DEF Inv, Becomes,
       RowsHaveFiles, Swapped, Swapping, TypeOK, FilesFit, DropFits
  <2>2. CASE c # b
    BY <2>2, <1>1, <1>2, <1>3, <1>4, <1>5, <1>6, <1>7, <1>8 DEF Inv, Becomes,
       RowsHaveFiles, Swapped, Swapping, TypeOK, LocksFit
  <2> QED BY <2>1, <2>2
<1>15. ShelvedOrRetired'
  BY <1>1, <1>2, <1>3, <1>4, <1>5, <1>6, <1>7, <1>8 DEF Inv, Becomes,
     ShelvedOrRetired, Swapped, Swapping, TypeOK
<1>16. StagedInUse'
  <2> SUFFICES ASSUME NEW c \in Book
               PROVE  nextSource'[c] # None \/ nextCover'[c] # None
                          => \/ <<c, "replace">> \in cutOff'
                             \/ \E u \in Task : lock'[c] = u /\ task'[u].op = "replace"
    BY DEF StagedInUse
  <2>1. CASE c = b
    BY <2>1, <1>1, <1>2, <1>3, <1>4, <1>5, <1>6, <1>7, <1>8 DEF Inv, Becomes,
       StagedInUse, TypeOK, FilesFit, DropFits
  <2>2. CASE c # b
    BY <2>2, <1>1, <1>2, <1>3, <1>4, <1>5, <1>6, <1>7, <1>8 DEF Inv, Becomes,
       StagedInUse, TypeOK, LocksFit
  <2> QED BY <2>1, <2>2
<1>17. StraysHeld'
  <2> SUFFICES ASSUME NEW c \in Book
               PROVE  rows'[c] = None /\ c \in Filed'
                          => \/ c \in touched' \/ <<c, "open">> \in cutOff'
                             \/ \E u \in Task :
                                  /\ lock'[c] = u
                                  /\ \/ task'[u].op = "open" /\ task'[u].at # "source"
                                     \/ task'[u].op = "replace" /\ task'[u].at \in
                                         {"moveCover", "row"}
    BY DEF StraysHeld
  <2>1. CASE c = b
    BY <2>1, <1>1, <1>2, <1>3, <1>4, <1>5, <1>6, <1>7, <1>8 DEF Inv, Becomes,
       StraysHeld, Filed, TypeOK, FilesFit, DropFits
  <2>2. CASE c # b
    BY <2>2, <1>1, <1>2, <1>3, <1>4, <1>5, <1>6, <1>7, <1>8 DEF Inv, Becomes,
       StraysHeld, Filed, TypeOK, LocksFit
  <2> QED BY <2>1, <2>2
<1> QED BY <1>9, <1>10, <1>11, <1>12, <1>13, <1>14, <1>15, <1>16, <1>17 DEF Inv

(* A removal takes the source, with no lock: the book is touched. *)
LEMMA RemoveSourceKeeps ==
  ASSUME Inv, NEW t \in Task, RemoveSource(t)
  PROVE  Inv'
<1> DEFINE b == task[t].book
<1>1. TypeOK
  BY DEF Inv
<1>2. task[t].op \in {"remove", "erase"} /\ task[t].at = "dropSource"
  BY DEF RemoveSource
<1>3. Becomes(t, task[t].op, "dropCover", b, task[t].file)
  BY <1>1, GoesTo DEF RemoveSource, Stages
<1>4. b \in Book /\ \A d \in Book : lock[d] # t
  BY <1>2 DEF Inv, StagesFit, LocksFit, InLock
<1>5. /\ source' = [source EXCEPT ![b] = None]
      /\ touched' = touched \cup {b}
      /\ UNCHANGED <<rows, retired, cover, nextSource, nextCover, lock, used, cutOff,
                        faults, starts>>
  BY DEF RemoveSource
<1>6. TypeOK'
  BY <1>1, <1>2, <1>3, <1>4, <1>5 DEF Inv, Becomes, TypeOK, Tasks, Stored
<1>7. StagesFit'
  BY <1>1, <1>2, <1>3, <1>4, <1>5 DEF Inv, Becomes, StagesFit, StagesOf
<1>8. LocksFit'
  BY <1>1, <1>2, <1>3, <1>4, <1>5 DEF Inv, Becomes, LocksFit, InLock
<1>9. FilesFit'
  BY <1>1, <1>2, <1>3, <1>4, <1>5 DEF Inv, Becomes, FilesFit, AddFits, ReplaceFits,
     DropFits, StagesFit, StagesOf, LocksFit, InLock, TypeOK
<1>10. RemovalsTouch'
  BY <1>1, <1>2, <1>3, <1>4, <1>5 DEF Inv, Becomes, RemovalsTouch
<1>11. RowsHaveFiles'
  BY <1>1, <1>2, <1>3, <1>4, <1>5 DEF Inv, Becomes, RowsHaveFiles, Swapped, Swapping,
     TypeOK
<1>12. ShelvedOrRetired'
  BY <1>1, <1>2, <1>3, <1>4, <1>5 DEF Inv, Becomes, ShelvedOrRetired, Swapped,
     Swapping, TypeOK
<1>13. StagedInUse'
  BY <1>1, <1>2, <1>3, <1>4, <1>5 DEF Inv, Becomes, StagedInUse, TypeOK
<1>14. StraysHeld'
  BY <1>1, <1>2, <1>3, <1>4, <1>5 DEF Inv, Becomes, StraysHeld, Filed, TypeOK
<1> QED BY <1>6, <1>7, <1>8, <1>9, <1>10, <1>11, <1>12, <1>13, <1>14 DEF Inv

(* It takes the cover. *)
LEMMA RemoveCoverKeeps ==
  ASSUME Inv, NEW t \in Task, RemoveCover(t)
  PROVE  Inv'
<1> DEFINE b == task[t].book
<1>1. TypeOK
  BY DEF Inv
<1>2. task[t].op \in {"remove", "erase"} /\ task[t].at = "dropCover"
  BY DEF RemoveCover
<1>3. Becomes(t, task[t].op, "retire", b, task[t].file)
  BY <1>1, GoesTo DEF RemoveCover, Stages
<1>4. b \in Book /\ \A d \in Book : lock[d] # t
  BY <1>2 DEF Inv, StagesFit, LocksFit, InLock
<1>5. /\ cover' = [cover EXCEPT ![b] = None]
      /\ touched' = touched \cup {b}
      /\ UNCHANGED <<rows, retired, source, nextSource, nextCover, lock, used, cutOff,
                        faults, starts>>
  BY DEF RemoveCover
<1>6. TypeOK'
  BY <1>1, <1>2, <1>3, <1>4, <1>5 DEF Inv, Becomes, TypeOK, Tasks, Stored
<1>7. StagesFit'
  BY <1>1, <1>2, <1>3, <1>4, <1>5 DEF Inv, Becomes, StagesFit, StagesOf
<1>8. LocksFit'
  BY <1>1, <1>2, <1>3, <1>4, <1>5 DEF Inv, Becomes, LocksFit, InLock
<1>9. FilesFit'
  BY <1>1, <1>2, <1>3, <1>4, <1>5 DEF Inv, Becomes, FilesFit, AddFits, ReplaceFits,
     DropFits, StagesFit, StagesOf, LocksFit, InLock, TypeOK
<1>10. RemovalsTouch'
  BY <1>1, <1>2, <1>3, <1>4, <1>5 DEF Inv, Becomes, RemovalsTouch
<1>11. RowsHaveFiles'
  BY <1>1, <1>2, <1>3, <1>4, <1>5 DEF Inv, Becomes, RowsHaveFiles, Swapped, Swapping,
     TypeOK
<1>12. ShelvedOrRetired'
  BY <1>1, <1>2, <1>3, <1>4, <1>5 DEF Inv, Becomes, ShelvedOrRetired, Swapped,
     Swapping, TypeOK
<1>13. StagedInUse'
  BY <1>1, <1>2, <1>3, <1>4, <1>5 DEF Inv, Becomes, StagedInUse, TypeOK
<1>14. StraysHeld'
  BY <1>1, <1>2, <1>3, <1>4, <1>5 DEF Inv, Becomes, StraysHeld, Filed, TypeOK
<1> QED BY <1>6, <1>7, <1>8, <1>9, <1>10, <1>11, <1>12, <1>13, <1>14 DEF Inv

(* It takes the row of the book it has touched. *)
LEMMA RetireKeeps ==
  ASSUME Inv, NEW t \in Task, Retire(t)
  PROVE  Inv'
<1> DEFINE b == task[t].book
<1>1. TypeOK
  BY DEF Inv
<1>2. task[t].at = "retire"
  BY DEF Retire
<1>3. Becomes(t, "none", "idle", None, None)
  BY <1>1, EndsAt DEF Retire
<1>4. task[t].op \in {"remove", "erase"}
  BY <1>1, <1>2 DEF Inv, StagesFit, StagesOf, TypeOK, Ops
<1>5. b \in Book /\ b \in touched /\ \A d \in Book : lock[d] # t
  BY <1>2, <1>4 DEF Inv, StagesFit, LocksFit, InLock, RemovalsTouch
<1>6. /\ rows' = [rows EXCEPT ![b] = None]
      /\ retired' = [retired EXCEPT ![b] = IF task[t].op = "erase" THEN None
                                           ELSE IF rows[b] = None THEN @ ELSE rows[b]]
      /\ UNCHANGED <<source, cover, nextSource, nextCover, lock, used, touched,
                        cutOff, faults, starts>>
  BY DEF Retire, history
<1>7. TypeOK'
  BY <1>1, <1>2, <1>3, <1>4, <1>5, <1>6 DEF Inv, Becomes, TypeOK, Tasks, Stored
<1>8. StagesFit'
  BY <1>1, <1>2, <1>3, <1>4, <1>5, <1>6 DEF Inv, Becomes, StagesFit, StagesOf
<1>9. LocksFit'
  BY <1>1, <1>2, <1>3, <1>4, <1>5, <1>6 DEF Inv, Becomes, LocksFit, InLock
<1>10. FilesFit'
  BY <1>1, <1>2, <1>3, <1>4, <1>5, <1>6 DEF Inv, Becomes, FilesFit, AddFits,
     ReplaceFits, DropFits, StagesFit, StagesOf, LocksFit, InLock, TypeOK
<1>11. RemovalsTouch'
  BY <1>1, <1>2, <1>3, <1>4, <1>5, <1>6 DEF Inv, Becomes, RemovalsTouch
<1>12. RowsHaveFiles'
  BY <1>1, <1>2, <1>3, <1>4, <1>5, <1>6 DEF Inv, Becomes, RowsHaveFiles, Swapped,
     Swapping, TypeOK
<1>13. ShelvedOrRetired'
  BY <1>1, <1>2, <1>3, <1>4, <1>5, <1>6 DEF Inv, Becomes, ShelvedOrRetired, Swapped,
     Swapping, TypeOK
<1>14. StagedInUse'
  BY <1>1, <1>2, <1>3, <1>4, <1>5, <1>6 DEF Inv, Becomes, StagedInUse, TypeOK
<1>15. StraysHeld'
  BY <1>1, <1>2, <1>3, <1>4, <1>5, <1>6 DEF Inv, Becomes, StraysHeld, Filed, TypeOK
<1> QED BY <1>7, <1>8, <1>9, <1>10, <1>11, <1>12, <1>13, <1>14, <1>15 DEF Inv

(* An edit writes back the row it read. *)
LEMMA StoreEditKeeps ==
  ASSUME Inv, NEW t \in Task, StoreEdit(t)
  PROVE  Inv'
<1> DEFINE b == task[t].book
<1>1. TypeOK
  BY DEF Inv
<1>2. task[t].op = "edit" /\ task[t].at = "store"
  BY DEF StoreEdit, At
<1>3. Becomes(t, "none", "idle", None, None)
  BY <1>1, EndsAt DEF StoreEdit
<1>4. b \in Book /\ task[t].file \in File /\ \A d \in Book : lock[d] # t
  BY <1>2 DEF Inv, StagesFit, LocksFit, InLock
<1>5. /\ rows' = [rows EXCEPT ![b] = task[t].file]
      /\ touched' = (IF rows[b] = task[t].file THEN touched ELSE touched \cup {b})
      /\ UNCHANGED <<retired, source, cover, nextSource, nextCover, lock, used,
                        cutOff, faults, starts>>
  BY DEF StoreEdit
<1>6. None \notin File
  BY BookFilesAssumption
<1>7. TypeOK'
  BY <1>1, <1>2, <1>3, <1>4, <1>5, <1>6 DEF Inv, Becomes, TypeOK, Tasks, Stored
<1>8. StagesFit'
  BY <1>1, <1>2, <1>3, <1>4, <1>5, <1>6 DEF Inv, Becomes, StagesFit, StagesOf
<1>9. LocksFit'
  BY <1>1, <1>2, <1>3, <1>4, <1>5, <1>6 DEF Inv, Becomes, LocksFit, InLock
<1>10. FilesFit'
  BY <1>1, <1>2, <1>3, <1>4, <1>5, <1>6 DEF Inv, Becomes, FilesFit, AddFits,
     ReplaceFits, DropFits, StagesFit, StagesOf, LocksFit, InLock, TypeOK
<1>11. RemovalsTouch'
  BY <1>1, <1>2, <1>3, <1>4, <1>5, <1>6 DEF Inv, Becomes, RemovalsTouch
<1>12. RowsHaveFiles'
  BY <1>1, <1>2, <1>3, <1>4, <1>5, <1>6 DEF Inv, Becomes, RowsHaveFiles, Swapped,
     Swapping, TypeOK
<1>13. ShelvedOrRetired'
  BY <1>1, <1>2, <1>3, <1>4, <1>5, <1>6 DEF Inv, Becomes, ShelvedOrRetired, Swapped,
     Swapping, TypeOK
<1>14. StagedInUse'
  BY <1>1, <1>2, <1>3, <1>4, <1>5, <1>6 DEF Inv, Becomes, StagedInUse, TypeOK
<1>15. StraysHeld'
  BY <1>1, <1>2, <1>3, <1>4, <1>5, <1>6 DEF Inv, Becomes, StraysHeld, Filed, TypeOK
<1> QED BY <1>7, <1>8, <1>9, <1>10, <1>11, <1>12, <1>13, <1>14, <1>15 DEF Inv

(* An add fails: a shelved book of the id loses its files. *)
LEMMA FailAddingKeeps ==
  ASSUME Inv, NEW t \in Task, FailAdding(t)
  PROVE  Inv'
<1> DEFINE b == task[t].book
<1>1. TypeOK
  BY DEF Inv
<1>2. task[t].op = "open" /\ task[t].at \in {"source", "cover", "row"}
  BY DEF FailAdding
<1>3. Becomes(t, "open", "dropSource", b, task[t].file)
  BY <1>1, <1>2, GoesTo DEF FailAdding, Stages
<1>4. b \in Book /\ lock[b] = t
  BY <1>2 DEF Inv, LocksFit, InLock
<1>5. /\ touched' = touched \cup (IF rows[b] = None THEN {} ELSE {b})
      /\ faults' \in 0..MaxFaults
      /\ UNCHANGED <<rows, retired, source, cover, nextSource, nextCover, lock, used,
                        cutOff, starts>>
  BY <1>1, <1>4, BookFilesAssumption DEF FailAdding, OnShelf, stored, TypeOK
<1>6. \A d \in Book \ {b} : lock[d] # t
  BY DEF Inv, LocksFit
<1>7. TypeOK'
  BY <1>1, <1>2, <1>3, <1>4, <1>5, <1>6 DEF Inv, Becomes, TypeOK, Tasks, Stored
<1>8. StagesFit'
  BY <1>1, <1>2, <1>3, <1>4, <1>5, <1>6 DEF Inv, Becomes, StagesFit, StagesOf
<1>9. LocksFit'
  BY <1>1, <1>2, <1>3, <1>4, <1>5, <1>6 DEF Inv, Becomes, LocksFit, InLock
<1>10. FilesFit'
  BY <1>1, <1>2, <1>3, <1>4, <1>5, <1>6 DEF Inv, Becomes, FilesFit, AddFits,
     ReplaceFits, DropFits, StagesFit, StagesOf, LocksFit, InLock, TypeOK
<1>11. RemovalsTouch'
  BY <1>1, <1>2, <1>3, <1>4, <1>5, <1>6 DEF Inv, Becomes, RemovalsTouch
<1>12. RowsHaveFiles'
  <2> SUFFICES ASSUME NEW c \in Book
               PROVE  rows'[c] # None /\ c \notin touched' /\ ~Swapped(c)'
                          => source'[c] = rows'[c] /\ cover'[c] = CoverOf(rows'[c])
    BY DEF RowsHaveFiles
  <2>1. CASE c = b
    BY <2>1, <1>1, <1>2, <1>3, <1>4, <1>5, <1>6 DEF Inv, Becomes, RowsHaveFiles,
       Swapped, Swapping, TypeOK, LocksFit
  <2>2. CASE c # b
    BY <2>2, <1>1, <1>2, <1>3, <1>4, <1>5, <1>6 DEF Inv, Becomes, RowsHaveFiles,
       Swapped, Swapping, TypeOK, LocksFit
  <2> QED BY <2>1, <2>2
<1>13. ShelvedOrRetired'
  <2> SUFFICES ASSUME NEW c \in Book
               PROVE  rows'[c] # None /\ retired'[c] # None => c \in touched' \/
                   Swapped(c)'
    BY DEF ShelvedOrRetired
  <2>1. CASE c = b
    BY <2>1, <1>1, <1>2, <1>3, <1>4, <1>5, <1>6 DEF Inv, Becomes, ShelvedOrRetired,
       Swapped, Swapping, TypeOK, LocksFit
  <2>2. CASE c # b
    BY <2>2, <1>1, <1>2, <1>3, <1>4, <1>5, <1>6 DEF Inv, Becomes, ShelvedOrRetired,
       Swapped, Swapping, TypeOK, LocksFit
  <2> QED BY <2>1, <2>2
<1>14. StagedInUse'
  BY <1>1, <1>2, <1>3, <1>4, <1>5, <1>6 DEF Inv, Becomes, StagedInUse, TypeOK
<1>15. StraysHeld'
  BY <1>1, <1>2, <1>3, <1>4, <1>5, <1>6 DEF Inv, Becomes, StraysHeld, Filed, TypeOK
<1> QED BY <1>7, <1>8, <1>9, <1>10, <1>11, <1>12, <1>13, <1>14, <1>15 DEF Inv

(* A replacement fails: nothing stays staged. *)
LEMMA FailReplacingKeeps ==
  ASSUME Inv, NEW t \in Task, FailReplacing(t)
  PROVE  Inv'
<1> DEFINE b == task[t].book
<1>1. TypeOK
  BY DEF Inv
<1>2. task[t].op = "replace" /\ task[t].at \in {"stage", "stageCover", "move",
    "moveCover"}
  BY DEF FailReplacing
<1>3. Becomes(t, "none", "idle", None, None)
  BY <1>1, EndsAt DEF FailReplacing
<1>4. b \in Book /\ lock[b] = t
  BY <1>2 DEF Inv, LocksFit, InLock
<1>5. /\ nextSource' = [nextSource EXCEPT ![b] = None]
      /\ nextCover' = [nextCover EXCEPT ![b] = None]
      /\ touched' = (IF Swapping(t) THEN touched \cup {b} ELSE touched)
      /\ faults' \in 0..MaxFaults
      /\ UNCHANGED <<rows, retired, source, cover, used, cutOff, starts>>
  BY <1>1, BookFilesAssumption DEF FailReplacing, TypeOK
<1>6. /\ lock' \in [Book -> Task \cup {None}]
      /\ lock'[b] = None /\ \A d \in Book \ {b} : lock'[d] = lock[d]
  BY <1>1, <1>2, Unlocks DEF FailReplacing, InLock, Inv
<1>7. None \notin Task \cup File
  BY BookFilesAssumption
<1>8. \A d \in Book \ {b} : lock[d] # t
  BY DEF Inv, LocksFit
<1>9. TypeOK'
  BY <1>1, <1>2, <1>3, <1>4, <1>5, <1>6, <1>7, <1>8 DEF Inv, Becomes, TypeOK, Tasks,
     Stored
<1>10. StagesFit'
  BY <1>1, <1>2, <1>3, <1>4, <1>5, <1>6, <1>7, <1>8 DEF Inv, Becomes, StagesFit,
     StagesOf
<1>11. LocksFit'
  BY <1>1, <1>2, <1>3, <1>4, <1>5, <1>6, <1>7, <1>8 DEF Inv, Becomes, LocksFit, InLock
<1>12. FilesFit'
  BY <1>1, <1>2, <1>3, <1>4, <1>5, <1>6, <1>7, <1>8 DEF Inv, Becomes, FilesFit,
     AddFits, ReplaceFits, DropFits, StagesFit, StagesOf, LocksFit, InLock, TypeOK
<1>13. RemovalsTouch'
  BY <1>1, <1>2, <1>3, <1>4, <1>5, <1>6, <1>7, <1>8 DEF Inv, Becomes, RemovalsTouch
<1>14. RowsHaveFiles'
  <2> SUFFICES ASSUME NEW c \in Book
               PROVE  rows'[c] # None /\ c \notin touched' /\ ~Swapped(c)'
                          => source'[c] = rows'[c] /\ cover'[c] = CoverOf(rows'[c])
    BY DEF RowsHaveFiles
  <2>1. CASE c = b
    BY <2>1, <1>1, <1>2, <1>3, <1>4, <1>5, <1>6, <1>7, <1>8 DEF Inv, Becomes,
       RowsHaveFiles, Swapped, Swapping, TypeOK, FilesFit, ReplaceFits
  <2>2. CASE c # b
    BY <2>2, <1>1, <1>2, <1>3, <1>4, <1>5, <1>6, <1>7, <1>8 DEF Inv, Becomes,
       RowsHaveFiles, Swapped, Swapping, TypeOK, LocksFit
  <2> QED BY <2>1, <2>2
<1>15. ShelvedOrRetired'
  BY <1>1, <1>2, <1>3, <1>4, <1>5, <1>6, <1>7, <1>8 DEF Inv, Becomes,
     ShelvedOrRetired, Swapped, Swapping, TypeOK
<1>16. StagedInUse'
  <2> SUFFICES ASSUME NEW c \in Book
               PROVE  nextSource'[c] # None \/ nextCover'[c] # None
                          => \/ <<c, "replace">> \in cutOff'
                             \/ \E u \in Task : lock'[c] = u /\ task'[u].op = "replace"
    BY DEF StagedInUse
  <2>1. CASE c = b
    BY <2>1, <1>1, <1>2, <1>3, <1>4, <1>5, <1>6, <1>7, <1>8 DEF Inv, Becomes,
       StagedInUse, TypeOK, FilesFit, ReplaceFits
  <2>2. CASE c # b
    BY <2>2, <1>1, <1>2, <1>3, <1>4, <1>5, <1>6, <1>7, <1>8 DEF Inv, Becomes,
       StagedInUse, TypeOK, LocksFit
  <2> QED BY <2>1, <2>2
<1>17. StraysHeld'
  <2> SUFFICES ASSUME NEW c \in Book
               PROVE  rows'[c] = None /\ c \in Filed'
                          => \/ c \in touched' \/ <<c, "open">> \in cutOff'
                             \/ \E u \in Task :
                                  /\ lock'[c] = u
                                  /\ \/ task'[u].op = "open" /\ task'[u].at # "source"
                                     \/ task'[u].op = "replace" /\ task'[u].at \in
                                         {"moveCover", "row"}
    BY DEF StraysHeld
  <2>1. CASE c = b
    BY <2>1, <1>1, <1>2, <1>3, <1>4, <1>5, <1>6, <1>7, <1>8 DEF Inv, Becomes,
       StraysHeld, Filed, TypeOK, LocksFit, Swapping
  <2>2. CASE c # b
    BY <2>2, <1>1, <1>2, <1>3, <1>4, <1>5, <1>6, <1>7, <1>8 DEF Inv, Becomes,
       StraysHeld, Filed, TypeOK, LocksFit
  <2> QED BY <2>1, <2>2
<1> QED BY <1>9, <1>10, <1>11, <1>12, <1>13, <1>14, <1>15, <1>16, <1>17 DEF Inv

(* An add is cut off under the lock. *)
LEMMA CutOffOpenKeeps ==
  ASSUME Inv, NEW t \in Task, CutOff(t), task[t].op = "open", InLock(t)
  PROVE  Inv'
<1> DEFINE b == task[t].book
<1>1. TypeOK
  BY DEF Inv
<1>2. task[t].at \in {"source", "cover", "row", "dropSource", "dropCover"}
  BY DEF InLock, Inv, StagesFit, StagesOf
<1>3. Becomes(t, "none", "idle", None, None)
  BY <1>1, EndsAt DEF CutOff
<1>4. b \in Book /\ lock[b] = t
  BY DEF Inv, LocksFit
<1>5. /\ \/ UNCHANGED <<source, cover>>
         \/ task[t].at = "source" /\ source' = [source EXCEPT ![b] = Torn] /\
             UNCHANGED cover
         \/ task[t].at = "cover" /\ cover' = [cover EXCEPT ![b] = Torn] /\ UNCHANGED
             source
      /\ UNCHANGED <<nextSource, nextCover>>
      /\ touched' = touched \cup (IF task[t].at \in {"source", "cover", "row"} /\
          rows[b] # None
                                THEN {b} ELSE {})
      /\ cutOff' = cutOff \cup {<<b, "open">>}
      /\ faults' \in 0..MaxFaults /\ UNCHANGED <<rows, retired, used, starts>>
  BY <1>1, <1>2, <1>4, BookFilesAssumption DEF CutOff, TornBy, TypeOK, Swapping,
     OnShelf, Ops
<1>6. /\ lock' \in [Book -> Task \cup {None}]
      /\ lock'[b] = None /\ \A d \in Book \ {b} : lock'[d] = lock[d]
  BY <1>1, Unlocks DEF CutOff, Inv
<1>7. None \notin Task \cup File
  BY BookFilesAssumption
<1>8. \A d \in Book \ {b} : lock[d] # t
  BY DEF Inv, LocksFit
<1>9. cutOff' \subseteq Book \X Ops /\ touched' \subseteq Book
  BY <1>1, <1>4, <1>5 DEF TypeOK, Ops
<1>10. /\ source' \in [Book -> Stored] /\ cover' \in [Book -> Stored]
       /\ nextSource' \in [Book -> Stored] /\ nextCover' \in [Book -> Stored]
  BY <1>1, <1>5 DEF TypeOK, Stored
<1>11. TypeOK'
  BY <1>1, <1>2, <1>3, <1>4, <1>5, <1>6, <1>7, <1>8, <1>9, <1>10 DEF Inv, Becomes,
     TypeOK, Tasks, Stored, Ops
<1>12. StagesFit'
  BY <1>1, <1>2, <1>3, <1>4, <1>5, <1>6, <1>7, <1>8, <1>9, <1>10 DEF Inv, Becomes,
     StagesFit, StagesOf
<1>13. LocksFit'
  BY <1>1, <1>2, <1>3, <1>4, <1>5, <1>6, <1>7, <1>8, <1>9, <1>10 DEF Inv, Becomes,
     LocksFit, InLock
<1>14. FilesFit'
  BY <1>1, <1>2, <1>3, <1>4, <1>5, <1>6, <1>7, <1>8, <1>9, <1>10 DEF Inv, Becomes,
     FilesFit, AddFits, ReplaceFits, DropFits, StagesFit, StagesOf, LocksFit, InLock,
     TypeOK
<1>15. RemovalsTouch'
  BY <1>1, <1>2, <1>3, <1>4, <1>5, <1>6, <1>7, <1>8, <1>9, <1>10 DEF Inv, Becomes,
     RemovalsTouch
<1>16. RowsHaveFiles'
  <2> SUFFICES ASSUME NEW c \in Book
               PROVE  rows'[c] # None /\ c \notin touched' /\ ~Swapped(c)'
                          => source'[c] = rows'[c] /\ cover'[c] = CoverOf(rows'[c])
    BY DEF RowsHaveFiles
  <2>1. CASE c = b
    BY <2>1, <1>1, <1>2, <1>3, <1>4, <1>5, <1>6, <1>7, <1>8, <1>9, <1>10 DEF Inv,
       Becomes, RowsHaveFiles, Swapped, Swapping, TypeOK, FilesFit, AddFits,
       ReplaceFits, DropFits
  <2>2. CASE c # b
    BY <2>2, <1>1, <1>2, <1>3, <1>4, <1>5, <1>6, <1>7, <1>8, <1>9, <1>10 DEF Inv,
       Becomes, RowsHaveFiles, Swapped, Swapping, TypeOK, LocksFit
  <2> QED BY <2>1, <2>2
<1>17. ShelvedOrRetired'
  <2> SUFFICES ASSUME NEW c \in Book
               PROVE  rows'[c] # None /\ retired'[c] # None => c \in touched' \/
                   Swapped(c)'
    BY DEF ShelvedOrRetired
  <2>1. CASE c = b
    BY <2>1, <1>1, <1>2, <1>3, <1>4, <1>5, <1>6, <1>7, <1>8, <1>9, <1>10 DEF Inv,
       Becomes, ShelvedOrRetired, Swapped, Swapping, TypeOK, LocksFit
  <2>2. CASE c # b
    BY <2>2, <1>1, <1>2, <1>3, <1>4, <1>5, <1>6, <1>7, <1>8, <1>9, <1>10 DEF Inv,
       Becomes, ShelvedOrRetired, Swapped, Swapping, TypeOK, LocksFit
  <2> QED BY <2>1, <2>2
<1>18. StagedInUse'
  <2> SUFFICES ASSUME NEW c \in Book
               PROVE  nextSource'[c] # None \/ nextCover'[c] # None
                          => \/ <<c, "replace">> \in cutOff'
                             \/ \E u \in Task : lock'[c] = u /\ task'[u].op = "replace"
    BY DEF StagedInUse
  <2>1. CASE c = b
    BY <2>1, <1>1, <1>2, <1>3, <1>4, <1>5, <1>6, <1>7, <1>8, <1>9, <1>10 DEF Inv,
       Becomes, StagedInUse, TypeOK, LocksFit
  <2>2. CASE c # b
    BY <2>2, <1>1, <1>2, <1>3, <1>4, <1>5, <1>6, <1>7, <1>8, <1>9, <1>10 DEF Inv,
       Becomes, StagedInUse, TypeOK, LocksFit
  <2> QED BY <2>1, <2>2
<1>19. StraysHeld'
  <2> SUFFICES ASSUME NEW c \in Book
               PROVE  rows'[c] = None /\ c \in Filed'
                          => \/ c \in touched' \/ <<c, "open">> \in cutOff'
                             \/ \E u \in Task :
                                  /\ lock'[c] = u
                                  /\ \/ task'[u].op = "open" /\ task'[u].at # "source"
                                     \/ task'[u].op = "replace" /\ task'[u].at \in
                                         {"moveCover", "row"}
    BY DEF StraysHeld
  <2>1. CASE c = b
    BY <2>1, <1>1, <1>2, <1>3, <1>4, <1>5, <1>6, <1>7, <1>8, <1>9, <1>10 DEF Inv,
       Becomes, StraysHeld, Filed, TypeOK, LocksFit
  <2>2. CASE c # b
    BY <2>2, <1>1, <1>2, <1>3, <1>4, <1>5, <1>6, <1>7, <1>8, <1>9, <1>10 DEF Inv,
       Becomes, StraysHeld, Filed, TypeOK, LocksFit
  <2> QED BY <2>1, <2>2
<1> QED BY <1>11, <1>12, <1>13, <1>14, <1>15, <1>16, <1>17, <1>18, <1>19 DEF Inv

(* A replacement is cut off under the lock. *)
LEMMA CutOffReplaceKeeps ==
  ASSUME Inv, NEW t \in Task, CutOff(t), task[t].op = "replace", InLock(t)
  PROVE  Inv'
<1> DEFINE b == task[t].book
<1>1. TypeOK
  BY DEF Inv
<1>2. task[t].at \in {"stage", "stageCover", "move", "moveCover", "row"}
  BY DEF InLock, Inv, StagesFit, StagesOf
<1>3. Becomes(t, "none", "idle", None, None)
  BY <1>1, EndsAt DEF CutOff
<1>4. b \in Book /\ lock[b] = t
  BY DEF Inv, LocksFit
<1>5. /\ \/ UNCHANGED <<nextSource, nextCover>>
         \/ nextSource' = [nextSource EXCEPT ![b] = Torn] /\ UNCHANGED nextCover
         \/ nextCover' = [nextCover EXCEPT ![b] = Torn] /\ UNCHANGED nextSource
      /\ UNCHANGED <<source, cover>>
      /\ touched' = touched \cup (IF task[t].at \in {"moveCover", "row"} THEN {b} ELSE
          {})
      /\ cutOff' = cutOff \cup {<<b, "replace">>}
      /\ faults' \in 0..MaxFaults /\ UNCHANGED <<rows, retired, used, starts>>
  BY <1>1, <1>2, <1>4, BookFilesAssumption DEF CutOff, TornBy, TypeOK, Swapping,
     OnShelf, Ops
<1>6. /\ lock' \in [Book -> Task \cup {None}]
      /\ lock'[b] = None /\ \A d \in Book \ {b} : lock'[d] = lock[d]
  BY <1>1, Unlocks DEF CutOff, Inv
<1>7. None \notin Task \cup File
  BY BookFilesAssumption
<1>8. \A d \in Book \ {b} : lock[d] # t
  BY DEF Inv, LocksFit
<1>9. cutOff' \subseteq Book \X Ops /\ touched' \subseteq Book
  BY <1>1, <1>4, <1>5 DEF TypeOK, Ops
<1>10. /\ source' \in [Book -> Stored] /\ cover' \in [Book -> Stored]
       /\ nextSource' \in [Book -> Stored] /\ nextCover' \in [Book -> Stored]
  BY <1>1, <1>5 DEF TypeOK, Stored
<1>11. TypeOK'
  BY <1>1, <1>2, <1>3, <1>4, <1>5, <1>6, <1>7, <1>8, <1>9, <1>10 DEF Inv, Becomes,
     TypeOK, Tasks, Stored, Ops
<1>12. StagesFit'
  BY <1>1, <1>2, <1>3, <1>4, <1>5, <1>6, <1>7, <1>8, <1>9, <1>10 DEF Inv, Becomes,
     StagesFit, StagesOf
<1>13. LocksFit'
  BY <1>1, <1>2, <1>3, <1>4, <1>5, <1>6, <1>7, <1>8, <1>9, <1>10 DEF Inv, Becomes,
     LocksFit, InLock
<1>14. FilesFit'
  BY <1>1, <1>2, <1>3, <1>4, <1>5, <1>6, <1>7, <1>8, <1>9, <1>10 DEF Inv, Becomes,
     FilesFit, AddFits, ReplaceFits, DropFits, StagesFit, StagesOf, LocksFit, InLock,
     TypeOK
<1>15. RemovalsTouch'
  BY <1>1, <1>2, <1>3, <1>4, <1>5, <1>6, <1>7, <1>8, <1>9, <1>10 DEF Inv, Becomes,
     RemovalsTouch
<1>16. RowsHaveFiles'
  <2> SUFFICES ASSUME NEW c \in Book
               PROVE  rows'[c] # None /\ c \notin touched' /\ ~Swapped(c)'
                          => source'[c] = rows'[c] /\ cover'[c] = CoverOf(rows'[c])
    BY DEF RowsHaveFiles
  <2>1. CASE c = b
    BY <2>1, <1>1, <1>2, <1>3, <1>4, <1>5, <1>6, <1>7, <1>8, <1>9, <1>10 DEF Inv,
       Becomes, RowsHaveFiles, Swapped, Swapping, TypeOK, FilesFit, AddFits,
       ReplaceFits, DropFits
  <2>2. CASE c # b
    BY <2>2, <1>1, <1>2, <1>3, <1>4, <1>5, <1>6, <1>7, <1>8, <1>9, <1>10 DEF Inv,
       Becomes, RowsHaveFiles, Swapped, Swapping, TypeOK, LocksFit
  <2> QED BY <2>1, <2>2
<1>17. ShelvedOrRetired'
  <2> SUFFICES ASSUME NEW c \in Book
               PROVE  rows'[c] # None /\ retired'[c] # None => c \in touched' \/
                   Swapped(c)'
    BY DEF ShelvedOrRetired
  <2>1. CASE c = b
    BY <2>1, <1>1, <1>2, <1>3, <1>4, <1>5, <1>6, <1>7, <1>8, <1>9, <1>10 DEF Inv,
       Becomes, ShelvedOrRetired, Swapped, Swapping, TypeOK, LocksFit
  <2>2. CASE c # b
    BY <2>2, <1>1, <1>2, <1>3, <1>4, <1>5, <1>6, <1>7, <1>8, <1>9, <1>10 DEF Inv,
       Becomes, ShelvedOrRetired, Swapped, Swapping, TypeOK, LocksFit
  <2> QED BY <2>1, <2>2
<1>18. StagedInUse'
  <2> SUFFICES ASSUME NEW c \in Book
               PROVE  nextSource'[c] # None \/ nextCover'[c] # None
                          => \/ <<c, "replace">> \in cutOff'
                             \/ \E u \in Task : lock'[c] = u /\ task'[u].op = "replace"
    BY DEF StagedInUse
  <2>1. CASE c = b
    BY <2>1, <1>1, <1>2, <1>3, <1>4, <1>5, <1>6, <1>7, <1>8, <1>9, <1>10 DEF Inv,
       Becomes, StagedInUse, TypeOK, LocksFit
  <2>2. CASE c # b
    BY <2>2, <1>1, <1>2, <1>3, <1>4, <1>5, <1>6, <1>7, <1>8, <1>9, <1>10 DEF Inv,
       Becomes, StagedInUse, TypeOK, LocksFit
  <2> QED BY <2>1, <2>2
<1>19. StraysHeld'
  <2> SUFFICES ASSUME NEW c \in Book
               PROVE  rows'[c] = None /\ c \in Filed'
                          => \/ c \in touched' \/ <<c, "open">> \in cutOff'
                             \/ \E u \in Task :
                                  /\ lock'[c] = u
                                  /\ \/ task'[u].op = "open" /\ task'[u].at # "source"
                                     \/ task'[u].op = "replace" /\ task'[u].at \in
                                         {"moveCover", "row"}
    BY DEF StraysHeld
  <2>1. CASE c = b
    BY <2>1, <1>1, <1>2, <1>3, <1>4, <1>5, <1>6, <1>7, <1>8, <1>9, <1>10 DEF Inv,
       Becomes, StraysHeld, Filed, TypeOK, LocksFit
  <2>2. CASE c # b
    BY <2>2, <1>1, <1>2, <1>3, <1>4, <1>5, <1>6, <1>7, <1>8, <1>9, <1>10 DEF Inv,
       Becomes, StraysHeld, Filed, TypeOK, LocksFit
  <2> QED BY <2>1, <2>2
<1> QED BY <1>11, <1>12, <1>13, <1>14, <1>15, <1>16, <1>17, <1>18, <1>19 DEF Inv

(* A reclaim is cut off under the lock. *)
LEMMA CutOffReclaimKeeps ==
  ASSUME Inv, NEW t \in Task, CutOff(t), task[t].op = "reclaim", InLock(t)
  PROVE  Inv'
<1> DEFINE b == task[t].book
<1>1. TypeOK
  BY DEF Inv
<1>2. task[t].at \in {"dropSource", "dropCover"}
  BY DEF InLock, Inv, StagesFit, StagesOf
<1>3. Becomes(t, "none", "idle", None, None)
  BY <1>1, EndsAt DEF CutOff
<1>4. b \in Book /\ lock[b] = t
  BY DEF Inv, LocksFit
<1>5. /\ UNCHANGED <<source, cover, nextSource, nextCover>>
      /\ touched' = touched
      /\ cutOff' = cutOff \cup {<<b, "reclaim">>}
      /\ faults' \in 0..MaxFaults /\ UNCHANGED <<rows, retired, used, starts>>
  BY <1>1, <1>2, <1>4, BookFilesAssumption DEF CutOff, TornBy, TypeOK, Swapping,
     OnShelf, Ops
<1>6. /\ lock' \in [Book -> Task \cup {None}]
      /\ lock'[b] = None /\ \A d \in Book \ {b} : lock'[d] = lock[d]
  BY <1>1, Unlocks DEF CutOff, Inv
<1>7. None \notin Task \cup File
  BY BookFilesAssumption
<1>8. \A d \in Book \ {b} : lock[d] # t
  BY DEF Inv, LocksFit
<1>9. cutOff' \subseteq Book \X Ops /\ touched' \subseteq Book
  BY <1>1, <1>4, <1>5 DEF TypeOK, Ops
<1>10. /\ source' \in [Book -> Stored] /\ cover' \in [Book -> Stored]
       /\ nextSource' \in [Book -> Stored] /\ nextCover' \in [Book -> Stored]
  BY <1>1, <1>5 DEF TypeOK, Stored
<1>11. TypeOK'
  BY <1>1, <1>2, <1>3, <1>4, <1>5, <1>6, <1>7, <1>8, <1>9, <1>10 DEF Inv, Becomes,
     TypeOK, Tasks, Stored, Ops
<1>12. StagesFit'
  BY <1>1, <1>2, <1>3, <1>4, <1>5, <1>6, <1>7, <1>8, <1>9, <1>10 DEF Inv, Becomes,
     StagesFit, StagesOf
<1>13. LocksFit'
  BY <1>1, <1>2, <1>3, <1>4, <1>5, <1>6, <1>7, <1>8, <1>9, <1>10 DEF Inv, Becomes,
     LocksFit, InLock
<1>14. FilesFit'
  BY <1>1, <1>2, <1>3, <1>4, <1>5, <1>6, <1>7, <1>8, <1>9, <1>10 DEF Inv, Becomes,
     FilesFit, AddFits, ReplaceFits, DropFits, StagesFit, StagesOf, LocksFit, InLock,
     TypeOK
<1>15. RemovalsTouch'
  BY <1>1, <1>2, <1>3, <1>4, <1>5, <1>6, <1>7, <1>8, <1>9, <1>10 DEF Inv, Becomes,
     RemovalsTouch
<1>16. RowsHaveFiles'
  <2> SUFFICES ASSUME NEW c \in Book
               PROVE  rows'[c] # None /\ c \notin touched' /\ ~Swapped(c)'
                          => source'[c] = rows'[c] /\ cover'[c] = CoverOf(rows'[c])
    BY DEF RowsHaveFiles
  <2>1. CASE c = b
    BY <2>1, <1>1, <1>2, <1>3, <1>4, <1>5, <1>6, <1>7, <1>8, <1>9, <1>10 DEF Inv,
       Becomes, RowsHaveFiles, Swapped, Swapping, TypeOK, FilesFit, AddFits,
       ReplaceFits, DropFits
  <2>2. CASE c # b
    BY <2>2, <1>1, <1>2, <1>3, <1>4, <1>5, <1>6, <1>7, <1>8, <1>9, <1>10 DEF Inv,
       Becomes, RowsHaveFiles, Swapped, Swapping, TypeOK, LocksFit
  <2> QED BY <2>1, <2>2
<1>17. ShelvedOrRetired'
  <2> SUFFICES ASSUME NEW c \in Book
               PROVE  rows'[c] # None /\ retired'[c] # None => c \in touched' \/
                   Swapped(c)'
    BY DEF ShelvedOrRetired
  <2>1. CASE c = b
    BY <2>1, <1>1, <1>2, <1>3, <1>4, <1>5, <1>6, <1>7, <1>8, <1>9, <1>10 DEF Inv,
       Becomes, ShelvedOrRetired, Swapped, Swapping, TypeOK, LocksFit
  <2>2. CASE c # b
    BY <2>2, <1>1, <1>2, <1>3, <1>4, <1>5, <1>6, <1>7, <1>8, <1>9, <1>10 DEF Inv,
       Becomes, ShelvedOrRetired, Swapped, Swapping, TypeOK, LocksFit
  <2> QED BY <2>1, <2>2
<1>18. StagedInUse'
  <2> SUFFICES ASSUME NEW c \in Book
               PROVE  nextSource'[c] # None \/ nextCover'[c] # None
                          => \/ <<c, "replace">> \in cutOff'
                             \/ \E u \in Task : lock'[c] = u /\ task'[u].op = "replace"
    BY DEF StagedInUse
  <2>1. CASE c = b
    BY <2>1, <1>1, <1>2, <1>3, <1>4, <1>5, <1>6, <1>7, <1>8, <1>9, <1>10 DEF Inv,
       Becomes, StagedInUse, TypeOK, LocksFit
  <2>2. CASE c # b
    BY <2>2, <1>1, <1>2, <1>3, <1>4, <1>5, <1>6, <1>7, <1>8, <1>9, <1>10 DEF Inv,
       Becomes, StagedInUse, TypeOK, LocksFit
  <2> QED BY <2>1, <2>2
<1>19. StraysHeld'
  <2> SUFFICES ASSUME NEW c \in Book
               PROVE  rows'[c] = None /\ c \in Filed'
                          => \/ c \in touched' \/ <<c, "open">> \in cutOff'
                             \/ \E u \in Task :
                                  /\ lock'[c] = u
                                  /\ \/ task'[u].op = "open" /\ task'[u].at # "source"
                                     \/ task'[u].op = "replace" /\ task'[u].at \in
                                         {"moveCover", "row"}
    BY DEF StraysHeld
  <2>1. CASE c = b
    BY <2>1, <1>1, <1>2, <1>3, <1>4, <1>5, <1>6, <1>7, <1>8, <1>9, <1>10 DEF Inv,
       Becomes, StraysHeld, Filed, TypeOK, LocksFit
  <2>2. CASE c # b
    BY <2>2, <1>1, <1>2, <1>3, <1>4, <1>5, <1>6, <1>7, <1>8, <1>9, <1>10 DEF Inv,
       Becomes, StraysHeld, Filed, TypeOK, LocksFit
  <2> QED BY <2>1, <2>2
<1> QED BY <1>11, <1>12, <1>13, <1>14, <1>15, <1>16, <1>17, <1>18, <1>19 DEF Inv

(* A task is cut off that holds no lock. *)
LEMMA CutOffOutsideKeeps ==
  ASSUME Inv, NEW t \in Task, CutOff(t), ~InLock(t)
  PROVE  Inv'
<1>1. TypeOK
  BY DEF Inv
<1>2. Becomes(t, "none", "idle", None, None)
  BY <1>1, EndsAt DEF CutOff
<1>3. task[t].at \notin {"source", "cover", "stage", "stageCover", "moveCover", "row"}
  BY <1>1 DEF Inv, StagesFit, StagesOf, InLock, TypeOK, Ops
<1>4. UNCHANGED <<stored, lock, touched, used, starts>>
  <2>1. UNCHANGED <<stored, used, starts>>
    BY <1>3 DEF CutOff, TornBy, stored
  <2>2. UNCHANGED touched
    BY <1>3 DEF CutOff, Swapping
  <2>3. UNCHANGED lock
    BY <1>1 DEF CutOff, Releases, Inv, LocksFit, TypeOK
  <2> QED BY <2>1, <2>2, <2>3
<1>5. cutOff \subseteq cutOff' /\ cutOff' \subseteq Book \X Ops /\ faults' \in
    0..MaxFaults
  BY <1>1, BookFilesAssumption DEF CutOff, TypeOK
<1> QED BY <1>1, <1>2, <1>4, <1>5, QuietKeeps DEF StagesOf, TypeOK

(* The invariant holds at first. *)
LEMMA InitKeeps == Init => Inv
<1> SUFFICES ASSUME Init PROVE Inv
  OBVIOUS
<1>1. \A t \in Task : task[t].op = "none" /\ task[t].at = "idle"
  BY DEF Init, Idle
<1>2. None \notin Task \cup Book \cup File
  BY BookFilesAssumption
<1>3. TypeOK
  <2>1. Idle \in Tasks
    BY DEF Idle, Tasks, Ops, Stages
  <2> QED BY <2>1, BookFilesAssumption DEF Init, TypeOK, Stored, Tasks
<1>4. StagesFit /\ FilesFit /\ RemovalsTouch
  BY <1>1 DEF StagesFit, StagesOf, FilesFit, RemovalsTouch
<1>5. LocksFit
  BY <1>1, <1>2 DEF LocksFit, InLock, Init
<1>6. RowsHaveFiles /\ ShelvedOrRetired /\ StagedInUse /\ StraysHeld
  BY DEF RowsHaveFiles, ShelvedOrRetired, StagedInUse, StraysHeld, Filed, Init
<1> QED BY <1>3, <1>4, <1>5, <1>6 DEF Inv

(* Every step keeps it. *)
LEMMA NextKeeps == Inv /\ [Next]_vars => Inv'
<1> SUFFICES ASSUME Inv, [Next]_vars PROVE Inv'
  OBVIOUS
<1>1. CASE UNCHANGED vars
  BY <1>1 DEF vars, stored, history, Inv, TypeOK, StagesFit, LocksFit, InLock, FilesFit,
     AddFits, ReplaceFits, DropFits, RemovalsTouch, RowsHaveFiles, ShelvedOrRetired,
     Swapped, Swapping, StagedInUse, StraysHeld, Filed
<1>2. CASE \E t \in Task : Begin(t)
  BY <1>2, StartOpenKeeps, StartReplaceKeeps, StartRemoveKeeps, StartEraseKeeps,
     StartEditKeeps
     DEF Begin
<1>3. ASSUME NEW t \in Task, Lock(t) PROVE Inv'
  <2>1. task[t].op = "open" \/ task[t].op = "replace"
    BY <1>3 DEF Lock, Inv, StagesFit, StagesOf, TypeOK, Ops
  <2> QED BY <1>3, <2>1, LockSourceKeeps, LockStageKeeps
<1>4. ASSUME NEW t \in Task, GoOn(t) PROVE Inv'
  <2>1. CASE Identify(t) \/ Refuse(t) \/ PutSource(t) \/ PutCover(t)
    BY <2>1, IdentifyKeeps, RefuseKeeps, PutSourceKeeps, PutCoverKeeps
  <2>2. CASE Shelve(t)
    <3>1. task[t].op = "open" \/ task[t].op = "replace"
      BY <2>2 DEF Shelve, Inv, StagesFit, StagesOf, TypeOK, Ops
    <3> QED BY <2>2, <3>1, ShelveOpenKeeps, ShelveReplaceKeeps
  <2>3. CASE Stage(t) \/ StageCover(t) \/ Move(t) \/ MoveCover(t)
    BY <2>3, StageKeeps, StageCoverKeeps, MoveKeeps, MoveCoverKeeps
  <2>4. CASE ListRows(t) \/ ListFiles(t) \/ EndReclaim(t)
    BY <2>4, ListRowsKeeps, ListFilesKeeps, EndReclaimKeeps
  <2>5. CASE \E b \in Book : TryStray(t, b)
    BY <2>5, TakeKeeps, SkipKeeps
  <2>6. CASE DropSource(t)
    BY <2>6, DropSourceOpenKeeps, DropSourceReclaimKeeps DEF DropSource
  <2>7. CASE DropCover(t)
    BY <2>7, DropCoverOpenKeeps, DropCoverReclaimKeeps DEF DropCover
  <2>8. CASE RemoveSource(t) \/ RemoveCover(t) \/ Retire(t) \/ StoreEdit(t)
    BY <2>8, RemoveSourceKeeps, RemoveCoverKeeps, RetireKeeps, StoreEditKeeps
  <2> QED BY <1>4, <2>1, <2>2, <2>3, <2>4, <2>5, <2>6, <2>7, <2>8 DEF GoOn
<1>5. ASSUME NEW t \in Task, CutOff(t) PROVE Inv'
  <2>1. CASE InLock(t)
    BY <1>5, <2>1, CutOffOpenKeeps, CutOffReplaceKeeps, CutOffReclaimKeeps DEF InLock
  <2> QED BY <1>5, <2>1, CutOffOutsideKeeps
<1> QED BY <1>1, <1>2, <1>3, <1>4, <1>5, FailAddingKeeps, FailReplacingKeeps DEF Next
-------------------------------------------------------------------------------
(* Every operation stays within its stages and its data within their types. *)
THEOREM FilesTyped == Spec => []TypeOK
<1>1. Inv => TypeOK
  BY DEF Inv
<1> QED BY <1>1, InitKeeps, NextKeeps, PTL DEF Spec

(* Whatever operations go on at once in whatever tabs, and wherever they    *)
(* fail: a shelved book that no removal, overlapping edit or half failed    *)
(* replacement touched has the files its row names.  No reclaim takes them. *)
THEOREM ShelvedBooksHaveFiles == Spec => []RowsHaveFiles
<1>1. Inv => RowsHaveFiles
  BY DEF Inv
<1> QED BY <1>1, InitKeeps, NextKeeps, PTL DEF Spec

(* A book is not on the shelf and among the removed at once. *)
THEOREM OneRowABook == Spec => []ShelvedOrRetired
<1>1. Inv => ShelvedOrRetired
  BY DEF Inv
<1> QED BY <1>1, InitKeeps, NextKeeps, PTL DEF Spec

(* A staged file has a replacement that will move or discard it, unless the *)
(* tab was closed on one.                                                   *)
THEOREM StagedFilesOwned == Spec => []StagedInUse
<1>1. Inv => StagedInUse
  BY DEF Inv
<1> QED BY <1>1, InitKeeps, NextKeeps, PTL DEF Spec

(* A failed add leaves no file behind. *)
THEOREM NoStrayUnexplained == Spec => []StraysKnown
<1>1. Inv => StraysKnown
  BY DEF Inv, StraysHeld, StraysKnown
<1> QED BY <1>1, InitKeeps, NextKeeps, PTL DEF Spec
===============================================================================
